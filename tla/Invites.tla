------------------------------- MODULE Invites -------------------------------
(***************************************************************************)
(* Joining an organization: the invite of one address (organizations/      *)
(* views.py), the page its link opens (invite/page.tsx), the sign-up that  *)
(* accepts waiting invites by itself (accounts/signals.py), and the        *)
(* profile, where an account changes its address.                          *)
(*                                                                         *)
(* The views run in autocommit: an accept is three steps, with other       *)
(* requests or a crash between them.  A page is a browser, with a session  *)
(* of its own; it takes the user of the session when a link is opened.     *)
(***************************************************************************)
EXTENDS Naturals

CONSTANTS Pages, Accounts,
          Registered,   \* the accounts there are at the start, with addresses
                        \* that are not invited
          MaxInvites,   \* bound: invites and re-invites of the address
          MaxCrashes    \* bound: requests that die

ASSUME InvitesAssumption == /\ "none" \notin Accounts /\ Registered \subseteq Accounts
                            /\ MaxInvites \in Nat /\ MaxCrashes \in Nat

VARIABLES invite,       \* [token, status, expired]; the token 0 before the first
          exists,       \* the accounts
          holder,       \* the account with the invited address, or "none"
          members,      \* the accounts that joined
          page,         \* [Pages -> Page]
          req,          \* [Pages -> Request]: its accept, or its sign-up
          readdressed,  \* history: an account gave the invited address up
          crashes

ivars == <<invite, exists, holder, members, page, req, readdressed, crashes>>

Phases == {"signing", "dashboard",                       \* other pages
           "loading", "ready", "joining", "done", "invalid", "wrong", "error"}
Previews == {"none", "missing", "valid", "accepted", "expired"}
Page == [link : 0..MaxInvites, phase : Phases, account : Accounts \cup {"none"},
         mine : BOOLEAN,              \* the address of the user is the invited one
         preview : Previews]
Request == {"idle", "sent", "read", "joined", "ok", "refused", "wrong", "failed",
            "registered", "found", "signed"}

InvitesInit ==
  /\ invite = [token |-> 0, status |-> "pending", expired |-> FALSE]
  /\ exists = Registered /\ holder = "none" /\ members = {}
  /\ page = [p \in Pages |-> [link |-> 0, phase |-> "signing", account |-> "none",
                              mine |-> FALSE, preview |-> "none"]]
  /\ req = [p \in Pages |-> "idle"]
  /\ readdressed = FALSE /\ crashes = 0

inviteTables == <<invite, exists, holder, members, readdressed, crashes>>
Acceptable == invite.status = "pending" /\ ~invite.expired
Loading(p, link, u) ==
  [page EXCEPT ![p] = [link |-> link, phase |-> "loading", account |-> u,
                       mine |-> u # "none" /\ u = holder, preview |-> "none"]]

-----------------------------------------------------------------------------
(* Inviting, and inviting again, mint a fresh token; seven days pass.      *)
Invite ==
  /\ invite.token < MaxInvites
  /\ invite' = [token |-> invite.token + 1, status |-> "pending", expired |-> FALSE]
  /\ UNCHANGED <<exists, holder, members, page, req, readdressed, crashes>>
ExpireInvite ==
  /\ invite.token > 0 /\ ~invite.expired
  /\ invite' = [invite EXCEPT !.expired = TRUE]
  /\ UNCHANGED <<exists, holder, members, page, req, readdressed, crashes>>

(* A link that was mailed is opened, or the page reloaded.                 *)
Open(p, link) ==
  /\ req[p] = "idle" /\ link \in 1..invite.token
  /\ page' = Loading(p, link, page[p].account)
  /\ UNCHANGED <<inviteTables, req>>

InvitePreview(p) ==
  /\ page[p].phase = "loading" /\ page[p].preview = "none"
  /\ page' = [page EXCEPT ![p].preview =
       IF invite.token # page[p].link THEN "missing"
       ELSE IF invite.status = "accepted" THEN "accepted"
       ELSE IF Acceptable THEN "valid" ELSE "expired"]
  /\ UNCHANGED <<inviteTables, req>>

(* The effect that decides, once the preview and the user are known.       *)
Deciding(p) == page[p].phase = "loading" /\ page[p].preview # "none"
Moved(p, phase) == page' = [page EXCEPT ![p].phase = phase]
Joining(p) == Moved(p, "joining") /\ req' = [req EXCEPT ![p] = "sent"]

\* the state of the invite before the address of the user
VerdictStatusFirst(p) ==
  LET v == page[p] IN
  IF v.preview = "missing" THEN "invalid"
  ELSE IF v.account = "none" THEN (IF v.preview = "valid" THEN "ready" ELSE "invalid")
  ELSE IF v.preview = "accepted" THEN "done"
  ELSE IF ~v.mine THEN "wrong"
  ELSE IF v.preview = "expired" THEN "invalid" ELSE "joining"

(* Its early returns, in their order.                                      *)
Verdict(p) ==
  LET v == page[p] IN
  IF v.preview = "missing" THEN "invalid"
  ELSE IF v.account = "none" THEN (IF v.preview = "valid" THEN "ready" ELSE "invalid")
  ELSE IF ~v.mine THEN "wrong"
  ELSE IF v.preview = "accepted" THEN "done"
  ELSE IF v.preview = "expired" THEN "invalid" ELSE "joining"

Decide(p) ==
  /\ Deciding(p)
  /\ IF Verdict(p) = "joining" THEN Joining(p) ELSE Moved(p, Verdict(p)) /\ UNCHANGED req
  /\ UNCHANGED inviteTables

-----------------------------------------------------------------------------
(* InviteAcceptView: the checks, the membership, the status of the row     *)
(* that was read, whatever has become of it.                               *)
\* the status is saved with the checks
AcceptReadMarking(p) ==
  /\ req[p] = "sent"
  /\ LET refusal == IF invite.token # page[p].link \/ ~Acceptable THEN "refused"
                    ELSE IF page[p].account # holder THEN "wrong" ELSE "read"
     IN  /\ req' = [req EXCEPT ![p] = refusal]
         /\ invite' = IF refusal = "read" THEN [invite EXCEPT !.status = "accepted"]
                      ELSE invite
  /\ UNCHANGED <<exists, holder, members, page, readdressed, crashes>>
AcceptRead(p) ==
  /\ req[p] = "sent"
  /\ req' = [req EXCEPT ![p] =
       IF invite.token # page[p].link \/ ~Acceptable THEN "refused"
       ELSE IF page[p].account # holder THEN "wrong" ELSE "read"]
  /\ UNCHANGED <<inviteTables, page>>
AcceptJoin(p) ==
  /\ req[p] = "read"
  /\ members' = members \cup {page[p].account}
  /\ req' = [req EXCEPT ![p] = "joined"]
  /\ UNCHANGED <<invite, exists, holder, page, readdressed, crashes>>
AcceptSave(p) ==
  /\ req[p] = "joined"
  /\ invite' = [invite EXCEPT !.status = "accepted"]
  /\ req' = [req EXCEPT ![p] = "ok"]
  /\ UNCHANGED <<exists, holder, members, page, readdressed, crashes>>

Answered(p) ==
  /\ page[p].phase = "joining"
  /\ \/ req[p] = "ok" /\ Moved(p, "done")
     \/ req[p] = "wrong" /\ Moved(p, "wrong")
     \/ req[p] \in {"refused", "failed"} /\ Moved(p, "error")
  /\ req' = [req EXCEPT ![p] = "idle"]
  /\ UNCHANGED inviteTables

(* A request dies on the server, or its answer is lost; a preview that     *)
(* fails makes the link invalid.                                           *)
Crash(p) ==
  /\ crashes < MaxCrashes
  /\ crashes' = crashes + 1
  /\ \/ /\ req[p] \notin {"idle", "refused", "wrong", "failed"}
        /\ req' = [req EXCEPT ![p] = "failed"] /\ UNCHANGED page
     \/ page[p].phase = "loading" /\ Moved(p, "invalid") /\ UNCHANGED req
  /\ UNCHANGED <<invite, exists, holder, members, readdressed>>

-----------------------------------------------------------------------------
(* The sign-in form, reached from a valid link or by itself; signing out   *)
(* of the wrong account decides again, by the preview there is.            *)
goSignIn(p) ==
  /\ page[p].phase = "ready"
  /\ Moved(p, "signing")
  /\ UNCHANGED <<inviteTables, req>>
signOut(p) ==
  /\ page[p].phase = "wrong"
  /\ page' = [page EXCEPT ![p].account = "none", ![p].mine = FALSE,
              ![p].phase = IF page[p].preview = "valid" THEN "ready" ELSE "invalid"]
  /\ UNCHANGED <<inviteTables, req>>

(* nextUrl: back to the link, or the dashboard.                            *)
SignedIn(p, u) ==
  IF page[p].link = 0
  THEN page' = [page EXCEPT ![p].phase = "dashboard", ![p].account = u]
  ELSE page' = Loading(p, page[p].link, u)
SignIn(p, u) ==
  /\ page[p].phase = "signing" /\ req[p] = "idle" /\ u \in exists
  /\ SignedIn(p, u)
  /\ UNCHANGED <<inviteTables, req>>

(* Signing up with the invited address creates the account; only then are  *)
(* the pending invites read, and accepted in one transaction.              *)
SignUp(p, u) ==
  /\ page[p].phase = "signing" /\ req[p] = "idle"
  /\ u \notin exists /\ holder = "none"
  /\ exists' = exists \cup {u} /\ holder' = u
  /\ page' = [page EXCEPT ![p].account = u]
  /\ req' = [req EXCEPT ![p] = "registered"]
  /\ UNCHANGED <<invite, members, readdressed, crashes>>
FindPending(p) ==
  /\ req[p] = "registered"
  /\ req' = [req EXCEPT ![p] = IF invite.token > 0 /\ Acceptable THEN "found"
                               ELSE "signed"]
  /\ UNCHANGED <<inviteTables, page>>
accept_pending_invites(p) ==
  /\ req[p] = "found"
  /\ members' = members \cup {page[p].account}
  /\ invite' = [invite EXCEPT !.status = "accepted"]
  /\ req' = [req EXCEPT ![p] = "signed"]
  /\ UNCHANGED <<exists, holder, page, readdressed, crashes>>
SignUpAnswered(p) ==
  /\ page[p].phase = "signing" /\ req[p] \in {"signed", "failed"}
  /\ req' = [req EXCEPT ![p] = "idle"]
  /\ IF req[p] = "signed" THEN SignedIn(p, page[p].account)
     ELSE page' = [page EXCEPT ![p].account = "none"]
  /\ UNCHANGED inviteTables

(* After joining the page forwards to the dashboard.  The profile gives an *)
(* account another address, if no account has it.                          *)
Forward(p) ==
  /\ page[p].phase = "done"
  /\ Moved(p, "dashboard")
  /\ UNCHANGED <<inviteTables, req>>
PersonalInfoCard(p) ==
  LET u == page[p].account IN
  /\ page[p].phase = "dashboard"
  /\ \/ holder = u /\ holder' = "none" /\ readdressed' = TRUE
     \/ holder = "none" /\ holder' = u /\ UNCHANGED readdressed
  /\ UNCHANGED <<invite, exists, members, page, req, crashes>>

InvitesNext ==
  \/ Invite \/ ExpireInvite
  \/ \E p \in Pages :
       \/ \E k \in 1..MaxInvites : Open(p, k)
       \/ InvitePreview(p) \/ Decide(p) \/ goSignIn(p) \/ signOut(p)
       \/ AcceptRead(p) \/ AcceptJoin(p) \/ AcceptSave(p) \/ Answered(p) \/ Crash(p)
       \/ \E u \in Accounts : SignIn(p, u) \/ SignUp(p, u)
       \/ FindPending(p) \/ accept_pending_invites(p) \/ SignUpAnswered(p)
       \/ Forward(p) \/ PersonalInfoCard(p)

InvitesSpec == InvitesInit /\ [][InvitesNext]_ivars

-----------------------------------------------------------------------------
InvitesTypeOK ==
  /\ invite \in [token : 0..MaxInvites, status : {"pending", "accepted"},
                 expired : BOOLEAN]
  /\ exists \subseteq Accounts /\ members \subseteq exists
  /\ holder \in exists \cup {"none"}
  /\ page \in [Pages -> Page] /\ req \in [Pages -> Request]
  /\ readdressed \in BOOLEAN /\ crashes \in 0..MaxCrashes

(* "Auto-joined at signup, or a repeat visit - already a member"           *)
(* (invite/page.tsx): a page that says its user joined says so to a        *)
(* member, whatever account it is signed in with and however old the link. *)
(* It is not so once an account gave the invited address up: the next one  *)
(* with that address is told it joined by the invite of the first.         *)
DoneMeansMember ==
  ~readdressed => \A p \in Pages :
    page[p].phase = "done" => page[p].account \in members

(* An invite is used up by nothing but a membership: whatever request dies *)
(* between two steps, and however inviting again overlaps with accepting   *)
(* or signing up, who is not a member has an invite that works or expired. *)
NotLeftOut ==
  invite.status = "accepted" =>
    IF readdressed THEN members # {} ELSE holder \in members
=============================================================================

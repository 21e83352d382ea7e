------------------------------- MODULE Session -------------------------------
(***************************************************************************)
(* Who is signed in, in the browser: the token pair in localStorage that   *)
(* the tabs share (token-store.ts), the user each tab shows (AuthProvider),*)
(* the requests of the API client with their refresh after a 401 (request  *)
(* and doRefresh in api.ts), against the token versions of the server.     *)
(*                                                                         *)
(* A pair is [sub, ver, fresh]: its account, the token version it was      *)
(* issued under, and whether its access token is still in time.  Refresh   *)
(* tokens outlive the behaviours considered.  JavaScript runs to its next  *)
(* await: an answer is handled, with all that resumes on it, in one step.  *)
(***************************************************************************)
EXTENDS Naturals, FiniteSets

CONSTANTS Users, Tabs,
          SessionActs,  \* bound: things the user starts
          MaxExpiries,  \* bound: access tokens running out
          MaxLost       \* bound: requests lost, or refused for want of service

ASSUME SessionAssumption ==
  /\ Users # {} /\ Tabs # {}
  /\ "none" \notin Users /\ "loading" \notin Users
  /\ SessionActs \in Nat /\ MaxExpiries \in Nat /\ MaxLost \in Nat

VARIABLES version,   \* [Users -> Nat]: token_version, on the server
          store,     \* the pair in localStorage
          shown,     \* [Tabs -> user, "none" or "loading"]
          calls,     \* [Tabs -> [Kinds -> Call]]
          refresh,   \* [Tabs -> Refresh]: refreshPromise, one per tab
          crossed,   \* history: "in" or "out", when a tab signed in or out with
                     \* requests of another session, or refreshes, under way
          ended,     \* history: why a session may be over: "left", somebody ended
                     \* it; "unserved", a request it hangs on was lost, or refused
                     \* for another reason than its tokens
          spent      \* history: what was used of each bound

sessionVars == <<version, store, shown, calls, refresh, crossed, ended, spent>>

(* me: loadMe.  access: the sign-in form.  work: any call of the dashboard. *)
Kinds   == {"me", "access", "logout", "password", "work"}
Pairs   == [sub : Users \cup {"none"}, ver : Nat, fresh : BOOLEAN]
NoPair  == [sub |-> "none", ver |-> 0, fresh |-> FALSE]
issue_token_pair(u, ver) == [sub |-> u, ver |-> ver, fresh |-> TRUE]

(* A request: the pair it was sent with, or brings back; the user who      *)
(* started it; how often it was sent.                                      *)
Phases  == {"idle", "sent", "ok", "denied", "waiting"}
Call    == [phase : Phases, pair : Pairs, by : Users \cup {"none"}, sends : 0..2]
Refresh == [phase : {"idle", "sent", "ok", "denied"}, pair : Pairs]
NoCall    == [phase |-> "idle", pair |-> NoPair, by |-> "none", sends |-> 0]
NoRefresh == [phase |-> "idle", pair |-> NoPair]

Quiet(t)  == /\ refresh[t].phase = "idle"
             /\ \A k \in Kinds : calls[t][k].phase = "idle"
Alone(t, k) == /\ \A s \in Tabs \ {t} : Quiet(s)
               /\ refresh[t].phase = "idle"
               /\ \A j \in Kinds \ {k} : calls[t][j].phase = "idle"
AllQuiet  == \A t \in Tabs : Quiet(t)

SessionInit ==
  /\ version = [u \in Users |-> 0]
  /\ store = NoPair
  /\ shown = [t \in Tabs |-> "none"]
  /\ calls = [t \in Tabs |-> [k \in Kinds |-> NoCall]]
  /\ refresh = [t \in Tabs |-> NoRefresh]
  /\ crossed = {} /\ ended = {}
  /\ spent = [acts |-> 0, expiries |-> 0, lost |-> 0]

Acting == /\ spent.acts < SessionActs
          /\ spent' = [spent EXCEPT !.acts = @ + 1]

Crossing(way, when) == crossed' = IF when THEN crossed \cup {way} ELSE crossed
Reasons == {"left", "unserved"}
Ending(why, when)   == ended' = IF when THEN ended \cup {why} ELSE ended

(* request: sent with the pair that is stored now, if any.                 *)
request(by, pair) == [phase |-> "sent", pair |-> pair, by |-> by, sends |-> 1]
Resent(c, pair)   == [c EXCEPT !.phase = "sent", !.pair = pair, !.sends = @ + 1]

-----------------------------------------------------------------------------
(* The user signs in: AuthForm submits a password or a code.               *)
SignIn(t, u) ==
  /\ Acting
  /\ shown[t] = "none" /\ calls[t]["access"].phase = "idle"
  /\ calls' = [calls EXCEPT ![t]["access"] = request(u, NoPair)]
  /\ UNCHANGED <<version, store, shown, refresh, crossed, ended>>

(* A password was changed and its new pair is on the way: what the old one *)
(* is used for meanwhile is refused, and may end the session.              *)
Changing == \E t \in Tabs : calls[t]["password"].phase = "ok"

(* The dashboard calls the API, or its profile page changes the password   *)
(* (bound: not while a loadMe of that is under way).                       *)
Start(t, k) ==
  /\ Acting
  /\ k \in {"work", "password"}
  /\ shown[t] \in Users /\ calls[t][k].phase = "idle"
  /\ k = "password" => calls[t]["me"].phase = "idle"
  /\ calls' = [calls EXCEPT ![t][k] = request(shown[t], store)]
  /\ Ending("left", Changing)
  /\ UNCHANGED <<version, store, shown, refresh, crossed>>

(* signOut does not wait for the server.                                   *)
signOutServerOnly(t) ==
  /\ Acting
  /\ shown[t] \in Users /\ calls[t]["logout"].phase = "idle"
  /\ calls' = [calls EXCEPT ![t]["logout"] = request(shown[t], store)]
  /\ shown' = [shown EXCEPT ![t] = "none"]
  /\ Crossing("out", ~AllQuiet)
  /\ Ending("left", TRUE)
  /\ UNCHANGED <<version, store, refresh>>

signOut(t) ==
  /\ Acting
  /\ shown[t] \in Users /\ calls[t]["logout"].phase = "idle"
  /\ calls' = [calls EXCEPT ![t]["logout"] = request(shown[t], store)]
  /\ store' = NoPair
  /\ shown' = [shown EXCEPT ![t] = "none"]
  /\ Crossing("out", ~AllQuiet)
  /\ Ending("left", TRUE)
  /\ UNCHANGED <<version, refresh>>

(* The page is loaded (again): what it awaited is gone; loadMe asks who is *)
(* signed in if a pair is stored.                                          *)
Reload(t) ==
  /\ Acting
  /\ refresh' = [refresh EXCEPT ![t] = NoRefresh]
  /\ IF store = NoPair
     THEN /\ shown' = [shown EXCEPT ![t] = "none"]
          /\ calls' = [calls EXCEPT ![t] = [k \in Kinds |-> NoCall]]
     ELSE /\ shown' = [shown EXCEPT ![t] = "loading"]
          /\ calls' = [calls EXCEPT ![t] = [k \in Kinds |->
               IF k = "me" THEN request("none", store) ELSE NoCall]]
  /\ Ending("left", Changing)
  /\ UNCHANGED <<version, store, crossed>>

(* Another device of the account signs out or changes the password.        *)
Revoke(u) ==
  /\ Acting
  /\ version' = [version EXCEPT ![u] = @ + 1]
  /\ Ending("left", TRUE)
  /\ UNCHANGED <<store, shown, calls, refresh, crossed>>

(* The access token, wherever it was copied to, runs out; not while a call *)
(* repeated with a token just refreshed is under way.                      *)
Aged(pair) == [pair EXCEPT !.fresh = FALSE]
Expire ==
  /\ spent.expiries < MaxExpiries /\ store.fresh
  /\ \A t \in Tabs, k \in Kinds : calls[t][k].sends < 2
  /\ spent' = [spent EXCEPT !.expiries = @ + 1]
  /\ store' = Aged(store)
  /\ calls' = [t \in Tabs |-> [k \in Kinds |->
       IF calls[t][k].phase = "sent" THEN [calls[t][k] EXCEPT !.pair = Aged(@)]
       ELSE calls[t][k]]]
  /\ UNCHANGED <<version, shown, refresh, crossed, ended>>

-----------------------------------------------------------------------------
(* The server.  JWTAuthentication accepts an access token in time and of   *)
(* the current version; logging out and changing the password bump that;   *)
(* the latter, like signing in, answers with a pair.                       *)
Accepted(pair) == pair.sub \in Users /\ pair.fresh /\ pair.ver = version[pair.sub]
Bumps(k) == k \in {"logout", "password"}
PairBefore(u)  == issue_token_pair(u, version[u])
ChangedPair(u) == issue_token_pair(u, version[u] + 1)

Answer(c, phase, pair) == [c EXCEPT !.phase = phase, !.pair = pair]

ServeAccess(t) ==
  LET c == calls[t]["access"] IN
  /\ c.phase = "sent"
  /\ \E answer \in {Answer(c, "ok", issue_token_pair(c.by, version[c.by])),
                    Answer(c, "denied", NoPair)} :
       calls' = [calls EXCEPT ![t]["access"] = answer]
  /\ UNCHANGED <<version, store, shown, refresh, crossed, ended, spent>>

Serve(t, k) ==
  LET c == calls[t][k]  u == c.pair.sub IN
  /\ k # "access" /\ c.phase = "sent"
  /\ IF Accepted(c.pair)
     THEN /\ version' = IF Bumps(k) THEN [version EXCEPT ![u] = @ + 1] ELSE version
          /\ calls' = [calls EXCEPT ![t][k] =
               Answer(c, "ok", IF k = "password" THEN ChangedPair(u) ELSE c.pair)]
          /\ Ending("left", k = "logout" \/ (k = "password" /\ ~Alone(t, k)))
     ELSE calls' = [calls EXCEPT ![t][k] = Answer(c, "denied", c.pair)] /\ UNCHANGED <<version, ended>>
  /\ UNCHANGED <<store, shown, refresh, crossed, spent>>

(* RefreshView checks the version only; but, like signing in, it serves an *)
(* address ten times a minute, and refuses whoever comes then, as a server *)
(* that fails does.                                                        *)
Losing == spent.lost < MaxLost /\ spent' = [spent EXCEPT !.lost = @ + 1]
Refused == [phase |-> "denied", pair |-> NoPair]
ServeRefresh(t) ==
  LET p == refresh[t].pair IN
  /\ refresh[t].phase = "sent"
  /\ \/ /\ refresh' = [refresh EXCEPT ![t] =
            IF p.ver = version[p.sub]
            THEN [phase |-> "ok", pair |-> issue_token_pair(p.sub, p.ver)] ELSE Refused]
        /\ UNCHANGED <<ended, spent>>
     \/ /\ Losing
        /\ refresh' = [refresh EXCEPT ![t] = Refused]
        /\ Ending("unserved", TRUE)
  /\ UNCHANGED <<version, store, shown, calls, crossed>>

-----------------------------------------------------------------------------
(* A call fails for good: loadMe signs the tab out on any error.           *)
Failing(t, ks) ==
  IF "me" \in ks
  THEN /\ shown' = [shown EXCEPT ![t] = "none"]
       /\ Crossing("out", \/ \E s \in Tabs \ {t} : ~Quiet(s)
                          \/ \E k \in Kinds \ ks : calls[t][k].phase # "idle"
                          \/ refresh[t].phase # "idle" /\ ks = {"me"}
                             /\ calls[t]["me"].phase # "waiting")
  ELSE UNCHANGED <<shown, crossed>>

(* Others' requests are under way, or another account is shown elsewhere.  *)
Overlapped(t, u) == \/ ~Alone(t, "access")
                    \/ \E s \in Tabs \ {t} : shown[s] \notin {"none", u}

(* The answer of a sign-in: setSession.                                    *)
ReceiveAccessKept(t) ==
  LET c == calls[t]["access"] IN
  /\ c.phase \in {"ok", "denied"}
  /\ calls' = [calls EXCEPT ![t]["access"] = NoCall]
  /\ IF c.phase = "ok"
     THEN /\ store' = IF store = NoPair THEN c.pair ELSE store
          /\ shown' = [shown EXCEPT ![t] = c.pair.sub]
          /\ Crossing("in", Overlapped(t, c.pair.sub))
     ELSE UNCHANGED <<store, shown, crossed>>
  /\ UNCHANGED <<version, refresh, ended, spent>>

ReceiveAccess(t) ==
  LET c == calls[t]["access"] IN
  /\ c.phase \in {"ok", "denied"}
  /\ calls' = [calls EXCEPT ![t]["access"] = NoCall]
  /\ IF c.phase = "ok"
     THEN /\ store' = c.pair
          /\ shown' = [shown EXCEPT ![t] = c.pair.sub]
          /\ Crossing("in", Overlapped(t, c.pair.sub))
     ELSE UNCHANGED <<store, shown, crossed>>
  /\ UNCHANGED <<version, refresh, ended, spent>>

(* The answer of any other call: the user of loadMe, or the new pair of a  *)
(* changed password, which setTokens stores before it loads the user again.*)
Receive(t, k) ==
  LET c == calls[t][k] IN
  /\ k # "access" /\ c.phase = "ok"
  /\ CASE k = "me" ->
            /\ shown' = [shown EXCEPT ![t] = c.pair.sub]
            /\ calls' = [calls EXCEPT ![t][k] = NoCall]
            /\ UNCHANGED store
       [] k = "password" ->
            /\ store' = c.pair
            /\ calls' = [calls EXCEPT ![t][k] = NoCall,
                         ![t]["me"] = request("none", c.pair)]
            /\ UNCHANGED shown
       [] OTHER ->
            calls' = [calls EXCEPT ![t][k] = NoCall] /\ UNCHANGED <<store, shown>>
  /\ UNCHANGED <<version, refresh, crossed, ended, spent>>

(* A 401.  The first one of a call is followed by a refresh, shared by the *)
(* calls of the tab; nothing stored, nothing to refresh.  The second is an *)
(* error like any other, and leaves the pair.                              *)
Unauthorized(t, k) ==
  LET c == calls[t][k] IN
  /\ k # "access" /\ c.phase = "denied"
  /\ IF c.sends = 1 /\ store # NoPair
     THEN /\ calls' = [calls EXCEPT ![t][k] = Answer(c, "waiting", c.pair)]
          /\ refresh' = IF refresh[t].phase = "idle"
                        THEN [refresh EXCEPT ![t] = [phase |-> "sent", pair |-> store]]
                        ELSE refresh
          /\ UNCHANGED <<store, shown, crossed>>
     ELSE /\ calls' = [calls EXCEPT ![t][k] = NoCall]
          /\ store' = IF k = "me" THEN NoPair ELSE store
          /\ Failing(t, {k})
          /\ UNCHANGED refresh
  /\ UNCHANGED <<version, ended, spent>>

(* doRefresh ends: the new pair is stored and every waiting call sent once *)
(* more; or the pair is cleared and every waiting call fails.              *)
Waiting(t) == {k \in Kinds : calls[t][k].phase = "waiting"}
Refreshed(t) ==
  /\ refresh[t].phase = "ok"
  /\ store' = refresh[t].pair
  /\ calls' = [calls EXCEPT ![t] = [k \in Kinds |->
       IF k \in Waiting(t) THEN Resent(calls[t][k], refresh[t].pair) ELSE calls[t][k]]]
  /\ refresh' = [refresh EXCEPT ![t] = NoRefresh]
  /\ UNCHANGED <<version, shown, crossed, ended, spent>>

UnrefreshedSilent(t) ==
  /\ store' = NoPair
  /\ refresh' = [refresh EXCEPT ![t] = NoRefresh]
  /\ UNCHANGED <<version, shown, calls, crossed>>
Unrefreshed(t) ==
  /\ store' = NoPair
  /\ calls' = [calls EXCEPT ![t] = [k \in Kinds |->
       IF k \in Waiting(t) THEN NoCall ELSE calls[t][k]]]
  /\ refresh' = [refresh EXCEPT ![t] = NoRefresh]
  /\ Failing(t, Waiting(t))
  /\ UNCHANGED version
RefreshDenied(t) == /\ refresh[t].phase = "denied" /\ Unrefreshed(t)
                    /\ UNCHANGED <<ended, spent>>

(* The network fails: a request, or its answer, is lost; or the answer is  *)
(* another error than a 401, which the tab treats alike.                   *)
LoseRefresh(t) == /\ Losing /\ refresh[t].phase # "idle" /\ Unrefreshed(t)
                  /\ Ending("unserved", TRUE)
Lose(t, k) ==
  /\ Losing /\ calls[t][k].phase \in {"sent", "ok", "denied"}
  /\ calls' = [calls EXCEPT ![t][k] = NoCall]
  /\ store' = IF k = "me" THEN NoPair ELSE store
  /\ Failing(t, {k})
  /\ Ending("unserved", k \in {"me", "password"})
  /\ UNCHANGED <<version, refresh>>

Browser(t) ==
  \/ ReceiveAccess(t) \/ Refreshed(t) \/ RefreshDenied(t)
  \/ \E k \in Kinds : Receive(t, k) \/ Unauthorized(t, k)
Server(t) == ServeAccess(t) \/ ServeRefresh(t) \/ \E k \in Kinds : Serve(t, k)

SessionNext ==
  \/ \E t \in Tabs : \/ Browser(t) \/ Server(t) \/ signOut(t) \/ Reload(t)
                     \/ LoseRefresh(t) \/ \E u \in Users : SignIn(t, u)
                     \/ \E k \in Kinds : Start(t, k) \/ Lose(t, k)
  \/ \E u \in Users : Revoke(u)
  \/ Expire

(* Answers are handled, and requests answered: the network loses MaxLost.  *)
Fairness == \A t \in Tabs : WF_sessionVars(Browser(t) \/ Server(t))
SessionSpec == SessionInit /\ [][SessionNext]_sessionVars /\ Fairness

-----------------------------------------------------------------------------
SessionTypeOK ==
  /\ version \in [Users -> Nat] /\ store \in Pairs
  /\ shown \in [Tabs -> Users \cup {"none", "loading"}]
  /\ calls \in [Tabs -> [Kinds -> Call]] /\ refresh \in [Tabs -> Refresh]
  /\ crossed \subseteq {"in", "out"} /\ ended \subseteq Reasons

(* Unless somebody signed in with requests of another session under way,   *)
(* what a tab does is done as the user it shows: the stored pair is that   *)
(* user's, and so is the pair of every request, of a repeated one too.     *)
(* A pair that a refresh stored again after a sign-out is no exception.    *)
AccountMatches ==
  "in" \notin crossed => \A t \in Tabs :
    /\ shown[t] \in Users /\ store # NoPair => store.sub = shown[t]
    /\ \A k \in Kinds : LET c == calls[t][k] IN
         c.phase # "idle" /\ c.by # "none" /\ c.pair # NoPair => c.pair.sub = c.by

(* A session lasts that nobody ended and whose refreshes, loads of the     *)
(* profile and changes of the password were all served: through any number *)
(* of expired access tokens, refreshes shared by calls and repeated by     *)
(* tabs, reloads and a changed password, a tab that shows a user keeps a   *)
(* pair.  One refresh that is throttled, fails or is lost is not a session *)
(* ended, but it is lost all the same: doRefresh clears the pair on any    *)
(* answer that is not OK.                                                  *)
SessionKept ==
  ended = {} => \A t \in Tabs : shown[t] \in Users => store # NoPair

(* When everybody is signed out and nothing is under way, nothing is left  *)
(* of a session: "then clear locally regardless" (AuthProvider.tsx).       *)
SignedOut == AllQuiet /\ \A t \in Tabs : shown[t] = "none"
SignOutClears == SignedOut => store = NoPair
QuietSignOutClears == crossed = {} => SignOutClears

(* Every call is settled and every refresh ends: no call is left waiting   *)
(* for a promise that is gone.                                             *)
CallsSettle == \A t \in Tabs : []<>Quiet(t)
=============================================================================

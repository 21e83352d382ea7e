------------------------------ MODULE TwoFactor ------------------------------
(***************************************************************************)
(* Two-factor sign-in of one account: the TotpCard of its profile, open in *)
(* several tabs, against the TOTP views (accounts/views.py).  A view       *)
(* changes the user that was read when the request was authenticated, and  *)
(* saves the fields it names: other requests may come in between.  Saving  *)
(* the name or the address, in the card beside it, names no field: every   *)
(* column is written back as it was read.  Bound: a tab has one request of *)
(* its cards under way.                                                    *)
(*                                                                         *)
(* A secret is a number; the codes of one are told from those of another   *)
(* (the time window of a code is left out).  The user may enter a code of  *)
(* any secret there is.                                                    *)
(***************************************************************************)
EXTENDS Naturals

CONSTANTS Tabs,
          MaxSecrets    \* bound: enrollments begun

VARIABLES account,    \* [secret, enabled] on the server; 0 is the empty secret
          minted,     \* how many secrets were generated
          card,       \* [Tabs -> Card]
          call,       \* [Tabs -> Call]: the request of its buttons
          load,       \* [Tabs -> Loads]: loadMe, after a change
          verified,   \* history: the secret of the code that enabled it last
          overtaken   \* history: the secret changed under a request that enabled
                      \* it, or the user under one that saved the profile

tvars == <<account, minted, card, call, load, verified, overtaken>>

User == [secret : 0..MaxSecrets, enabled : BOOLEAN]
Card == [enabled : BOOLEAN,          \* of the user the tab shows
         setup : 0..MaxSecrets]      \* the secret on display
Call == [kind : {"none", "setup", "enable", "disable", "profile"},
         phase : {"sent", "read", "ok", "denied"},
         code : 0..MaxSecrets,       \* the secret whose code is sent, 0 for none
         password : BOOLEAN,         \* the password, and the right one
         user : User]                \* as it was read, or answered
Loads == [phase : {"idle", "sent", "read"}, enabled : BOOLEAN]
Off    == [secret |-> 0, enabled |-> FALSE]
NoCall == [kind |-> "none", phase |-> "sent", code |-> 0, password |-> FALSE,
           user |-> Off]
NoLoad == [phase |-> "idle", enabled |-> FALSE]
loadMe(t) == [load EXCEPT ![t].phase = "sent"]

TwoFactorInit ==
  /\ account = Off /\ minted = 0
  /\ card = [t \in Tabs |-> [enabled |-> FALSE, setup |-> 0]]
  /\ call = [t \in Tabs |-> NoCall] /\ load = [t \in Tabs |-> NoLoad]
  /\ verified = 0 /\ overtaken = FALSE

Asks(t, kind, code, password) ==
  /\ call[t].kind = "none"
  /\ call' = [call EXCEPT ![t] = [NoCall EXCEPT !.kind = kind, !.code = code,
                                  !.password = password]]
  /\ UNCHANGED <<account, minted, card, load, verified, overtaken>>

(* What the card offers: to begin; the secret, with a field for a code; or *)
(* the form that turns it off, where digits are sent as a code, the rest   *)
(* as a password.  A change is pending until the user was loaded again:    *)
(* meanwhile the card offers to begin once more.                           *)
begin(t) ==
  /\ ~card[t].enabled /\ card[t].setup = 0 /\ minted < MaxSecrets
  /\ Asks(t, "setup", 0, FALSE)
enable(t, code) ==
  /\ ~card[t].enabled /\ card[t].setup # 0 /\ load[t].phase = "idle"
  /\ Asks(t, "enable", code, FALSE)
disable(t) ==
  /\ card[t].enabled /\ load[t].phase = "idle"
  /\ \/ \E code \in 0..minted : Asks(t, "disable", code, FALSE)
     \/ Asks(t, "disable", 0, TRUE)
save(t) == load[t].phase = "idle" /\ Asks(t, "profile", 0, FALSE)

(* The profile is loaded, or loaded again (bound: with nothing under way): *)
(* the secret on display is lost.  Nothing is offered until it is loaded.  *)
Load(t) ==
  /\ call[t].kind = "none" /\ load[t].phase = "idle"
  /\ card' = [card EXCEPT ![t] = [enabled |-> account.enabled, setup |-> 0]]
  /\ UNCHANGED <<account, minted, call, load, verified, overtaken>>

-----------------------------------------------------------------------------
(* The server: the user is read; the view answers, or saves.               *)
Read(t) ==
  /\ call[t].kind # "none" /\ call[t].phase = "sent"
  /\ call' = [call EXCEPT ![t].phase = "read", ![t].user = account]
  /\ UNCHANGED <<account, minted, card, load, verified, overtaken>>
MeView(t) ==
  /\ load[t].phase = "sent"
  /\ load' = [load EXCEPT ![t] = [phase |-> "read", enabled |-> account.enabled]]
  /\ UNCHANGED <<account, minted, card, call, verified, overtaken>>

Serving(t, kind) == call[t].kind = kind /\ call[t].phase = "read"
verify(secret, code) == secret # 0 /\ code = secret
Saves(t, user) ==
  /\ account' = user
  /\ call' = [call EXCEPT ![t].phase = "ok", ![t].user = user]
Denies(t) == call' = [call EXCEPT ![t].phase = "denied"] /\ UNCHANGED account

\* a new secret under the old flag
TOTPSetupViewKeeping(t) ==
  /\ Serving(t, "setup") /\ minted < MaxSecrets
  /\ minted' = minted + 1
  /\ Saves(t, [account EXCEPT !.secret = minted + 1])
  /\ UNCHANGED <<card, load, verified, overtaken>>
TOTPSetupView(t) ==
  /\ Serving(t, "setup") /\ minted < MaxSecrets
  /\ minted' = minted + 1
  /\ Saves(t, [secret |-> minted + 1, enabled |-> FALSE])
  /\ UNCHANGED <<card, load, verified, overtaken>>
TOTPEnableView(t) ==
  LET c == call[t] IN
  /\ Serving(t, "enable")
  /\ IF verify(c.user.secret, c.code)
     THEN /\ Saves(t, [account EXCEPT !.enabled = TRUE]) /\ verified' = c.code
          /\ overtaken' = (overtaken \/ account.secret # c.user.secret)
     ELSE Denies(t) /\ UNCHANGED <<verified, overtaken>>
  /\ UNCHANGED <<minted, card, load>>
TOTPDisableView(t) ==
  LET c == call[t] IN
  /\ Serving(t, "disable")
  /\ IF c.user.enabled /\ ~verify(c.user.secret, c.code) /\ ~c.password
     THEN Denies(t) ELSE Saves(t, Off)
  /\ UNCHANGED <<minted, card, load, verified, overtaken>>
SaveProfile(t) ==
  /\ Serving(t, "profile")
  /\ Saves(t, call[t].user)
  /\ overtaken' = (overtaken \/ account # call[t].user)
  /\ UNCHANGED <<minted, card, load, verified>>

(* The answer: the secret is shown; a change has the user loaded again.    *)
Answer(t) ==
  LET c == call[t] IN
  /\ c.phase \in {"ok", "denied"}
  /\ card' = CASE c.phase = "ok" /\ c.kind = "setup" ->
                   [card EXCEPT ![t].setup = c.user.secret]
              [] c.phase = "ok" /\ c.kind = "enable" -> [card EXCEPT ![t].setup = 0]
              [] OTHER -> card
  /\ load' = IF c.phase = "ok" /\ c.kind # "setup" THEN loadMe(t) ELSE load
  /\ call' = [call EXCEPT ![t] = NoCall]
  /\ UNCHANGED <<account, minted, verified, overtaken>>
Loaded(t) ==
  /\ load[t].phase = "read"
  /\ card' = [card EXCEPT ![t].enabled = load[t].enabled]
  /\ load' = [load EXCEPT ![t] = NoLoad]
  /\ UNCHANGED <<account, minted, call, verified, overtaken>>

TwoFactorNext ==
  \E t \in Tabs :
    \/ begin(t) \/ (\E code \in 1..minted : enable(t, code)) \/ disable(t)
    \/ save(t) \/ Load(t)
    \/ Read(t) \/ TOTPSetupView(t) \/ TOTPEnableView(t) \/ TOTPDisableView(t)
    \/ SaveProfile(t) \/ MeView(t) \/ Answer(t) \/ Loaded(t)

TwoFactorSpec == TwoFactorInit /\ [][TwoFactorNext]_tvars

-----------------------------------------------------------------------------
TwoFactorTypeOK ==
  /\ account \in User /\ minted \in 0..MaxSecrets
  /\ card \in [Tabs -> Card] /\ call \in [Tabs -> Call] /\ load \in [Tabs -> Loads]
  /\ verified \in 0..MaxSecrets /\ overtaken \in BOOLEAN

(* "2FA is not enforced until verified" (TOTPSetupView): what sign-in asks *)
(* for is a code of the secret whose code the user has entered, however    *)
(* often tabs that know nothing of each other begin, enable and disable.   *)
(* It is not so when requests overlap: enabling saves the flag over a      *)
(* secret that was generated since the one it checked, and saving the      *)
(* profile brings back the secret and the flag it has read.                *)
EnabledWasVerified ==
  ~overtaken => (account.enabled => account.secret = verified)
=============================================================================

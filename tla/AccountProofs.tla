---------------------------- MODULE AccountProofs ----------------------------
(***************************************************************************)
(* Proofs about accounts and organizations, for any number of tabs, forms, *)
(* pages, accounts, addresses, secrets, codes, invites, members, projects: *)
(* the secret asked for at sign-in is the one that was verified            *)
(* (TwoFactor), a code signs in once and is tried so often (OneTimeCodes), *)
(* an invite is used up by a membership and shown as such to nobody else   *)
(* (Invites), who is ticked is assigned (Assignees), and a tab works in    *)
(* what its user chose (Selection).  The five share nothing.               *)
(***************************************************************************)
EXTENDS TwoFactor, OneTimeCodes, Invites, Assignees, Selection,
        WellFoundedInduction, TLAPS

(***************************************************************************)
(* Two-factor sign-in                                                      *)
(***************************************************************************)

(* What a request carries that was just made, and a tab that waits for     *)
(* nothing, have their types.                                              *)
LEMMA RequestTypes ==
  ASSUME MaxSecrets \in Nat
  PROVE  /\ Off \in User /\ NoCall \in Call /\ NoLoad \in Loads
         /\ [phase |-> "sent", enabled |-> FALSE] \in Loads
  BY DEF Off, User, NoCall, Call, NoLoad, Loads

(* A request as Asks sends it.                                             *)
LEMMA AskedType ==
  ASSUME MaxSecrets \in Nat, NEW code \in 0..MaxSecrets, NEW password \in BOOLEAN,
         NEW kind \in {"setup", "enable", "disable", "profile"}
  PROVE  [NoCall EXCEPT !.kind = kind, !.code = code, !.password = password] \in Call
  BY RequestTypes DEF Call, NoCall, Off, User

(* A view that saves a user, or refuses to.                                *)
LEMMA SavesKeepsTypes ==
  ASSUME MaxSecrets \in Nat, TwoFactorTypeOK, NEW t \in Tabs, NEW user \in User,
         Saves(t, user) \/ Denies(t)
  PROVE  account' \in User /\ call' \in [Tabs -> Call]
<1>1. call[t] \in Call /\ account \in User
  BY DEF TwoFactorTypeOK
<1>2. [call[t] EXCEPT !.phase = "ok", !.user = user] \in Call
  BY <1>1 DEF Call
<1>3. [call[t] EXCEPT !.phase = "denied"] \in Call
  BY <1>1 DEF Call
<1> QED BY <1>1, <1>2, <1>3 DEF Saves, Denies, TwoFactorTypeOK

-----------------------------------------------------------------------------
(* Type correctness: the account, the requests and the cards of any number *)
(* of tabs keep their types.                                               *)
LEMMA TypesKept ==
  ASSUME MaxSecrets \in Nat, TwoFactorTypeOK, [TwoFactorNext]_tvars
  PROVE  TwoFactorTypeOK'
<1> USE DEF TwoFactorTypeOK
<1>0. 0 \in 0..MaxSecrets
  OBVIOUS
<1>1. ASSUME NEW t \in Tabs, begin(t) PROVE TwoFactorTypeOK'
  <2>1. [NoCall EXCEPT !.kind = "setup", !.code = 0, !.password = FALSE] \in Call
    BY <1>0, AskedType
  <2> QED BY <1>1, <2>1 DEF begin, Asks
<1>2. ASSUME NEW t \in Tabs, NEW code \in 1..minted, enable(t, code)
      PROVE TwoFactorTypeOK'
  <2>1. code \in 0..MaxSecrets
    OBVIOUS
  <2>2. [NoCall EXCEPT !.kind = "enable", !.code = code, !.password = FALSE] \in Call
    BY <2>1, AskedType
  <2> QED BY <1>2, <2>2 DEF enable, Asks
<1>3. ASSUME NEW t \in Tabs, disable(t) PROVE TwoFactorTypeOK'
  <2>1. ASSUME NEW code \in 0..minted, Asks(t, "disable", code, FALSE)
        PROVE  TwoFactorTypeOK'
    <3>1. code \in 0..MaxSecrets
      OBVIOUS
    <3>2. [NoCall EXCEPT !.kind = "disable", !.code = code, !.password = FALSE] \in Call
      BY <3>1, AskedType
    <3> QED BY <2>1, <3>2 DEF Asks
  <2>2. ASSUME Asks(t, "disable", 0, TRUE) PROVE TwoFactorTypeOK'
    <3>1. [NoCall EXCEPT !.kind = "disable", !.code = 0, !.password = TRUE] \in Call
      BY <1>0, AskedType
    <3> QED BY <2>2, <3>1 DEF Asks
  <2> QED BY <1>3, <2>1, <2>2 DEF disable
<1>4. ASSUME NEW t \in Tabs, save(t) PROVE TwoFactorTypeOK'
  <2>1. [NoCall EXCEPT !.kind = "profile", !.code = 0, !.password = FALSE] \in Call
    BY <1>0, AskedType
  <2> QED BY <1>4, <2>1 DEF save, Asks
<1>5. ASSUME NEW t \in Tabs, Load(t) PROVE TwoFactorTypeOK'
  <2>1. [enabled |-> account.enabled, setup |-> 0] \in Card
    BY DEF Card, User
  <2> QED BY <1>5, <2>1 DEF Load
<1>6. ASSUME NEW t \in Tabs, Read(t) PROVE TwoFactorTypeOK'
  <2>1. [call[t] EXCEPT !.phase = "read", !.user = account] \in Call
    BY DEF Call
  <2> QED BY <1>6, <2>1 DEF Read
<1>7. ASSUME NEW t \in Tabs, TOTPSetupView(t) PROVE TwoFactorTypeOK'
  <2>1. minted + 1 \in 0..MaxSecrets
    BY <1>7 DEF TOTPSetupView
  <2>2. [secret |-> minted + 1, enabled |-> FALSE] \in User
    BY <2>1 DEF User
  <2> QED BY <1>7, <2>1, <2>2, SavesKeepsTypes DEF TOTPSetupView
<1>8. ASSUME NEW t \in Tabs, TOTPEnableView(t) PROVE TwoFactorTypeOK'
  <2>1. [account EXCEPT !.enabled = TRUE] \in User /\ call[t].code \in 0..MaxSecrets
    BY DEF User, Call
  <2>2. account' \in User /\ call' \in [Tabs -> Call]
    BY <1>8, <2>1, SavesKeepsTypes DEF TOTPEnableView
  <2>3. verified' \in 0..MaxSecrets /\ overtaken' \in BOOLEAN
    BY <1>8, <2>1 DEF TOTPEnableView
  <2> QED BY <1>8, <2>2, <2>3 DEF TOTPEnableView
<1>9. ASSUME NEW t \in Tabs, TOTPDisableView(t) PROVE TwoFactorTypeOK'
  <2>1. account' \in User /\ call' \in [Tabs -> Call]
    BY <1>9, RequestTypes, SavesKeepsTypes DEF TOTPDisableView
  <2> QED BY <1>9, <2>1 DEF TOTPDisableView
<1>10. ASSUME NEW t \in Tabs, SaveProfile(t) PROVE TwoFactorTypeOK'
  <2>1. call[t].user \in User
    BY DEF Call
  <2>2. account' \in User /\ call' \in [Tabs -> Call]
    BY <1>10, <2>1, SavesKeepsTypes DEF SaveProfile
  <2> QED BY <1>10, <2>2 DEF SaveProfile
<1>11. ASSUME NEW t \in Tabs, MeView(t) PROVE TwoFactorTypeOK'
  <2>1. [phase |-> "read", enabled |-> account.enabled] \in Loads
    BY DEF Loads, User
  <2> QED BY <1>11, <2>1 DEF MeView
<1>12. ASSUME NEW t \in Tabs, Answer(t) PROVE TwoFactorTypeOK'
  <2>1. call[t].user.secret \in 0..MaxSecrets /\ 0 \in 0..MaxSecrets
    BY DEF Call, User
  <2>2. \A n \in 0..MaxSecrets : [card EXCEPT ![t].setup = n] \in [Tabs -> Card]
    BY DEF Card
  <2>3. card' \in [Tabs -> Card]
    BY <1>12, <2>1, <2>2 DEF Answer
  <2>4. [load EXCEPT ![t].phase = "sent"] \in [Tabs -> Loads]
    BY DEF Loads
  <2> QED BY <1>12, <2>3, <2>4, RequestTypes DEF Answer, loadMe
<1>13. ASSUME NEW t \in Tabs, Loaded(t) PROVE TwoFactorTypeOK'
  <2>1. [card[t] EXCEPT !.enabled = load[t].enabled] \in Card
    BY DEF Card, Loads
  <2> QED BY <1>13, <2>1, RequestTypes DEF Loaded
<1>14. CASE UNCHANGED tvars
  BY <1>14 DEF tvars
<1> QED
  BY <1>1, <1>2, <1>3, <1>4, <1>5, <1>6, <1>7, <1>8, <1>9, <1>10, <1>11, <1>12,
     <1>13, <1>14 DEF TwoFactorNext

(* TwoFactorTypeOK: the accounts, cards and requests of the two-factor     *)
(* views, in any number of tabs.                                           *)
THEOREM TwoFactorTypeCorrect ==
  ASSUME MaxSecrets \in Nat PROVE TwoFactorSpec => []TwoFactorTypeOK
<1>1. TwoFactorInit => TwoFactorTypeOK
  <2>1. 0 \in 0..MaxSecrets
    OBVIOUS
  <2>2. [enabled |-> FALSE, setup |-> 0] \in Card
    BY <2>1 DEF Card
  <2> QED BY <2>1, <2>2, RequestTypes DEF TwoFactorInit, TwoFactorTypeOK
<1>2. TwoFactorTypeOK /\ [TwoFactorNext]_tvars => TwoFactorTypeOK'
  BY TypesKept
<1> QED BY <1>1, <1>2, PTL DEF TwoFactorSpec

-----------------------------------------------------------------------------
(* The views one by one.  Setting up leaves the flag down; enabling saves  *)
(* it over the secret it checked, unless it was overtaken; a profile saves *)
(* the user it read, who is the user still unless it was overtaken.        *)
LEMMA VerifiedKept ==
  ASSUME MaxSecrets \in Nat, TwoFactorTypeOK, EnabledWasVerified,
         [TwoFactorNext]_tvars
  PROVE  EnabledWasVerified'
<1> USE DEF EnabledWasVerified
<1>1. ASSUME NEW t \in Tabs, TOTPSetupView(t) PROVE EnabledWasVerified'
  BY <1>1 DEF TOTPSetupView, Saves
<1>2. ASSUME NEW t \in Tabs, TOTPEnableView(t) PROVE EnabledWasVerified'
  <2>1. CASE verify(call[t].user.secret, call[t].code)
    <3>1. /\ account'.secret = account.secret
          /\ verified' = call[t].user.secret
          /\ overtaken' = (overtaken \/ account.secret # call[t].user.secret)
      BY <1>2, <2>1 DEF TOTPEnableView, Saves, verify, TwoFactorTypeOK, User
    <3> QED BY <3>1
  <2>2. CASE ~verify(call[t].user.secret, call[t].code)
    BY <1>2, <2>2 DEF TOTPEnableView, Denies
  <2> QED BY <2>1, <2>2
<1>3. ASSUME NEW t \in Tabs, TOTPDisableView(t) PROVE EnabledWasVerified'
  BY <1>3 DEF TOTPDisableView, Saves, Denies, Off
<1>4. ASSUME NEW t \in Tabs, SaveProfile(t) PROVE EnabledWasVerified'
  BY <1>4 DEF SaveProfile, Saves
<1>5. ASSUME UNCHANGED <<account, verified, overtaken>> PROVE EnabledWasVerified'
  BY <1>5
<1>6. ASSUME NEW t \in Tabs,
             \/ begin(t) \/ (\E code \in 1..minted : enable(t, code)) \/ disable(t)
             \/ save(t) \/ Load(t) \/ Read(t) \/ MeView(t) \/ Answer(t) \/ Loaded(t)
      PROVE  EnabledWasVerified'
  <2>1. UNCHANGED <<account, verified, overtaken>>
    BY <1>6 DEF begin, enable, disable, save, Asks, Load, Read, MeView, Answer, Loaded
  <2> QED BY <1>5, <2>1
<1>7. CASE UNCHANGED tvars
  BY <1>7, <1>5 DEF tvars
<1> QED BY <1>1, <1>2, <1>3, <1>4, <1>6, <1>7 DEF TwoFactorNext

(* EnabledWasVerified: sign-in asks for codes of a secret that was         *)
(* verified, in any number of tabs and with any number of set-ups.         *)
THEOREM EnabledIsVerified ==
  ASSUME MaxSecrets \in Nat PROVE TwoFactorSpec => []EnabledWasVerified
<1>1. TwoFactorInit => EnabledWasVerified
  BY DEF TwoFactorInit, EnabledWasVerified, Off
<1>2. TwoFactorSpec => []TwoFactorTypeOK
  BY TwoFactorTypeCorrect
<1>3. TwoFactorTypeOK /\ EnabledWasVerified /\ [TwoFactorNext]_tvars
        => EnabledWasVerified'
  BY VerifiedKept
<1> QED BY <1>1, <1>2, <1>3, PTL DEF TwoFactorSpec

-----------------------------------------------------------------------------
(***************************************************************************)
(* One-time codes                                                          *)
(***************************************************************************)

(* The bounds are numbers, there is an address to begin with, and a code   *)
(* can be tried.                                                           *)
Bounds == /\ MaxCodes \in Nat /\ MaxTries \in Nat /\ AttemptLimit \in Nat
          /\ Addresses # {}

-----------------------------------------------------------------------------
(* Type correctness, one action at a time.                                 *)
LEMMA CodesTypesKept ==
  ASSUME Bounds, CodesTypeOK, [CodesNext]_ovars PROVE CodesTypeOK'
<1> USE DEF CodesTypeOK, Bounds
<1>1. NoAsk \in Ask /\ NoCheck \in Check
  BY DEF NoAsk, NoCheck, Ask, Check
<1>2. \A a \in {"ok", "failed"} : [NoAsk EXCEPT !.phase = a] \in Ask
  BY DEF NoAsk, Ask
<1>3. \A a \in {"ok", "denied"} : [NoCheck EXCEPT !.phase = a] \in Check
  BY DEF NoCheck, Check
<1>4. \A f \in Forms : /\ form[f] \in Form /\ form[f].address \in Addresses
                       /\ ask[f] \in Ask /\ check[f] \in Check
  BY DEF Form
<1>5. ASSUME NEW f \in Forms, setIdentifier(f) PROVE CodesTypeOK'
  <2>1. \A a \in Addresses : [form EXCEPT ![f].address = a] \in [Forms -> Form]
    BY DEF Form
  <2> QED BY <1>5, <2>1 DEF setIdentifier, server
<1>6. ASSUME NEW f \in Forms, changeIdentifier(f) PROVE CodesTypeOK'
  <2>1. [form EXCEPT ![f].otpSent = FALSE] \in [Forms -> Form]
    BY DEF Form
  <2> QED BY <1>6, <2>1 DEF changeIdentifier, server
<1>7. \A f \in Forms : [form EXCEPT ![f].loading = TRUE] \in [Forms -> Form]
  BY DEF Form
<1>8. ASSUME NEW f \in Forms, onRequestOtp(f) PROVE CodesTypeOK'
  <2>1. [phase |-> "sent", address |-> form[f].address] \in Ask
    BY <1>4 DEF Ask
  <2>2. ask' \in [Forms -> Ask] /\ edited' \in [Forms -> BOOLEAN]
    BY <1>8, <2>1 DEF onRequestOtp
  <2>3. \A g \in Forms : ask'[g].phase = "sent" => ask'[g].address \in Addresses
    BY <1>4, <1>8 DEF onRequestOtp
  <2>4. form' \in [Forms -> Form] /\ asked' \in 0..MaxCodes
    BY <1>7, <1>8 DEF onRequestOtp
  <2> QED BY <1>8, <2>2, <2>3, <2>4 DEF onRequestOtp, server
<1>9. ASSUME NEW f \in Forms, Requested(f) PROVE CodesTypeOK'
  <2>1. \A b \in BOOLEAN : [form[f] EXCEPT !.loading = FALSE, !.otpSent = b] \in Form
    BY <1>4 DEF Form
  <2>2. form' \in [Forms -> Form]
    BY <1>9, <2>1 DEF Requested
  <2>3. ask' \in [Forms -> Ask]
    BY <1>1, <1>9 DEF Requested
  <2>4. \A g \in Forms : ask'[g].phase = "sent" => ask'[g].address \in Addresses
    BY <1>9 DEF Requested, NoAsk
  <2> QED BY <1>9, <2>2, <2>3, <2>4 DEF Requested, server
<1>10. ASSUME NEW f \in Forms, onVerifyOtp(f) PROVE CodesTypeOK'
  <2>1. ASSUME NEW g \in 0..issued
        PROVE  [check[f] EXCEPT !.phase = "sent", !.guess = g,
                                !.address = form[f].address] \in Check
    <3>1. g \in 0..MaxCodes
      OBVIOUS
    <3> QED BY <1>4, <3>1 DEF Check
  <2>2. check' \in [Forms -> Check]
    BY <1>10, <2>1, ZenonT(60) DEF onVerifyOtp
  <2> QED BY <1>7, <1>10, <2>2 DEF onVerifyOtp, server
<1>11. ASSUME NEW f \in Forms, Verified(f) PROVE CodesTypeOK'
  <2>1. \A b \in BOOLEAN, d \in BOOLEAN :
          [form[f] EXCEPT !.loading = FALSE, !.gone = b, !.otpSent = d] \in Form
    BY <1>4 DEF Form
  <2>2. form[f].otpSent \in BOOLEAN
    BY <1>4 DEF Form
  <2>3. PICK b \in BOOLEAN, d \in BOOLEAN :
          form' = [form EXCEPT ![f] = [form[f] EXCEPT !.loading = FALSE, !.gone = b,
                                                      !.otpSent = d]]
    <3> DEFINE b == check[f].phase = "ok"  d == form[f].otpSent /\ check[f].phase = "denied"
    <3>1. b \in BOOLEAN /\ d \in BOOLEAN
      BY <2>2
    <3>2. form' = [form EXCEPT ![f] = [form[f] EXCEPT !.loading = FALSE, !.gone = b,
                                                      !.otpSent = d]]
      BY <1>11 DEF Verified
    <3> QED BY <3>1, <3>2
  <2>4. form' \in [Forms -> Form]
    BY <2>1, <2>3
  <2> QED BY <1>1, <1>11, <2>4 DEF Verified, server
<1>12. ASSUME NEW f \in Forms, issue_otp(f) PROVE CodesTypeOK'
  <2>1. issued + 1 \in Ids /\ issued + 1 \in 0..MaxCodes
    BY <1>12 DEF issue_otp, Ids
  <2>2. codes' \in [Ids -> Code]
    <3>1. [codes[issued + 1] EXCEPT !.address = ask[f].address] \in Code
      BY <1>12, <2>1 DEF issue_otp, Code
    <3> QED BY <1>12, <2>1, <3>1 DEF issue_otp
  <2>3. ask' \in [Forms -> Ask]
    BY <1>2, <1>12 DEF issue_otp
  <2> QED BY <1>12, <2>1, <2>2, <2>3 DEF issue_otp
<1>13. ASSUME NEW f \in Forms, Throttled(f) PROVE CodesTypeOK'
  BY <1>2, <1>13 DEF Throttled, server
<1>14. ASSUME NEW c \in Ids, Expire(c) PROVE CodesTypeOK'
  <2>1. [codes EXCEPT ![c].expired = TRUE] \in [Ids -> Code]
    BY DEF Code
  <2> QED BY <1>14, <2>1 DEF Expire
<1>15. ASSUME NEW f \in Forms, ReadCode(f) PROVE CodesTypeOK'
  <2>1. ASSUME NEW c \in 1..issued
        PROVE  [check[f] EXCEPT !.phase = "read", !.id = c,
                                !.attempts = codes[c].attempts] \in Check
    <3>1. c \in Ids /\ c \in 0..MaxCodes
      BY DEF Ids
    <3> QED BY <1>4, <3>1 DEF Check, Code
  <2>2. check' \in [Forms -> Check]
    BY <1>3, <1>15, <2>1, ZenonT(60) DEF ReadCode, Unused
  <2> QED BY <1>15, <2>2 DEF ReadCode, server
<1>16. ASSUME NEW f \in Forms, SaveCode(f) PROVE CodesTypeOK'
  <2> DEFINE i == check[f].id
             right == check[f].guess = i
  <2>1. check[f].attempts + 1 \in Nat
    BY <1>4 DEF Check
  <2>2. codes' \in [Ids -> Code]
    <3>1. CASE i \in Ids
      <4>1. codes[i] \in Code /\ (codes[i].consumed \/ right) \in BOOLEAN
        BY <3>1 DEF Code
      <4>2. [codes[i] EXCEPT !.attempts = check[f].attempts + 1,
                             !.consumed = codes[i].consumed \/ right] \in Code
        BY <2>1, <4>1 DEF Code
      <4>3. codes' = [codes EXCEPT ![i] =
                [codes[i] EXCEPT !.attempts = check[f].attempts + 1,
                                 !.consumed = codes[i].consumed \/ right]]
        BY <1>16 DEF SaveCode
      <4> QED BY <4>2, <4>3
    <3>2. CASE i \notin Ids
      BY <1>16, <3>2 DEF SaveCode
    <3> QED BY <3>1, <3>2
  <2>3. check' \in [Forms -> Check]
    BY <1>3, <1>16 DEF SaveCode
  <2>4. tries' \in [Ids -> Nat]
    <3>1. tries' = [tries EXCEPT ![i] = tries[i] + 1]
      BY <1>16 DEF SaveCode
    <3>2. i \in Ids => tries[i] + 1 \in Nat
      OBVIOUS
    <3> HIDE DEF i
    <3> QED BY <3>1, <3>2
  <2>5. uses' \in [Ids -> Nat]
    <3>1. uses' = [uses EXCEPT ![i] = IF right THEN uses[i] + 1 ELSE uses[i]]
      BY <1>16 DEF SaveCode
    <3>2. i \in Ids => (IF right THEN uses[i] + 1 ELSE uses[i]) \in Nat
      OBVIOUS
    <3> HIDE DEF i, right
    <3> QED BY <3>1, <3>2
  <2>6. overlapped' \in BOOLEAN
    BY <1>16 DEF SaveCode
  <2> QED BY <1>16, <2>2, <2>3, <2>4, <2>5, <2>6 DEF SaveCode
<1>17. CASE UNCHANGED ovars
  BY <1>17 DEF ovars
<1> QED BY <1>5, <1>6, <1>8, <1>9, <1>10, <1>11, <1>12, <1>13, <1>14, <1>15, <1>16,
           <1>17 DEF CodesNext

(* CodesTypeOK: the forms, their requests and the stored codes.            *)
THEOREM CodesTypeCorrect == ASSUME Bounds PROVE CodesSpec => []CodesTypeOK
<1>1. CodesInit => CodesTypeOK
  <2> DEFINE first == CHOOSE a \in Addresses : TRUE
  <2>1. first \in Addresses
    BY DEF Bounds
  <2>2. [address |-> first, attempts |-> 0, consumed |-> FALSE, expired |-> FALSE] \in Code
    BY <2>1 DEF Code
  <2>3. [address |-> first, otpSent |-> FALSE, loading |-> FALSE, gone |-> FALSE] \in Form
    BY <2>1 DEF Form
  <2>4. NoAsk \in Ask /\ NoCheck \in Check
    BY DEF NoAsk, NoCheck, Ask, Check, Bounds
  <2> SUFFICES ASSUME CodesInit PROVE CodesTypeOK
    OBVIOUS
  <2>5. codes \in [Ids -> Code] /\ form \in [Forms -> Form]
    BY <2>2, <2>3 DEF CodesInit
  <2>6. ask \in [Forms -> Ask] /\ check \in [Forms -> Check]
    BY <2>4 DEF CodesInit
  <2>7. \A f \in Forms : ask[f].phase # "sent"
    BY DEF CodesInit, NoAsk
  <2>8. issued \in 0..MaxCodes /\ asked \in 0..MaxCodes /\ entered \in 0..MaxTries
    BY DEF CodesInit, Bounds
  <2>9. tries \in [Ids -> Nat] /\ uses \in [Ids -> Nat]
    BY DEF CodesInit
  <2>10. overlapped \in BOOLEAN /\ edited \in [Forms -> BOOLEAN]
    BY DEF CodesInit
  <2> QED BY <2>5, <2>6, <2>7, <2>8, <2>9, <2>10 DEF CodesTypeOK
<1>2. CodesTypeOK /\ [CodesNext]_ovars => CodesTypeOK'
  BY CodesTypesKept
<1> QED BY <1>1, <1>2, PTL DEF CodesSpec

-----------------------------------------------------------------------------
(* Why a code is used once.  While no save went over another, a code's     *)
(* attempts are the times it was compared, it is consumed exactly when it  *)
(* signed somebody in, and what a verification has read of a code that did *)
(* not change since is a code that can be tried.                           *)
Counted ==
  \A c \in Ids : /\ tries[c] = codes[c].attempts
                 /\ codes[c].attempts <= AttemptLimit
                 /\ uses[c] = IF codes[c].consumed THEN 1 ELSE 0
ReadsTriable ==
  \A f \in Forms : check[f].phase = "read" =>
    LET c == codes[check[f].id] IN
      /\ check[f].attempts < AttemptLimit /\ check[f].attempts <= c.attempts
      /\ check[f].attempts = c.attempts => ~c.consumed
ReadsStored == \A f \in Forms : check[f].phase = "read" => check[f].id \in Ids
CountsInv == ReadsStored /\ (~overlapped => Counted /\ ReadsTriable)

LEMMA CountsKept ==
  ASSUME Bounds, CodesTypeOK, CountsInv, [CodesNext]_ovars PROVE CountsInv'
<1> USE DEF CountsInv
<1>1. ASSUME UNCHANGED <<codes, tries, uses, overlapped>>,
             \A f \in Forms : check'[f].phase = "read" => check'[f] = check[f]
      PROVE  CountsInv'
  <2>1. ReadsStored'
    BY <1>1 DEF ReadsStored, Ids
  <2>2. ~overlapped => Counted' /\ ReadsTriable'
    BY <1>1 DEF Counted, ReadsTriable, Ids
  <2> QED BY <1>1, <2>1, <2>2
<1>2. ASSUME NEW f \in Forms,
             \/ setIdentifier(f) \/ changeIdentifier(f) \/ onRequestOtp(f)
             \/ Requested(f) \/ onVerifyOtp(f) \/ Verified(f) \/ Throttled(f)
      PROVE  CountsInv'
  <2>1. UNCHANGED <<codes, tries, uses, overlapped>>
    BY <1>2 DEF setIdentifier, changeIdentifier, onRequestOtp, Requested,
                onVerifyOtp, Verified, Throttled, server
  <2>2. \A g \in Forms : check'[g].phase = "read" => check'[g] = check[g]
    <3>1. CASE onVerifyOtp(f)
      <4>1. check'[f].phase = "sent" /\ \A g \in Forms \ {f} : check'[g] = check[g]
        BY <3>1 DEF onVerifyOtp, CodesTypeOK, Check
      <4> QED BY <4>1
    <3>2. CASE Verified(f)
      <4>1. check'[f].phase = "idle" /\ \A g \in Forms \ {f} : check'[g] = check[g]
        BY <3>2 DEF Verified, CodesTypeOK, NoCheck
      <4> QED BY <4>1
    <3>3. CASE UNCHANGED check
      BY <3>3
    <3> QED BY <1>2, <3>1, <3>2, <3>3 DEF setIdentifier, changeIdentifier,
               onRequestOtp, Requested, Throttled, server
  <2> QED BY <1>1, <2>1, <2>2
<1>3. ASSUME codes' \in [Ids -> Code],
             \A c \in Ids : /\ codes'[c].attempts = codes[c].attempts
                            /\ codes'[c].consumed = codes[c].consumed,
             UNCHANGED <<check, tries, uses, overlapped>>
      PROVE  CountsInv'
  <2>1. ReadsStored'
    BY <1>3 DEF ReadsStored, Ids
  <2>2. ~overlapped => Counted' /\ ReadsTriable'
    BY <1>3 DEF Counted, ReadsTriable, ReadsStored, Ids
  <2> QED BY <1>3, <2>1, <2>2
<1>4. ASSUME NEW f \in Forms, issue_otp(f) PROVE CountsInv'
  <2>1. \A c \in Ids : /\ codes'[c].attempts = codes[c].attempts
                       /\ codes'[c].consumed = codes[c].consumed
    BY <1>4 DEF issue_otp, CodesTypeOK, Code
  <2>2. codes' \in [Ids -> Code]
    BY <1>4, CodesTypesKept DEF CodesNext, CodesTypeOK
  <2> QED BY <1>3, <1>4, <2>1, <2>2 DEF issue_otp
<1>5. ASSUME NEW c \in Ids, Expire(c) PROVE CountsInv'
  <2>1. \A d \in Ids : /\ codes'[d].attempts = codes[d].attempts
                       /\ codes'[d].consumed = codes[d].consumed
    BY <1>5 DEF Expire, CodesTypeOK, Code
  <2>2. codes' \in [Ids -> Code]
    BY <1>5, CodesTypesKept DEF CodesNext, CodesTypeOK
  <2> QED BY <1>3, <1>5, <2>1, <2>2 DEF Expire
<1>6. ASSUME NEW f \in Forms, ReadCode(f) PROVE CountsInv'
  <2>1. UNCHANGED <<codes, tries, uses, overlapped>>
    BY <1>6 DEF ReadCode, server
  <2>2. CASE \E c \in Unused(check[f].address) :
              /\ codes[c].attempts < AttemptLimit
              /\ check' = [check EXCEPT ![f].phase = "read", ![f].id = c,
                                        ![f].attempts = codes[c].attempts]
    <3>1. PICK c \in Ids :
            /\ codes[c].attempts < AttemptLimit /\ ~codes[c].consumed
            /\ check' = [check EXCEPT ![f].phase = "read", ![f].id = c,
                                      ![f].attempts = codes[c].attempts]
      <4>1. \A c \in Unused(check[f].address) : c \in Ids /\ ~codes[c].consumed
        BY DEF Unused, Ids, CodesTypeOK, Bounds
      <4> QED BY <2>2, <4>1
    <3>2. check'[f].id = c /\ check'[f].attempts = codes[c].attempts
      BY <3>1 DEF CodesTypeOK, Check
    <3>3. \A g \in Forms \ {f} : check'[g] = check[g]
      BY <3>1 DEF CodesTypeOK
    <3>4. codes[c].attempts \in Nat
      BY DEF CodesTypeOK, Code
    <3>5. ReadsStored'
      BY <3>2, <3>3 DEF ReadsStored, Ids
    <3>6. ~overlapped => Counted' /\ ReadsTriable'
      <4> SUFFICES ASSUME ~overlapped PROVE Counted' /\ ReadsTriable'
        OBVIOUS
      <4>1. Counted'
        BY <2>1 DEF Counted, Ids
      <4>2. /\ check'[f].attempts < AttemptLimit
            /\ check'[f].attempts <= codes'[check'[f].id].attempts
            /\ ~codes'[check'[f].id].consumed
        BY <2>1, <3>1, <3>2, <3>4
      <4>3. ASSUME NEW g \in Forms, check'[g].phase = "read"
            PROVE  /\ check'[g].attempts < AttemptLimit
                   /\ check'[g].attempts <= codes'[check'[g].id].attempts
                   /\ check'[g].attempts = codes'[check'[g].id].attempts
                        => ~codes'[check'[g].id].consumed
        <5>1. CASE g = f
          BY <4>2, <5>1
        <5>2. CASE g # f
          BY <2>1, <3>3, <4>3, <5>2 DEF ReadsTriable
        <5> QED BY <5>1, <5>2
      <4>4. ReadsTriable'
        BY <4>3 DEF ReadsTriable
      <4> QED BY <4>1, <4>4
    <3> QED BY <2>1, <3>5, <3>6
  <2>3. CASE check' = [check EXCEPT ![f] = [NoCheck EXCEPT !.phase = "denied"]]
    <3>1. \A g \in Forms : check'[g].phase = "read" => check'[g] = check[g]
      BY <2>3 DEF NoCheck, CodesTypeOK
    <3> QED BY <1>1, <2>1, <3>1
  <2> QED BY <1>6, <2>2, <2>3 DEF ReadCode
<1>7. ASSUME NEW f \in Forms, SaveCode(f) PROVE CountsInv'
  <2> DEFINE i == check[f].id
             right == check[f].guess = i
  <2>1. i \in Ids /\ check[f].phase = "read"
    BY <1>7 DEF ReadsStored, SaveCode
  <2>2. /\ codes'[i].attempts = check[f].attempts + 1
        /\ codes'[i].consumed = (codes[i].consumed \/ right)
        /\ \A c \in Ids \ {i} : codes'[c] = codes[c]
    BY <1>7, <2>1 DEF SaveCode, CodesTypeOK, Code
  <2>3. /\ tries'[i] = tries[i] + 1 /\ \A c \in Ids \ {i} : tries'[c] = tries[c]
        /\ uses'[i] = (IF right THEN uses[i] + 1 ELSE uses[i])
        /\ \A c \in Ids \ {i} : uses'[c] = uses[c]
    BY <1>7, <2>1 DEF SaveCode, CodesTypeOK
  <2>4. /\ check'[f].phase # "read"
        /\ \A g \in Forms \ {f} : check'[g] = check[g]
    BY <1>7 DEF SaveCode, NoCheck, CodesTypeOK
  <2>5. ReadsStored'
    BY <2>4 DEF ReadsStored, Ids
  <2>6. ASSUME ~overlapped' PROVE Counted' /\ ReadsTriable'
    <3>1. ~overlapped /\ codes[i].attempts = check[f].attempts
      BY <1>7, <2>6 DEF SaveCode
    <3>2. Counted /\ ReadsTriable
      BY <3>1
    <3>3. /\ check[f].attempts \in Nat /\ check[f].attempts < AttemptLimit
          /\ ~codes[i].consumed /\ uses[i] = 0 /\ tries[i] = check[f].attempts
      BY <2>1, <3>1, <3>2 DEF Counted, ReadsTriable, CodesTypeOK, Check
    <3>4. Counted'
      <4>1. /\ tries'[i] = codes'[i].attempts /\ codes'[i].attempts <= AttemptLimit
            /\ uses'[i] = IF codes'[i].consumed THEN 1 ELSE 0
        <5>1. tries'[i] = codes'[i].attempts
          BY <2>2, <2>3, <3>3
        <5>2. codes'[i].attempts <= AttemptLimit
          BY <2>2, <3>3 DEF Bounds
        <5>3. CASE right
          <6>1. codes'[i].consumed
            BY <2>2, <5>3
          <6>2. uses'[i] = 1
            BY <2>3, <3>3, <5>3
          <6> QED BY <5>1, <5>2, <6>1, <6>2
        <5>4. CASE ~right
          BY <2>2, <2>3, <3>3, <5>1, <5>2, <5>4
        <5> QED BY <5>3, <5>4
      <4>2. ASSUME NEW c \in Ids, c # i
            PROVE  /\ tries'[c] = codes'[c].attempts /\ codes'[c].attempts <= AttemptLimit
                   /\ uses'[c] = IF codes'[c].consumed THEN 1 ELSE 0
        BY <2>2, <2>3, <3>2, <4>2 DEF Counted
      <4> HIDE DEF i, right
      <4>3. Ids' = Ids
        BY DEF Ids
      <4> QED BY <4>1, <4>2, <4>3 DEF Counted
    <3>5. ASSUME NEW g \in Forms, check'[g].phase = "read"
          PROVE  /\ check'[g].attempts < AttemptLimit
                 /\ check'[g].attempts <= codes'[check'[g].id].attempts
                 /\ check'[g].attempts = codes'[check'[g].id].attempts
                      => ~codes'[check'[g].id].consumed
      <4>1. g # f /\ check'[g] = check[g] /\ check[g].id \in Ids /\ check[g].attempts \in Nat
        BY <2>4, <3>5 DEF ReadsStored, CodesTypeOK, Check
      <4>2. CASE check[g].id = i
        BY <2>2, <3>1, <3>2, <3>3, <3>5, <4>1, <4>2 DEF ReadsTriable
      <4>3. CASE check[g].id # i
        BY <2>2, <3>2, <3>5, <4>1, <4>3 DEF ReadsTriable
      <4> QED BY <4>2, <4>3
    <3>6. ReadsTriable'
      BY <3>5 DEF ReadsTriable
    <3> QED BY <3>4, <3>6
  <2> QED BY <2>5, <2>6
<1>8. CASE UNCHANGED ovars
  BY <1>1, <1>8 DEF ovars
<1> QED BY <1>2, <1>4, <1>5, <1>6, <1>7, <1>8 DEF CodesNext

(* CodesBounded: unless two verifications overlapped, a code signs in once *)
(* and is compared AttemptLimit times at most, for any number of forms.    *)
THEOREM CodesAreBounded == ASSUME Bounds PROVE CodesSpec => []CodesBounded
<1>1. CodesInit => CountsInv
  BY DEF CodesInit, CountsInv, ReadsStored, Counted, ReadsTriable, NoCheck, Bounds
<1>2. CodesTypeOK /\ CountsInv /\ [CodesNext]_ovars => CountsInv'
  BY CountsKept
<1>3. CodesTypeOK /\ CountsInv => CodesBounded
  <2> SUFFICES ASSUME CodesTypeOK, CountsInv, ~overlapped, NEW c \in Ids
               PROVE  uses[c] <= 1 /\ tries[c] <= AttemptLimit
    BY DEF CodesBounded
  <2>1. uses[c] = (IF codes[c].consumed THEN 1 ELSE 0) /\ tries[c] <= AttemptLimit
    BY DEF CountsInv, Counted
  <2> QED BY <2>1
<1>4. CodesSpec => []CodesTypeOK
  BY CodesTypeCorrect
<1> QED BY <1>1, <1>2, <1>3, <1>4, PTL DEF CodesSpec

-----------------------------------------------------------------------------
(* Why the hint can be believed.  A form whose address was not edited      *)
(* while it waited asked for a code of the address it still shows, and a   *)
(* request that succeeded stored one; no code is ever removed.             *)
Sent(a) == \E c \in 1..issued : codes[c].address = a
AsksHonest ==
  \A f \in Forms : ~edited[f] =>
    /\ ask[f].phase = "sent" => ask[f].address = form[f].address
    /\ ask[f].phase = "ok"   => Sent(form[f].address)
HintInv == AsksHonest /\ HintHonest

LEMMA SentKept ==
  ASSUME Bounds, CodesTypeOK, [CodesNext]_ovars, NEW a \in Addresses, Sent(a)
  PROVE  Sent(a)'
<1>1. PICK c \in 1..issued : codes[c].address = a
  BY DEF Sent
<1>2. c \in Ids
  BY DEF Ids, CodesTypeOK, Bounds
<1>3. issued' \in Nat /\ issued' >= issued
  <2>1. issued' \in {issued, issued + 1}
    BY DEF CodesNext, setIdentifier, changeIdentifier, onRequestOtp, Requested,
           onVerifyOtp, Verified, issue_otp, Throttled, Expire, ReadCode, SaveCode,
           server, ovars
  <2> QED BY <2>1 DEF CodesTypeOK, Bounds
<1>4. codes'[c].address = a
  <2>1. ASSUME NEW f \in Forms, issue_otp(f) PROVE codes'[c].address = a
    <3>1. c # issued + 1
      BY DEF CodesTypeOK, Bounds
    <3> QED BY <1>1, <1>2, <2>1, <3>1 DEF issue_otp, CodesTypeOK, Code
  <2>2. ASSUME NEW f \in Forms, SaveCode(f) PROVE codes'[c].address = a
    BY <1>1, <1>2, <2>2 DEF SaveCode, CodesTypeOK, Code
  <2>3. ASSUME NEW d \in Ids, Expire(d) PROVE codes'[c].address = a
    BY <1>1, <1>2, <2>3 DEF Expire, CodesTypeOK, Code
  <2>4. CASE UNCHANGED codes
    BY <1>1, <2>4
  <2> QED BY <2>1, <2>2, <2>3, <2>4 DEF CodesNext, setIdentifier, changeIdentifier,
             onRequestOtp, Requested, onVerifyOtp, Verified, Throttled, ReadCode,
             server, ovars
<1> QED BY <1>1, <1>3, <1>4 DEF Sent, CodesTypeOK, Bounds

LEMMA HintKept ==
  ASSUME Bounds, CodesTypeOK, HintInv, [CodesNext]_ovars PROVE HintInv'
<1> USE DEF HintInv
<1>1. \A f \in Forms : form[f].address \in Addresses
  BY DEF CodesTypeOK, Form
<1>2. \A a \in Addresses : Sent(a) => Sent(a)'
  BY SentKept
<1>3. \A f \in Forms : form[f].otpSent /\ ~edited[f] => Sent(form[f].address)
  BY DEF HintHonest, Sent
<1> DEFINE Honest(f) ==
             ~edited[f] => /\ ask[f].phase = "sent" => ask[f].address = form[f].address
                           /\ ask[f].phase = "ok" => Sent(form[f].address)
                           /\ form[f].otpSent => Sent(form[f].address)
<1>4. (\A f \in Forms : Honest(f)') => HintInv'
  BY DEF AsksHonest, HintHonest, Sent
<1>5. \A f \in Forms : Honest(f)
  BY <1>3 DEF AsksHonest
<1>6. ASSUME NEW g \in Forms,
             form'[g].address = form[g].address, edited'[g] = edited[g],
             form'[g].otpSent => form[g].otpSent \/ ask[g].phase = "ok",
             ask'[g] = ask[g] \/ ask'[g].phase \notin {"sent", "ok"}
      PROVE  Honest(g)'
  BY <1>1, <1>2, <1>5, <1>6
<1>7. ASSUME NEW f \in Forms, setIdentifier(f), NEW g \in Forms PROVE Honest(g)'
  <2>1. CASE g = f
    <3>1. ~form'[f].otpSent /\ ask'[f] = ask[f]
      BY <1>7 DEF setIdentifier, CodesTypeOK, Form
    <3>2. ~edited'[f] => ask[f].phase = "idle"
      BY <1>7 DEF setIdentifier, CodesTypeOK
    <3> QED BY <2>1, <3>1, <3>2
  <2>2. CASE g # f
    BY <1>6, <1>7, <2>2 DEF setIdentifier, CodesTypeOK
  <2> QED BY <2>1, <2>2
<1>8. ASSUME NEW f \in Forms, onRequestOtp(f), NEW g \in Forms PROVE Honest(g)'
  <2>1. CASE g = f
    <3>1. /\ ask'[f].phase = "sent" /\ ask'[f].address = form[f].address
          /\ form'[f].address = form[f].address /\ form'[f].otpSent = form[f].otpSent
      BY <1>8 DEF onRequestOtp, CodesTypeOK, Form
    <3>2. ~edited'[f] => ~edited[f] \/ ~form[f].otpSent
      BY <1>8 DEF onRequestOtp, CodesTypeOK
    <3>3. ~edited'[f] /\ form'[f].otpSent => Sent(form[f].address)
      BY <1>5, <3>1, <3>2
    <3>4. ~edited'[f] /\ form'[f].otpSent => Sent(form[f].address)'
      BY <1>1, <1>2, <3>1, <3>3
    <3> QED BY <2>1, <3>1, <3>4
  <2>2. CASE g # f
    BY <1>6, <1>8, <2>2 DEF onRequestOtp, CodesTypeOK
  <2> QED BY <2>1, <2>2
<1>9. ASSUME NEW f \in Forms, issue_otp(f), NEW g \in Forms PROVE Honest(g)'
  <2>1. CASE g = f
    <3>1. UNCHANGED <<form, edited>> /\ ask'[f].phase # "sent"
      BY <1>9 DEF issue_otp, NoAsk, CodesTypeOK
    <3>2. issued + 1 \in Ids /\ issued + 1 \in 1..issued'
      BY <1>9 DEF issue_otp, CodesTypeOK, Bounds, Ids
    <3>3. codes'[issued + 1].address = ask[f].address
      BY <1>9, <3>2 DEF issue_otp, CodesTypeOK, Code
    <3>4. ~edited[f] => ask[f].address = form[f].address
      BY <1>5, <1>9 DEF issue_otp
    <3>5. ~edited[f] => Sent(form[f].address)'
      BY <3>1, <3>2, <3>3, <3>4 DEF Sent
    <3> QED BY <2>1, <3>1, <3>5
  <2>2. CASE g # f
    BY <1>6, <1>9, <2>2 DEF issue_otp, CodesTypeOK
  <2> QED BY <2>1, <2>2
<1>10. ASSUME NEW f \in Forms, changeIdentifier(f), NEW g \in Forms PROVE Honest(g)'
  BY <1>6, <1>10 DEF changeIdentifier, CodesTypeOK, Form
<1>11. ASSUME NEW f \in Forms, Requested(f), NEW g \in Forms PROVE Honest(g)'
  <2>1. /\ form'[g].address = form[g].address /\ edited'[g] = edited[g]
        /\ ask'[g] = ask[g] \/ ask'[g].phase \notin {"sent", "ok"}
    BY <1>11 DEF Requested, NoAsk, CodesTypeOK, Form
  <2>2. form'[g].otpSent => form[g].otpSent \/ ask[g].phase = "ok"
    BY <1>11 DEF Requested, CodesTypeOK, Form
  <2> QED BY <1>6, <2>1, <2>2
<1>12. ASSUME NEW f \in Forms, onVerifyOtp(f), NEW g \in Forms PROVE Honest(g)'
  BY <1>6, <1>12 DEF onVerifyOtp, server, CodesTypeOK, Form
<1>13. ASSUME NEW f \in Forms, Verified(f), NEW g \in Forms PROVE Honest(g)'
  <2>1. /\ form'[g].address = form[g].address /\ edited'[g] = edited[g]
        /\ ask'[g] = ask[g]
    BY <1>13 DEF Verified, CodesTypeOK, Form
  <2>2. form'[g].otpSent => form[g].otpSent
    BY <1>13 DEF Verified, CodesTypeOK, Form
  <2> QED BY <1>6, <2>1, <2>2
<1>14. ASSUME NEW f \in Forms, Throttled(f), NEW g \in Forms PROVE Honest(g)'
  BY <1>6, <1>14 DEF Throttled, NoAsk, CodesTypeOK
<1>15. ASSUME UNCHANGED <<form, ask, edited>>, NEW g \in Forms PROVE Honest(g)'
  BY <1>6, <1>15
<1>16. CASE \E f \in Forms : ReadCode(f) \/ SaveCode(f)
  <2>1. UNCHANGED <<form, ask, edited>>
    BY <1>16 DEF ReadCode, SaveCode
  <2> QED BY <1>4, <1>15, <2>1
<1>17. CASE (\E c \in Ids : Expire(c)) \/ UNCHANGED ovars
  <2>1. UNCHANGED <<form, ask, edited>>
    BY <1>17 DEF Expire, ovars
  <2> QED BY <1>4, <1>15, <2>1
<1> HIDE DEF Honest
<1> QED BY <1>4, <1>7, <1>8, <1>9, <1>10, <1>11, <1>12, <1>13, <1>14, <1>16, <1>17
       DEF CodesNext

(* HintHonest: a form that shows "code sent" beside an address that was    *)
(* not edited while it waited shows an address a code was issued for, for  *)
(* any number of forms and codes.                                          *)
THEOREM HintIsHonest == ASSUME Bounds PROVE CodesSpec => []HintHonest
<1>1. CodesInit => HintInv
  BY DEF CodesInit, HintInv, AsksHonest, HintHonest, NoAsk
<1>2. CodesTypeOK /\ HintInv /\ [CodesNext]_ovars => HintInv'
  BY HintKept
<1>3. HintInv => HintHonest
  BY DEF HintInv
<1>4. CodesSpec => []CodesTypeOK
  BY CodesTypeCorrect
<1> QED BY <1>1, <1>2, <1>3, <1>4, PTL DEF CodesSpec

(* SignInByCode: both together, the property that the run checks.          *)
THEOREM SignInIsByCode == ASSUME Bounds PROVE CodesSpec => []SignInByCode
<1>1. CodesBounded /\ HintHonest => SignInByCode
  BY DEF SignInByCode
<1> QED BY <1>1, CodesAreBounded, HintIsHonest, PTL

-----------------------------------------------------------------------------
(***************************************************************************)
(* Invites                                                                 *)
(***************************************************************************)

(* A request of a page is its accept while it joins, its sign-up while the *)
(* form is open; and is made for an account.                               *)
Accepting == {"sent", "read", "joined", "ok"}
SigningUp == {"registered", "found", "signed"}

PageInv(p) ==
  /\ req[p] \in Accepting \cup {"refused", "wrong"} => page[p].phase = "joining"
  /\ req[p] \in SigningUp => page[p].phase = "signing"
  /\ req[p] = "failed" => page[p].phase \in {"joining", "signing"}
  /\ page[p].phase \in {"ready", "signing"} => ~page[p].mine
  /\ page[p].mine => page[p].account # "none"
  /\ page[p].account \in exists \cup {"none"}
  /\ req[p] \in Accepting \cup SigningUp => page[p].account # "none"
  /\ req[p] \in {"joined", "ok"} => page[p].account \in members

InvitesTInv == InvitesTypeOK /\ \A p \in Pages : PageInv(p)

LEMMA InitInvitesTInv == InvitesInit => InvitesTInv
<1> SUFFICES ASSUME InvitesInit PROVE InvitesTInv
  OBVIOUS
<1>1. InvitesTypeOK
  <2>1. [link |-> 0, phase |-> "signing", account |-> "none", mine |-> FALSE,
         preview |-> "none"] \in Page
    BY InvitesAssumption DEF Page, Phases, Previews
  <2>2. page \in [Pages -> Page]
    BY <2>1 DEF InvitesInit
  <2>3. req \in [Pages -> Request]
    BY DEF InvitesInit, Request
  <2>4. invite \in [token : 0..MaxInvites, status : {"pending", "accepted"}, expired : BOOLEAN]
        /\ crashes \in 0..MaxCrashes
    BY InvitesAssumption DEF InvitesInit
  <2>5. exists \subseteq Accounts /\ members \subseteq exists /\ holder \in exists \cup {"none"}
        /\ readdressed \in BOOLEAN
    BY InvitesAssumption DEF InvitesInit
  <2> QED BY <2>2, <2>3, <2>4, <2>5 DEF InvitesTypeOK
<1>2. "idle" \notin Accepting \cup SigningUp \cup {"refused", "wrong", "failed"}
  BY DEF Accepting, SigningUp
<1>3. ASSUME NEW p \in Pages PROVE PageInv(p)
  BY <1>2 DEF InvitesInit, PageInv
<1> QED BY <1>1, <1>3 DEF InvitesTInv

(* The fields of a page that is loaded, moved, or signed in.               *)
LEMMA LoadingType ==
  ASSUME InvitesTInv, NEW p \in Pages, NEW l \in 0..MaxInvites,
         NEW u \in exists \cup {"none"}, page' = Loading(p, l, u)
  PROVE  /\ page' \in [Pages -> Page]
         /\ \A q \in Pages \ {p} : page'[q] = page[q]
         /\ page'[p].phase = "loading" /\ page'[p].account = u /\ page'[p].preview = "none"
         /\ page'[p].mine = (u # "none" /\ u = holder)
  BY InvitesAssumption DEF InvitesTInv, InvitesTypeOK, Loading, Page, Phases, Previews

LEMMA MovedType ==
  ASSUME InvitesTInv, NEW p \in Pages, NEW phase \in Phases, Moved(p, phase)
  PROVE  /\ page' \in [Pages -> Page]
         /\ \A q \in Pages \ {p} : page'[q] = page[q]
         /\ page'[p].phase = phase /\ page'[p].account = page[p].account
         /\ page'[p].preview = page[p].preview /\ page'[p].mine = page[p].mine
         /\ page'[p].link = page[p].link
  BY DEF InvitesTInv, InvitesTypeOK, Moved, Page

(* What Decide comes to.                                                   *)
LEMMA DecideCases ==
  ASSUME InvitesTInv, NEW p \in Pages, Decide(p)
  PROVE  /\ page[p].phase = "loading" /\ UNCHANGED inviteTables
         /\ \/ \E ph \in {"invalid", "ready", "wrong", "done"} :
                 /\ Moved(p, ph) /\ UNCHANGED req
                 /\ ph = "ready" => page[p].account = "none"
                 /\ ph = "done" => page[p].mine /\ page[p].preview = "accepted"
            \/ Moved(p, "joining") /\ req' = [req EXCEPT ![p] = "sent"] /\ page[p].mine
<1>1. Deciding(p) /\ UNCHANGED inviteTables
  BY DEF Decide
<1>2. CASE Verdict(p) = "joining"
  <2>1. page[p].mine
    BY <1>2, Zenon DEF Verdict
  <2> QED BY <1>1, <1>2, <2>1 DEF Deciding, Decide, Joining
<1>3. CASE Verdict(p) # "joining"
  <2>1. /\ Verdict(p) \in {"invalid", "ready", "wrong", "done"}
        /\ Verdict(p) = "ready" => page[p].account = "none"
        /\ Verdict(p) = "done" => page[p].mine /\ page[p].preview = "accepted"
    BY <1>3 DEF Verdict
  <2>2. Moved(p, Verdict(p)) /\ UNCHANGED req
    BY <1>3 DEF Decide
  <2> QED BY <1>1, <2>1, <2>2 DEF Deciding
<1> QED BY <1>2, <1>3

-----------------------------------------------------------------------------
(* The requests and pages of the others are as they were.                  *)
LEMMA OthersKeep ==
  ASSUME InvitesTInv, NEW p \in Pages, NEW q \in Pages \ {p},
         page'[q] = page[q], req'[q] = req[q], exists \subseteq exists', members \subseteq members'
  PROVE  PageInv(q)'
<1>1. PageInv(q)
  BY DEF InvitesTInv
<1> QED BY <1>1 DEF PageInv

(* A page that is moved while no request of it is under way.               *)
LEMMA PageMoves ==
  ASSUME InvitesTInv, NEW p \in Pages, NEW phase \in Phases, Moved(p, phase), UNCHANGED <<inviteTables, req>>,
         req[p] = "idle",
         phase \in {"ready", "signing"} => ~page[p].mine
  PROVE  InvitesTInv'
<1>1. /\ page' \in [Pages -> Page]
      /\ \A q \in Pages \ {p} : page'[q] = page[q]
      /\ page'[p].phase = phase /\ page'[p].account = page[p].account
      /\ page'[p].mine = page[p].mine
  BY MovedType
<1>2. InvitesTypeOK'
  BY <1>1 DEF InvitesTInv, InvitesTypeOK, inviteTables
<1>3. ASSUME NEW q \in Pages \ {p} PROVE PageInv(q)'
  BY <1>1, <1>3, OthersKeep DEF inviteTables
<1>4. PageInv(p)'
  <2>1. PageInv(p) /\ "idle" \notin Accepting \cup SigningUp \cup {"refused", "wrong", "failed"}
    BY DEF InvitesTInv, Accepting, SigningUp
  <2> QED BY <1>1, <2>1 DEF PageInv, inviteTables
<1> QED BY <1>2, <1>3, <1>4 DEF InvitesTInv

(* A request that goes on while its page stays what it is.                 *)
LEMMA RequestGoesOn ==
  ASSUME InvitesTInv, InvitesTypeOK', NEW p \in Pages, NEW r \in Request,
         req' = [req EXCEPT ![p] = r], UNCHANGED page,
         exists \subseteq exists', members \subseteq members',
         \/ r \in Accepting \cup {"refused", "wrong"} /\ req[p] \in Accepting
         \/ r \in SigningUp /\ req[p] \in SigningUp
         \/ r = "failed" /\ req[p] \in Accepting \cup SigningUp,
         r \in {"joined", "ok"} => page[p].account \in members'
  PROVE  InvitesTInv'
<1>1. req'[p] = r /\ \A q \in Pages \ {p} : req'[q] = req[q]
  BY DEF InvitesTInv, InvitesTypeOK
<1>2. ASSUME NEW q \in Pages \ {p} PROVE PageInv(q)'
  BY <1>1, OthersKeep
<1>3. PageInv(p)'
  <2>1. PageInv(p)
    BY DEF InvitesTInv
  <2> QED BY <1>1, <2>1 DEF PageInv, Accepting, SigningUp
<1> QED BY <1>2, <1>3 DEF InvitesTInv

(* A page that nothing is asked for.                                       *)
LEMMA PageRests ==
  ASSUME InvitesTInv, InvitesTypeOK', NEW p \in Pages, req'[p] = "idle",
         \A q \in Pages \ {p} : page'[q] = page[q] /\ req'[q] = req[q],
         exists \subseteq exists', members \subseteq members',
         page'[p].phase \in {"ready", "signing"} => ~page'[p].mine,
         page'[p].mine => page'[p].account # "none",
         page'[p].account \in exists' \cup {"none"}
  PROVE  InvitesTInv'
<1>1. ASSUME NEW q \in Pages \ {p} PROVE PageInv(q)'
  BY <1>1, OthersKeep
<1>2. "idle" \notin Accepting \cup SigningUp \cup {"refused", "wrong", "failed"}
  BY DEF Accepting, SigningUp
<1>3. PageInv(p)'
  BY <1>2 DEF PageInv
<1> QED BY <1>1, <1>3 DEF InvitesTInv

LEMMA PageLoads ==
  ASSUME InvitesTInv, NEW p \in Pages, NEW l \in 0..MaxInvites,
         NEW u \in exists \cup {"none"}, page' = Loading(p, l, u), UNCHANGED inviteTables,
         req' = [req EXCEPT ![p] = "idle"]
  PROVE  InvitesTInv'
<1>1. /\ page' \in [Pages -> Page]
      /\ \A q \in Pages \ {p} : page'[q] = page[q]
      /\ page'[p].phase = "loading" /\ page'[p].account = u
      /\ page'[p].mine = (u # "none" /\ u = holder)
  BY LoadingType
<1>2. req' \in [Pages -> Request] /\ req'[p] = "idle" /\ \A q \in Pages \ {p} : req'[q] = req[q]
  BY DEF InvitesTInv, InvitesTypeOK, Request
<1>3. InvitesTypeOK'
  BY <1>1, <1>2 DEF InvitesTInv, InvitesTypeOK, inviteTables
<1> QED BY <1>1, <1>2, <1>3, PageRests DEF inviteTables

(* A page that is signed in: to the link it came from, or the dashboard.   *)
LEMMA PageSignsIn ==
  ASSUME InvitesTInv, NEW p \in Pages, NEW u \in exists, SignedIn(p, u),
         page[p].phase = "signing", UNCHANGED inviteTables, req' = [req EXCEPT ![p] = "idle"]
  PROVE  InvitesTInv'
<1>1. page[p] \in Page
  BY DEF InvitesTInv, InvitesTypeOK
<1>2. CASE page[p].link # 0
  BY <1>1, <1>2, PageLoads DEF SignedIn, Page
<1>3. CASE page[p].link = 0
  <2>1. page' = [page EXCEPT ![p] = [page[p] EXCEPT !.phase = "dashboard", !.account = u]]
    BY <1>3 DEF SignedIn, InvitesTInv, InvitesTypeOK
  <2>2. u \in Accounts /\ u # "none"
    BY InvitesAssumption DEF InvitesTInv, InvitesTypeOK
  <2>3. [page[p] EXCEPT !.phase = "dashboard", !.account = u] \in Page
    BY <1>1, <2>2 DEF Page, Phases
  <2>4. /\ page' \in [Pages -> Page]
        /\ \A q \in Pages \ {p} : page'[q] = page[q]
        /\ page'[p].phase = "dashboard" /\ page'[p].account = u
    BY <1>1, <2>1, <2>3 DEF InvitesTInv, InvitesTypeOK, Page
  <2>5. req' \in [Pages -> Request] /\ req'[p] = "idle"
        /\ \A q \in Pages \ {p} : req'[q] = req[q]
    BY DEF InvitesTInv, InvitesTypeOK, Request
  <2>6. InvitesTypeOK'
    BY <2>4, <2>5 DEF InvitesTInv, InvitesTypeOK, inviteTables
  <2> QED BY <2>2, <2>4, <2>5, <2>6, PageRests DEF inviteTables
<1> QED BY <1>2, <1>3

(* What the server does to the request of a page.                          *)
LEMMA ServerSteps ==
  ASSUME InvitesTInv, NEW p \in Pages
  PROVE  /\ AcceptRead(p) => InvitesTInv'
         /\ AcceptJoin(p) => InvitesTInv'
         /\ AcceptSave(p) => InvitesTInv'
         /\ FindPending(p) => InvitesTInv'
         /\ accept_pending_invites(p) => InvitesTInv'
<1>t. InvitesTypeOK /\ PageInv(p)
  BY DEF InvitesTInv
<1>1. ASSUME AcceptRead(p) PROVE InvitesTInv'
  <2>1. PICK r \in {"refused", "wrong", "read"} : req' = [req EXCEPT ![p] = r]
    BY <1>1 DEF AcceptRead
  <2>2. InvitesTypeOK'
    BY <1>1, <1>t, <2>1 DEF AcceptRead, InvitesTypeOK, Request, inviteTables
  <2>3. r \in Request /\ r \in Accepting \cup {"refused", "wrong"} /\ req[p] \in Accepting
        /\ r \notin {"joined", "ok"}
    BY <1>1, <2>1 DEF AcceptRead, Request, Accepting
  <2> QED BY <1>1, <2>1, <2>2, <2>3, RequestGoesOn DEF AcceptRead, inviteTables
<1>2. ASSUME AcceptJoin(p) PROVE InvitesTInv'
  <2>1. page[p].account \in exists
    BY <1>2, <1>t DEF AcceptJoin, PageInv, Accepting
  <2>2. InvitesTypeOK'
    BY <1>2, <1>t, <2>1 DEF AcceptJoin, InvitesTypeOK, Request
  <2>3. "joined" \in Request /\ "joined" \in Accepting /\ "read" \in Accepting
    BY DEF Request, Accepting
  <2> QED BY <1>2, <2>2, <2>3, RequestGoesOn DEF AcceptJoin
<1>3. ASSUME AcceptSave(p) PROVE InvitesTInv'
  <2>2. InvitesTypeOK'
    BY <1>3, <1>t DEF AcceptSave, InvitesTypeOK, Request
  <2>3. "ok" \in Request /\ "ok" \in Accepting /\ "joined" \in Accepting
    BY DEF Request, Accepting
  <2>4. page[p].account \in members
    BY <1>3, <1>t DEF AcceptSave, PageInv
  <2> QED BY <1>3, <2>2, <2>3, <2>4, RequestGoesOn DEF AcceptSave
<1>4. ASSUME FindPending(p) PROVE InvitesTInv'
  <2>1. PICK r \in {"found", "signed"} : req' = [req EXCEPT ![p] = r]
    BY <1>4 DEF FindPending
  <2>2. InvitesTypeOK'
    BY <1>4, <1>t, <2>1 DEF FindPending, InvitesTypeOK, Request, inviteTables
  <2>3. r \in Request /\ r \in SigningUp /\ "registered" \in SigningUp /\ r \notin {"joined", "ok"}
    BY DEF Request, SigningUp
  <2> QED BY <1>4, <2>1, <2>2, <2>3, RequestGoesOn DEF FindPending, inviteTables
<1>5. ASSUME accept_pending_invites(p) PROVE InvitesTInv'
  <2>1. page[p].account \in exists
    BY <1>5, <1>t DEF accept_pending_invites, PageInv, SigningUp
  <2>2. InvitesTypeOK'
    BY <1>5, <1>t, <2>1 DEF accept_pending_invites, InvitesTypeOK, Request
  <2>3. "signed" \in Request /\ "signed" \in SigningUp /\ "found" \in SigningUp
    BY DEF Request, SigningUp
  <2> QED BY <1>5, <2>2, <2>3, RequestGoesOn DEF accept_pending_invites
<1> QED BY <1>1, <1>2, <1>3, <1>4, <1>5

(* Opening a link, what is shown of it, and what the page is decided to be.*)
LEMMA PageSteps ==
  ASSUME InvitesTInv, NEW p \in Pages
  PROVE  /\ \A k \in 1..MaxInvites : Open(p, k) => InvitesTInv'
         /\ InvitePreview(p) => InvitesTInv'
         /\ Decide(p) => InvitesTInv'
         /\ goSignIn(p) => InvitesTInv'
         /\ signOut(p) => InvitesTInv'
         /\ Forward(p) => InvitesTInv'
<1>t. InvitesTypeOK /\ PageInv(p) /\ page[p] \in Page /\ req \in [Pages -> Request]
  BY DEF InvitesTInv, InvitesTypeOK
<1>r. ASSUME page[p].phase \notin {"joining", "signing"} PROVE req[p] = "idle"
  BY <1>r, <1>t DEF PageInv, Accepting, SigningUp, Request
<1>1. ASSUME NEW k \in 1..MaxInvites, Open(p, k) PROVE InvitesTInv'
  <2>1. k \in 0..MaxInvites /\ page[p].account \in exists \cup {"none"}
    BY <1>t, InvitesAssumption DEF PageInv
  <2>2. req' = [req EXCEPT ![p] = "idle"]
    BY <1>1, <1>t DEF Open
  <2> QED BY <1>1, <2>1, <2>2, PageLoads DEF Open
<1>2. ASSUME InvitePreview(p) PROVE InvitesTInv'
  <2>1. PICK v \in Previews : page' = [page EXCEPT ![p] = [page[p] EXCEPT !.preview = v]]
    BY <1>2, <1>t DEF InvitePreview, Previews, InvitesTypeOK
  <2>2. page'[p] = [page[p] EXCEPT !.preview = v] /\ \A q \in Pages \ {p} : page'[q] = page[q]
    BY <1>t, <2>1 DEF InvitesTypeOK
  <2>3. /\ page'[p] \in Page /\ page'[p].phase = page[p].phase
        /\ page'[p].account = page[p].account /\ page'[p].mine = page[p].mine
    BY <1>t, <2>2 DEF Page
  <2>4. page' \in [Pages -> Page]
    BY <1>t, <2>1, <2>3, Zenon DEF InvitesTypeOK
  <2>5. InvitesTypeOK'
    BY <1>2, <1>t, <2>4 DEF InvitePreview, InvitesTypeOK, inviteTables
  <2>6. req[p] = "idle"
    BY <1>r, <1>2 DEF InvitePreview
  <2> QED
    BY <1>2, <1>t, <2>2, <2>3, <2>5, <2>6, PageRests DEF InvitePreview, inviteTables, PageInv
<1>3. ASSUME Decide(p) PROVE InvitesTInv'
  <2>r. req[p] = "idle" /\ UNCHANGED inviteTables
    BY <1>r, <1>3, DecideCases
  <2>1. ASSUME NEW ph \in {"invalid", "ready", "wrong", "done"}, Moved(p, ph), UNCHANGED req,
               ph = "ready" => page[p].account = "none"
        PROVE  InvitesTInv'
    <3>1. ph \in Phases
      BY DEF Phases
    <3>2. ph \in {"ready", "signing"} => ~page[p].mine
      BY <1>t, <2>1 DEF PageInv
    <3> QED BY <2>r, <2>1, <3>1, <3>2, PageMoves
  <2>2. ASSUME Moved(p, "joining"), req' = [req EXCEPT ![p] = "sent"], page[p].mine
        PROVE  InvitesTInv'
    <3>0. "joining" \in Phases /\ "sent" \in Request
      BY DEF Phases, Request
    <3>1. /\ page' \in [Pages -> Page]
          /\ \A q \in Pages \ {p} : page'[q] = page[q]
          /\ page'[p].phase = "joining" /\ page'[p].account = page[p].account
          /\ page'[p].mine = page[p].mine
      BY <2>2, <3>0, MovedType
    <3>2. req'[p] = "sent" /\ req' \in [Pages -> Request] /\ \A q \in Pages \ {p} : req'[q] = req[q]
      BY <1>t, <2>2, <3>0
    <3>3. InvitesTypeOK'
      BY <1>t, <2>r, <3>1, <3>2 DEF InvitesTypeOK, inviteTables
    <3>4. ASSUME NEW q \in Pages \ {p} PROVE PageInv(q)'
      BY <2>r, <3>1, <3>2, OthersKeep DEF inviteTables
    <3>5. PageInv(p)'
      <4>1. "sent" \notin SigningUp \cup {"failed", "joined", "ok"}
        BY DEF SigningUp
      <4> QED BY <1>t, <2>r, <2>2, <3>1, <3>2, <4>1 DEF PageInv, inviteTables
    <3> QED BY <3>3, <3>4, <3>5 DEF InvitesTInv
  <2> QED BY <1>3, <2>1, <2>2, DecideCases
<1>4. ASSUME goSignIn(p) PROVE InvitesTInv'
  <2>1. req[p] = "idle" /\ "signing" \in Phases /\ ~page[p].mine
    BY <1>r, <1>4, <1>t DEF goSignIn, Phases, PageInv
  <2> QED BY <1>4, <2>1, PageMoves DEF goSignIn
<1>5. ASSUME signOut(p) PROVE InvitesTInv'
  <2>1. req[p] = "idle"
    BY <1>r, <1>5 DEF signOut
  <2>2. PICK ph \in {"ready", "invalid"} :
          page' = [page EXCEPT ![p].account = "none", ![p].mine = FALSE, ![p].phase = ph]
    BY <1>5 DEF signOut
  <2>3. page' = [page EXCEPT ![p] = [page[p] EXCEPT !.account = "none", !.mine = FALSE, !.phase = ph]]
    BY <1>t, <2>2 DEF InvitesTypeOK
  <2>4. /\ page'[p] = [page[p] EXCEPT !.account = "none", !.mine = FALSE, !.phase = ph]
        /\ \A q \in Pages \ {p} : page'[q] = page[q]
    BY <1>t, <2>3 DEF InvitesTypeOK
  <2>5. /\ page'[p] \in Page /\ page'[p].account = "none" /\ page'[p].mine = FALSE
    BY <1>t, <2>4 DEF Page, Phases
  <2>6. page' \in [Pages -> Page]
    BY <1>t, <2>3, <2>4, <2>5, Zenon DEF InvitesTypeOK
  <2>7. InvitesTypeOK'
    BY <1>5, <1>t, <2>6 DEF signOut, InvitesTypeOK, inviteTables
  <2> QED BY <1>5, <2>1, <2>4, <2>5, <2>7, PageRests DEF signOut, inviteTables
<1>6. ASSUME Forward(p) PROVE InvitesTInv'
  <2>1. req[p] = "idle" /\ "dashboard" \in Phases
    BY <1>r, <1>6 DEF Forward, Phases
  <2> QED BY <1>6, <2>1, PageMoves DEF Forward
<1> QED BY <1>1, <1>2, <1>3, <1>4, <1>5, <1>6

(* Answers, failures and the sign-in form.                                 *)
LEMMA FormSteps ==
  ASSUME InvitesTInv, NEW p \in Pages
  PROVE  /\ Answered(p) => InvitesTInv'
         /\ Crash(p) => InvitesTInv'
         /\ \A u \in Accounts : SignIn(p, u) \/ SignUp(p, u) => InvitesTInv'
         /\ SignUpAnswered(p) => InvitesTInv'
         /\ PersonalInfoCard(p) => InvitesTInv'
<1>t. InvitesTypeOK /\ PageInv(p) /\ page[p] \in Page /\ req \in [Pages -> Request]
  BY DEF InvitesTInv, InvitesTypeOK
<1>r. ASSUME page[p].phase \notin {"joining", "signing"} PROVE req[p] = "idle"
  BY <1>r, <1>t DEF PageInv, Accepting, SigningUp, Request
<1>1. ASSUME Answered(p) PROVE InvitesTInv'
  <2>1. PICK ph \in {"done", "wrong", "error"} : Moved(p, ph)
    BY <1>1 DEF Answered
  <2>2. /\ page' \in [Pages -> Page]
        /\ \A q \in Pages \ {p} : page'[q] = page[q]
        /\ page'[p].phase = ph /\ page'[p].account = page[p].account
        /\ page'[p].mine = page[p].mine
    BY <2>1, MovedType DEF Phases
  <2>3. req' \in [Pages -> Request] /\ req'[p] = "idle" /\ \A q \in Pages \ {p} : req'[q] = req[q]
    BY <1>1, <1>t DEF Answered, Request
  <2>4. InvitesTypeOK'
    BY <1>1, <1>t, <2>2, <2>3 DEF Answered, InvitesTypeOK, inviteTables
  <2> QED BY <1>1, <1>t, <2>2, <2>3, <2>4, PageRests DEF Answered, inviteTables, PageInv
<1>2. ASSUME Crash(p) PROVE InvitesTInv'
  <2>0. crashes' \in 0..MaxCrashes
    BY <1>2, <1>t, InvitesAssumption DEF Crash, InvitesTypeOK
  <2>1. CASE req' = [req EXCEPT ![p] = "failed"] /\ UNCHANGED page
             /\ req[p] \notin {"idle", "refused", "wrong", "failed"}
    <3>1. "failed" \in Request /\ req[p] \in Accepting \cup SigningUp
      BY <1>t, <2>1 DEF Request, Accepting, SigningUp
    <3>2. InvitesTypeOK'
      BY <1>2, <1>t, <2>0, <2>1, <3>1 DEF Crash, InvitesTypeOK
    <3> QED BY <1>2, <2>1, <3>1, <3>2, RequestGoesOn DEF Crash
  <2>2. CASE page[p].phase = "loading" /\ Moved(p, "invalid") /\ UNCHANGED req
    <3>1. /\ page' \in [Pages -> Page]
          /\ \A q \in Pages \ {p} : page'[q] = page[q]
          /\ page'[p].phase = "invalid" /\ page'[p].account = page[p].account
          /\ page'[p].mine = page[p].mine
      BY <2>2, MovedType DEF Phases
    <3>2. req[p] = "idle"
      BY <1>r, <2>2
    <3>3. InvitesTypeOK'
      BY <1>2, <1>t, <2>0, <2>2, <3>1 DEF Crash, InvitesTypeOK
    <3> QED BY <1>2, <1>t, <2>2, <3>1, <3>2, <3>3, PageRests DEF Crash, PageInv
  <2> QED BY <1>2, <2>1, <2>2 DEF Crash
<1>3. ASSUME NEW u \in Accounts, SignIn(p, u) PROVE InvitesTInv'
  <2>1. req' = [req EXCEPT ![p] = "idle"]
    BY <1>3, <1>t DEF SignIn
  <2> QED BY <1>3, <2>1, PageSignsIn DEF SignIn
<1>4. ASSUME NEW u \in Accounts, SignUp(p, u) PROVE InvitesTInv'
  <2>1. page'[p] = [page[p] EXCEPT !.account = u] /\ \A q \in Pages \ {p} : page'[q] = page[q]
    BY <1>4, <1>t DEF SignUp, InvitesTypeOK
  <2>2. /\ page'[p] \in Page /\ page'[p].account = u /\ page'[p].mine = page[p].mine
        /\ page'[p].phase = page[p].phase
    BY <1>t, <2>1 DEF Page
  <2>3. page' \in [Pages -> Page]
    <3>1. page' = [page EXCEPT ![p] = [page[p] EXCEPT !.account = u]]
      BY <1>4, <1>t DEF SignUp, InvitesTypeOK
    <3> QED BY <1>t, <2>1, <2>2, <3>1, Zenon DEF InvitesTypeOK
  <2>4. req' \in [Pages -> Request] /\ req'[p] = "registered"
        /\ \A q \in Pages \ {p} : req'[q] = req[q]
    BY <1>4, <1>t DEF SignUp, Request
  <2>5. InvitesTypeOK'
    BY <1>4, <1>t, <2>3, <2>4 DEF SignUp, InvitesTypeOK
  <2>6. ASSUME NEW q \in Pages \ {p} PROVE PageInv(q)'
    BY <1>4, <2>1, <2>4, OthersKeep DEF SignUp
  <2>7. PageInv(p)'
    <3>1. u # "none" /\ "registered" \notin Accepting \cup {"refused", "wrong", "failed", "joined", "ok"}
          /\ "registered" \in SigningUp
      BY InvitesAssumption DEF Accepting, SigningUp
    <3> QED BY <1>4, <1>t, <2>2, <2>4, <3>1 DEF PageInv, SignUp
  <2> QED BY <2>5, <2>6, <2>7 DEF InvitesTInv
<1>5. ASSUME SignUpAnswered(p) PROVE InvitesTInv'
  <2>1. CASE req[p] = "signed"
    <3>1. page[p].account \in exists
      BY <1>t, <2>1 DEF PageInv, SigningUp
    <3> QED BY <1>5, <2>1, <3>1, PageSignsIn DEF SignUpAnswered
  <2>2. CASE req[p] # "signed"
    <3>1. page' = [page EXCEPT ![p] = [page[p] EXCEPT !.account = "none"]]
      BY <1>5, <1>t, <2>2 DEF SignUpAnswered, InvitesTypeOK
    <3>2. page'[p] = [page[p] EXCEPT !.account = "none"] /\ \A q \in Pages \ {p} : page'[q] = page[q]
      BY <1>t, <3>1 DEF InvitesTypeOK
    <3>3. /\ page'[p] \in Page /\ page'[p].account = "none" /\ page'[p].mine = page[p].mine
          /\ page'[p].phase = page[p].phase
      BY <1>t, <3>2 DEF Page
    <3>4. page' \in [Pages -> Page]
      BY <1>t, <3>1, <3>2, <3>3, Zenon DEF InvitesTypeOK
    <3>5. req' \in [Pages -> Request] /\ req'[p] = "idle"
          /\ \A q \in Pages \ {p} : req'[q] = req[q]
      BY <1>5, <1>t DEF SignUpAnswered, Request
    <3>6. InvitesTypeOK'
      BY <1>5, <1>t, <3>4, <3>5 DEF SignUpAnswered, InvitesTypeOK, inviteTables
    <3>7. ~page'[p].mine
      BY <1>5, <1>t, <3>3 DEF SignUpAnswered, PageInv
    <3> QED BY <1>5, <3>2, <3>3, <3>5, <3>6, <3>7, PageRests DEF SignUpAnswered, inviteTables
  <2> QED BY <2>1, <2>2
<1>6. ASSUME PersonalInfoCard(p) PROVE InvitesTInv'
  <2>1. page[p].account \in exists \cup {"none"}
    BY <1>t DEF PageInv
  <2>2. InvitesTypeOK'
    BY <1>6, <1>t, <2>1 DEF PersonalInfoCard, InvitesTypeOK
  <2>3. ASSUME NEW q \in Pages PROVE PageInv(q)'
    BY <1>6 DEF PersonalInfoCard, PageInv, InvitesTInv
  <2> QED BY <2>2, <2>3 DEF InvitesTInv
<1> QED BY <1>1, <1>2, <1>3, <1>4, <1>5, <1>6

LEMMA StepInvitesTInv ==
  ASSUME InvitesTInv, [InvitesNext]_ivars
  PROVE  InvitesTInv'
<1>1. CASE Invite \/ ExpireInvite \/ UNCHANGED ivars
  <2>1. InvitesTypeOK'
    <3>1. InvitesTypeOK /\ MaxInvites \in Nat
      BY InvitesAssumption DEF InvitesTInv
    <3>2. CASE Invite
      <4>1. invite.token + 1 \in 0..MaxInvites
        BY <3>1, <3>2 DEF Invite, InvitesTypeOK
      <4> QED BY <3>1, <3>2, <4>1 DEF Invite, InvitesTypeOK
    <3>3. CASE ExpireInvite
      BY <3>1, <3>3 DEF ExpireInvite, InvitesTypeOK
    <3>4. CASE UNCHANGED ivars
      BY <3>1, <3>4 DEF ivars, InvitesTypeOK
    <3> QED BY <1>1, <3>2, <3>3, <3>4
  <2>2. UNCHANGED <<exists, members, page, req>>
    BY <1>1 DEF Invite, ExpireInvite, ivars
  <2>3. ASSUME NEW p \in Pages PROVE PageInv(p)'
    BY <2>2 DEF PageInv, InvitesTInv
  <2> QED BY <2>1, <2>3 DEF InvitesTInv
<1>2. ASSUME NEW p \in Pages,
             \/ \E k \in 1..MaxInvites : Open(p, k)
             \/ InvitePreview(p) \/ Decide(p) \/ goSignIn(p) \/ signOut(p) \/ Forward(p)
      PROVE  InvitesTInv'
  BY <1>2, PageSteps
<1>3. ASSUME NEW p \in Pages,
             \/ AcceptRead(p) \/ AcceptJoin(p) \/ AcceptSave(p)
             \/ FindPending(p) \/ accept_pending_invites(p)
      PROVE  InvitesTInv'
  BY <1>3, ServerSteps
<1>4. ASSUME NEW p \in Pages,
             \/ Answered(p) \/ Crash(p) \/ SignUpAnswered(p) \/ PersonalInfoCard(p)
             \/ \E u \in Accounts : SignIn(p, u) \/ SignUp(p, u)
      PROVE  InvitesTInv'
  BY <1>4, FormSteps
<1> QED BY <1>1, <1>2, <1>3, <1>4 DEF InvitesNext

(* Both parts of the typed state hold throughout.                           *)
LEMMA InvitesTyped == InvitesSpec => []InvitesTInv
<1>1. InvitesInit => InvitesTInv
  BY InitInvitesTInv
<1>2. InvitesTInv /\ [InvitesNext]_ivars => InvitesTInv'
  BY StepInvitesTInv
<1> QED BY <1>1, <1>2, PTL DEF InvitesSpec

(* The tables, pages and requests keep their types; in particular who      *)
(* joins is an account that was created.                                   *)
THEOREM InvitesTypeCorrect == InvitesSpec => []InvitesTypeOK
<1>1. InvitesTInv => InvitesTypeOK
  BY DEF InvitesTInv
<1> QED BY <1>1, InvitesTyped, PTL

-----------------------------------------------------------------------------
(* While no account gave the invited address up: who is told to be a       *)
(* member by the preview is one, and the request that will use the invite  *)
(* up is made for the account that holds the address.                      *)
Holding == {"read", "joined", "ok"} \cup SigningUp

JoinInv(p) ==
  ~readdressed =>
    /\ page[p].mine \/ req[p] \in Holding => page[p].account = holder
    /\ page[p].mine /\ page[p].preview = "accepted" => page[p].account \in members
    /\ page[p].phase = "done" => page[p].account \in members

InvitesInv == NotLeftOut /\ \A p \in Pages : JoinInv(p)

LEMMA InitInvitesInv == InvitesInit => InvitesInv
<1>1. "idle" \notin Holding
  BY DEF Holding, SigningUp
<1> QED BY <1>1 DEF InvitesInit, InvitesInv, NotLeftOut, JoinInv

(* A step of a page that leaves the tables alone.                          *)
LEMMA PageStepKeeps ==
  ASSUME InvitesInv, NEW p \in Pages, UNCHANGED inviteTables,
         \A q \in Pages \ {p} : page'[q] = page[q] /\ req'[q] = req[q],
         JoinInv(p)'
  PROVE  InvitesInv'
<1>1. NotLeftOut'
  BY DEF InvitesInv, NotLeftOut, inviteTables
<1>2. ASSUME NEW q \in Pages \ {p} PROVE JoinInv(q)'
  BY DEF InvitesInv, JoinInv, inviteTables
<1> QED BY <1>1, <1>2 DEF InvitesInv

(* A page that is moved, and not to "done".                                *)
LEMMA MovedKeeps ==
  ASSUME InvitesTInv, InvitesInv, NEW p \in Pages, NEW phase \in Phases \ {"done"}, Moved(p, phase),
         UNCHANGED inviteTables, req'[p] = req[p] \/ req'[p] \notin Holding,
         \A q \in Pages \ {p} : req'[q] = req[q]
  PROVE  InvitesInv'
<1>1. /\ \A q \in Pages \ {p} : page'[q] = page[q]
      /\ page'[p].phase = phase /\ page'[p].account = page[p].account
      /\ page'[p].mine = page[p].mine /\ page'[p].preview = page[p].preview
  BY MovedType
<1>2. JoinInv(p)'
  BY <1>1 DEF InvitesInv, JoinInv, inviteTables
<1> QED BY <1>1, <1>2, PageStepKeeps

LEMMA LoadedKeeps ==
  ASSUME InvitesTInv, InvitesInv, NEW p \in Pages, NEW l \in 0..MaxInvites,
         NEW u \in exists \cup {"none"}, page' = Loading(p, l, u), UNCHANGED inviteTables,
         req' = [req EXCEPT ![p] = "idle"]
  PROVE  InvitesInv'
<1>1. /\ \A q \in Pages \ {p} : page'[q] = page[q]
      /\ page'[p].phase = "loading" /\ page'[p].account = u /\ page'[p].preview = "none"
      /\ page'[p].mine = (u # "none" /\ u = holder)
  BY LoadingType
<1>2. req'[p] = "idle" /\ \A q \in Pages \ {p} : req'[q] = req[q]
  BY DEF InvitesTInv, InvitesTypeOK
<1>3. "idle" \notin Holding
  BY DEF Holding, SigningUp
<1>4. JoinInv(p)'
  BY <1>1, <1>2, <1>3 DEF JoinInv, inviteTables
<1> QED BY <1>1, <1>2, <1>4, PageStepKeeps

LEMMA SignedInKeeps ==
  ASSUME InvitesTInv, InvitesInv, NEW p \in Pages, NEW u \in exists, SignedIn(p, u),
         page[p].phase = "signing", UNCHANGED inviteTables, req' = [req EXCEPT ![p] = "idle"]
  PROVE  InvitesInv'
<1>1. page[p] \in Page /\ ~page[p].mine
  BY DEF InvitesTInv, InvitesTypeOK, PageInv
<1>2. CASE page[p].link # 0
  BY <1>1, <1>2, LoadedKeeps DEF SignedIn, Page
<1>3. CASE page[p].link = 0
  <2>1. page' = [page EXCEPT ![p] = [page[p] EXCEPT !.phase = "dashboard", !.account = u]]
    BY <1>3 DEF SignedIn, InvitesTInv, InvitesTypeOK
  <2>2. page'[p] = [page[p] EXCEPT !.phase = "dashboard", !.account = u]
        /\ \A q \in Pages \ {p} : page'[q] = page[q]
    BY <2>1 DEF InvitesTInv, InvitesTypeOK
  <2>3. ~page'[p].mine /\ page'[p].phase = "dashboard"
    BY <1>1, <2>2 DEF Page
  <2>4. req'[p] = "idle" /\ \A q \in Pages \ {p} : req'[q] = req[q]
    BY DEF InvitesTInv, InvitesTypeOK
  <2>5. "idle" \notin Holding
    BY DEF Holding, SigningUp
  <2>6. JoinInv(p)'
    BY <2>3, <2>4, <2>5 DEF JoinInv
  <2> QED BY <2>2, <2>4, <2>6, PageStepKeeps
<1> QED BY <1>2, <1>3

(* Nobody with an account to join by holds no address.                     *)
LEMMA NoneIsNoMember ==
  ASSUME InvitesTInv PROVE "none" \notin members /\ "none" \notin exists
  BY InvitesAssumption DEF InvitesTInv, InvitesTypeOK

(* The page by itself.                                                     *)
LEMMA PageStepsHold ==
  ASSUME InvitesTInv, InvitesInv, NEW p \in Pages
  PROVE  /\ \A k \in 1..MaxInvites : Open(p, k) => InvitesInv'
         /\ InvitePreview(p) => InvitesInv'
         /\ Decide(p) => InvitesInv'
         /\ goSignIn(p) => InvitesInv'
         /\ signOut(p) => InvitesInv'
         /\ Forward(p) => InvitesInv'
         /\ \A u \in Accounts : SignIn(p, u) => InvitesInv'
         /\ SignUpAnswered(p) => InvitesInv'
         /\ Answered(p) => InvitesInv'
<1>t. InvitesTypeOK /\ PageInv(p) /\ page[p] \in Page /\ JoinInv(p) /\ NotLeftOut
      /\ req \in [Pages -> Request]
  BY DEF InvitesTInv, InvitesTypeOK, InvitesInv
<1>h. "idle" \notin Holding /\ "sent" \notin Holding
  BY DEF Holding, SigningUp
<1>1. ASSUME NEW k \in 1..MaxInvites, Open(p, k) PROVE InvitesInv'
  <2>1. k \in 0..MaxInvites /\ page[p].account \in exists \cup {"none"}
    BY <1>t, InvitesAssumption DEF PageInv
  <2>2. req' = [req EXCEPT ![p] = "idle"]
    BY <1>1, <1>t DEF Open
  <2> QED BY <1>1, <2>1, <2>2, LoadedKeeps DEF Open
<1>2. ASSUME InvitePreview(p) PROVE InvitesInv'
  <2>1. PICK v \in Previews :
          /\ page' = [page EXCEPT ![p] = [page[p] EXCEPT !.preview = v]]
          /\ v = "accepted" => invite.status = "accepted"
    BY <1>2, <1>t DEF InvitePreview, Previews, InvitesTypeOK
  <2>2. page'[p] = [page[p] EXCEPT !.preview = v] /\ \A q \in Pages \ {p} : page'[q] = page[q]
    BY <1>t, <2>1 DEF InvitesTypeOK
  <2>3. /\ page'[p].phase = page[p].phase /\ page'[p].preview = v
        /\ page'[p].account = page[p].account /\ page'[p].mine = page[p].mine
    BY <1>t, <2>2 DEF Page
  <2>4. JoinInv(p)'
    BY <1>2, <1>t, <2>1, <2>3 DEF InvitePreview, JoinInv, NotLeftOut, inviteTables
  <2> QED BY <1>2, <2>2, <2>4, PageStepKeeps DEF InvitePreview
<1>3. ASSUME Decide(p) PROVE InvitesInv'
  <2>1. CASE Moved(p, "done") /\ UNCHANGED req /\ page[p].mine /\ page[p].preview = "accepted"
    <3>1. /\ \A q \in Pages \ {p} : page'[q] = page[q]
          /\ page'[p].phase = "done" /\ page'[p].account = page[p].account
          /\ page'[p].mine = page[p].mine /\ page'[p].preview = page[p].preview
      BY <2>1, MovedType DEF Phases
    <3>2. UNCHANGED inviteTables
      BY <1>3, DecideCases
    <3>3. JoinInv(p)'
      BY <1>t, <2>1, <3>1, <3>2 DEF JoinInv, inviteTables
    <3> QED BY <2>1, <3>1, <3>2, <3>3, PageStepKeeps
  <2>2. ASSUME NEW ph \in {"invalid", "ready", "wrong"}, Moved(p, ph), UNCHANGED req
        PROVE  InvitesInv'
    <3>1. ph \in Phases \ {"done"} /\ UNCHANGED inviteTables
      BY <1>3, DecideCases DEF Phases
    <3> QED BY <2>2, <3>1, MovedKeeps
  <2>3. CASE Moved(p, "joining") /\ req' = [req EXCEPT ![p] = "sent"]
    <3>1. "joining" \in Phases \ {"done"} /\ UNCHANGED inviteTables
      BY <1>3, DecideCases DEF Phases
    <3>2. req'[p] = "sent" /\ \A q \in Pages \ {p} : req'[q] = req[q]
      BY <1>t, <2>3
    <3> QED BY <1>h, <2>3, <3>1, <3>2, MovedKeeps
  <2>4. \/ \E ph \in {"invalid", "ready", "wrong"} : Moved(p, ph) /\ UNCHANGED req
        \/ Moved(p, "done") /\ UNCHANGED req /\ page[p].mine /\ page[p].preview = "accepted"
        \/ Moved(p, "joining") /\ req' = [req EXCEPT ![p] = "sent"]
    BY <1>3, DecideCases
  <2> QED BY <2>1, <2>2, <2>3, <2>4
<1>4. ASSUME goSignIn(p) \/ Forward(p) PROVE InvitesInv'
  <2>1. PICK ph \in {"signing", "dashboard"} : Moved(p, ph)
    BY <1>4 DEF goSignIn, Forward
  <2>2. ph \in Phases \ {"done"}
    BY DEF Phases
  <2> QED BY <1>4, <2>1, <2>2, MovedKeeps DEF goSignIn, Forward
<1>5. ASSUME signOut(p) PROVE InvitesInv'
  <2>1. PICK ph \in {"ready", "invalid"} :
          page' = [page EXCEPT ![p].account = "none", ![p].mine = FALSE, ![p].phase = ph]
    BY <1>5 DEF signOut
  <2>2. page' = [page EXCEPT ![p] = [page[p] EXCEPT !.account = "none", !.mine = FALSE, !.phase = ph]]
    BY <1>t, <2>1 DEF InvitesTypeOK
  <2>3. /\ page'[p] = [page[p] EXCEPT !.account = "none", !.mine = FALSE, !.phase = ph]
        /\ \A q \in Pages \ {p} : page'[q] = page[q]
    BY <1>t, <2>2 DEF InvitesTypeOK
  <2>4. page'[p].mine = FALSE /\ page'[p].phase # "done"
    BY <1>t, <2>3 DEF Page
  <2>5. req[p] = "idle"
    BY <1>5, <1>t DEF signOut, PageInv, Accepting, SigningUp, Request
  <2>6. JoinInv(p)'
    BY <1>5, <1>h, <2>4, <2>5 DEF JoinInv, signOut
  <2> QED BY <1>5, <2>3, <2>6, PageStepKeeps DEF signOut
<1>6. ASSUME NEW u \in Accounts, SignIn(p, u) PROVE InvitesInv'
  <2>1. req' = [req EXCEPT ![p] = "idle"]
    BY <1>6, <1>t DEF SignIn
  <2> QED BY <1>6, <2>1, SignedInKeeps DEF SignIn
<1>7. ASSUME SignUpAnswered(p) PROVE InvitesInv'
  <2>1. CASE req[p] = "signed"
    <3>1. page[p].account \in exists
      BY <1>t, <2>1 DEF PageInv, SigningUp
    <3> QED BY <1>7, <2>1, <3>1, SignedInKeeps DEF SignUpAnswered
  <2>2. CASE req[p] # "signed"
    <3>1. page' = [page EXCEPT ![p] = [page[p] EXCEPT !.account = "none"]]
      BY <1>7, <1>t, <2>2 DEF SignUpAnswered, InvitesTypeOK
    <3>2. page'[p] = [page[p] EXCEPT !.account = "none"] /\ \A q \in Pages \ {p} : page'[q] = page[q]
      BY <1>t, <3>1 DEF InvitesTypeOK
    <3>3. ~page'[p].mine /\ page'[p].phase = "signing"
      BY <1>7, <1>t, <3>2 DEF Page, SignUpAnswered, PageInv
    <3>4. req'[p] = "idle" /\ \A q \in Pages \ {p} : req'[q] = req[q]
      BY <1>7, <1>t DEF SignUpAnswered
    <3>5. JoinInv(p)'
      BY <1>h, <3>3, <3>4 DEF JoinInv
    <3> QED BY <1>7, <3>2, <3>4, <3>5, PageStepKeeps DEF SignUpAnswered
  <2> QED BY <2>1, <2>2
<1>8. ASSUME Answered(p) PROVE InvitesInv'
  <2>1. PICK ph \in {"done", "wrong", "error"} : Moved(p, ph) /\ (ph = "done" => req[p] = "ok")
    BY <1>8 DEF Answered
  <2>2. /\ \A q \in Pages \ {p} : page'[q] = page[q]
        /\ page'[p].phase = ph /\ page'[p].account = page[p].account
        /\ page'[p].mine = page[p].mine /\ page'[p].preview = page[p].preview
    BY <2>1, MovedType DEF Phases
  <2>3. req'[p] = "idle" /\ \A q \in Pages \ {p} : req'[q] = req[q]
    BY <1>8, <1>t DEF Answered
  <2>4. ph = "done" => page[p].account \in members
    BY <1>t, <2>1 DEF PageInv
  <2>5. JoinInv(p)'
    BY <1>8, <1>h, <1>t, <2>2, <2>3, <2>4 DEF JoinInv, Answered, inviteTables
  <2> QED BY <1>8, <2>2, <2>3, <2>5, PageStepKeeps DEF Answered
<1> QED BY <1>1, <1>2, <1>3, <1>4, <1>5, <1>6, <1>7, <1>8

(* A step that leaves the pages alone.                                     *)
LEMMA TablesStepKeeps ==
  ASSUME InvitesInv, UNCHANGED <<page, holder, readdressed>>, members \subseteq members', NotLeftOut',
         \A p \in Pages : req'[p] \in Holding => req[p] \in Holding \/ page[p].account = holder
  PROVE  InvitesInv'
  BY DEF InvitesInv, JoinInv

LEMMA TableStepsHold ==
  ASSUME InvitesTInv, InvitesInv, NEW p \in Pages
  PROVE  /\ AcceptRead(p) => InvitesInv'
         /\ AcceptJoin(p) => InvitesInv'
         /\ AcceptSave(p) => InvitesInv'
         /\ FindPending(p) => InvitesInv'
         /\ accept_pending_invites(p) => InvitesInv'
         /\ Crash(p) => InvitesInv'
         /\ \A u \in Accounts : SignUp(p, u) => InvitesInv'
         /\ PersonalInfoCard(p) => InvitesInv'
<1>t. InvitesTypeOK /\ PageInv(p) /\ page[p] \in Page /\ JoinInv(p) /\ NotLeftOut
      /\ req \in [Pages -> Request]
  BY DEF InvitesTInv, InvitesTypeOK, InvitesInv
<1>h. /\ {"read", "joined", "ok", "found", "signed", "registered"} \subseteq Holding
      /\ "idle" \notin Holding /\ "failed" \notin Holding /\ "refused" \notin Holding
      /\ "wrong" \notin Holding
  BY DEF Holding, SigningUp
<1>n. "none" \notin members /\ "none" \notin exists
  BY NoneIsNoMember
<1>1. ASSUME AcceptRead(p) PROVE InvitesInv'
  <2>1. NotLeftOut'
    BY <1>1, <1>t DEF AcceptRead, NotLeftOut, inviteTables
  <2>2. ASSUME NEW q \in Pages, req'[q] \in Holding
        PROVE  req[q] \in Holding \/ page[q].account = holder
    BY <1>1, <1>t, <1>h, <2>2 DEF AcceptRead
  <2> QED BY <1>1, <2>1, <2>2, TablesStepKeeps DEF AcceptRead, inviteTables
<1>2. ASSUME AcceptJoin(p) PROVE InvitesInv'
  <2>1. NotLeftOut'
    BY <1>2, <1>t DEF AcceptJoin, NotLeftOut
  <2>2. ASSUME NEW q \in Pages, req'[q] \in Holding
        PROVE  req[q] \in Holding \/ page[q].account = holder
    BY <1>2, <1>t, <1>h, <2>2 DEF AcceptJoin
  <2> QED BY <1>2, <2>1, <2>2, TablesStepKeeps DEF AcceptJoin
<1>3. ASSUME AcceptSave(p) PROVE InvitesInv'
  <2>1. page[p].account \in members /\ (~readdressed => page[p].account = holder)
    BY <1>3, <1>t, <1>h DEF AcceptSave, PageInv, JoinInv
  <2>2. NotLeftOut'
    BY <1>3, <2>1 DEF AcceptSave, NotLeftOut
  <2>3. ASSUME NEW q \in Pages, req'[q] \in Holding
        PROVE  req[q] \in Holding \/ page[q].account = holder
    BY <1>3, <1>t, <1>h, <2>3 DEF AcceptSave
  <2> QED BY <1>3, <2>2, <2>3, TablesStepKeeps DEF AcceptSave
<1>4. ASSUME FindPending(p) PROVE InvitesInv'
  <2>1. NotLeftOut'
    BY <1>4, <1>t DEF FindPending, NotLeftOut, inviteTables
  <2>2. ASSUME NEW q \in Pages, req'[q] \in Holding
        PROVE  req[q] \in Holding \/ page[q].account = holder
    BY <1>4, <1>t, <1>h, <2>2 DEF FindPending
  <2> QED BY <1>4, <2>1, <2>2, TablesStepKeeps DEF FindPending, inviteTables
<1>5. ASSUME accept_pending_invites(p) PROVE InvitesInv'
  <2>1. page[p].account \in members' /\ (~readdressed => page[p].account = holder)
    BY <1>5, <1>t, <1>h DEF accept_pending_invites, JoinInv
  <2>2. NotLeftOut'
    BY <1>5, <2>1 DEF accept_pending_invites, NotLeftOut
  <2>3. ASSUME NEW q \in Pages, req'[q] \in Holding
        PROVE  req[q] \in Holding \/ page[q].account = holder
    BY <1>5, <1>t, <1>h, <2>3 DEF accept_pending_invites
  <2> QED BY <1>5, <2>2, <2>3, TablesStepKeeps DEF accept_pending_invites
<1>6. ASSUME Crash(p) PROVE InvitesInv'
  <2>1. UNCHANGED <<invite, exists, holder, members, readdressed>> /\ NotLeftOut'
    BY <1>6, <1>t DEF Crash, NotLeftOut
  <2>2. CASE req' = [req EXCEPT ![p] = "failed"] /\ UNCHANGED page
    <3>1. ASSUME NEW q \in Pages, req'[q] \in Holding
          PROVE  req[q] \in Holding \/ page[q].account = holder
      BY <1>t, <1>h, <2>2, <3>1
    <3> QED BY <2>1, <2>2, <3>1, TablesStepKeeps
  <2>3. CASE Moved(p, "invalid") /\ UNCHANGED req
    <3>1. /\ \A q \in Pages \ {p} : page'[q] = page[q]
          /\ page'[p].phase = "invalid" /\ page'[p].account = page[p].account
          /\ page'[p].mine = page[p].mine /\ page'[p].preview = page[p].preview
      BY <2>3, MovedType DEF Phases
    <3>2. ASSUME NEW q \in Pages PROVE JoinInv(q)'
      BY <2>1, <2>3, <3>1 DEF InvitesInv, JoinInv
    <3> QED BY <2>1, <3>2 DEF InvitesInv
  <2> QED BY <1>6, <2>2, <2>3 DEF Crash
<1>7. ASSUME NEW u \in Accounts, SignUp(p, u) PROVE InvitesInv'
  <2>1. page'[p] = [page[p] EXCEPT !.account = u] /\ \A q \in Pages \ {p} : page'[q] = page[q]
    BY <1>7, <1>t DEF SignUp, InvitesTypeOK
  <2>2. /\ page'[p].account = u /\ page'[p].mine = page[p].mine
        /\ page'[p].phase = page[p].phase /\ page'[p].preview = page[p].preview
    BY <1>t, <2>1 DEF Page
  <2>3. \A q \in Pages \ {p} : req'[q] = req[q]
    BY <1>7, <1>t DEF SignUp
  <2>4. NotLeftOut'
    BY <1>7, <1>t, <1>n DEF SignUp, NotLeftOut
  <2>5. JoinInv(p)'
    BY <1>7, <1>t, <2>2 DEF SignUp, JoinInv, PageInv
  <2>6. ASSUME NEW q \in Pages \ {p} PROVE JoinInv(q)'
    <3>1. JoinInv(q) /\ PageInv(q)
      BY DEF InvitesInv, InvitesTInv
    <3>2. page[q].mine \/ req[q] \in Holding => page[q].account # "none"
      BY <3>1 DEF PageInv, Holding, Accepting
    <3> QED BY <1>7, <2>1, <2>3, <3>1, <3>2 DEF SignUp, JoinInv
  <2> QED BY <2>4, <2>5, <2>6 DEF InvitesInv
<1>8. ASSUME PersonalInfoCard(p) PROVE InvitesInv'
  <2>1. NotLeftOut'
    BY <1>8, <1>t, <1>n DEF PersonalInfoCard, NotLeftOut, InvitesTypeOK
  <2>2. ASSUME NEW q \in Pages PROVE JoinInv(q)'
    <3>1. JoinInv(q) /\ PageInv(q)
      BY DEF InvitesInv, InvitesTInv
    <3>2. page[q].mine \/ req[q] \in Holding => page[q].account # "none"
      BY <3>1 DEF PageInv, Holding, Accepting
    <3> QED BY <1>8, <3>1, <3>2 DEF PersonalInfoCard, JoinInv
  <2> QED BY <2>1, <2>2 DEF InvitesInv
<1> QED BY <1>1, <1>2, <1>3, <1>4, <1>5, <1>6, <1>7, <1>8

LEMMA StepInvitesInv ==
  ASSUME InvitesTInv, InvitesInv, [InvitesNext]_ivars
  PROVE  InvitesInv'
<1>1. CASE Invite \/ ExpireInvite \/ UNCHANGED ivars
  <2>1. UNCHANGED <<exists, members, holder, readdressed, page, req>>
    BY <1>1 DEF Invite, ExpireInvite, ivars
  <2>2. invite'.status = "accepted" => invite.status = "accepted"
    BY <1>1 DEF Invite, ExpireInvite, ivars, InvitesTInv, InvitesTypeOK
  <2>3. NotLeftOut'
    BY <2>1, <2>2 DEF NotLeftOut, InvitesInv
  <2> QED BY <2>1, <2>3, TablesStepKeeps
<1>2. ASSUME NEW p \in Pages,
             \/ \E k \in 1..MaxInvites : Open(p, k)
             \/ InvitePreview(p) \/ Decide(p) \/ goSignIn(p) \/ signOut(p) \/ Forward(p)
             \/ SignUpAnswered(p) \/ Answered(p) \/ \E u \in Accounts : SignIn(p, u)
      PROVE  InvitesInv'
  BY <1>2, PageStepsHold
<1>3. ASSUME NEW p \in Pages,
             \/ AcceptRead(p) \/ AcceptJoin(p) \/ AcceptSave(p) \/ Crash(p)
             \/ FindPending(p) \/ accept_pending_invites(p) \/ PersonalInfoCard(p)
             \/ \E u \in Accounts : SignUp(p, u)
      PROVE  InvitesInv'
  BY <1>3, TableStepsHold
<1> QED BY <1>1, <1>2, <1>3 DEF InvitesNext

(* The page never tells somebody who is not a member that they joined,     *)
(* with whatever account, through whatever link, while no account gives    *)
(* the invited address up.                                                 *)
THEOREM DoneIsTrue == InvitesSpec => []DoneMeansMember
<1>1. InvitesSpec => []InvitesInv
  BY InitInvitesInv, StepInvitesInv, InvitesTyped, PTL DEF InvitesSpec
<1>2. InvitesInv => DoneMeansMember
  BY DEF InvitesInv, JoinInv, DoneMeansMember
<1> QED BY <1>1, <1>2, PTL

(* Whatever dies or overlaps, an invite is used up only by a membership.   *)
THEOREM NobodyLeftOut == InvitesSpec => []NotLeftOut
<1>1. InvitesSpec => []InvitesInv
  BY InitInvitesInv, StepInvitesInv, InvitesTyped, PTL DEF InvitesSpec
<1> QED BY <1>1, PTL DEF InvitesInv

(***************************************************************************)
(* Assigning an issue                                                      *)
(***************************************************************************)

(* Unless the user hurries one save is under way at a time, and it brings  *)
(* the set the user put together; with none, a row that is not stale, and  *)
(* the answer of its fetch, have that set.                                 *)
TogglesInv ==
  ~hurried =>
    /\ \A s \in SaveSlots : s # latest => saves[s].phase = "idle"
    /\ saves[latest].phase = "sent" => saves[latest].ids = meant
    /\ saves[latest].phase = "ok" => assignees = meant
    /\ saves[latest].phase = "idle" =>
         /\ assignees = meant
         /\ ~stale => assigned = meant
         /\ rowFetch.phase = "answered" => rowFetch.set = meant

Fetches == [phase : {"idle", "asked", "answered"}, set : SUBSET Members]
AssigneesInv == AssigneesTypeOK /\ rowFetch \in Fetches /\ TogglesInv

LEMMA InitAssigneesInv == AssigneesInit => AssigneesInv
<1> SUFFICES ASSUME AssigneesInit PROVE AssigneesInv
  OBVIOUS
<1>1. NoSave \in Save /\ NoSave.phase = "idle" /\ NoFetch \in Fetches /\ NoFetch.phase = "idle"
  BY DEF NoSave, Save, NoFetch, Fetches
<1>2. AssigneesTypeOK /\ rowFetch \in Fetches
  <2>1. saves \in [SaveSlots -> Save] /\ latest \in SaveSlots /\ toggles \in 0..MaxToggles
    BY <1>1, AssigneesAssumption DEF AssigneesInit, SaveSlots
  <2>2. /\ assignees \subseteq Members /\ assigned \subseteq Members /\ meant \subseteq Members
        /\ open \in BOOLEAN /\ stale \in BOOLEAN /\ hurried \in BOOLEAN /\ rowFetch \in Fetches
    BY <1>1 DEF AssigneesInit
  <2> QED BY <2>1, <2>2 DEF AssigneesTypeOK, Fetches
<1>3. TogglesInv
  BY <1>1 DEF AssigneesInit, TogglesInv, SaveSlots
<1> QED BY <1>2, <1>3 DEF AssigneesInv

(* A toggle: the slot it takes, and what it says.                          *)
LEMMA ToggleHolds ==
  ASSUME AssigneesInv, NEW u \in Members, toggle(u),
         \/ ~saving /\ hurried' = (hurried \/ stale)
         \/ hurried' = (hurried \/ saving \/ stale)
  PROVE  AssigneesInv'
<1> DEFINE ids == Flip(assigned, u)
           request == [phase |-> "sent", ids |-> ids]
<1>1. /\ assigned \subseteq Members /\ meant \subseteq Members /\ saves \in [SaveSlots -> Save]
      /\ latest \in SaveSlots /\ toggles \in 0..MaxToggles /\ stale \in BOOLEAN /\ hurried \in BOOLEAN
      /\ assignees \subseteq Members /\ rowFetch \in Fetches /\ open \in BOOLEAN
  BY DEF AssigneesInv, AssigneesTypeOK
<1>2. ids \subseteq Members /\ Flip(meant, u) \subseteq Members
  BY <1>1 DEF Flip
<1>3. PICK s \in SaveSlots : /\ saves[s].phase = "idle" /\ saves' = [saves EXCEPT ![s] = request]
                             /\ latest' = s
  BY DEF toggle
<1>4. /\ toggles' = toggles + 1 /\ toggles < MaxToggles /\ meant' = Flip(meant, u)
      /\ UNCHANGED <<assignees, open, assigned, stale, rowFetch>>
  BY DEF toggle
<1>5. request \in Save /\ request.phase = "sent" /\ request.ids = ids
  BY <1>2 DEF Save
<1> HIDE DEF request
<1>6. /\ saves' \in [SaveSlots -> Save] /\ saves'[s] = request
      /\ \A r \in SaveSlots \ {s} : saves'[r] = saves[r]
  BY <1>1, <1>3, <1>5
<1>7. AssigneesTypeOK' /\ rowFetch' \in Fetches
  <2>1. toggles' \in 0..MaxToggles
    BY <1>1, <1>4, AssigneesAssumption
  <2>2. hurried' \in BOOLEAN
    BY <1>1 DEF saving
  <2> QED BY <1>1, <1>2, <1>3, <1>4, <1>6, <2>1, <2>2 DEF AssigneesTypeOK, Fetches
<1>8. ASSUME ~hurried' PROVE TogglesInv'
  <2>1. ~hurried /\ ~stale /\ saves[latest].phase = "idle"
    BY <1>8 DEF saving
  <2>2. assigned = meant /\ \A r \in SaveSlots : saves[r].phase = "idle"
    BY <2>1 DEF AssigneesInv, TogglesInv
  <2>3. request.ids = meant'
    BY <1>4, <1>5, <2>2
  <2> QED BY <1>3, <1>5, <1>6, <2>2, <2>3 DEF TogglesInv
<1> QED BY <1>7, <1>8 DEF AssigneesInv, TogglesInv

LEMMA StepAssigneesInv == AssigneesInv /\ [AssigneesNext]_avars => AssigneesInv'
<1> SUFFICES ASSUME AssigneesInv, [AssigneesNext]_avars PROVE AssigneesInv'
  OBVIOUS
<1>0. /\ assigned \subseteq Members /\ meant \subseteq Members /\ saves \in [SaveSlots -> Save]
      /\ latest \in SaveSlots /\ toggles \in 0..MaxToggles /\ stale \in BOOLEAN /\ hurried \in BOOLEAN
      /\ assignees \subseteq Members /\ rowFetch \in Fetches /\ open \in BOOLEAN /\ TogglesInv
      /\ \A s \in SaveSlots : saves[s] \in Save /\ saves[s].ids \subseteq Members
  BY DEF AssigneesInv, AssigneesTypeOK, Save
<1>a. /\ NoSave \in Save /\ NoSave.phase = "idle" /\ NoFetch \in Fetches /\ NoFetch.phase = "idle"
      /\ [phase |-> "asked", set |-> {}] \in Fetches
  BY DEF NoSave, Save, NoFetch, Fetches
<1>1. CASE UNCHANGED avars
  BY <1>0, <1>1 DEF avars, AssigneesInv, AssigneesTypeOK, TogglesInv
<1>2. CASE SetOpen
  BY <1>0, <1>2 DEF SetOpen, AssigneesInv, AssigneesTypeOK, TogglesInv
<1>3. CASE RefetchRow
  <2>1. rowFetch' = [phase |-> "asked", set |-> {}]
        /\ UNCHANGED <<assignees, open, assigned, stale, saves, latest, meant, hurried, toggles>>
    BY <1>3 DEF RefetchRow
  <2> QED BY <1>0, <1>a, <2>1 DEF AssigneesInv, AssigneesTypeOK, TogglesInv
<1>4. CASE ServeFetch
  <2>1. /\ rowFetch' = [phase |-> "answered", set |-> assignees]
        /\ UNCHANGED <<assignees, open, assigned, stale, saves, latest, meant, hurried, toggles>>
    BY <1>4 DEF ServeFetch
  <2>2. rowFetch' \in Fetches /\ rowFetch'.set = assignees /\ rowFetch'.phase = "answered"
    BY <1>0, <2>1 DEF Fetches
  <2> QED BY <1>0, <2>1, <2>2 DEF AssigneesInv, AssigneesTypeOK, TogglesInv
<1>5. CASE Show
  <2>1. /\ rowFetch.phase = "answered" /\ assigned' = rowFetch.set /\ stale' = FALSE
        /\ rowFetch' = NoFetch /\ rowFetch.set \subseteq Members
        /\ UNCHANGED <<assignees, open, saves, latest, meant, hurried, toggles>>
    BY <1>0, <1>5 DEF Show, Fetches
  <2>2. AssigneesTypeOK' /\ rowFetch' \in Fetches
    BY <1>0, <1>a, <2>1 DEF AssigneesTypeOK, Fetches
  <2>3. TogglesInv'
    BY <1>0, <1>a, <2>1 DEF TogglesInv
  <2> QED BY <2>2, <2>3 DEF AssigneesInv
<1>6. ASSUME NEW u \in Members, Click(u) \/ onOptionKey(u) PROVE AssigneesInv'
  BY <1>6, ToggleHolds DEF Click, onOptionKey
<1>7. ASSUME NEW s \in SaveSlots, assign(s) PROVE AssigneesInv'
  <2>1. /\ saves[s].phase = "sent" /\ assignees' = saves[s].ids
        /\ saves' = [saves EXCEPT ![s].phase = "ok"]
        /\ UNCHANGED <<open, assigned, stale, rowFetch, latest, meant, hurried, toggles>>
    BY <1>7 DEF assign
  <2>2. /\ saves' \in [SaveSlots -> Save] /\ saves'[s].phase = "ok"
        /\ \A r \in SaveSlots \ {s} : saves'[r] = saves[r]
    BY <1>0, <2>1 DEF Save
  <2>3. TogglesInv'
    BY <1>0, <2>1, <2>2 DEF TogglesInv
  <2> QED BY <1>0, <2>1, <2>2, <2>3 DEF AssigneesInv, AssigneesTypeOK
<1>8. ASSUME NEW s \in SaveSlots, invalidate(s) PROVE AssigneesInv'
  <2>1. /\ saves[s].phase = "ok" /\ saves' = [saves EXCEPT ![s] = NoSave]
        /\ rowFetch' = [phase |-> "asked", set |-> {}] /\ stale' = TRUE
        /\ UNCHANGED <<assignees, open, assigned, latest, meant, hurried, toggles>>
    BY <1>8 DEF invalidate
  <2>2. /\ saves' \in [SaveSlots -> Save] /\ saves'[s] = NoSave
        /\ \A r \in SaveSlots \ {s} : saves'[r] = saves[r]
    BY <1>0, <1>a, <2>1
  <2>3. rowFetch' \in Fetches /\ rowFetch'.phase = "asked" /\ rowFetch'.set = {}
    BY <1>a, <2>1
  <2>4. TogglesInv'
    BY <1>0, <1>a, <2>1, <2>2, <2>3 DEF TogglesInv
  <2> QED BY <1>0, <2>1, <2>2, <2>3, <2>4 DEF AssigneesInv, AssigneesTypeOK
<1> QED BY <1>1, <1>2, <1>3, <1>4, <1>5, <1>6, <1>7, <1>8 DEF AssigneesNext

LEMMA AssigneesSafe == AssigneesSpec => []AssigneesInv
<1> QED BY InitAssigneesInv, StepAssigneesInv, PTL DEF AssigneesSpec

(* The picker, the row and the saves keep their types.                     *)
THEOREM AssigneesTypesCorrect == AssigneesSpec => []AssigneesTypeOK
<1>1. AssigneesInv => AssigneesTypeOK
  BY DEF AssigneesInv
<1> QED BY <1>1, AssigneesSafe, PTL

(* Who is ticked one member at a time, and waits for the row, gets the set *)
(* that was put together.                                                  *)
THEOREM TickedIsAssigned == AssigneesSpec => []TogglesKept
<1>1. AssigneesInv => TogglesKept
  BY DEF AssigneesInv, AssigneesTypeOK, TogglesInv, TogglesKept
<1> QED BY <1>1, AssigneesSafe, PTL

(***************************************************************************)
(* The organization and the project of a tab                               *)
(***************************************************************************)

(* A set of numbers has a least one, and so a list has a first entry.      *)
LEMMA LeastIs == ASSUME NEW S \in SUBSET Nat, S # {} PROVE \E x \in S : \A y \in S : x <= y
<1>0. PICK R : R = OpToRel(<, Nat)
  OBVIOUS
<1>1. IsWellFoundedOn(R, Nat)
  BY <1>0, NatLessThanWellFounded
<1>2. \A x, y \in Nat : y < x => <<y, x>> \in R
  BY <1>0 DEF OpToRel
<1>3. PICK x \in S : \A y \in S : ~(<<y, x>> \in R)
  BY <1>1, WFMin
<1>4. ASSUME NEW y \in S PROVE x <= y
  <2>1. ~(y < x)
    BY <1>2, <1>3
  <2> QED BY <2>1
<1> QED BY <1>4

LEMMA FirstIs == ASSUME NEW S \in SUBSET (Nat \X Nat), S # {} PROVE First(S) \in S
<1>1. PICK a \in {x[1] : x \in S} : \A b \in {x[1] : x \in S} : a <= b
  <2>1. {x[1] : x \in S} \in SUBSET Nat /\ {x[1] : x \in S} # {}
    OBVIOUS
  <2> QED BY <2>1, LeastIs
<1>2. PICK c \in {x[2] : x \in {y \in S : y[1] = a}} : \A d \in {x[2] : x \in {y \in S : y[1] = a}} : c <= d
  <2>1. /\ {x[2] : x \in {y \in S : y[1] = a}} \in SUBSET Nat
        /\ {x[2] : x \in {y \in S : y[1] = a}} # {}
    OBVIOUS
  <2> QED BY <2>1, LeastIs
<1>3. PICK x \in S : x[1] = a /\ x[2] = c
  OBVIOUS
<1>4. ASSUME NEW y \in S PROVE x[1] < y[1] \/ (x[1] = y[1] /\ x[2] <= y[2])
  <2>1. x[1] \in Nat /\ y[1] \in Nat /\ x[1] <= y[1]
    BY <1>1, <1>3
  <2>2. y[1] = a => x[2] <= y[2]
    BY <1>2, <1>3
  <2> QED BY <1>3, <2>1, <2>2
<1>5. \E z \in S : \A y \in S : z[1] < y[1] \/ (z[1] = y[1] /\ z[2] <= y[2])
  BY <1>4
<1> QED BY <1>5 DEF First

LEMMA KeysAre ==
  /\ None \in Keys /\ None \notin Orgs /\ None \notin Projects /\ Keys = {None} \cup Orgs
  /\ Orgs \subseteq Nat \X Nat /\ Projects \subseteq Nat \X Nat /\ {} \in Lists
  /\ \A k \in Keys : /\ ListsOf(k) \subseteq Lists /\ {} \in ListsOf(k)
                     /\ \A l \in ListsOf(k) : None \notin l
                     /\ \A l \in ListsOf(k) : k = None => l \subseteq Orgs
                     /\ \A l \in ListsOf(k) : k # None => l \subseteq Projects
<1>1. None \in Keys /\ None \notin Orgs /\ None \notin Projects /\ Keys = {None} \cup Orgs
  BY SelectionAssumption DEF None, Keys, Orgs, Projects
<1>2. Orgs \subseteq Nat \X Nat /\ Projects \subseteq Nat \X Nat
  <2>1. OrgNumbers \subseteq Nat /\ ProjectNumbers \subseteq Nat /\ {0} \subseteq Nat
    BY SelectionAssumption
  <2> QED BY <2>1 DEF Orgs, Projects
<1>3. \A k \in Orgs : ProjectsOf(k) \subseteq Projects
  BY DEF Orgs, ProjectsOf, Projects
<1> QED BY <1>1, <1>2, <1>3 DEF Lists, ListsOf

LEMMA RestoredIs ==
  ASSUME NEW list \in SUBSET (Nat \X Nat), NEW id
  PROVE  /\ Restored(list, id) \in list \cup {None} /\ Current(list, id) \in list \cup {None}
         /\ id \in list => Restored(list, id) = id /\ Current(list, id) = id
         /\ list = {} => Current(list, id) = None
BY FirstIs DEF Restored, Current

(* The choice of this user is stored, and made wherever the list has it.   *)
ChoiceInv ==
  /\ wish.org # None => remembered.org = wish.org
  /\ wish.project # None => remembered.project = wish.project
  /\ wish.org \in data[None].list => chosen.org = wish.org
  /\ wish.project \in ListOf(data, currentOrg) => chosen.project = wish.project

SelectionInv == SelectionTypeOK /\ ChoiceInv

(* Data and requests of the right types.                                   *)
ListsHeld(d) == d \in [Keys -> [held : BOOLEAN, list : Lists]] /\ \A k \in Keys : d[k].list \in ListsOf(k)
ListsAsked(f) == /\ f \in [Keys -> [phase : {"idle", "asked", "answered"}, list : Lists]]
           /\ \A k \in Keys : f[k].list \in ListsOf(k)
ListsServed(m) == m \in [Keys -> Lists] /\ \A k \in Keys : m[k] \in ListsOf(k)
UsedOk(u) == u \in [acts : 0..SelectionActs, mishaps : 0..MaxMishaps]

LEMMA SelectionTypesAre ==
  SelectionTypeOK <=> /\ ListsServed(membership) /\ ListsHeld(data) /\ ListsAsked(listing) /\ UsedOk(used)
                      /\ remembered \in Choice /\ chosen \in Choice /\ wish \in Choice
                      /\ creating \in Keys
BY DEF SelectionTypeOK, ListsHeld, ListsAsked, ListsServed, UsedOk

LEMMA SelectionTypesNext ==
  ASSUME ListsServed(membership'), ListsHeld(data'), ListsAsked(listing'), UsedOk(used'),
         remembered' \in Choice, chosen' \in Choice, wish' \in Choice, creating' \in Keys
  PROVE  SelectionTypeOK'
BY DEF SelectionTypeOK, ListsHeld, ListsAsked, ListsServed, UsedOk

LEMMA ListAsked ==
  ASSUME ListsAsked(listing), NEW k \in Keys,
         NEW g \in [phase : {"idle", "asked", "answered"}, list : Lists], g.list \in ListsOf(k)
  PROVE  ListsAsked([listing EXCEPT ![k] = g])
BY DEF ListsAsked

LEMMA ListOfIs ==
  ASSUME NEW d, ListsHeld(d), NEW o \in Keys
  PROVE  ListOf(d, o) \subseteq Projects /\ None \notin ListOf(d, o)
BY KeysAre DEF ListOf, ListsHeld

(* What the effects of the two providers leave, with lists d, requests f,  *)
(* choice c and storage s.                                                 *)
LEMMA RenderedHolds ==
  ASSUME SelectionInv, NEW d, NEW f, NEW c \in Choice, NEW s \in Choice, ListsHeld(d), ListsAsked(f),
         Rendered(d, f, c, s), wish' \in Choice,
         wish'.org # None => s.org = wish'.org,
         wish'.project # None => s.project = wish'.project,
         d[None].list = data[None].list /\ wish'.org \in d[None].list => c.org = wish'.org,
         \/ c.project = wish'.project
         \/ c.project = chosen.project /\ wish'.project = wish.project
  PROVE  ListsHeld(data') /\ ListsAsked(listing') /\ remembered' \in Choice /\ chosen' \in Choice /\ ChoiceInv'
<1> DEFINE orgs == d[None].list
           between == Current(orgs, c.org)
           org == IF orgs # data[None].list /\ orgs # {} THEN Restored(orgs, s.org) ELSE c.org
           last == Current(orgs, org)
           L1 == ListOf(data, currentOrg)
           L2 == ListOf(d, between)
           L3 == ListOf(d, last)
           project == IF L1 = L2 /\ L2 = L3 THEN c.project ELSE Restored(L3, s.project)
<1>1. /\ data' = d /\ remembered' = s /\ chosen' = [org |-> org, project |-> project]
      /\ listing' = [k \in Keys |->
           IF k \in {between, last} \ {None} /\ ~d[k].held /\ f[k].phase = "idle"
           THEN Asked ELSE f[k]]
  BY DEF Rendered
<1>2. orgs \subseteq Orgs /\ orgs \in SUBSET (Nat \X Nat) /\ None \notin orgs
  BY KeysAre DEF ListsHeld
<1>3. org \in Keys /\ last \in Keys /\ c.org \in Keys
  BY <1>2, KeysAre, RestoredIs DEF Choice
<1>4. L3 \subseteq Projects /\ L3 \in SUBSET (Nat \X Nat) /\ None \notin L3
  BY <1>3, ListOfIs, KeysAre
<1>5. project \in {None} \cup Projects
  <2>1. c.project \in {None} \cup Projects
    BY DEF Choice
  <2>2. Restored(L3, s.project) \in L3 \cup {None}
    BY <1>4, RestoredIs
  <2> QED BY <1>4, <2>1, <2>2
<1>6. chosen' \in Choice /\ chosen'.org = org /\ chosen'.project = project
  <2> HIDE DEF org, project
  <2> QED BY <1>1, <1>3, <1>5 DEF Choice
<1>7. ListsAsked(listing')
  <2>1. Asked \in [phase : {"idle", "asked", "answered"}, list : Lists] /\ Asked.list = {}
    BY KeysAre DEF Asked
  <2> HIDE DEF between, last
  <2> QED BY <1>1, <2>1, KeysAre, ZenonT(60) DEF ListsAsked
<1>8. currentOrg' = last /\ ListOf(data', currentOrg') = L3
  <2>1. currentOrg' = Current(data'[None].list, chosen'.org)
    BY DEF currentOrg
  <2> HIDE DEF org
  <2> QED BY <1>1, <1>6, <2>1
<1>9. ASSUME wish'.org \in orgs PROVE org = wish'.org
  BY <1>2, <1>9, RestoredIs
<1>10. ASSUME wish'.project \in L3 PROVE project = wish'.project
  <2>1. s.project = wish'.project /\ Restored(L3, s.project) = wish'.project
    BY <1>4, <1>10, RestoredIs
  <2>2. ASSUME L1 = L3 PROVE c.project = wish'.project
    <3>1. wish.project \in L1 => chosen.project = wish.project
      BY DEF SelectionInv, ChoiceInv
    <3> HIDE DEF L1, L3
    <3> QED BY <1>10, <2>2, <3>1
  <2> HIDE DEF L1, L2, L3
  <2> QED BY <2>1, <2>2
<1> HIDE DEF org, project, L1, L2, L3, last, between
<1>11. ChoiceInv'
  BY <1>1, <1>6, <1>8, <1>9, <1>10 DEF ChoiceInv
<1> QED BY <1>1, <1>6, <1>7, <1>11

(* Nothing that the choice depends on changes.                             *)
LEMMA ChoiceKept ==
  ASSUME ChoiceInv, UNCHANGED <<data, chosen, wish, remembered>> PROVE ChoiceInv'
BY DEF ChoiceInv, ListOf, currentOrg

LEMMA WishIs ==
  ASSUME NEW c \in Choice, NEW o \in Keys, NEW p \in {None} \cup Projects
  PROVE  /\ [c EXCEPT !.org = o] \in Choice /\ [c EXCEPT !.org = o].org = o
         /\ [c EXCEPT !.org = o].project = c.project
         /\ [c EXCEPT !.project = p] \in Choice /\ [c EXCEPT !.project = p].project = p
         /\ [c EXCEPT !.project = p].org = c.org
BY DEF Choice

LEMMA InitSelectionInv == SelectionInit => SelectionInv
<1> SUFFICES ASSUME SelectionInit PROVE SelectionInv
  OBVIOUS
<1>1. PICK joined \in SUBSET Orgs :
        membership = [k \in Keys |-> CASE k = None -> joined
                                       [] k \in joined -> ProjectsOf(k) [] OTHER -> {}]
  BY DEF SelectionInit
<1>2. ListsServed(membership)
  <2>1. \A k \in Keys : membership[k] \in ListsOf(k)
    BY <1>1, KeysAre DEF ListsOf
  <2> QED BY <1>1, <2>1, KeysAre DEF ListsServed
<1>3. /\ data = [k \in Keys |-> NotHeld] /\ listing = [k \in Keys |-> IF k = None THEN Asked ELSE Idle]
      /\ chosen = [org |-> None, project |-> None] /\ creating = None
      /\ wish = [org |-> None, project |-> None] /\ remembered = [org |-> None, project |-> None]
      /\ used = [acts |-> 0, mishaps |-> 0]
  BY DEF SelectionInit
<1>4. ListsHeld(data) /\ ListsAsked(listing)
  BY <1>3, KeysAre DEF ListsHeld, ListsAsked, NotHeld, Asked, Idle
<1>5. UsedOk(used) /\ chosen \in Choice /\ wish \in Choice /\ remembered \in Choice /\ creating \in Keys
  BY <1>3, KeysAre, SelectionAssumption DEF UsedOk, Choice
<1>6. ChoiceInv
  <2>1. data[None].list = {}
    BY <1>3, KeysAre DEF NotHeld
  <2>2. currentOrg = None
    BY <2>1, RestoredIs DEF currentOrg
  <2> QED BY <1>3, <2>1, <2>2 DEF ChoiceInv, ListOf
<1> QED BY <1>2, <1>4, <1>5, <1>6, SelectionTypesAre DEF SelectionInv

LEMMA UseIs ==
  ASSUME UsedOk(used), NEW max \in Nat, NEW bound, Use(bound, max),
         <<bound, max>> \in {<<"acts", SelectionActs>>, <<"mishaps", MaxMishaps>>}
  PROVE  UsedOk(used')
<1>1. CASE bound = "acts" /\ max = SelectionActs
  BY <1>1 DEF Use, UsedOk
<1>2. CASE bound = "mishaps" /\ max = MaxMishaps
  BY <1>2 DEF Use, UsedOk
<1> QED BY <1>1, <1>2

LEMMA ReloadHolds == ASSUME SelectionInv, Reload PROVE SelectionInv'
<1>1. /\ data' = [k \in Keys |-> NotHeld] /\ listing' = [k \in Keys |-> IF k = None THEN Asked ELSE Idle]
      /\ chosen' = [org |-> None, project |-> None] /\ creating' = None
      /\ UNCHANGED <<membership, remembered, wish>>
  BY DEF Reload
<1>2. ListsHeld(data') /\ ListsAsked(listing')
  BY <1>1, KeysAre DEF ListsHeld, ListsAsked, NotHeld, Asked, Idle
<1>3. chosen' \in Choice /\ creating' \in Keys
  BY <1>1, KeysAre DEF Choice
<1>4. UsedOk(used')
  <2>1. Use("acts", SelectionActs) /\ UsedOk(used)
    BY SelectionTypesAre DEF Reload, Acting, SelectionInv
  <2> QED BY <2>1, UseIs, SelectionAssumption
<1>5. ChoiceInv'
  <2>1. data'[None].list = {}
    BY <1>1, KeysAre DEF NotHeld
  <2>2. currentOrg' = None
    BY <2>1, RestoredIs DEF currentOrg
  <2> QED BY <1>1, <2>1, <2>2 DEF ChoiceInv, ListOf, SelectionInv
<1> QED BY <1>1, <1>2, <1>3, <1>4, <1>5, SelectionTypesAre, SelectionTypesNext DEF SelectionInv

LEMMA ChooseOrgHolds == ASSUME SelectionInv, NEW o \in Orgs, ChooseOrg(o) PROVE SelectionInv'
<1> DEFINE c == [chosen EXCEPT !.org = o]
           s == [remembered EXCEPT !.org = o]
<1>1. /\ Rendered(data, listing, c, s) /\ wish' = [wish EXCEPT !.org = o]
      /\ Use("acts", SelectionActs) /\ UNCHANGED <<membership, creating>>
  BY DEF ChooseOrg, setCurrentOrgId, Wish, Acting
<1>2. /\ c \in Choice /\ c.org = o /\ c.project = chosen.project
      /\ s \in Choice /\ s.org = o /\ s.project = remembered.project
      /\ wish' \in Choice /\ wish'.org = o /\ wish'.project = wish.project
  <2>1. o \in Keys /\ None \in {None} \cup Projects
    BY KeysAre
  <2>2. chosen \in Choice /\ remembered \in Choice /\ wish \in Choice
    BY SelectionTypesAre DEF SelectionInv
  <2> QED BY <1>1, <2>1, <2>2, WishIs, ZenonT(60)
<1> HIDE DEF c, s
<1>3. ListsHeld(data) /\ ListsAsked(listing) /\ wish'.project # None => s.project = wish'.project
  BY <1>2, SelectionTypesAre DEF SelectionInv, ChoiceInv
<1>3a. ListsHeld(data) /\ ListsAsked(listing)
  BY SelectionTypesAre DEF SelectionInv
<1>4. /\ ListsHeld(data') /\ ListsAsked(listing') /\ remembered' \in Choice /\ chosen' \in Choice /\ ChoiceInv'
  BY <1>1, <1>2, <1>3, <1>3a, RenderedHolds
<1>5. UsedOk(used')
  BY <1>1, UseIs, SelectionAssumption, SelectionTypesAre DEF SelectionInv
<1> QED BY <1>1, <1>2, <1>4, <1>5, SelectionTypesAre, SelectionTypesNext DEF SelectionInv

LEMMA ChooseProjectHolds ==
  ASSUME SelectionInv, NEW p \in Projects, ChooseProject(p) PROVE SelectionInv'
<1> DEFINE c == [chosen EXCEPT !.project = p]
           s == [remembered EXCEPT !.project = p]
<1>1. /\ Rendered(data, listing, c, s) /\ wish' = [wish EXCEPT !.project = p]
      /\ Use("acts", SelectionActs) /\ UNCHANGED <<membership, creating>>
  BY DEF ChooseProject, setCurrentProjectId, Wish, Acting
<1>2. /\ c \in Choice /\ c.project = p /\ c.org = chosen.org
      /\ s \in Choice /\ s.project = p /\ s.org = remembered.org
      /\ wish' \in Choice /\ wish'.project = p /\ wish'.org = wish.org
  <2>1. None \in Keys /\ p \in {None} \cup Projects
    BY KeysAre
  <2>2. chosen \in Choice /\ remembered \in Choice /\ wish \in Choice
    BY SelectionTypesAre DEF SelectionInv
  <2> QED BY <1>1, <2>1, <2>2, WishIs, ZenonT(60)
<1> HIDE DEF c, s
<1>3. /\ ListsHeld(data) /\ ListsAsked(listing)
      /\ wish'.org # None => s.org = wish'.org
      /\ wish'.org \in data[None].list => c.org = wish'.org
  BY <1>2, SelectionTypesAre DEF SelectionInv, ChoiceInv
<1>4. /\ ListsHeld(data') /\ ListsAsked(listing') /\ remembered' \in Choice /\ chosen' \in Choice /\ ChoiceInv'
  BY <1>1, <1>2, <1>3, RenderedHolds
<1>5. UsedOk(used')
  BY <1>1, UseIs, SelectionAssumption, SelectionTypesAre DEF SelectionInv
<1> QED BY <1>1, <1>2, <1>4, <1>5, SelectionTypesAre, SelectionTypesNext DEF SelectionInv

LEMMA CreatedHolds == ASSUME SelectionInv, Created PROVE SelectionInv'
<1> DEFINE c == [chosen EXCEPT !.org = creating]
           s == [remembered EXCEPT !.org = creating]
           f == IF data[None].held \/ listing[None].phase = "idle"
                THEN [listing EXCEPT ![None] = Asked] ELSE listing
<1>1. /\ Rendered(data, f, c, s) /\ wish' = [wish EXCEPT !.org = creating]
      /\ creating' = None /\ UNCHANGED <<membership, used>>
  BY DEF Created, Wish
<1>2. /\ c \in Choice /\ c.org = creating /\ c.project = chosen.project
      /\ s \in Choice /\ s.org = creating /\ s.project = remembered.project
      /\ wish' \in Choice /\ wish'.org = creating /\ wish'.project = wish.project
  <2>1. creating \in Keys /\ None \in {None} \cup Projects
    BY KeysAre, SelectionTypesAre DEF SelectionInv
  <2>2. chosen \in Choice /\ remembered \in Choice /\ wish \in Choice
    BY SelectionTypesAre DEF SelectionInv
  <2> QED BY <1>1, <2>1, <2>2, WishIs, ZenonT(60)
<1>3. ListsHeld(data) /\ ListsAsked(f)
  <2>1. ListsHeld(data) /\ ListsAsked(listing)
    BY SelectionTypesAre DEF SelectionInv
  <2>2. Asked \in [phase : {"idle", "asked", "answered"}, list : Lists] /\ Asked.list = {}
    BY KeysAre DEF Asked
  <2> HIDE DEF c, s
  <2>3. f = listing \/ f = [listing EXCEPT ![None] = Asked]
    OBVIOUS
  <2>4. ListsAsked([listing EXCEPT ![None] = Asked])
    BY <2>1, <2>2, KeysAre, ListAsked
  <2> HIDE DEF f
  <2> QED BY <2>1, <2>3, <2>4
<1> HIDE DEF c, s, f
<1>4. wish'.project # None => s.project = wish'.project
  BY <1>2 DEF SelectionInv, ChoiceInv
<1>5. /\ ListsHeld(data') /\ ListsAsked(listing') /\ remembered' \in Choice /\ chosen' \in Choice /\ ChoiceInv'
  BY <1>1, <1>2, <1>3, <1>4, RenderedHolds
<1>6. UsedOk(used') /\ ListsServed(membership') /\ creating' \in Keys
  BY <1>1, SelectionTypesAre, KeysAre DEF SelectionInv
<1> QED BY <1>2, <1>5, <1>6, SelectionTypesNext DEF SelectionInv

LEMMA ReceiveListHolds == ASSUME SelectionInv, NEW k \in Keys, Receive(k) PROVE SelectionInv'
<1> DEFINE d == [data EXCEPT ![k] = [held |-> TRUE, list |-> listing[k].list]]
           f == [listing EXCEPT ![k] = Idle]
<1>1. Rendered(d, f, chosen, remembered) /\ UNCHANGED <<membership, creating, wish, used>>
  BY DEF Receive
<1>2. /\ ListsHeld(data) /\ ListsAsked(listing) /\ ListsServed(membership) /\ UsedOk(used) /\ creating \in Keys
      /\ chosen \in Choice /\ remembered \in Choice /\ wish \in Choice
  BY SelectionTypesAre DEF SelectionInv
<1>3. ListsHeld(d)
  <2>1. listing[k].list \in Lists /\ listing[k].list \in ListsOf(k)
    BY <1>2 DEF ListsAsked
  <2>2. [held |-> TRUE, list |-> listing[k].list] \in [held : BOOLEAN, list : Lists]
    BY <2>1
  <2> QED BY <1>2, <2>1, <2>2 DEF ListsHeld
<1>4. ListsAsked(f)
  <2>1. Idle \in [phase : {"idle", "asked", "answered"}, list : Lists] /\ Idle.list = {}
    BY KeysAre DEF Idle
  <2> QED BY <1>2, <2>1, KeysAre, ZenonT(60) DEF ListsAsked
<1> HIDE DEF d, f
<1>5. /\ wish'.org # None => remembered.org = wish'.org
      /\ wish'.project # None => remembered.project = wish'.project
      /\ wish'.org \in data[None].list => chosen.org = wish'.org
  BY <1>1 DEF SelectionInv, ChoiceInv
<1>6. /\ ListsHeld(data') /\ ListsAsked(listing') /\ remembered' \in Choice /\ chosen' \in Choice /\ ChoiceInv'
  BY <1>1, <1>2, <1>3, <1>4, <1>5, RenderedHolds
<1> QED BY <1>1, <1>2, <1>6, SelectionTypesNext DEF SelectionInv

(* Steps of the requests, the server and others.                           *)
LEMMA FetchHolds ==
  ASSUME SelectionInv, NEW k \in Keys, NEW g \in [phase : {"idle", "asked", "answered"}, list : Lists],
         g.list \in ListsOf(k), listing' = [listing EXCEPT ![k] = g], UsedOk(used'),
         UNCHANGED <<membership, remembered, data, chosen, creating, wish>>
  PROVE  SelectionInv'
<1>1. ListsAsked(listing')
  BY SelectionTypesAre DEF SelectionInv, ListsAsked
<1>2. ChoiceInv'
  BY ChoiceKept DEF SelectionInv
<1> QED BY <1>1, <1>2, SelectionTypesAre, SelectionTypesNext DEF SelectionInv

LEMMA RefetchHolds == ASSUME SelectionInv, NEW k \in Keys, Refetch(k) PROVE SelectionInv'
<1>1. Asked \in [phase : {"idle", "asked", "answered"}, list : Lists] /\ Asked.list \in ListsOf(k)
  BY KeysAre DEF Asked
<1>2. UsedOk(used)
  BY SelectionTypesAre DEF SelectionInv
<1> QED BY <1>1, <1>2, FetchHolds DEF Refetch

LEMMA ServeListHolds == ASSUME SelectionInv, NEW k \in Keys, Serve(k) PROVE SelectionInv'
<1> DEFINE g == IF k = None \/ k \in membership[None]
                THEN [phase |-> "answered", list |-> membership[k]] ELSE Idle
<1>1. UsedOk(used) /\ ListsServed(membership)
  BY SelectionTypesAre DEF SelectionInv
<1>2. g \in [phase : {"idle", "asked", "answered"}, list : Lists] /\ g.list \in ListsOf(k)
  BY <1>1, KeysAre DEF Idle, ListsServed
<1>3. /\ listing' = [listing EXCEPT ![k] = g]
      /\ UNCHANGED <<membership, remembered, data, chosen, creating, wish, used>>
  BY DEF Serve
<1> HIDE DEF g
<1> QED BY <1>1, <1>2, <1>3, FetchHolds

LEMMA LoseListHolds == ASSUME SelectionInv, NEW k \in Keys, Lose(k) PROVE SelectionInv'
<1>1. Idle \in [phase : {"idle", "asked", "answered"}, list : Lists] /\ Idle.list \in ListsOf(k)
  BY KeysAre DEF Idle
<1>2. UsedOk(used')
  BY UseIs, SelectionAssumption, SelectionTypesAre DEF SelectionInv, Lose
<1> QED BY <1>1, <1>2, FetchHolds DEF Lose

LEMMA ListsServedHolds ==
  ASSUME SelectionInv, NEW k \in Keys, NEW l \in ListsOf(k), membership' = [membership EXCEPT ![k] = l],
         UsedOk(used'), creating' \in Keys, UNCHANGED <<remembered, data, listing, chosen, wish>>
  PROVE  SelectionInv'
<1>1. ListsServed(membership')
  BY SelectionTypesAre, KeysAre DEF SelectionInv, ListsServed
<1>2. ChoiceInv'
  BY ChoiceKept DEF SelectionInv
<1> QED BY <1>1, <1>2, SelectionTypesAre, SelectionTypesNext DEF SelectionInv

LEMMA CreateOrgHolds == ASSUME SelectionInv, NEW o \in Orgs, CreateOrg(o) PROVE SelectionInv'
<1>1. membership[None] \cup {o} \in ListsOf(None) /\ None \in Keys /\ o \in Keys
  BY SelectionTypesAre, KeysAre DEF SelectionInv, ListsServed, ListsOf
<1>2. UsedOk(used')
  BY UseIs, SelectionAssumption, SelectionTypesAre DEF SelectionInv, CreateOrg, Acting
<1> QED BY <1>1, <1>2, ListsServedHolds DEF CreateOrg

LEMMA ServerChangesHolds == ASSUME SelectionInv, ServerChanges PROVE SelectionInv'
<1>0. UsedOk(used')
  BY UseIs, SelectionAssumption, SelectionTypesAre DEF SelectionInv, ServerChanges
<1>s. ListsServed(membership) /\ creating \in Keys
  BY SelectionTypesAre DEF SelectionInv
<1>u. UNCHANGED <<remembered, data, listing, chosen, creating, wish>>
  BY DEF ServerChanges
<1>1. ASSUME NEW o \in Orgs,
             membership' = [membership EXCEPT ![None] = IF o \in @ THEN @ \ {o} ELSE @ \cup {o}]
      PROVE  SelectionInv'
  <2> DEFINE l == IF o \in membership[None] THEN membership[None] \ {o} ELSE membership[None] \cup {o}
  <2>1. l \in ListsOf(None) /\ None \in Keys
    BY <1>s, KeysAre DEF ListsServed, ListsOf
  <2>2. membership' = [membership EXCEPT ![None] = l]
    BY <1>1
  <2> HIDE DEF l
  <2> QED BY <1>0, <1>s, <1>u, <2>1, <2>2, ListsServedHolds
<1>2. ASSUME NEW o \in Orgs, NEW p \in ProjectsOf(o),
             membership' = [membership EXCEPT ![o] = IF p \in @ THEN @ \ {p} ELSE @ \cup {p}]
      PROVE  SelectionInv'
  <2> DEFINE l == IF p \in membership[o] THEN membership[o] \ {p} ELSE membership[o] \cup {p}
  <2>1. o \in Keys /\ o # None
    BY KeysAre
  <2>2. l \in ListsOf(o)
    BY <1>s, <2>1 DEF ListsServed, ListsOf
  <2>3. membership' = [membership EXCEPT ![o] = l]
    BY <1>2
  <2> HIDE DEF l
  <2> QED BY <1>0, <1>s, <1>u, <2>1, <2>2, <2>3, ListsServedHolds
<1> QED BY <1>1, <1>2 DEF ServerChanges

LEMMA ElsewhereHolds ==
  ASSUME SelectionInv, ElsewhereOrg \/ ElsewhereProject PROVE SelectionInv'
<1>0. UsedOk(used') /\ UNCHANGED <<membership, data, listing, chosen, creating>>
  <2>1. Use("mishaps", MaxMishaps) /\ UNCHANGED <<membership, data, listing, chosen, creating>>
    BY DEF ElsewhereOrg, ElsewhereProject
  <2> QED BY <2>1, UseIs, SelectionAssumption, SelectionTypesAre DEF SelectionInv
<1>s. /\ ListsServed(membership) /\ ListsHeld(data) /\ remembered \in Choice /\ wish \in Choice /\ ChoiceInv
      /\ None \in Keys /\ None \in {None} \cup Projects
  BY SelectionTypesAre, KeysAre DEF SelectionInv
<1>k. currentOrg \in Keys
  <2>1. data[None].list \subseteq Orgs /\ data[None].list \in SUBSET (Nat \X Nat)
    BY <1>s, KeysAre DEF ListsHeld
  <2> QED BY <2>1, KeysAre, RestoredIs DEF currentOrg
<1>l. None \notin data[None].list /\ None \notin ListOf(data, currentOrg)
  <2>1. None \notin data[None].list
    BY <1>s, KeysAre DEF ListsHeld
  <2> QED BY <1>s, <1>k, <2>1, ListOfIs
<1>c. UNCHANGED <<currentOrg, ListOf(data, currentOrg)>>
  BY <1>0 DEF currentOrg, ListOf
<1>1. CASE ElsewhereOrg
  <2>1. PICK o \in membership[None] : remembered' = [remembered EXCEPT !.org = o]
    BY <1>1 DEF ElsewhereOrg
  <2>2. wish' = [wish EXCEPT !.org = None]
    BY <1>1 DEF ElsewhereOrg, Wish
  <2>3. o \in Keys
    BY <1>s, KeysAre DEF ListsServed
  <2>4. /\ remembered' \in Choice /\ remembered'.project = remembered.project
        /\ wish' \in Choice /\ wish'.org = None /\ wish'.project = wish.project
    BY <1>s, <2>1, <2>2, <2>3, WishIs
  <2>5. ChoiceInv'
    BY <1>0, <1>s, <1>l, <1>c, <2>4 DEF ChoiceInv
  <2> QED BY <1>0, <2>4, <2>5, SelectionTypesAre, SelectionTypesNext DEF SelectionInv
<1>2. CASE ElsewhereProject
  <2>0. PICK o \in membership[None] :
          \E p \in membership[o] : remembered' = [remembered EXCEPT !.project = p]
    BY <1>2 DEF ElsewhereProject
  <2>1. PICK p \in membership[o] : remembered' = [remembered EXCEPT !.project = p]
    BY <2>0
  <2>2. wish' = [wish EXCEPT !.project = None]
    BY <1>2 DEF ElsewhereProject, Wish
  <2>3. p \in {None} \cup Projects
    <3>1. o \in Orgs
      BY <1>s, KeysAre DEF ListsServed
    <3>2. o \in Keys /\ o # None
      BY <3>1, KeysAre
    <3> QED BY <1>s, <3>2, KeysAre DEF ListsServed
  <2>4. /\ remembered' \in Choice /\ remembered'.org = remembered.org
        /\ wish' \in Choice /\ wish'.project = None /\ wish'.org = wish.org
    BY <1>s, <2>1, <2>2, <2>3, WishIs, ZenonT(60)
  <2>5. ChoiceInv'
    BY <1>0, <1>s, <1>l, <1>c, <2>4 DEF ChoiceInv
  <2> QED BY <1>0, <2>4, <2>5, SelectionTypesAre, SelectionTypesNext DEF SelectionInv
<1> QED BY <1>1, <1>2

LEMMA LoseCreatedHolds == ASSUME SelectionInv, LoseCreated PROVE SelectionInv'
<1>1. /\ Use("mishaps", MaxMishaps) /\ creating' = None
      /\ UNCHANGED <<membership, remembered, data, listing, chosen, wish>>
  BY DEF LoseCreated
<1>2. UsedOk(used')
  BY <1>1, UseIs, SelectionAssumption, SelectionTypesAre DEF SelectionInv
<1>3. ChoiceInv'
  BY <1>1, ChoiceKept DEF SelectionInv
<1> QED BY <1>1, <1>2, <1>3, KeysAre, SelectionTypesAre, SelectionTypesNext DEF SelectionInv

LEMMA StepSelectionInv == SelectionInv /\ [SelectionNext]_selectionVars => SelectionInv'
<1> SUFFICES ASSUME SelectionInv, [SelectionNext]_selectionVars PROVE SelectionInv'
  OBVIOUS
<1>1. CASE UNCHANGED selectionVars
  <2>1. UNCHANGED <<membership, remembered, data, listing, chosen, creating, wish, used>>
    BY <1>1 DEF selectionVars
  <2>2. ChoiceInv'
    BY <2>1, ChoiceKept DEF SelectionInv
  <2> QED BY <2>1, <2>2, SelectionTypesAre, SelectionTypesNext DEF SelectionInv
<1>2. CASE Reload \/ Created \/ LoseCreated \/ ServerChanges \/ ElsewhereOrg \/ ElsewhereProject
  BY <1>2, ReloadHolds, CreatedHolds, LoseCreatedHolds, ServerChangesHolds, ElsewhereHolds
<1>3. ASSUME NEW o \in Orgs, ChooseOrg(o) \/ CreateOrg(o) PROVE SelectionInv'
  BY <1>3, ChooseOrgHolds, CreateOrgHolds
<1>4. ASSUME NEW o \in Orgs, NEW p \in ProjectsOf(o), ChooseProject(p) PROVE SelectionInv'
  <2>1. p \in Projects
    BY DEF Orgs, ProjectsOf, Projects
  <2> QED BY <1>4, <2>1, ChooseProjectHolds
<1>5. ASSUME NEW k \in Keys, Refetch(k) \/ Serve(k) \/ Receive(k) \/ Lose(k) PROVE SelectionInv'
  BY <1>5, RefetchHolds, ServeListHolds, ReceiveListHolds, LoseListHolds
<1> QED BY <1>1, <1>2, <1>3, <1>4, <1>5 DEF SelectionNext

LEMMA SelectionSafe == SelectionSpec => []SelectionInv
<1> QED BY InitSelectionInv, StepSelectionInv, PTL DEF SelectionSpec

(* Lists, requests and choices are of organizations and projects that      *)
(* there are.                                                              *)
THEOREM SelectionTypesCorrect == SelectionSpec => []SelectionTypeOK
<1>1. SelectionInv => SelectionTypeOK
  BY DEF SelectionInv
<1> QED BY <1>1, SelectionSafe, PTL

(* What the user chose last is what the tab works in, whenever its list    *)
(* has it, for any organizations and projects and any order of answers.    *)
THEOREM ChosenStays == SelectionSpec => []ChoiceStays
<1>1. ASSUME SelectionInv PROVE ChoiceStays
  <2>1. data[None].list \in SUBSET (Nat \X Nat) /\ data[None].list \subseteq Orgs
    BY <1>1, SelectionTypesAre, KeysAre DEF SelectionInv, ListsHeld
  <2>2. currentOrg \in Keys
    BY <2>1, RestoredIs, KeysAre DEF currentOrg
  <2>3. ListOf(data, currentOrg) \in SUBSET (Nat \X Nat)
    BY <1>1, <2>2, SelectionTypesAre, ListOfIs, KeysAre DEF SelectionInv
  <2>4. wish.org \in data[None].list => currentOrg = wish.org
    BY <1>1, <2>1, RestoredIs DEF SelectionInv, ChoiceInv, currentOrg
  <2>5. wish.project \in ListOf(data, currentOrg) => currentProject = wish.project
    BY <1>1, <2>3, RestoredIs DEF SelectionInv, ChoiceInv, currentProject
  <2> QED BY <2>4, <2>5 DEF ChoiceStays
<1> QED BY <1>1, SelectionSafe, PTL
==============================================================================

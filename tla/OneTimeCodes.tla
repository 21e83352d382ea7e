----------------------------- MODULE OneTimeCodes -----------------------------
(***************************************************************************)
(* Signing in by a code that is mailed: the form (AuthForm.tsx), open in   *)
(* several tabs, against accounts/otp.py.  A verification reads the newest *)
(* code of the address that was not used, and saves its attempts later:    *)
(* others come in between.  The form keeps one flag, loading, for all its  *)
(* requests; its fields stay editable, and "send again" is not disabled.   *)
(* Bound: a form has one request of a code and one verification under way. *)
(***************************************************************************)
EXTENDS Naturals

CONSTANTS Forms, Addresses,
          AttemptLimit,   \* tries of one code (5 in the code)
          MaxCodes,       \* bound: codes asked for
          MaxTries        \* bound: codes entered

VARIABLES codes,      \* [Ids -> Code]: OTPCode, in the order of creation
          issued,     \* how many there are
          form,       \* [Forms -> Form]
          ask,        \* [Forms -> Ask]: its request of a code
          check,      \* [Forms -> Check]: its verification
          asked, entered,   \* how many of each were begun
          tries, uses,      \* history: how often each code was compared, and
                            \* signed somebody in
          overlapped, \* history: a code was saved over another save
          edited      \* history: [Forms -> BOOLEAN]: its address was edited
                      \* while it waited for an answer

ovars == <<codes, issued, form, ask, check, asked, entered, tries, uses, overlapped,
           edited>>

Ids   == 1..MaxCodes
Code  == [address : Addresses, attempts : Nat, consumed : BOOLEAN, expired : BOOLEAN]
Form  == [address : Addresses, otpSent : BOOLEAN, loading : BOOLEAN,
          gone : BOOLEAN]      \* signed in
Ask   == [phase : {"idle", "sent", "ok", "failed"},
          address : Addresses \cup {"none"}]
Check == [phase : {"idle", "sent", "read", "ok", "denied"},
          address : Addresses \cup {"none"},
          guess : 0..MaxCodes,          \* the code entered; 0: no code there is
          id : 0..MaxCodes, attempts : Nat]      \* the code that was read

NoAsk   == [phase |-> "idle", address |-> "none"]
NoCheck == [phase |-> "idle", address |-> "none", guess |-> 0, id |-> 0, attempts |-> 0]

(* Every form begins with the same address, whichever it is.               *)
CodesInit ==
  LET a == CHOOSE a \in Addresses : TRUE IN
    /\ codes = [c \in Ids |-> [address |-> a, attempts |-> 0, consumed |-> FALSE,
                               expired |-> FALSE]]
    /\ issued = 0
    /\ form = [f \in Forms |-> [address |-> a, otpSent |-> FALSE, loading |-> FALSE,
                                gone |-> FALSE]]
    /\ ask = [f \in Forms |-> NoAsk] /\ check = [f \in Forms |-> NoCheck]
    /\ asked = 0 /\ entered = 0
    /\ tries = [c \in Ids |-> 0] /\ uses = [c \in Ids |-> 0]
    /\ overlapped = FALSE /\ edited = [f \in Forms |-> FALSE]

server == <<codes, issued, tries, uses, overlapped>>

-----------------------------------------------------------------------------
(* The form.                                                               *)

\* by the field, which the password form of the page shows too: to go there
\* and come back (setMethod) hides the hint as changeIdentifier does
setIdentifier(f) ==
  /\ ~form[f].gone /\ ~form[f].otpSent
  /\ \E a \in Addresses \ {form[f].address} : form' = [form EXCEPT ![f].address = a]
  /\ edited' = [edited EXCEPT ![f] = @ \/ ask[f].phase # "idle"]
  /\ UNCHANGED <<server, ask, check, asked, entered>>
changeIdentifier(f) ==
  /\ form[f].otpSent
  /\ form' = [form EXCEPT ![f].otpSent = FALSE]
  /\ UNCHANGED <<server, ask, check, asked, entered, edited>>

onRequestOtp(f) ==
  /\ ~form[f].gone /\ (form[f].otpSent \/ ~form[f].loading)
  /\ ask[f].phase = "idle" /\ asked < MaxCodes
  /\ ask' = [ask EXCEPT ![f] = [phase |-> "sent", address |-> form[f].address]]
  /\ form' = [form EXCEPT ![f].loading = TRUE]
  /\ asked' = asked + 1
  /\ edited' = [edited EXCEPT ![f] = @ /\ form[f].otpSent]
  /\ UNCHANGED <<server, check, entered>>
Requested(f) ==
  /\ ask[f].phase \in {"ok", "failed"}
  /\ form' = [form EXCEPT ![f].loading = FALSE,
                          ![f].otpSent = ~form[f].gone /\ (@ \/ ask[f].phase = "ok")]
  /\ ask' = [ask EXCEPT ![f] = NoAsk]
  /\ UNCHANGED <<server, check, asked, entered, edited>>

onVerifyOtp(f) ==
  /\ form[f].otpSent /\ ~form[f].loading
  /\ check[f].phase = "idle" /\ entered < MaxTries
  /\ \E guess \in 0..issued :
       check' = [check EXCEPT ![f].phase = "sent", ![f].guess = guess,
                              ![f].address = form[f].address]
  /\ form' = [form EXCEPT ![f].loading = TRUE]
  /\ entered' = entered + 1
  /\ UNCHANGED <<server, ask, asked, edited>>
Verified(f) ==
  /\ check[f].phase \in {"ok", "denied"}
  /\ form' = [form EXCEPT ![f].loading = FALSE,
                          ![f].gone = check[f].phase = "ok",
                          ![f].otpSent = @ /\ check[f].phase = "denied"]
  /\ check' = [check EXCEPT ![f] = NoCheck]
  /\ UNCHANGED <<server, ask, asked, entered, edited>>

-----------------------------------------------------------------------------
(* The server.  A code is stored before it is mailed: the mail may fail,   *)
(* and so may the request before anything was stored (the throttle).       *)
issue_otp(f) ==
  /\ ask[f].phase = "sent" /\ issued < MaxCodes
  /\ codes' = [codes EXCEPT ![issued + 1].address = ask[f].address]
  /\ issued' = issued + 1
  /\ \E answer \in {"ok", "failed"} :
       ask' = [ask EXCEPT ![f] = [NoAsk EXCEPT !.phase = answer]]
  /\ UNCHANGED <<form, check, asked, entered, tries, uses, overlapped, edited>>
Throttled(f) ==
  /\ ask[f].phase = "sent"
  /\ ask' = [ask EXCEPT ![f] = [NoAsk EXCEPT !.phase = "failed"]]
  /\ UNCHANGED <<server, form, check, asked, entered, edited>>
Expire(c) ==
  /\ c <= issued /\ ~codes[c].expired
  /\ codes' = [codes EXCEPT ![c].expired = TRUE]
  /\ UNCHANGED <<issued, form, ask, check, asked, entered, tries, uses, overlapped,
                 edited>>

(* verify_otp: the newest unused code of the address, if it can be tried;  *)
(* then its attempts, and whether it was the code that was entered.        *)
Unused(a) == {c \in 1..issued : codes[c].address = a /\ ~codes[c].consumed}
ReadCode(f) ==
  LET found == {c \in Unused(check[f].address) :
                  /\ \A d \in Unused(check[f].address) : d <= c
                  /\ ~codes[c].expired /\ codes[c].attempts < AttemptLimit}
  IN  /\ check[f].phase = "sent"
      /\ IF found = {} THEN check' = [check EXCEPT ![f] = [NoCheck EXCEPT !.phase = "denied"]]
         ELSE \E c \in found :
                check' = [check EXCEPT ![f].phase = "read", ![f].id = c,
                                       ![f].attempts = codes[c].attempts]
  /\ UNCHANGED <<server, form, ask, asked, entered, edited>>

\* the attempts are saved with a wrong code only
SaveCodeConsuming(f) ==
  LET v == check[f]  right == v.guess = v.id IN
  /\ v.phase = "read"
  /\ codes' = IF right THEN codes ELSE [codes EXCEPT ![v.id].attempts = v.attempts + 1]
  /\ check' = [check EXCEPT ![f] = [NoCheck EXCEPT !.phase = IF right THEN "ok" ELSE "denied"]]
  /\ tries' = [tries EXCEPT ![v.id] = @ + 1]
  /\ uses' = [uses EXCEPT ![v.id] = IF right THEN @ + 1 ELSE @]
  /\ UNCHANGED <<issued, form, ask, asked, entered, overlapped, edited>>
SaveCode(f) ==
  LET v == check[f]  right == v.guess = v.id IN
  /\ v.phase = "read"
  /\ codes' = [codes EXCEPT ![v.id].attempts = v.attempts + 1,
                            ![v.id].consumed = @ \/ right]
  /\ check' = [check EXCEPT ![f] = [NoCheck EXCEPT !.phase = IF right THEN "ok" ELSE "denied"]]
  /\ tries' = [tries EXCEPT ![v.id] = @ + 1]
  /\ uses' = [uses EXCEPT ![v.id] = IF right THEN @ + 1 ELSE @]
  /\ overlapped' = (overlapped \/ codes[v.id].attempts # v.attempts)
  /\ UNCHANGED <<issued, form, ask, asked, entered, edited>>

CodesNext ==
  \/ \E c \in Ids : Expire(c)
  \/ \E f \in Forms :
       \/ setIdentifier(f) \/ changeIdentifier(f)
       \/ onRequestOtp(f) \/ Requested(f) \/ onVerifyOtp(f) \/ Verified(f)
       \/ issue_otp(f) \/ Throttled(f) \/ ReadCode(f) \/ SaveCode(f)

CodesSpec == CodesInit /\ [][CodesNext]_ovars

-----------------------------------------------------------------------------
CodesTypeOK ==
  /\ codes \in [Ids -> Code] /\ issued \in 0..MaxCodes
  /\ form \in [Forms -> Form] /\ ask \in [Forms -> Ask] /\ check \in [Forms -> Check]
  /\ \A f \in Forms : ask[f].phase = "sent" => ask[f].address \in Addresses
  /\ asked \in 0..MaxCodes /\ entered \in 0..MaxTries
  /\ tries \in [Ids -> Nat] /\ uses \in [Ids -> Nat]
  /\ overlapped \in BOOLEAN /\ edited \in [Forms -> BOOLEAN]

(* However many codes are sent and forms are open, a code signs in once    *)
(* and is compared AttemptLimit times at most.  It is not so when two      *)
(* verifications overlap: both save the attempts they have read, plus one. *)
CodesBounded ==
  ~overlapped => \A c \in Ids : uses[c] <= 1 /\ tries[c] <= AttemptLimit

(* A form that says a code was sent to the address it shows says so of an  *)
(* address that was sent one, whatever answer comes late; it is not so of  *)
(* an address that was edited while the answer was awaited.                *)
HintHonest ==
  \A f \in Forms :
    form[f].otpSent /\ ~edited[f] =>
      \E c \in 1..issued : codes[c].address = form[f].address

SignInByCode == CodesBounded /\ HintHonest
===============================================================================

------------------------------ MODULE MCServices ------------------------------
(***************************************************************************)
(* Parts around accounts and organizations that have nothing to do with    *)
(* each other, in one run: a behaviour is one of a single part, chosen at  *)
(* the start, while the others rest.                                       *)
(***************************************************************************)
EXTENDS UsageMeter, TwoFactor, OneTimeCodes, Invites, Assignees, Selection

VARIABLE part

Parts == {"usage", "invites", "two_factor", "assignees", "codes", "selection"}

ServicesInit ==
  /\ part \in Parts
  /\ MeterInit /\ InvitesInit /\ TwoFactorInit /\ CodesInit
  /\ AssigneesInit /\ (part # "assignees" => assignees = {})
  /\ SelectionInit /\ (part # "selection" => membership[None] = {})

UsageStep     == part = "usage" /\ MeterNext
                 /\ UNCHANGED <<part, ivars, tvars, avars, ovars, selectionVars>>
InvitesStep   == part = "invites" /\ InvitesNext
                 /\ UNCHANGED <<part, meterVars, tvars, avars, ovars, selectionVars>>
TwoFactorStep == part = "two_factor" /\ TwoFactorNext
                 /\ UNCHANGED <<part, meterVars, ivars, avars, ovars, selectionVars>>
AssigneesStep == part = "assignees" /\ AssigneesNext
                 /\ UNCHANGED <<part, meterVars, ivars, tvars, ovars, selectionVars>>
CodesStep     == part = "codes" /\ CodesNext
                 /\ UNCHANGED <<part, meterVars, ivars, tvars, avars, selectionVars>>
SelectionStep == part = "selection" /\ SelectionNext
                 /\ UNCHANGED <<part, meterVars, ivars, tvars, avars, ovars>>

servicesVars == <<part, meterVars, ivars, tvars, avars, ovars, selectionVars>>

ServicesNext == \/ UsageStep \/ InvitesStep \/ TwoFactorStep
                \/ AssigneesStep \/ CodesStep \/ SelectionStep
ServicesSpec == ServicesInit /\ [][ServicesNext]_servicesVars

=============================================================================

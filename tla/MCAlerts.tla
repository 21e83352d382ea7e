-------------------------------- MODULE MCAlerts --------------------------------
(***************************************************************************)
(* Alerts for TLC: a rule of the project of the first occurrence; the      *)
(* other occurrence is of another project of the organization.             *)
(***************************************************************************)
EXTENDS Alerts

CONSTANTS o1, o2, r1

MCOccurrences == {o1, o2}
MCRules       == {r1}
MCInScope     == {<<o1, r1>>}
=============================================================================

------------------------------ MODULE QueryState ------------------------------
(***************************************************************************)
(* useQueryState: a value of a page mirrored into the query string.  A raw *)
(* parameter is the sequence of its occurrences, <<>> when absent.  A      *)
(* serde's serialize is <<>> where the code's is null; an empty string     *)
(* deletes the parameter as well.                                          *)
(***************************************************************************)
EXTENDS Integers, Sequences

Absent == <<>>
Written(raw) == IF raw = <<"">> THEN Absent ELSE raw

(* stringParam(def), enumParam(allowed, def), numberParam(def): absent when *)
(* the value is the default.                                               *)
stringParse(raw, def)        == IF raw = Absent THEN def ELSE raw[1]
enumParse(raw, allowed, def) == IF raw # Absent /\ raw[1] \in allowed
                                THEN raw[1] ELSE def
numberParse(raw, def)        == IF raw = Absent THEN def ELSE raw[1]
serializeUnless(v, def)      == IF v = def THEN Absent ELSE <<v>>

(* setParam(allowed): a set, absent when empty; values not allowed are     *)
(* dropped when it is read.                                                *)
setParse(raw, allowed) == IF raw = Absent THEN {} ELSE raw[1] \cap allowed
setSerialize(v)        == IF v = {} THEN Absent ELSE <<v>>

(* statusParam of the issues: "unresolved" is the default; no status at    *)
(* all, the empty string, is written "all".                                *)
ISSUE_STATUSES == {"unresolved", "resolved", "ignored", "archived"}
statusParse(raw) ==
  CASE raw = <<"all">> -> ""
    [] raw # Absent /\ raw # <<"all">> /\ raw[1] \in ISSUE_STATUSES -> raw[1]
    [] OTHER -> "unresolved"
statusSerializePlain(v) == IF v \in {"unresolved", ""} THEN Absent ELSE <<v>>
statusSerialize(v) ==
  CASE v = "unresolved" -> Absent [] v = "" -> <<"all">> [] OTHER -> <<v>>
==============================================================================

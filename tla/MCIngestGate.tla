----------------------------- MODULE MCIngestGate -----------------------------
(***************************************************************************)
(* IngestGate for TLC: requests and workers are interchangeable.           *)
(***************************************************************************)
EXTENDS IngestGate, TLC

MCSymmetry == Permutations(Requests) \cup Permutations(Workers)
=============================================================================

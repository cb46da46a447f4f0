----------------------------- MODULE MCEvidence -----------------------------
(* Evidence for TLC: stdout, stderr and the main task of one executor.     *)
EXTENDS Evidence
=============================================================================

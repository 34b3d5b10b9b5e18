----------------------------- MODULE MCLifecycle -----------------------------
(* Two starts on one socket path; allowlists of three calls that share a     *)
(* number, as read and write do with other calls across the two tables.      *)
EXTENDS Lifecycle

X86List == <<0, 1, 60>>
AarchList == <<63, 60, 1>>
X86OpenatNr == 57
AarchOpenatNr == 56
=============================================================================

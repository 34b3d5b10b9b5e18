----------------------------- MODULE MCVtParser -----------------------------
(* Instances of VtParser for TLC: two digits, so that parameters overflow   *)
(* in three of them.                                                        *)
EXTENDS VtParser

(* One byte for each way to be treated, except those that differ from       *)
(* another only in the state Escape, where they are ignored.                *)
SomeBytes == Bytes \ {B(c) : c \in {"private", "final", "lock", "space_to_tilde",
    "nul", "badlead", "c1other", "lead4", "c1sos", "c1dcs"}}
=============================================================================

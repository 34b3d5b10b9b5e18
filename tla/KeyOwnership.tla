---------------------------- MODULE KeyOwnership ----------------------------
(***************************************************************************)
(* What the broker promises about its one keyboard (session.rs, sections   *)
(* 12 and 22 of the design): a key that is down belongs to exactly one     *)
(* session, and only that session, its disappearance, or the end of the    *)
(* broker brings the key up.                                               *)
(***************************************************************************)
EXTENDS Naturals

CONSTANTS Conns, Keys

VARIABLES
    owned,  \* the keys each session has pressed and not released
    down    \* the keys that are down on the virtual keyboard

vars == <<owned, down>>

Init ==
    /\ owned = [c \in Conns |-> {}]
    /\ down = {}

Press(c, k) ==
    /\ \A d \in Conns : k \notin owned[d]
    /\ owned' = [owned EXCEPT ![c] = @ \cup {k}]
    /\ down' = down \cup {k}

Release(c, S) ==
    /\ S \subseteq owned[c]
    /\ owned' = [owned EXCEPT ![c] = @ \ S]
    /\ down' = down \ S

ReleaseEverything ==
    /\ owned' = [c \in Conns |-> {}]
    /\ down' = {}

Next ==
    \/ \E c \in Conns : \E k \in Keys : Press(c, k)
    \/ \E c \in Conns : \E S \in SUBSET Keys : Release(c, S)
    \/ ReleaseEverything

Spec == Init /\ [][Next]_vars
=============================================================================

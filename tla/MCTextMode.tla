----------------------------- MODULE MCTextMode -----------------------------
(* An instance of TextMode for TLC: a letter with an AltGr level, a key that *)
(* is a dead accent, the compose key when shifted, and the space bar.        *)
EXTENDS TextMode

Plain == {"a", "b", "space"}
ChordKeys == {"a", "b", "space", "LeftShift", "RightShift", "CapsLock", "NumLock"}
NoText == {}

Define(primary, shifted, altgr, shift_altgr) ==
    [primary |-> primary, shifted |-> shifted, altgr |-> altgr,
     shift_altgr |-> shift_altgr, fn_layer |-> Absent]

Intl == [a |-> Define(Char("a"), Char("A"), Char("a-acute"), Char("A-acute")),
         b |-> Define(Dead("acute"), ComposeKey, Char("'"), Absent),
         space |-> Define(Char(" "), Char(" "), Absent, Absent)]

\* A state in which a full session has refused a key is checked and not explored:
\* run link is about a UI whose session has ended.
NotRefused == refused = "none"
=============================================================================

---------------------------- MODULE MCUiKeyboard ----------------------------
(* Instances of UiKeyboard, in front of the terminal's encoder, for TLC.     *)
EXTENDS TermKeys

TwoPlain == {"C", "Up"}
Modified == {"Up", "RightShift", "LeftMeta", "RightAlt"}
TextCombos == {{}, {"Shift", "AltGr"}}
UsLetters ==
    [C |-> [primary |-> Char("c"), shifted |-> Char("C"), altgr |-> Absent,
            shift_altgr |-> Absent, fn_layer |-> Absent]]

=============================================================================

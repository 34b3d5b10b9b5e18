------------------------------ MODULE TermKeys ------------------------------
(* The UI keyboard in front of the terminal: UiKeyboard, whose terminal sink *)
(* tracks modifiers, with the encoder that turns its keys into bytes.        *)
EXTENDS UiKeyboard, KeyEncoder

-----------------------------------------------------------------------------
(* How a program reads the keys of an xterm.                               *)

Bits(p) == {m \in {"Shift", "Alt", "Ctrl"} :
               LET weight == [Shift |-> 1, Alt |-> 2, Ctrl |-> 4]
               IN  ((p - 1) \div weight[m]) % 2 = 1}

FinalKeys == DOMAIN CursorFinal \cup DOMAIN FunctionFinal
FinalOf(k) == IF k \in DOMAIN CursorFinal THEN CursorFinal[k] ELSE FunctionFinal[k]

\* The keys and modifiers a sequence stands for.
Reads(bytes) ==
    LET n == Len(bytes)
        param == IF n = 6 THEN bytes[5] ELSE 1
        named == IF bytes[n] = "~" THEN {k \in DOMAIN TildeCode : TildeCode[k] = bytes[3]}
                 ELSE {k \in FinalKeys : FinalOf(k) = bytes[n]}
    IN  named \X {Bits(param)}

SpecialKeys == FinalKeys \cup DOMAIN TildeCode

\* The modifiers xterm's parameter can name: Meta counts as Alt, AltGr and Fn as none.
XtermModifiers(mods) ==
    (mods \cap {"Shift", "Ctrl"}) \cup (IF {"Alt", "Meta"} \cap mods # {} THEN {"Alt"} ELSE {})

\* Kinds with two keys on the keyboard, counting the one that is injected: the sink
\* forgets such a kind when the first of them comes up.
TwoKeyed ==
    {m \in Kinds : \E k \in Buttons \cap Modifiers : KindOf[k] = m /\ k # PreferredKey[m]}

\* The terminal is about to be sent a cursor, editing or function key.
SpecialNext ==
    dest = "Terminal" /\ pending # <<>> /\ Head(pending).type # "Up" /\ Head(pending).key \in SpecialKeys

\* When a cursor, editing or function key goes to the terminal, the sink's modifiers
\* are those that are down on the on-screen keyboard (held, or injected for a latch):
\* it invents none, whatever was pressed before a switch or failed half way, and
\* forgets only of a kind that has two keys.  In every terminal mode the sequence
\* reads as that key with those modifiers.  With Alt or Meta an escape of its own comes
\* before the sequence that already names Alt; an xterm sends none, and key_encoder.rs:1
\* says "the exact byte stream a real terminal would emit".
TerminalKeyReadable ==
    SpecialNext =>
        /\ termMods \subseteq HeldModifiers(st)
        /\ HeldModifiers(st) \subseteq termMods \cup TwoKeyed
        /\ \A modes \in EncoderModes :
              LET k == Head(pending).key
                  sent == EncodeAndSend(k, termMods, termCaps, modes)
                  read(bytes) == Reads(bytes) = {<<k, XtermModifiers(termMods)>>}
              IN  IF {"Alt", "Meta"} \cap termMods = {} THEN read(sent)
                  ELSE Head(sent) = ESC /\ read(Tail(sent))
=============================================================================

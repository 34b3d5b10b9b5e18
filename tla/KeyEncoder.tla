----------------------------- MODULE KeyEncoder -----------------------------
(***************************************************************************)
(* The terminal key encoder (key_encoder.rs) and the modifiers the sink    *)
(* hands it (sink.rs): the bytes a key sends to the shell.  A byte is its  *)
(* character, the number of a control code, or a decimal parameter.        *)
(***************************************************************************)
EXTENDS Naturals, Sequences, Compose

ESC == 27
Nothing == <<>>

\* TerminalModes, as far as the encoder looks at it.
EncoderModes == [application_cursor_keys : BOOLEAN, application_keypad : BOOLEAN]

\* Position of a letter in the alphabet: what ctrl_byte leaves of its code.
LetterCode == [A |-> 1, B |-> 2, C |-> 3, D |-> 4, V |-> 22, Z |-> 26]

BaseAscii ==
    [A |-> "a", B |-> "b", C |-> "c", D |-> "d", V |-> "v", Z |-> "z",
     D2 |-> "2", D3 |-> "3", D8 |-> "8", D9 |-> "9", LeftBracket |-> "[", Space |-> " ",
     Kp1 |-> "1", Kp8 |-> "8", KpAdd |-> "+"]

CtrlPunctuation ==
    "2" :> 0 @@ " " :> 0 @@ "3" :> 27 @@ "[" :> 27 @@ "8" :> 127

CtrlOther == [Backspace |-> 127, Tab |-> 9, Enter |-> 13, KpEnter |-> 13, Escape |-> 27]

CursorFinal == [Up |-> "A", Down |-> "B", Right |-> "C", Left |-> "D", Home |-> "H", End |-> "F"]
FunctionFinal == [F1 |-> "P", F2 |-> "Q", F3 |-> "R", F4 |-> "S"]
TildeCode ==
    [Insert |-> 2, Delete |-> 3, PageUp |-> 5, PageDown |-> 6, F5 |-> 15, F6 |-> 17, F7 |-> 18,
     F8 |-> 19, F9 |-> 20, F10 |-> 21, F11 |-> 23, F12 |-> 24, F13 |-> 25, F20 |-> 34]
KeypadSs3 == [Kp1 |-> "q", Kp8 |-> "x", KpAdd |-> "k"]

IsKeypad(key) == key \in DOMAIN KeypadSs3 \cup {"KpEnter"}

\* Seeded fault: the parameter is the bit mask itself.
ModifierParamMask(mods) ==
    (IF "Shift" \in mods THEN 1 ELSE 0) + (IF {"Alt", "Meta"} \cap mods # {} THEN 2 ELSE 0)
        + (IF "Ctrl" \in mods THEN 4 ELSE 0)

\* xterm's modifier parameter; 1 stands for none, which is never sent.
ModifierParam(mods) ==
    1 + (IF "Shift" \in mods THEN 1 ELSE 0) + (IF {"Alt", "Meta"} \cap mods # {} THEN 2 ELSE 0)
        + (IF "Ctrl" \in mods THEN 4 ELSE 0)

\* The control byte of a key with Ctrl held.
CtrlSequence(key) ==
    IF key \in DOMAIN LetterCode THEN <<LetterCode[key]>>
    ELSE IF key \in DOMAIN BaseAscii
         THEN IF BaseAscii[key] \in DOMAIN CtrlPunctuation
              THEN <<CtrlPunctuation[BaseAscii[key]]>> ELSE Nothing
         ELSE IF key \in DOMAIN CtrlOther THEN <<CtrlOther[key]>> ELSE Nothing

\* Printable positions take the layout's character; a dead or missing symbol
\* falls back to the base character, a named one sends nothing.
SymbolBytes(key, mods) ==
    IF key \notin DOMAIN BaseAscii THEN Nothing
    ELSE LET sym == IF key \in DOMAIN Layout THEN SymbolFor(key, mods \cap {"Shift", "AltGr", "Fn"})
                    ELSE Absent
         IN  CASE sym.kind = "Char" -> <<sym.val>>
               [] sym.kind = "Name" -> Nothing
               [] OTHER -> <<BaseAscii[key]>>

Csi(param, mods, final) ==
    IF ModifierParam(mods) = 1 THEN <<ESC, "[", param, final>>
    ELSE <<ESC, "[", param, ";", ModifierParam(mods), final>>

SpecialBytes(key, mods, modes) ==
    CASE key = "Enter" -> <<13>>
      [] key = "KpEnter" -> IF modes.application_keypad THEN <<ESC, "O", "M">> ELSE <<13>>
      [] key = "Tab" -> IF "Shift" \in mods THEN <<ESC, "[", "Z">> ELSE <<9>>
      [] key = "Backspace" -> <<127>>
      [] key = "Escape" -> <<ESC>>
      [] key \in DOMAIN CursorFinal ->
            IF ModifierParam(mods) # 1 THEN Csi(1, mods, CursorFinal[key])
            ELSE <<ESC, IF modes.application_cursor_keys THEN "O" ELSE "[", CursorFinal[key]>>
      [] key \in DOMAIN FunctionFinal ->
            IF ModifierParam(mods) # 1 THEN Csi(1, mods, FunctionFinal[key])
            ELSE <<ESC, "O", FunctionFinal[key]>>
      [] key \in DOMAIN TildeCode -> Csi(TildeCode[key], mods, "~")
      [] key \in DOMAIN KeypadSs3 ->
            IF modes.application_keypad THEN <<ESC, "O", KeypadSs3[key]>> ELSE <<BaseAscii[key]>>
      [] OTHER -> Nothing

SymbolOrSpecial(key, mods, modes) ==
    IF IsKeypad(key) \/ SymbolBytes(key, mods) = Nothing THEN SpecialBytes(key, mods, modes)
    ELSE SymbolBytes(key, mods)

CtrlOrSpecial(key, mods, modes) ==
    IF CtrlSequence(key) # Nothing THEN CtrlSequence(key) ELSE SpecialBytes(key, mods, modes)

\* Alt puts an escape in front, also of a sequence that names Alt itself.
Encode(key, mods, modes) ==
    LET bytes == IF "Ctrl" \in mods THEN CtrlOrSpecial(key, mods, modes)
                 ELSE SymbolOrSpecial(key, mods, modes)
    IN  IF {"Alt", "Meta"} \cap mods = {} \/ bytes = Nothing THEN bytes ELSE <<ESC>> \o bytes

\* Caps Lock turns Shift round, for letters only.
EncodeAndSend(key, heldMods, capsLock, modes) ==
    LET effective == IF ~capsLock \/ key \notin DOMAIN LetterCode THEN heldMods
                     ELSE IF "Shift" \in heldMods THEN heldMods \ {"Shift"}
                     ELSE heldMods \cup {"Shift"}
    IN  Encode(key, effective, modes)

=============================================================================

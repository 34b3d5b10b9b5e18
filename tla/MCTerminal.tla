----------------------------- MODULE MCTerminal -----------------------------
(* Instances of Terminal for TLC: each workload is a group of operations    *)
(* that interact, explored in every order up to its length.                 *)
EXTENDS Terminal

TwoSizes == {<<2, 2>>, <<3, 1>>, <<2, 3>>}

W(ops, length) == [ops |-> ops, length |-> length]

(* Text, wide glyphs and marks against every edit of the cursor's line. *)
EditOps == {"print", "move", "insertchars", "deletechars", "erasechars",
    "eraseline", "erasedisplay", "insertlines", "deletelines", "align"}

(* Scrolling: regions, line feeds and the history they feed. *)
ScrollOps == {"print", "linefeed", "nextline", "reverse", "scrollup",
    "scrolldown", "region", "origin", "position", "erasedisplay"}

(* The user looks back and selects while output arrives. *)
LookOps == {"print", "linefeed", "gesture", "tap", "erasedisplay"}

(* Two screens, resizes, exits and restarts. *)
ScreenOps == {"print", "linefeed", "alternate", "alternate_save", "save",
    "restore", "resize", "exit", "tap", "reset"}

(* Modes, tab stops and the cursor. *)
ModeOps == PrivateModes \cup {"print", "shape", "otherkeys", "sgr", "query",
    "insert", "keypad", "tabset", "cleartab", "tab", "tabs", "backtabs",
    "backspace", "return", "column", "row", "moveline", "repeat", "ignored"}

Groups == {W(EditOps, 3), W(ScrollOps, 4), W(LookOps, 6), W(ScreenOps, 4), W(ModeOps, 3)}

=============================================================================

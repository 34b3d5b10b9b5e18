------------------------------ MODULE Compose ------------------------------
(***************************************************************************)
(* Pure parts of text mode: the layout (layout.rs), which gives a key its  *)
(* symbol under a set of modifiers and finds the key that makes a          *)
(* character, and the compose engine (compose.rs), which turns dead keys   *)
(* and compose sequences into characters.                                  *)
(*                                                                         *)
(* The composition tables are cut down to one accent and one letter in two *)
(* cases: enough for every outcome of the engine (a pair in the table, a   *)
(* pair that is not, the same accent twice, an accent before a space).     *)
(***************************************************************************)
EXTENDS Naturals, Sequences, TLC

CONSTANT Layout   \* physical key -> KeyDefinition

Sym(kind, val) == [kind |-> kind, val |-> val]
Char(c) == Sym("Char", c)
Dead(d) == Sym("Dead", d)
ComposeKey == Sym("Compose", "")
Name == Sym("Name", "")
Absent == Sym("Absent", "")     \* an Option<KeySymbol> that is None

IsText(sym) == sym.kind \in {"Char", "Dead", "Compose"}

-----------------------------------------------------------------------------
(* The layout.                                                             *)

\* A level that is not defined falls back to a lower one.
SymbolFor(k, mods) ==
    LET def == Layout[k]
        pick(levels) == levels[CHOOSE i \in 1..Len(levels) :
                                  levels[i] # Absent /\ \A j \in 1..(i - 1) : levels[j] = Absent]
        shift == "Shift" \in mods
    IN  CASE k \notin DOMAIN Layout -> Name
          [] "Fn" \in mods /\ def.fn_layer # Absent -> def.fn_layer
          [] "AltGr" \in mods /\ shift -> pick(<<def.shift_altgr, def.altgr, def.shifted>>)
          [] "AltGr" \in mods /\ ~shift -> pick(<<def.altgr, def.primary>>)
          [] OTHER -> IF shift THEN def.shifted ELSE def.primary

\* Seeded fault: the modifiers to engage are not reported.
FindCharNoExtra(c, active) ==
    LET at(mods) == {k \in DOMAIN Layout : SymbolFor(k, mods) = Char(c)}
    IN  {<<k, {}>> : k \in at(active) \cup at(active \cup {"Shift"}) \cup at(active \cup {"AltGr"})}

\* Keys that make c, each with the modifiers to engage besides the active ones.
\* The layout is a hash map: any key of the first level that has one may come.
FindChar(c, active) ==
    LET at(mods) == {k \in DOMAIN Layout : SymbolFor(k, mods) = Char(c)}
        combos == <<{"Shift"}, {"AltGr"}, {"Shift", "AltGr"}>>
        usable == {i \in 1..3 : ~(combos[i] \subseteq active) /\ at(active \cup combos[i]) # {}}
        first == CHOOSE i \in usable : \A j \in usable : i <= j
    IN  IF at(active) # {} THEN at(active) \X {{}}
        ELSE IF usable = {} THEN {}
        ELSE at(active \cup combos[first]) \X {combos[first]}

-----------------------------------------------------------------------------
(* The engine: a pending sequence is a symbol, or the first character that *)
(* followed the compose key.                                               *)

Idle == Absent
ComposeChar(c) == Sym("ComposeChar", c)

StandaloneAccent == [acute |-> "'", diaeresis |-> "''"]

DeadTable ==
    <<"acute", "a">> :> "a-acute" @@ <<"acute", "A">> :> "A-acute"
    @@ <<"acute", " ">> :> "'" @@ <<"diaeresis", " ">> :> "''"

ComposeTable == <<"'", "a">> :> "a-acute" @@ <<"'", "A">> :> "A-acute"

\* FeedOutcome: characters to type now and a symbol to feed again (or Absent).
Outcome(pending, chars, again) == [pending |-> pending, chars |-> chars, again |-> again]
Pass(chars) == Outcome(Idle, chars, Absent)
Consumed(pending) == Outcome(pending, <<>>, Absent)
Cancelled == Outcome(Idle, <<>>, Absent)
Emit(c) == Outcome(Idle, <<c>>, Absent)
Reset(pending, chars, again) == Outcome(pending, chars, again)

\* An accent is waiting for its base.
FeedDead(d, sym) ==
    CASE sym.kind = "Char" ->
            IF sym.val = " " THEN Emit(StandaloneAccent[d])
            ELSE IF <<d, sym.val>> \in DOMAIN DeadTable THEN Emit(DeadTable[<<d, sym.val>>])
            ELSE Reset(Idle, <<>>, sym)
      [] sym.kind = "Dead" ->
            IF sym.val = d THEN Emit(StandaloneAccent[d])
            ELSE Reset(sym, <<StandaloneAccent[d]>>, Absent)
      [] sym.kind = "Compose" -> Reset(Idle, <<>>, sym)
      [] OTHER -> Cancelled

\* The compose key and one character were pressed.
FeedSecond(first, sym) ==
    LET second == IF sym.kind = "Dead" THEN StandaloneAccent[sym.val] ELSE sym.val
    IN  IF sym.kind \notin {"Char", "Dead"} THEN Cancelled
        ELSE IF <<first, second>> \in DOMAIN ComposeTable
             THEN Emit(ComposeTable[<<first, second>>])
             ELSE Reset(Idle, <<first>>, sym)

Feed(pending, sym) ==
    CASE pending = Idle ->
            IF sym.kind \in {"Dead", "Compose"} THEN Consumed(sym)
            ELSE Pass(IF sym.kind = "Char" THEN <<sym.val>> ELSE <<>>)
      [] pending.kind = "Dead" -> FeedDead(pending.val, sym)
      [] pending = ComposeKey ->
            (CASE sym.kind = "Char" -> Consumed(ComposeChar(sym.val))
               [] sym.kind = "Dead" -> Consumed(ComposeChar(StandaloneAccent[sym.val]))
               [] OTHER -> Cancelled)
      [] pending.kind = "ComposeChar" -> FeedSecond(pending.val, sym)

=============================================================================

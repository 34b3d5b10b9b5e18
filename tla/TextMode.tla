------------------------------ MODULE TextMode ------------------------------
(***************************************************************************)
(* The UI keyboard with text mode: UiKeyboard composed with the layout and *)
(* the compose engine (text.rs, handle_key in main.rs).  A key whose       *)
(* symbol is text goes to the engine when it is pressed; what the engine   *)
(* emits is typed through the driver with the modifiers that were in       *)
(* effect at the press.  Every other key takes the keyboard path, and      *)
(* cancels the sequence that is pending.                                   *)
(***************************************************************************)
EXTENDS UiKeyboard, Compose

\* A layout defines physical keys.
ASSUME LayoutAssumption == DOMAIN Layout \subseteq Keys

VARIABLES
    textMode,   \* config.text_mode
    composing,  \* ComposeEngine.pending
    job         \* key_down while it types: what it still has to do

textVars == <<textMode, composing, job>>

\* again: symbol to feed next; mods: effective_mods; char: being typed.  The
\* rest is history: the latches that mods counts, which the first tap uses up,
\* and whether mods can be told to be in effect still.
NoJob == [again |-> Absent, mods |-> {}, char |-> "", latched |-> {}, current |-> TRUE]

TextInit ==
    /\ Init
    /\ textMode \in BOOLEAN
    /\ composing = Idle
    /\ job = NoJob

TypeActions(k, mods) ==
    ModifierActions("Down", KindSeq(mods)) \o <<[act |-> "Tap", key |-> k]>>
        \o ModifierActions("Up", Reverse(KindSeq(mods)))

\* One round of the loop in key_down: feed the symbol, type what comes out; a
\* character no key makes is an error, which drops the symbol to feed again.
FeedRound(sym, j) ==
    LET r == Feed(composing, sym)
    IN  /\ UNCHANGED <<stateVars, pending, dest, linkVars, termVars, chorded, textMode>>
        /\ composing' = r.pending
        /\ \/ /\ r.chars = <<>>
              /\ todo' = <<>>
              /\ cause' = IF r.again = Absent THEN "idle" ELSE "text"
              /\ job' = IF r.again = Absent THEN NoJob ELSE [j EXCEPT !.again = r.again]
           \/ /\ r.chars # <<>> /\ FindChar(r.chars[1], j.mods) = {}
              /\ todo' = <<>> /\ cause' = "idle" /\ job' = NoJob
           \/ /\ r.chars # <<>>
              /\ \E way \in FindChar(r.chars[1], j.mods) : todo' = TypeActions(way[1], way[2])
              /\ cause' = "text"
              /\ job' = [j EXCEPT !.again = r.again, !.char = r.chars[1]]

\* A finger presses a button whose symbol is text.
TextPressed(f) ==
    /\ textMode /\ dest = "System"
    /\ cause = "idle" /\ f \notin fingers
    /\ fingers' = fingers \cup {f}
    /\ LET eff == EffectiveModifiers(st)
           sym == SymbolFor(f, eff)
       IN  /\ IsText(sym)
           /\ FeedRound(sym, [NoJob EXCEPT !.mods = eff, !.latched = st.latched,
                                            !.current = ~st.caps])

\* The engine asked for the symbol again: same modifiers, whatever is latched by now.
Refeed ==
    /\ cause = "text" /\ pending = <<>> /\ todo = <<>>
    /\ job.again # Absent
    /\ FeedRound(job.again, [job EXCEPT !.again = Absent,
                                       !.current = @ /\ job.latched = {}])
    /\ UNCHANGED fingers

\* Any other key in text mode, every key in keyboard mode.
ButtonPressed(f) ==
    /\ textMode /\ dest = "System" => ~IsText(SymbolFor(f, EffectiveModifiers(st)))
    /\ KeyPressed(f)
    /\ composing' = IF cause' = "release" \/ (textMode /\ dest = "System") THEN Idle ELSE composing
    /\ UNCHANGED <<textMode, job>>

\* The rest of the UI does not touch the engine, except that handle_key resets
\* it when a key action fails or the link is found down; an error ends the job.
Otherwise ==
    /\ \/ \E k \in Buttons : KeyReleased(k)
       \/ TextAction
       \/ TickRepeat
       \/ SwitchDestination
       \/ TapTimeout
       \/ SendServed \/ SendLost \/ SendDropped \/ SendFails
       \/ PollConnect \/ LinkLost \/ SessionEnds
       \/ SendTerminal \/ TerminalFull
       \/ job.again = Absent /\ HandlerReturns
    /\ composing' = IF cause = "key" /\ cause' = "release" THEN Idle ELSE composing
    /\ job' = IF cause' = "text" THEN job ELSE NoJob
    /\ UNCHANGED textMode

TextNext ==
    \/ \E f \in Buttons : TextPressed(f) \/ ButtonPressed(f)
    \/ Refeed
    \/ Otherwise

TextSpec == TextInit /\ [][TextNext]_<<vars, textVars>>

-----------------------------------------------------------------------------
(* Properties.                                                             *)

\* In keyboard mode every depressed key is accounted for: a finger is on it, or
\* it was injected for a depressed key.
KeyboardModeAccounted == ~textMode => Accounted

\* The character that reaches the focused application, read off the key and the
\* modifiers the broker holds, is the one the engine emitted: through held and
\* latched modifiers, extra modifiers and symbols that are fed again.  Not so with
\* Caps Lock, which mods counts as Shift and the application may not, nor for a
\* symbol fed again after a tap has used up a latch that mods still counts, nor once
\* a full session has refused a key and the link was made anew.
TypesWhatWasMeant ==
    cause = "text" /\ pending # <<>> /\ client = "live" /\ refused = "none" /\ job.current =>
        LET e == Head(pending)
            mods == {KindOf[m] : m \in session \cap Modifiers}
        IN  e.type = "Down" /\ e.key \in PlainKeys => SymbolFor(e.key, mods) = Char(job.char)
=============================================================================

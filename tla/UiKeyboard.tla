----------------------------- MODULE UiKeyboard -----------------------------
(***************************************************************************)
(* The keyboard side of the UI process: the key callbacks and the main     *)
(* loop (main.rs), the driver with its repeat engine (action.rs,           *)
(* repeat.rs), text typing (text.rs), the input router (input.rs), and the *)
(* two sinks behind it: the link to the broker (daemon.rs) and the         *)
(* terminal's key sink (sink.rs).                                          *)
(*                                                                         *)
(* The process is single-threaded.  A handler changes the keyboard state,  *)
(* then hands its events to the sink one by one; `pending` holds those not *)
(* yet handed over and `cause` the handler they belong to.  Meanwhile the  *)
(* broker may end the session.  The broker's side is the held set of one   *)
(* session, as module Broker treats it: a press of a held key, a press     *)
(* over the limit, and a release or repeat of a key that is not held end   *)
(* the session, and a session that ends releases its keys.                 *)
(***************************************************************************)
EXTENDS KeyboardState

CONSTANTS
    Buttons,       \* keys the UI shows, a subset of Keys
    Repeatable,    \* keys the layout lets repeat
    TextMods,      \* sets of extra modifiers find_char may ask for
    BrokerMaxHeld, \* max_held_keys of the broker
    LinkFaults,    \* whether the broker may be away or end a session
    HasTerminal    \* whether the terminal workspace may be configured

ASSUME UiAssumption ==
    /\ Buttons \subseteq Keys
    /\ Repeatable \subseteq PlainKeys
    /\ TextMods \subseteq SUBSET Kinds
    /\ BrokerMaxHeld \in Nat \ {0}
    /\ LinkFaults \in BOOLEAN
    /\ HasTerminal \in BOOLEAN

VARIABLES
    st,        \* KeyboardDriver.state
    repeating, \* RepeatEngine.held
    todo,      \* actions type_text has still to run
    pending,   \* events of the current action not yet given to the sink
    cause,     \* the handler that is running
    dest,      \* InputRouter.active
    client,    \* DaemonLink.client, and whether the broker still serves it;
               \* "absent": the terminal workspace, which has no system sink
    session,   \* keys the broker's session holds for this UI (external)
    refused,   \* history: why the broker first refused a key, kept only where
               \* the link has no faults that could be the reason
    termMods,  \* TerminalKeySink.held_mods
    termCaps,  \* TerminalKeySink.caps_lock
    fingers,   \* buttons under a pointer
    chorded    \* history: modifiers held while a plain key was pressed

stateVars == <<st, repeating>>
runVars == <<todo, pending, cause>>
linkVars == <<client, session, refused>>
termVars == <<termMods, termCaps>>
vars == <<stateVars, runVars, dest, linkVars, termVars, fingers, chorded>>

Causes == {"idle", "key", "text", "tick", "release", "switch"}
Actions == [act : {"Down", "Tap", "Up"}, key : Keys]

\* Every variable keeps its type.
TypeOK ==
    /\ st \in KeyboardStates
    /\ repeating \subseteq Keys
    /\ todo \in Seq(Actions)
    /\ pending \in Seq(Events)
    /\ cause \in Causes
    /\ dest \in {"System", "Terminal"}
    /\ client \in {"none", "live", "dead", "absent"}
    /\ session \subseteq Keys
    /\ refused \in {"none", "room", "other"}
    /\ termMods \subseteq Kinds
    /\ termCaps \in BOOLEAN
    /\ fingers \subseteq Buttons
    /\ chorded \subseteq Modifiers

\* Without link faults the first poll_connect has already succeeded.  The
\* terminal workspace starts with either destination and never links.
Init ==
    /\ st = NewState
    /\ repeating = {}
    /\ todo = <<>> /\ pending = <<>> /\ cause = "idle"
    /\ \/ /\ dest = "System"
          /\ client = IF LinkFaults THEN "none" ELSE "live"
       \/ /\ HasTerminal
          /\ dest \in {"System", "Terminal"}
          /\ client = "absent"
    /\ session = {} /\ refused = "none"
    /\ termMods = {} /\ termCaps = FALSE
    /\ fingers = {}
    /\ chorded = {}

-----------------------------------------------------------------------------
(* The handlers: what each does to the state, and which events it starts.  *)

\* Seeded fault: the repeat engine is not reset.
EmergencyReleaseKeepsRepeat(caller) ==
    /\ UNCHANGED repeating
    /\ st' = ReleaseAll(st)
    /\ pending' = ReleaseAllEvents(st)
    /\ cause' = caller
    /\ todo' = <<>>
    /\ chorded' = {}

\* emergency_release; what follows the events depends on the caller.
EmergencyRelease(caller) ==
    /\ repeating' = {}
    /\ st' = ReleaseAll(st)
    /\ pending' = ReleaseAllEvents(st)
    /\ cause' = caller
    /\ todo' = <<>>
    /\ chorded' = {}

\* A finger presses a button: handle_key with KeyAction::Down.
KeyPressed(k) ==
    /\ cause = "idle"
    /\ k \notin fingers
    /\ fingers' = fingers \cup {k}
    /\ \/ Rollover(st, k) /\ EmergencyRelease("release")
       \/ /\ ~Rollover(st, k)
          /\ st' = Press(st, k)
          /\ repeating' = IF k \in Repeatable THEN repeating \cup {k} ELSE repeating \ {k}
          /\ pending' = PressEvents(st, k)
          /\ cause' = "key"
          /\ chorded' = IF k \in PlainKeys \ st.depressed
                        THEN chorded \cup (st.depressed \cap Modifiers)
                        ELSE chorded \ ({k} \ st.depressed)
          /\ UNCHANGED todo
    /\ UNCHANGED <<dest, linkVars, termVars>>

\* The finger leaves: handle_key with KeyAction::Up.
KeyReleased(k) ==
    /\ cause = "idle"
    /\ k \in fingers
    /\ fingers' = fingers \ {k}
    /\ repeating' = repeating \ {k}
    /\ st' = Release(st, k)
    /\ pending' = ReleaseEvents(st, k)
    /\ cause' = "key"
    /\ chorded' = chorded \ {k}
    /\ UNCHANGED <<todo, dest, linkVars, termVars>>

ModifierActions(act, kinds) ==
    [i \in 1..Len(kinds) |-> [act |-> act, key |-> PreferredKey[kinds[i]]]]

\* Text mode serves the system destination only.  A finger presses f, whose
\* symbol the compose engine turns into a character: type_text engages the extra
\* modifiers find_char names (none, or not all of them in effect), taps the key k
\* that makes the character, and releases the modifiers in reverse.
TypeChar(f, k, mods) ==
    /\ cause = "idle" /\ dest = "System"
    /\ f \notin fingers
    /\ fingers' = fingers \cup {f}
    /\ mods = {} \/ ~(mods \subseteq EffectiveModifiers(st))
    /\ todo' = ModifierActions("Down", KindSeq(mods)) \o <<[act |-> "Tap", key |-> k]>>
                  \o ModifierActions("Up", Reverse(KindSeq(mods)))
    /\ cause' = "text"
    /\ UNCHANGED <<stateVars, pending, dest, linkVars, termVars, chorded>>

\* The engine keeps the symbol (a dead key), or no key makes the character.
TypeNothing(f) ==
    /\ TextMods # {}
    /\ cause = "idle" /\ dest = "System"
    /\ f \notin fingers
    /\ fingers' = fingers \cup {f}
    /\ UNCHANGED <<stateVars, runVars, dest, linkVars, termVars, chorded>>

\* The next handle_action of type_text; a rollover ends the typing.
TextAction ==
    /\ cause = "text" /\ pending = <<>> /\ todo # <<>>
    /\ LET k == Head(todo).key
           act == Head(todo).act
       IN  \/ /\ act # "Up" /\ Rollover(st, k)
              /\ todo' = <<>> /\ cause' = "idle"
              /\ repeating' = IF act = "Tap" THEN repeating \ {k} ELSE repeating
              /\ UNCHANGED <<st, pending, chorded>>
           \/ /\ act = "Down" /\ ~Rollover(st, k)
              /\ st' = Press(st, k)
              /\ pending' = PressEvents(st, k)
              /\ chorded' = chorded \ ({k} \ st.depressed)
              /\ todo' = Tail(todo)
              /\ UNCHANGED <<repeating, cause>>
           \/ /\ act = "Tap" /\ ~Rollover(st, k)
              /\ st' = Release(Press(st, k), k)
              /\ pending' = PressEvents(st, k) \o ReleaseEvents(Press(st, k), k)
              /\ chorded' = IF k \in st.depressed THEN chorded
                            ELSE chorded \cup (st.depressed \cap Modifiers)
              /\ repeating' = repeating \ {k}
              /\ todo' = Tail(todo)
              /\ UNCHANGED cause
           \/ /\ act = "Up"
              /\ st' = Release(st, k)
              /\ pending' = ReleaseEvents(st, k)
              /\ repeating' = repeating \ {k}
              /\ chorded' = chorded \ {k}
              /\ todo' = Tail(todo)
              /\ UNCHANGED cause
    /\ UNCHANGED <<dest, linkVars, termVars, fingers>>

\* tick_repeat: some of the tracked keys are due.
TickRepeat ==
    /\ cause = "idle"
    /\ \E due \in SUBSET repeating \ {{}} : pending' = Each(Repeat, SetToSeq(due))
    /\ cause' = "tick"
    /\ UNCHANGED <<stateVars, todo, dest, linkVars, termVars, fingers, chorded>>

\* Seeded fault: the switch comes first.
SwitchDestinationFirst ==
    /\ client = "absent"
    /\ cause = "idle"
    /\ EmergencyRelease("release")
    /\ dest' = IF dest = "System" THEN "Terminal" ELSE "System"
    /\ UNCHANGED <<linkVars, termVars, fingers>>

\* The destination badge: release on the old destination, then switch.
SwitchDestination ==
    /\ client = "absent"
    /\ cause = "idle"
    /\ EmergencyRelease("switch")
    /\ UNCHANGED <<dest, linkVars, termVars, fingers>>

\* Tap tracks grow older than tap_timeout.
TapTimeout ==
    /\ cause = "idle"
    /\ \E n \in 1..Len(st.tracks) : ~st.tracks[n].expired /\ st' = Expire(st, n)
    /\ UNCHANGED <<repeating, runVars, dest, linkVars, termVars, fingers, chorded>>

-----------------------------------------------------------------------------
(* The system sink: DaemonLink over a broker session.                      *)

SessionRefuses(e) ==
    IF e.type = "Down" THEN e.key \in session \/ Cardinality(session) >= BrokerMaxHeld
    ELSE e.key \notin session

SessionAfter(e) ==
    CASE e.type = "Down" -> session \cup {e.key}
      [] e.type = "Up" -> session \ {e.key}
      [] e.type = "Repeat" -> session

\* A press is refused for want of room unless the key is held already.
Refusal(e) ==
    IF LinkFaults \/ refused # "none" THEN refused
    ELSE IF e.type = "Down" /\ e.key \notin session THEN "room" ELSE "other"

\* The frame is written and the session acts on it; a refusal ends the session,
\* which the UI does not know yet.
SendServed ==
    /\ pending # <<>> /\ dest = "System"
    /\ client = "live"
    /\ IF SessionRefuses(Head(pending))
       THEN client' = "dead" /\ session' = {} /\ refused' = Refusal(Head(pending))
       ELSE session' = SessionAfter(Head(pending)) /\ UNCHANGED <<client, refused>>
    /\ pending' = Tail(pending)
    /\ UNCHANGED <<stateVars, todo, cause, dest, termVars, fingers, chorded>>

\* The frame is written to a socket nobody reads any more.
SendLost ==
    /\ pending # <<>> /\ dest = "System"
    /\ client = "dead"
    /\ pending' = Tail(pending)
    /\ UNCHANGED <<stateVars, todo, cause, dest, linkVars, termVars, fingers, chorded>>

\* InputRouter drops what has no sink.
SendDropped ==
    /\ pending # <<>> /\ dest = "System"
    /\ client = "absent"
    /\ pending' = Tail(pending)
    /\ UNCHANGED <<stateVars, todo, cause, dest, linkVars, termVars, fingers, chorded>>

\* What the handlers do when handle_action or emergency_release returns Err.
HandlerFails ==
    \/ cause = "key" /\ EmergencyRelease("release") /\ UNCHANGED dest
    \/ /\ cause # "key"
       /\ pending' = <<>> /\ todo' = <<>> /\ cause' = "idle"
       /\ dest' = IF cause # "switch" THEN dest
                  ELSE IF dest = "System" THEN "Terminal" ELSE "System"
       /\ UNCHANGED <<stateVars, chorded>>

\* A client that is served fails too: the socket buffer of a slow broker is full.
\* A link that is dropped ends the session, which releases its keys.
MayFail == client \in {"none", "dead"} \/ (LinkFaults /\ client = "live")

\* Seeded fault: the link is kept.
SendFailsKeepsLink ==
    /\ pending # <<>> /\ dest = "System"
    /\ MayFail
    /\ HandlerFails
    /\ UNCHANGED <<linkVars, termVars, fingers>>

\* The daemon is offline, or the write fails and the link is dropped.
SendFails ==
    /\ pending # <<>> /\ dest = "System"
    /\ MayFail
    /\ client' = "none" /\ session' = {}
    /\ HandlerFails
    /\ UNCHANGED <<refused, termVars, fingers>>

\* poll_connect, due and answered; the broker may turn the connection away.
PollConnect ==
    /\ client = "none"
    /\ pending # <<>> => dest = "System"
    /\ client' \in {"live", "dead"}
    /\ UNCHANGED <<stateVars, runVars, dest, session, refused, termVars, fingers, chorded>>

\* poll_server or ping meets the closed socket, or a ping does not fit: the link is
\* dropped.
LinkLost ==
    /\ cause = "idle"
    /\ client # "none" /\ MayFail
    /\ client' = "none" /\ session' = {}
    /\ UNCHANGED <<stateVars, runVars, dest, refused, termVars, fingers, chorded>>

\* The broker ends the session: restart, rate limit, device error.
SessionEnds ==
    /\ LinkFaults
    /\ client = "live"
    /\ client' = "dead"
    /\ session' = {}
    /\ UNCHANGED <<stateVars, runVars, dest, refused, termVars, fingers, chorded>>

-----------------------------------------------------------------------------
(* The terminal sink.                                                      *)

\* Modifier transitions are tracked, other keys are encoded; Caps Lock toggles
\* when it comes up.
SendTerminal ==
    /\ pending # <<>> /\ dest = "Terminal"
    /\ LET e == Head(pending)
       IN  /\ termMods' = IF e.key \notin Modifiers THEN termMods
                          ELSE IF e.type = "Up" THEN termMods \ {KindOf[e.key]}
                          ELSE termMods \cup {KindOf[e.key]}
           /\ termCaps' = IF e = Up("CapsLock") THEN ~termCaps ELSE termCaps
    /\ pending' = Tail(pending)
    /\ UNCHANGED <<stateVars, todo, cause, dest, linkVars, fingers, chorded>>

\* The input buffer of the PTY is full.
TerminalFull ==
    /\ pending # <<>> /\ dest = "Terminal"
    /\ Head(pending).type # "Up" /\ Head(pending).key \in PlainKeys
    /\ HandlerFails
    /\ UNCHANGED <<linkVars, termVars, fingers>>

-----------------------------------------------------------------------------

\* All events are out: handle_key looks at the link once more, the switch
\* happens, everything else just returns.
HandlerReturns ==
    /\ cause # "idle" /\ pending = <<>> /\ todo = <<>>
    /\ \/ /\ cause = "key" /\ dest = "System" /\ client \in {"none", "absent"}
          /\ EmergencyRelease("release")
          /\ UNCHANGED dest
       \/ /\ ~(cause = "key" /\ dest = "System" /\ client \in {"none", "absent"})
          /\ cause' = "idle"
          /\ dest' = IF cause # "switch" THEN dest
                     ELSE IF dest = "System" THEN "Terminal" ELSE "System"
          /\ UNCHANGED <<stateVars, todo, pending, chorded>>
    /\ UNCHANGED <<linkVars, termVars, fingers>>

Next ==
    \/ \E k \in Buttons : KeyPressed(k) \/ KeyReleased(k)
    \/ \E f \in Buttons \cap PlainKeys, k \in PlainKeys, mods \in TextMods : TypeChar(f, k, mods)
    \/ \E f \in Buttons \cap PlainKeys : TypeNothing(f)
    \/ TextAction
    \/ TickRepeat
    \/ SwitchDestination
    \/ TapTimeout
    \/ SendServed
    \/ SendLost
    \/ SendDropped
    \/ SendFails
    \/ PollConnect
    \/ LinkLost
    \/ SessionEnds
    \/ SendTerminal
    \/ TerminalFull
    \/ HandlerReturns

Spec == Init /\ [][Next]_vars

-----------------------------------------------------------------------------
(* Properties.                                                             *)

KeysUpSoon == {pending[i].key : i \in {j \in 1..Len(pending) : pending[j].type = "Up"}}

\* Nothing stuck at the broker: a key the session holds is depressed in the UI's
\* state or its release is already on the way, whatever failed before.
NoStuckKey == session \subseteq st.depressed \cup KeysUpSoon

\* The destination that is not active holds nothing (InputRouter::release_all).
InactiveHoldsNothing ==
    /\ dest = "System" => termMods = {}
    /\ dest = "Terminal" => session = {}

\* Every depressed key is accounted for: a finger is on it, or it was injected
\* for a depressed key.
Accounted ==
    cause = "idle" =>
        \A k \in st.depressed \ fingers :
            \E p \in PlainKeys \cap st.depressed : k \in st.injected[p]

\* Without link faults the broker refuses a key of the UI for one reason only, that
\* its session is full: never a key that it holds already, nor the release or the
\* repeat of one that it does not.  Until then both agree on what is held.  With the
\* equal limits that ship (16 and 16) it can be full: the modifiers that press injects
\* are not counted against max_held_keys of the UI.
BrokerAgrees ==
    /\ refused # "other"
    /\ refused = "none" =>
         /\ client # "dead"
         /\ cause = "idle" /\ dest = "System" => session = st.depressed

\* Only held keys repeat ("Repeat never manufactures a held key").
RepeatOnlyHeld == repeating \subseteq st.depressed

\* Only the Caps Lock key locks anything, and the Shift bit mirrors its flag.
LockOnlyByCaps == st.locked = IF st.caps THEN {"Shift"} ELSE {}

\* A modifier that was held while a plain key was pressed never latches.
ChordNeverLatches ==
    [][\A m \in st'.latched \ st.latched :
          \E k \in (st.depressed \ st'.depressed) \cap Modifiers :
             KindOf[k] = m /\ k \notin chorded]_vars
=============================================================================

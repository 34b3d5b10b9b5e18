--------------------------- MODULE KeyboardState ---------------------------
(***************************************************************************)
(* The keyboard state machine of ferrokey-core (state.rs): physical keys,  *)
(* sticky modifiers, locks, and the modifiers injected for a key.  A state *)
(* is a record; press, release and release_all are operators from states   *)
(* to states, and what they ask the sink to do is a sequence of events.    *)
(*                                                                         *)
(* Time is reduced to what the state machine sees of it: whether a tap     *)
(* track is older than tap_timeout.  Tracks are in the order of their      *)
(* presses, so the old ones are a prefix.  active_layer is a function of   *)
(* the rest of the state and is not kept.                                  *)
(***************************************************************************)
EXTENDS Naturals, Sequences, FiniteSets, SequencesExt

CONSTANTS
    PlainKeys,     \* keys that are neither modifiers nor locks
    MaxHeldKeys,   \* StateSettings.max_held_keys
    Capacity,      \* keyset::MAX_HELD_KEYS, the size of the fixed arrays
    LatchEnabled   \* StateSettings.latch_enabled

\* PhysicalKey::modifier_kind
KindOf ==
    [LeftShift |-> "Shift", RightShift |-> "Shift", LeftCtrl |-> "Ctrl",
     RightCtrl |-> "Ctrl", LeftAlt |-> "Alt", RightAlt |-> "AltGr",
     LeftMeta |-> "Meta", RightMeta |-> "Meta", Menu |-> "Fn"]

\* ModifierKind::preferred_key
PreferredKey ==
    [Shift |-> "LeftShift", Ctrl |-> "LeftCtrl", Alt |-> "LeftAlt",
     AltGr |-> "RightAlt", Meta |-> "LeftMeta", Fn |-> "Menu"]

Kinds == DOMAIN PreferredKey
Modifiers == DOMAIN KindOf
LockKeys == {"CapsLock", "NumLock", "ScrollLock"}
Keys == PlainKeys \cup Modifiers \cup LockKeys

ASSUME KeyboardAssumption ==
    /\ PlainKeys \cap (Modifiers \cup LockKeys) = {}
    /\ IsFiniteSet(PlainKeys)
    /\ MaxHeldKeys \in Nat \ {0}
    /\ Capacity \in Nat \ {0}
    /\ LatchEnabled \in BOOLEAN

\* The kinds in S, in the order in which the code walks them.
KindSeq(S) ==
    LET kind(m) == IF m \in S THEN <<m>> ELSE <<>>
    IN  kind("Shift") \o kind("Ctrl") \o kind("Alt") \o kind("AltGr") \o kind("Meta") \o kind("Fn")

Track == [key : Modifiers, interleaved : BOOLEAN, expired : BOOLEAN]

KeyboardStates ==
    [depressed : SUBSET Keys,
     latched   : SUBSET Kinds,
     locked    : SUBSET Kinds,
     caps      : BOOLEAN,
     num       : BOOLEAN,
     injected  : [PlainKeys -> SUBSET Modifiers],
     tracks    : Seq(Track)]

NewState ==
    [depressed |-> {}, latched |-> {}, locked |-> {}, caps |-> FALSE, num |-> FALSE,
     injected |-> [k \in PlainKeys |-> {}], tracks |-> <<>>]

Down(k) == [type |-> "Down", key |-> k]
Up(k) == [type |-> "Up", key |-> k]
Repeat(k) == [type |-> "Repeat", key |-> k]
Events == [type : {"Down", "Up", "Repeat"}, key : Keys]

HeldModifiers(s) == {KindOf[k] : k \in s.depressed \cap Modifiers}

EffectiveModifiers(s) == HeldModifiers(s) \cup s.latched \cup s.locked

-----------------------------------------------------------------------------
(* press                                                                   *)

\* The cap counts the keys held before any modifier is injected.
Rollover(s, k) == k \notin s.depressed /\ Cardinality(s.depressed) >= MaxHeldKeys

\* Pressed while a modifier of another kind is held, the key is part of a chord.
PushTrack(s, k) ==
    IF Len(s.tracks) >= Capacity THEN s.tracks
    ELSE Append(s.tracks,
                [key |-> k,
                 interleaved |-> \E m \in HeldModifiers(s) : m # KindOf[k],
                 expired |-> FALSE])

PressModifier(s, k) ==
    [s EXCEPT !.depressed = @ \cup {k}, !.tracks = PushTrack(s, k)]

\* Latched and locked modifiers that are not held, without the Caps Lock mirror.
ToInject(s) ==
    {PreferredKey[m] : m \in (s.latched \cup (s.locked \ {"Shift"})) \ HeldModifiers(s)}

\* Seeded fault: held modifiers are not marked as part of a chord.
PressPlainUnmarked(s, k) ==
    [s EXCEPT !.depressed = @ \cup ToInject(s) \cup {k},
              !.injected[k] = ToInject(s),
              !.latched = {}]

PressPlain(s, k) ==
    [s EXCEPT !.depressed = @ \cup ToInject(s) \cup {k},
              !.injected[k] = ToInject(s),
              !.latched = {},
              !.tracks = [i \in 1..Len(s.tracks) |-> [s.tracks[i] EXCEPT !.interleaved = TRUE]]]

Press(s, k) ==
    IF k \in s.depressed THEN s
    ELSE CASE k \in Modifiers -> PressModifier(s, k)
           [] k \in LockKeys -> [s EXCEPT !.depressed = @ \cup {k}]
           [] OTHER -> PressPlain(s, k)

\* The preferred keys in S, in the order of their kinds.
InKindOrder(S) ==
    LET kinds == KindSeq({m \in Kinds : PreferredKey[m] \in S})
    IN  [i \in 1..Len(kinds) |-> PreferredKey[kinds[i]]]

Each(event(_), keys) == [i \in 1..Len(keys) |-> event(keys[i])]

PressEvents(s, k) ==
    IF k \in s.depressed THEN <<>>
    ELSE Append(IF k \in PlainKeys THEN Each(Down, InKindOrder(ToInject(s))) ELSE <<>>, Down(k))

-----------------------------------------------------------------------------
(* release and release_all                                                 *)

\* A tap on an active modifier disengages it, on an idle one latches it; the
\* Caps Lock mirror does not count as active.
Toggle(s, m) ==
    IF m \in s.latched \cup (s.locked \ {"Shift"})
    THEN [s EXCEPT !.latched = @ \ {m}, !.locked = @ \ ({m} \ {"Shift"})]
    ELSE [s EXCEPT !.latched = @ \cup {m}]

\* tap_track_remove takes the first track of the key, 0 if there is none.
TrackOf(s, k) == SelectInSeq(s.tracks, LAMBDA t : t.key = k)

ReleaseModifier(s, k) ==
    LET i == TrackOf(s, k)
        tapped == i # 0 /\ ~s.tracks[i].interleaved /\ ~s.tracks[i].expired
        rest == [s EXCEPT !.depressed = @ \ {k},
                          !.tracks = IF i = 0 THEN @ ELSE RemoveAt(@, i)]
    IN  IF tapped /\ LatchEnabled THEN Toggle(rest, KindOf[k]) ELSE rest

\* Caps Lock and Num Lock toggle when the key comes up; Scroll Lock has no mirror.
ReleaseLock(s, k) ==
    LET caps == IF k = "CapsLock" THEN ~s.caps ELSE s.caps
    IN  [s EXCEPT !.depressed = @ \ {k},
                  !.caps = caps,
                  !.locked = IF k # "CapsLock" THEN @
                             ELSE IF caps THEN @ \cup {"Shift"} ELSE @ \ {"Shift"},
                  !.num = IF k = "NumLock" THEN ~@ ELSE @]

\* Seeded fault: the injected modifiers stay.
ReleasePlainOnly(s, k) ==
    [s EXCEPT !.depressed = @ \ {k}, !.injected[k] = {}]

ReleasePlain(s, k) ==
    [s EXCEPT !.depressed = @ \ ({k} \cup s.injected[k]), !.injected[k] = {}]

Release(s, k) ==
    IF k \notin s.depressed THEN s
    ELSE CASE k \in Modifiers -> ReleaseModifier(s, k)
           [] k \in LockKeys -> ReleaseLock(s, k)
           [] OTHER -> ReleasePlain(s, k)

\* Seeded fault: the sink is not told of the injected modifiers.
ReleaseEventsKeyOnly(s, k) == IF k \in s.depressed THEN <<Up(k)>> ELSE <<>>

ReleaseEvents(s, k) ==
    IF k \notin s.depressed THEN <<>>
    ELSE <<Up(k)>> \o (IF k \in PlainKeys
                       THEN Each(Up, InKindOrder(s.injected[k] \cap s.depressed))
                       ELSE <<>>)

\* Locks persist; the latch does not.
ReleaseAll(s) ==
    [s EXCEPT !.depressed = {},
              !.injected = [k \in PlainKeys |-> {}],
              !.tracks = <<>>,
              !.latched = {}]

\* Modifiers come up last; the order within the two groups is fixed but
\* otherwise immaterial.
ReleaseAllEvents(s) ==
    Each(Up, SetToSeq(s.depressed \ Modifiers)) \o Each(Up, SetToSeq(s.depressed \cap Modifiers))

\* Time passes: the first n tracks are now older than tap_timeout.
Expire(s, n) ==
    [s EXCEPT !.tracks = [i \in 1..Len(s.tracks) |->
                             [s.tracks[i] EXCEPT !.expired = @ \/ i <= n]]]
=============================================================================

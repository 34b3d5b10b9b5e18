-------------------------- MODULE UiKeyboardProofs --------------------------
(***************************************************************************)
(* Proofs about the keyboard side of the UI, for every set of keys and     *)
(* every limit: types, locks, what may repeat; that no key stays down at   *)
(* the broker or at the destination that is not active, that a modifier    *)
(* used in a chord does not latch, that depressed keys are accounted for,  *)
(* that a broker that serves agrees with the driver, that the characters   *)
(* it types are those the compose engine emitted, and that a program in    *)
(* the terminal reads the keys and modifiers that are down.                *)
(***************************************************************************)
EXTENDS TextMode, TermKeys, FiniteSetTheorems, SequenceTheorems, WellFoundedInduction, TLAPS

-----------------------------------------------------------------------------
(* Sequences.                                                              *)

\* Listing a finite set gives a sequence over it (release_all, tick).
LEMMA SetToSeqType ==
    ASSUME NEW S, IsFiniteSet(S)
    PROVE  SetToSeq(S) \in Seq(S)
<1>1. Cardinality(S) \in Nat
  BY FS_CardinalityType
<1>2. PICK f : f \in Bijection(1..Cardinality(S), S)
  BY FS_CardinalityType, Zenon DEF ExistsBijection
<1>3. f \in [1..Cardinality(S) -> S] /\ IsInjective(f)
  BY <1>2 DEF Bijection, Injection, IsInjective
<1>4. SetToSeq(S) \in [1..Cardinality(S) -> S]
  BY <1>3 DEF SetToSeq
<1> QED
  BY <1>1, <1>4

\* What the code emits for a list of keys are events.
LEMMA EachType ==
    ASSUME NEW keys \in Seq(Keys)
    PROVE  /\ Each(Down, keys) \in Seq(Events)
           /\ Each(Up, keys) \in Seq(Events)
           /\ Each(Repeat, keys) \in Seq(Events)
<1>1. \A i \in 1..Len(keys) : keys[i] \in Keys
  OBVIOUS
<1>2. \A k \in Keys : Down(k) \in Events /\ Up(k) \in Events /\ Repeat(k) \in Events
  BY DEF Down, Up, Repeat, Events
<1> QED
  BY <1>1, <1>2 DEF Each

\* The kinds the code walks are kinds.
LEMMA KindSeqType ==
    ASSUME NEW S
    PROVE  KindSeq(S) \in Seq(Kinds)
<1>1. \A m \in Kinds : (IF m \in S THEN <<m>> ELSE <<>>) \in Seq(Kinds)
  OBVIOUS
<1>2. {"Shift", "Ctrl", "Alt", "AltGr", "Meta", "Fn"} \subseteq Kinds
  BY DEF Kinds, PreferredKey
<1> QED
  BY <1>1, <1>2 DEF KindSeq

\* Every kind has a preferred key of that kind.
LEMMA KindFacts ==
    /\ \A m \in Kinds : PreferredKey[m] \in Modifiers
    /\ \A k \in Modifiers : KindOf[k] \in Kinds
    /\ Modifiers \subseteq Keys /\ PlainKeys \subseteq Keys /\ LockKeys \subseteq Keys
    /\ "Shift" \in Kinds
<1>1. \A m \in Kinds : PreferredKey[m] \in Modifiers
  BY DEF Kinds, PreferredKey, Modifiers, KindOf
<1>2. \A k \in Modifiers : KindOf[k] \in Kinds
  BY DEF Kinds, PreferredKey, Modifiers, KindOf
<1>3. "Shift" \in Kinds
  BY DEF Kinds, PreferredKey
<1> QED
  BY <1>1, <1>2, <1>3 DEF Keys

\* The modifiers injected for a press, in the order of the code, are keys.
LEMMA InKindOrderType ==
    ASSUME NEW S
    PROVE  InKindOrder(S) \in Seq(Keys)
<1> DEFINE q == KindSeq({m \in Kinds : PreferredKey[m] \in S})
<1>1. q \in Seq(Kinds)
  BY KindSeqType
<1>2. \A i \in 1..Len(q) : PreferredKey[q[i]] \in Keys
  BY <1>1, KindFacts
<1>3. InKindOrder(S) = [i \in 1..Len(q) |-> PreferredKey[q[i]]]
  BY DEF InKindOrder
<1> HIDE DEF q
<1> QED
  BY <1>1, <1>2, <1>3

\* A nonempty set of natural numbers has a least element, which Min chooses.
LEMMA MinOfNats ==
    ASSUME NEW I \in SUBSET Nat, I # {}
    PROVE  Min(I) \in I
<1> DEFINE R == OpToRel(<, Nat)
<1>1. IsWellFoundedOn(R, Nat)
  BY NatLessThanWellFounded, Zenon
<1>2. \A x, y \in Nat : y < x => <<y, x>> \in R
  BY Zenon DEF OpToRel
<1> HIDE DEF R
<1>3. I \subseteq Nat
  OBVIOUS
<1>4. PICK x \in I : \A y \in I : ~(<<y, x>> \in R)
  BY <1>1, <1>3, WFMin, Zenon
<1>5. \A y \in I : ~(y < x)
  BY <1>2, <1>3, <1>4, Zenon
<1>6. \A y \in I : x <= y
  BY <1>3, <1>5
<1> QED
  BY <1>6 DEF Min

\* tap_track_remove finds a position of the table, or nothing.
LEMMA TrackOfType ==
    ASSUME NEW s, s.tracks \in Seq(Track), NEW k
    PROVE  TrackOf(s, k) \in 0..Len(s.tracks)
<1> DEFINE I == {i \in 1..Len(s.tracks) : s.tracks[i].key = k}
<1>1. I \in SUBSET Nat
  OBVIOUS
<1>2. TrackOf(s, k) = IF I # {} THEN Min(I) ELSE 0
  BY DEF TrackOf, SelectInSeq
<1>3. I # {} => Min(I) \in I
  BY <1>1, MinOfNats
<1> QED
  BY <1>2, <1>3

\* Forgetting one tap track leaves a sequence of tracks.
LEMMA RemoveAtType ==
    ASSUME NEW S, NEW q \in Seq(S), NEW i \in 1..Len(q)
    PROVE  RemoveAt(q, i) \in Seq(S)
<1>1. SubSeq(q, 1, i-1) \in Seq(S)
  OBVIOUS
<1>2. SubSeq(q, i+1, Len(q)) \in Seq(S)
  OBVIOUS
<1> QED
  BY <1>1, <1>2 DEF RemoveAt

-----------------------------------------------------------------------------
(* The operations of the keyboard state.                                   *)

\* A set written with three elements is finite.
LEMMA FiniteTriple ==
    ASSUME NEW a, NEW b, NEW c
    PROVE  IsFiniteSet({a, b, c})
<1>1. IsFiniteSet({a}) /\ IsFiniteSet({b}) /\ IsFiniteSet({c})
  BY FS_Singleton
<1>2. IsFiniteSet(({a} \cup {b}) \cup {c})
  BY <1>1, FS_Union
<1>3. {a, b, c} = ({a} \cup {b}) \cup {c}
  OBVIOUS
<1> QED
  BY <1>2, <1>3

\* There are finitely many keys, so what is depressed can be listed.
LEMMA FiniteKeys ==
    IsFiniteSet(Keys)
<1> DEFINE A == {"LeftShift", "RightShift", "LeftCtrl"}
           B == {"RightCtrl", "LeftAlt", "RightAlt"}
           C == {"LeftMeta", "RightMeta", "Menu"}
<1>1. IsFiniteSet(A) /\ IsFiniteSet(B) /\ IsFiniteSet(C) /\ IsFiniteSet(LockKeys)
  BY FiniteTriple DEF LockKeys
<1>2. IsFiniteSet(PlainKeys)
  BY KeyboardAssumption
<1>3. Keys = (PlainKeys \cup LockKeys) \cup ((A \cup B) \cup C)
  BY DEF Keys, Modifiers, KindOf
<1> HIDE DEF A, B, C
<1>4. IsFiniteSet((A \cup B) \cup C) /\ IsFiniteSet(PlainKeys \cup LockKeys)
  BY <1>1, <1>2, FS_Union
<1> QED
  BY <1>3, <1>4, FS_Union

\* press keeps the shape of the state.
LEMMA PressType ==
    ASSUME NEW s \in KeyboardStates, NEW k \in Keys
    PROVE  Press(s, k) \in KeyboardStates
<1>1. CASE k \in s.depressed
  BY <1>1 DEF Press
<1>2. CASE k \notin s.depressed /\ k \in Modifiers
  <2>1. [key |-> k, interleaved |-> \E m \in HeldModifiers(s) : m # KindOf[k],
         expired |-> FALSE] \in Track
    BY <1>2 DEF Track
  <2>2. PushTrack(s, k) \in Seq(Track)
    BY <2>1 DEF PushTrack, KeyboardStates
  <2> QED
    BY <1>2, <2>2 DEF Press, PressModifier, KeyboardStates
<1>3. CASE k \notin s.depressed /\ k \in LockKeys /\ k \notin Modifiers
  BY <1>3 DEF Press, KeyboardStates
<1>4. CASE k \notin s.depressed /\ k \notin LockKeys /\ k \notin Modifiers
  <2>1. k \in PlainKeys
    BY <1>4 DEF Keys
  <2>2. ToInject(s) \subseteq Modifiers
    BY KindFacts DEF ToInject, KeyboardStates
  <2>3. [i \in 1..Len(s.tracks) |-> [s.tracks[i] EXCEPT !.interleaved = TRUE]] \in Seq(Track)
    <3>1. \A t \in Track : [t EXCEPT !.interleaved = TRUE] \in Track
      BY DEF Track
    <3>2. s.tracks \in Seq(Track)
      BY DEF KeyboardStates
    <3>3. \A i \in 1..Len(s.tracks) : [s.tracks[i] EXCEPT !.interleaved = TRUE] \in Track
      BY <3>1, <3>2
    <3> QED
      BY <3>2, <3>3
  <2>4. PressPlain(s, k) \in KeyboardStates
    BY <2>1, <2>2, <2>3, KindFacts DEF PressPlain, KeyboardStates
  <2> QED
    BY <1>4, <2>4 DEF Press
<1> QED
  BY <1>1, <1>2, <1>3, <1>4

\* release keeps the shape of the state.
LEMMA ReleaseType ==
    ASSUME NEW s \in KeyboardStates, NEW k \in Keys
    PROVE  Release(s, k) \in KeyboardStates
<1>1. CASE k \notin s.depressed
  BY <1>1 DEF Release
<1>2. CASE k \in s.depressed /\ k \in Modifiers
  <2> DEFINE i == TrackOf(s, k)
             rest == [s EXCEPT !.depressed = @ \ {k},
                               !.tracks = IF i = 0 THEN @ ELSE RemoveAt(@, i)]
  <2>1. s.tracks \in Seq(Track)
    BY DEF KeyboardStates
  <2>2. i \in 0..Len(s.tracks)
    BY <2>1, TrackOfType
  <2>3. (IF i = 0 THEN s.tracks ELSE RemoveAt(s.tracks, i)) \in Seq(Track)
    BY <2>1, <2>2, RemoveAtType
  <2> HIDE DEF i
  <2>4. rest \in KeyboardStates
    BY <2>3 DEF KeyboardStates
  <2> HIDE DEF rest
  <2>5. Toggle(rest, KindOf[k]) \in KeyboardStates
    BY <1>2, <2>4, KindFacts DEF Toggle, KeyboardStates
  <2>6. ReleaseModifier(s, k) = rest \/ ReleaseModifier(s, k) = Toggle(rest, KindOf[k])
    BY DEF ReleaseModifier, rest, i
  <2>7. Release(s, k) = ReleaseModifier(s, k)
    <3>1. k \notin LockKeys
      BY <1>2 DEF Modifiers, KindOf, LockKeys
    <3> QED
      BY <1>2, <3>1, Zenon DEF Release
  <2> QED
    BY <2>4, <2>5, <2>6, <2>7
<1>3. CASE k \in s.depressed /\ k \in LockKeys /\ k \notin Modifiers
  BY <1>3, KindFacts DEF Release, ReleaseLock, KeyboardStates
<1>4. CASE k \in s.depressed /\ k \notin LockKeys /\ k \notin Modifiers
  BY <1>4 DEF Release, ReleasePlain, KeyboardStates, Keys
<1> QED
  BY <1>1, <1>2, <1>3, <1>4

\* release_all and the passage of time keep the shape of the state.
LEMMA ReleaseAllType ==
    ASSUME NEW s \in KeyboardStates
    PROVE  /\ ReleaseAll(s) \in KeyboardStates
           /\ \A n \in Nat : Expire(s, n) \in KeyboardStates
<1>1. ReleaseAll(s) \in KeyboardStates
  <2>1. [k \in PlainKeys |-> {}] \in [PlainKeys -> SUBSET Modifiers] /\ <<>> \in Seq(Track)
    OBVIOUS
  <2> QED
    BY <2>1 DEF ReleaseAll, KeyboardStates
<1>2. ASSUME NEW n \in Nat
      PROVE  Expire(s, n) \in KeyboardStates
  <2>0. \A t \in Track, b \in BOOLEAN : [t EXCEPT !.expired = b] \in Track
    BY DEF Track
  <2>1. \A i \in 1..Len(s.tracks) : [s.tracks[i] EXCEPT !.expired = @ \/ i <= n] \in Track
    <3> SUFFICES ASSUME NEW i \in 1..Len(s.tracks)
                 PROVE  [s.tracks[i] EXCEPT !.expired = @ \/ i <= n] \in Track
      OBVIOUS
    <3>1. s.tracks[i] \in Track
      BY DEF KeyboardStates
    <3>2. (s.tracks[i].expired \/ i <= n) \in BOOLEAN
      OBVIOUS
    <3> QED
      BY <2>0, <3>1, <3>2, Zenon
  <2>2. [i \in 1..Len(s.tracks) |-> [s.tracks[i] EXCEPT !.expired = @ \/ i <= n]] \in Seq(Track)
    BY <2>1 DEF KeyboardStates
  <2> QED
    BY <2>2 DEF Expire, KeyboardStates
<1> QED
  BY <1>1, <1>2

\* What press, release and release_all return are lists of events.
LEMMA EventsType ==
    ASSUME NEW s \in KeyboardStates, NEW k \in Keys
    PROVE  /\ PressEvents(s, k) \in Seq(Events)
           /\ ReleaseEvents(s, k) \in Seq(Events)
           /\ ReleaseAllEvents(s) \in Seq(Events)
<1>1. Down(k) \in Events /\ Up(k) \in Events
  BY DEF Down, Up, Events
<1>2. PressEvents(s, k) \in Seq(Events)
  <2> DEFINE q == IF k \in PlainKeys THEN Each(Down, InKindOrder(ToInject(s))) ELSE <<>>
  <2>1. q \in Seq(Events)
    BY InKindOrderType, EachType
  <2>2. PressEvents(s, k) = IF k \in s.depressed THEN <<>> ELSE Append(q, Down(k))
    BY DEF PressEvents
  <2> HIDE DEF q
  <2> QED
    BY <1>1, <2>1, <2>2
<1>3. ReleaseEvents(s, k) \in Seq(Events)
  <2> DEFINE q == IF k \in PlainKeys THEN Each(Up, InKindOrder(s.injected[k] \cap s.depressed))
                  ELSE <<>>
  <2>1. q \in Seq(Events)
    BY InKindOrderType, EachType
  <2>2. ReleaseEvents(s, k) = IF k \notin s.depressed THEN <<>> ELSE <<Up(k)>> \o q
    BY DEF ReleaseEvents
  <2> HIDE DEF q
  <2> QED
    BY <1>1, <2>1, <2>2
<1>4. \A T \in SUBSET Keys : SetToSeq(T) \in Seq(Keys)
  <2> SUFFICES ASSUME NEW T \in SUBSET Keys
               PROVE  SetToSeq(T) \in Seq(Keys)
    OBVIOUS
  <2>1. SetToSeq(T) \in Seq(T)
    BY FiniteKeys, FS_Subset, SetToSeqType
  <2> QED
    BY <2>1
<1>5. ReleaseAllEvents(s) \in Seq(Events)
  BY <1>4, EachType DEF ReleaseAllEvents, KeyboardStates
<1> QED
  BY <1>2, <1>3, <1>5

-----------------------------------------------------------------------------
(* Types.                                                                  *)

\* type_text makes key actions of a key and modifiers.
LEMMA TextTodoType ==
    ASSUME NEW k \in Keys, NEW mods
    PROVE  ModifierActions("Down", KindSeq(mods)) \o <<[act |-> "Tap", key |-> k]>>
              \o ModifierActions("Up", Reverse(KindSeq(mods))) \in Seq(Actions)
<1>1. ASSUME NEW act \in {"Down", "Up"}, NEW q \in Seq(Kinds)
      PROVE  ModifierActions(act, q) \in Seq(Actions)
  <2>1. \A i \in 1..Len(q) : PreferredKey[q[i]] \in Keys
    BY KindFacts
  <2> QED
    BY <2>1 DEF ModifierActions, Actions
<1>2. Reverse(KindSeq(mods)) \in Seq(Kinds)
  BY KindSeqType DEF Reverse
<1>3. <<[act |-> "Tap", key |-> k]>> \in Seq(Actions)
  BY DEF Actions
<1>4. /\ ModifierActions("Down", KindSeq(mods)) \in Seq(Actions)
      /\ ModifierActions("Up", Reverse(KindSeq(mods))) \in Seq(Actions)
  BY <1>1, <1>2, KindSeqType
<1> QED
  BY <1>3, <1>4

\* Every handler, and every step of a sink, keeps the types.
LEMMA TypeStep ==
    ASSUME TypeOK, [Next]_vars
    PROVE  TypeOK'
<1> USE DEF TypeOK
<1>0. ASSUME NEW caller \in Causes, EmergencyRelease(caller)
      PROVE  /\ st' \in KeyboardStates /\ repeating' \subseteq Keys
             /\ todo' \in Seq(Actions) /\ pending' \in Seq(Events)
             /\ cause' \in Causes /\ chorded' \subseteq Modifiers
  <2>1. "LeftShift" \in Keys
    BY DEF Keys, Modifiers, KindOf
  <2>2. ReleaseAll(st) \in KeyboardStates /\ ReleaseAllEvents(st) \in Seq(Events)
    BY <2>1, ReleaseAllType, EventsType
  <2> QED
    BY <1>0, <2>2 DEF EmergencyRelease
<1>1. ASSUME NEW k \in Buttons, KeyPressed(k)
      PROVE  TypeOK'
  <2>1. k \in Keys
    BY UiAssumption
  <2>2. CASE EmergencyRelease("release")
    BY <1>0, <1>1, <2>2 DEF KeyPressed, Causes, linkVars, termVars
  <2>3. CASE ~EmergencyRelease("release")
    BY <1>1, <2>1, <2>3, PressType, EventsType DEF KeyPressed, Causes, linkVars, termVars
  <2> QED
    BY <2>2, <2>3
<1>2. ASSUME NEW k \in Buttons, KeyReleased(k)
      PROVE  TypeOK'
  <2>1. k \in Keys
    BY UiAssumption
  <2> QED
    BY <1>2, <2>1, ReleaseType, EventsType DEF KeyReleased, Causes, linkVars, termVars
<1>3. ASSUME NEW f \in Buttons \cap PlainKeys, NEW k \in PlainKeys, NEW mods \in TextMods,
             TypeChar(f, k, mods)
      PROVE  TypeOK'
  <2>1. todo' \in Seq(Actions)
    BY <1>3, TextTodoType, KindFacts DEF TypeChar
  <2> QED
    BY <1>3, <2>1 DEF TypeChar, Causes, stateVars, linkVars, termVars
<1>4. ASSUME NEW f \in Buttons \cap PlainKeys, TypeNothing(f)
      PROVE  TypeOK'
  BY <1>4 DEF TypeNothing, stateVars, runVars, linkVars, termVars
<1>5. ASSUME TextAction
      PROVE  TypeOK'
  <2>1. Head(todo) \in Actions /\ Tail(todo) \in Seq(Actions)
    BY <1>5 DEF TextAction
  <2> DEFINE k == Head(todo).key
  <2>2. k \in Keys
    BY <2>1 DEF Actions
  <2>3. /\ Press(st, k) \in KeyboardStates /\ Release(st, k) \in KeyboardStates
        /\ Release(Press(st, k), k) \in KeyboardStates
    BY <2>2, PressType, ReleaseType
  <2>4. /\ PressEvents(st, k) \in Seq(Events) /\ ReleaseEvents(st, k) \in Seq(Events)
        /\ PressEvents(st, k) \o ReleaseEvents(Press(st, k), k) \in Seq(Events)
    <3>1. PressEvents(st, k) \in Seq(Events) /\ ReleaseEvents(st, k) \in Seq(Events)
      BY <2>2, EventsType
    <3>2. ReleaseEvents(Press(st, k), k) \in Seq(Events)
      BY <2>2, <2>3, EventsType
    <3> QED
      BY <3>1, <3>2
  <2>5. /\ st' \in {st, Press(st, k), Release(st, k), Release(Press(st, k), k)}
        /\ pending' \in {pending, PressEvents(st, k), ReleaseEvents(st, k),
                         PressEvents(st, k) \o ReleaseEvents(Press(st, k), k)}
        /\ todo' \in {<<>>, Tail(todo)}
        /\ cause' \in {cause, "idle"}
        /\ repeating' \subseteq repeating
        /\ chorded' \subseteq chorded \cup Modifiers
        /\ UNCHANGED <<dest, linkVars, termVars, fingers>>
    BY <1>5, Zenon DEF TextAction
  <2>6. st' \in KeyboardStates
    BY <2>3, <2>5
  <2>7. pending' \in Seq(Events)
    <3>1. pending \in Seq(Events)
      OBVIOUS
    <3> QED
      BY <2>4, <2>5, <3>1, Zenon
  <2>9. todo' \in Seq(Actions)
    <3>1. <<>> \in Seq(Actions)
      OBVIOUS
    <3> QED
      BY <2>1, <2>5, <3>1, Zenon
  <2>8. cause' \in Causes
    BY <2>5 DEF Causes
  <2> HIDE DEF k
  <2> QED
    BY <2>5, <2>6, <2>7, <2>8, <2>9 DEF linkVars, termVars
<1>6. ASSUME TickRepeat
      PROVE  TypeOK'
  <2>1. PICK due \in SUBSET repeating \ {{}} : pending' = Each(Repeat, SetToSeq(due))
    BY <1>6 DEF TickRepeat
  <2>2. SetToSeq(due) \in Seq(due) /\ due \subseteq Keys
    BY FiniteKeys, FS_Subset, SetToSeqType
  <2>3. SetToSeq(due) \in Seq(Keys)
    BY <2>2
  <2>4. pending' \in Seq(Events)
    BY <2>1, <2>3, EachType
  <2> QED
    BY <1>6, <2>4 DEF TickRepeat, Causes, stateVars, linkVars, termVars
<1>7. ASSUME SwitchDestination
      PROVE  TypeOK'
  BY <1>0, <1>7 DEF SwitchDestination, Causes, linkVars, termVars
<1>8. ASSUME TapTimeout
      PROVE  TypeOK'
  <2>1. PICK n \in 1..Len(st.tracks) : st' = Expire(st, n)
    BY <1>8 DEF TapTimeout
  <2>2. n \in Nat
    BY DEF KeyboardStates
  <2> QED
    BY <1>8, <2>1, <2>2, ReleaseAllType DEF TapTimeout, runVars, linkVars, termVars
<1>9. ASSUME SendServed \/ SendLost \/ SendDropped
      PROVE  TypeOK'
  <2>1. Tail(pending) \in Seq(Events) /\ Head(pending) \in Events
    BY <1>9 DEF SendServed, SendLost, SendDropped
  <2>2. SessionAfter(Head(pending)) \subseteq Keys
    BY <2>1 DEF SessionAfter, Events
  <2> QED
    BY <1>9, <2>1, <2>2 DEF SendServed, Refusal, SendLost, SendDropped, stateVars, linkVars, termVars
<1>10. ASSUME HandlerFails
       PROVE  /\ st' \in KeyboardStates /\ repeating' \subseteq Keys
              /\ todo' \in Seq(Actions) /\ pending' \in Seq(Events)
              /\ cause' \in Causes /\ chorded' \subseteq Modifiers
              /\ dest' \in {"System", "Terminal"}
  <2>1. CASE EmergencyRelease("release") /\ UNCHANGED dest
    BY <1>0, <2>1 DEF Causes
  <2>2. CASE ~(EmergencyRelease("release") /\ UNCHANGED dest)
    <3>1. /\ pending' = <<>> /\ todo' = <<>> /\ cause' = "idle"
          /\ UNCHANGED <<stateVars, chorded>>
          /\ dest' \in {"System", "Terminal"}
      BY <1>10, <2>2 DEF HandlerFails
    <3> QED
      BY <3>1 DEF Causes, stateVars
  <2> QED
    BY <2>1, <2>2
<1>11. ASSUME SendFails \/ TerminalFull
       PROVE  TypeOK'
  BY <1>10, <1>11 DEF SendFails, TerminalFull, linkVars, termVars
<1>12. ASSUME PollConnect \/ LinkLost \/ SessionEnds
       PROVE  TypeOK'
  BY <1>12 DEF PollConnect, LinkLost, SessionEnds, stateVars, runVars, termVars
<1>13. ASSUME SendTerminal
       PROVE  TypeOK'
  <2>1. Tail(pending) \in Seq(Events)
    BY <1>13 DEF SendTerminal
  <2>2. termMods' \subseteq Kinds
    BY <1>13, KindFacts DEF SendTerminal
  <2>3. termCaps' \in BOOLEAN
    BY <1>13 DEF SendTerminal
  <2> QED
    BY <1>13, <2>1, <2>2, <2>3 DEF SendTerminal, stateVars, linkVars
<1>14. ASSUME HandlerReturns
       PROVE  TypeOK'
  BY <1>0, <1>14 DEF HandlerReturns, Causes, stateVars, linkVars, termVars
<1>15. ASSUME UNCHANGED vars
       PROVE  TypeOK'
  BY <1>15 DEF vars, stateVars, runVars, linkVars, termVars
<1> QED
  BY <1>1, <1>2, <1>3, <1>4, <1>5, <1>6, <1>7, <1>8, <1>9, <1>11, <1>12, <1>13, <1>14, <1>15
  DEF Next

\* The initial states have the types.
LEMMA TypeInit ==
    Init => TypeOK
<1>1. NewState \in KeyboardStates
  BY DEF NewState, KeyboardStates
<1> SUFFICES ASSUME Init
             PROVE  TypeOK
  OBVIOUS
<1>2. todo \in Seq(Actions) /\ pending \in Seq(Events)
  BY DEF Init
<1>3. client \in {"none", "live", "dead", "absent"}
  BY DEF Init
<1>4. /\ repeating \subseteq Keys /\ session \subseteq Keys /\ termMods \subseteq Kinds
      /\ fingers \subseteq Buttons /\ chorded \subseteq Modifiers
  BY DEF Init
<1>5. cause \in Causes /\ dest \in {"System", "Terminal"} /\ termCaps \in BOOLEAN
  BY DEF Init, Causes
<1> QED
  BY <1>1, <1>2, <1>3, <1>4, <1>5 DEF Init, TypeOK

\* Every variable keeps its type.
THEOREM UiTypeCorrect ==
    Spec => []TypeOK
<1>1. TypeOK /\ [Next]_vars => TypeOK'
  BY TypeStep
<1> QED
  BY TypeInit, <1>1, PTL DEF Spec

-----------------------------------------------------------------------------
(* Locks and repeats.                                                      *)

\* No key is of two kinds, and only plain keys repeat.
LEMMA Disjoint ==
    /\ PlainKeys \cap Modifiers = {} /\ PlainKeys \cap LockKeys = {}
    /\ Modifiers \cap LockKeys = {}
    /\ Repeatable \subseteq PlainKeys
<1>1. Modifiers \cap LockKeys = {}
  BY DEF Modifiers, KindOf, LockKeys
<1> QED
  BY <1>1, KeyboardAssumption, UiAssumption

Locks(s) == s.locked = IF s.caps THEN {"Shift"} ELSE {}

\* press holds the key and drops none, and leaves the locks alone.
LEMMA PressFacts ==
    ASSUME NEW s \in KeyboardStates, NEW k \in Keys
    PROVE  /\ s.depressed \cup {k} \subseteq Press(s, k).depressed
           /\ Press(s, k).locked = s.locked
           /\ Press(s, k).caps = s.caps
<1>1. CASE k \in s.depressed
  BY <1>1 DEF Press
<1>2. CASE k \notin s.depressed /\ k \in Modifiers
  <2>1. Press(s, k) = PressModifier(s, k)
    BY <1>2, Disjoint, Zenon DEF Press
  <2> QED
    BY <2>1 DEF PressModifier, KeyboardStates
<1>3. CASE k \notin s.depressed /\ k \in LockKeys
  <2>1. Press(s, k) = [s EXCEPT !.depressed = @ \cup {k}]
    BY <1>3, Disjoint DEF Press
  <2> QED
    BY <2>1 DEF KeyboardStates
<1>4. CASE k \notin s.depressed /\ k \notin LockKeys /\ k \notin Modifiers
  <2>1. Press(s, k) = PressPlain(s, k)
    BY <1>4 DEF Press
  <2> QED
    BY <2>1 DEF PressPlain, KeyboardStates
<1> QED
  BY <1>1, <1>2, <1>3, <1>4

\* release drops no plain key but its own; only Caps Lock changes the locks.
LEMMA ReleaseFacts ==
    ASSUME NEW s \in KeyboardStates, NEW k \in Keys
    PROVE  /\ (s.depressed \cap PlainKeys) \ {k} \subseteq Release(s, k).depressed
           /\ Locks(s) => Locks(Release(s, k))
<1>1. CASE k \notin s.depressed
  BY <1>1 DEF Release
<1>2. CASE k \in s.depressed /\ k \in Modifiers
  <2> DEFINE i == TrackOf(s, k)
             rest == [s EXCEPT !.depressed = @ \ {k},
                               !.tracks = IF i = 0 THEN @ ELSE RemoveAt(@, i)]
  <2>1. Release(s, k) = ReleaseModifier(s, k)
    BY <1>2, Disjoint, Zenon DEF Release
  <2>2. ReleaseModifier(s, k) = rest \/ ReleaseModifier(s, k) = Toggle(rest, KindOf[k])
    BY DEF ReleaseModifier
  <2>3. /\ rest.depressed = s.depressed \ {k} /\ rest.locked = s.locked /\ rest.caps = s.caps
        /\ {"depressed", "latched", "locked", "caps"} \subseteq DOMAIN rest
    BY DEF KeyboardStates
  <2> HIDE DEF rest, i
  <2>4. /\ Toggle(rest, KindOf[k]).depressed = rest.depressed
        /\ Toggle(rest, KindOf[k]).caps = rest.caps
        /\ Toggle(rest, KindOf[k]).locked \in {rest.locked, rest.locked \ ({KindOf[k]} \ {"Shift"})}
    BY <2>3 DEF Toggle
  <2>5. Locks(rest) => Locks(Toggle(rest, KindOf[k]))
    BY <2>4 DEF Locks
  <2> QED
    BY <2>1, <2>2, <2>3, <2>4, <2>5 DEF Locks
<1>3. CASE k \in s.depressed /\ k \in LockKeys
  <2>1. Release(s, k) = ReleaseLock(s, k)
    BY <1>3, Disjoint, Zenon DEF Release
  <2> QED
    BY <2>1 DEF ReleaseLock, Locks, KeyboardStates
<1>4. CASE k \in s.depressed /\ k \notin LockKeys /\ k \notin Modifiers
  <2>1. Release(s, k) = ReleasePlain(s, k) /\ k \in PlainKeys
    BY <1>4 DEF Release, Keys
  <2>2. s.injected[k] \cap PlainKeys = {}
    BY <2>1, Disjoint DEF KeyboardStates
  <2> QED
    BY <2>1, <2>2 DEF ReleasePlain, Locks, KeyboardStates
<1> QED
  BY <1>1, <1>2, <1>3, <1>4

\* Locks are as LockOnlyByCaps says, and what repeats is a held plain key.
RepeatInv == repeating \subseteq st.depressed \cap PlainKeys

LockRepeatInv == LockOnlyByCaps /\ RepeatInv

\* Every step keeps what is said about locks and repeats.
LEMMA LockRepeatStep ==
    ASSUME TypeOK, LockRepeatInv, [Next]_vars
    PROVE  LockRepeatInv'
<1> USE DEF LockRepeatInv, LockOnlyByCaps, RepeatInv
<1>0. st \in KeyboardStates /\ Locks(st)
  BY DEF TypeOK, Locks
<1>1. ASSUME NEW caller, EmergencyRelease(caller)
      PROVE  LockRepeatInv'
  BY <1>0, <1>1 DEF EmergencyRelease, ReleaseAll, KeyboardStates
<1>2. ASSUME NEW k \in Buttons, KeyPressed(k)
      PROVE  LockRepeatInv'
  <2>1. k \in Keys
    BY UiAssumption
  <2>2. CASE EmergencyRelease("release")
    BY <1>1, <2>2
  <2>3. CASE ~EmergencyRelease("release")
    BY <1>0, <1>2, <2>1, <2>3, PressFacts, Disjoint DEF KeyPressed
  <2> QED
    BY <2>2, <2>3
<1>3. ASSUME NEW k \in Buttons, KeyReleased(k)
      PROVE  LockRepeatInv'
  <2>1. k \in Keys
    BY UiAssumption
  <2> QED
    BY <1>0, <1>3, <2>1, ReleaseFacts DEF KeyReleased, Locks
<1>4. ASSUME TextAction
      PROVE  LockRepeatInv'
  <2> DEFINE k == Head(todo).key
             p == Press(st, k)
  <2>1. k \in Keys
    <3>1. Head(todo) \in Actions
      BY <1>4 DEF TextAction, TypeOK
    <3> QED
      BY <3>1 DEF Actions
  <2>2. /\ st.depressed \subseteq p.depressed /\ p.locked = st.locked /\ p.caps = st.caps
        /\ p \in KeyboardStates
    BY <1>0, <2>1, PressFacts, PressType
  <2>3. /\ (st.depressed \cap PlainKeys) \ {k} \subseteq Release(st, k).depressed
        /\ Locks(Release(st, k))
    BY <1>0, <2>1, ReleaseFacts
  <2>4. /\ (p.depressed \cap PlainKeys) \ {k} \subseteq Release(p, k).depressed
        /\ Locks(Release(p, k))
    BY <1>0, <2>1, <2>2, ReleaseFacts DEF Locks
  <2>5. \/ st' = st /\ repeating' \subseteq repeating
        \/ st' = p /\ repeating' = repeating
        \/ st' = Release(p, k) /\ repeating' = repeating \ {k}
        \/ st' = Release(st, k) /\ repeating' = repeating \ {k}
    BY <1>4, Zenon DEF TextAction
  <2> HIDE DEF k, p
  <2> QED
    BY <1>0, <2>2, <2>3, <2>4, <2>5 DEF Locks
<1>5. ASSUME TapTimeout
      PROVE  LockRepeatInv'
  <2>1. PICK n \in 1..Len(st.tracks) : st' = Expire(st, n)
    BY <1>5 DEF TapTimeout
  <2>2. st'.depressed = st.depressed /\ st'.locked = st.locked /\ st'.caps = st.caps
    BY <1>0, <2>1 DEF Expire, KeyboardStates
  <2> QED
    BY <1>5, <2>2 DEF TapTimeout
<1>6. ASSUME UNCHANGED stateVars
      PROVE  LockRepeatInv'
  BY <1>6 DEF stateVars
<1>7. ASSUME HandlerFails \/ HandlerReturns
      PROVE  LockRepeatInv'
  BY <1>1, <1>6, <1>7 DEF HandlerFails, HandlerReturns
<1>8. \/ \E k \in Buttons : KeyPressed(k) \/ KeyReleased(k)
      \/ TextAction
      \/ TapTimeout
      \/ \E caller : EmergencyRelease(caller)
      \/ HandlerFails \/ HandlerReturns
      \/ UNCHANGED stateVars
  BY DEF Next, TypeChar, TypeNothing, TickRepeat, SwitchDestination, SendServed, SendLost,
     SendDropped, SendFails, PollConnect, LinkLost, SessionEnds, SendTerminal, TerminalFull, vars
<1> QED
  BY <1>1, <1>2, <1>3, <1>4, <1>5, <1>6, <1>7, <1>8

\* Nothing is locked and nothing repeats at the start.
LEMMA LockRepeatInit ==
    Init => LockRepeatInv
BY DEF Init, NewState, LockRepeatInv, LockOnlyByCaps, RepeatInv

\* The invariant about locks and repeats holds throughout.
LEMMA LockRepeatCorrect ==
    Spec => [](TypeOK /\ LockRepeatInv)
<1>1. TypeOK /\ LockRepeatInv /\ [Next]_vars => (TypeOK /\ LockRepeatInv)'
  BY TypeStep, LockRepeatStep
<1> QED
  BY TypeInit, LockRepeatInit, <1>1, PTL DEF Spec

\* No sequence of presses, taps, releases, failures and time locks a modifier:
\* only the Caps Lock key does, and the Shift bit is its mirror.
THEOREM LockCorrect ==
    Spec => []LockOnlyByCaps
<1>1. LockRepeatInv => LockOnlyByCaps
  BY DEF LockRepeatInv
<1> QED
  BY LockRepeatCorrect, <1>1, PTL

\* A key that repeats is held, whatever failed before.
THEOREM RepeatCorrect ==
    Spec => []RepeatOnlyHeld
<1>1. LockRepeatInv => RepeatOnlyHeld
  BY DEF LockRepeatInv, RepeatInv, RepeatOnlyHeld
<1> QED
  BY LockRepeatCorrect, <1>1, PTL

-----------------------------------------------------------------------------
(* What the handlers hand over.                                            *)

Has(q, x) == \E i \in 1..Len(q) : q[i] = x

\* What two lists hold one after the other.
LEMMA HasCat ==
    ASSUME NEW S, NEW a \in Seq(S), NEW b \in Seq(S), NEW x
    PROVE  Has(a \o b, x) <=> Has(a, x) \/ Has(b, x)
<1> DEFINE c == a \o b
<1>1. /\ Len(a) \in Nat /\ Len(b) \in Nat /\ Len(c) = Len(a) + Len(b)
      /\ \A i \in 1..Len(a) : c[i] = a[i]
      /\ \A i \in 1..Len(b) : c[Len(a) + i] = b[i]
  OBVIOUS
<1> HIDE DEF c
<1>2. Has(a, x) => Has(c, x)
  <2>1. \A i \in 1..Len(a) : i \in 1..Len(c)
    BY <1>1
  <2> QED
    BY <1>1, <2>1 DEF Has
<1>3. Has(b, x) => Has(c, x)
  <2>1. \A i \in 1..Len(b) : Len(a) + i \in 1..Len(c)
    BY <1>1
  <2> QED
    BY <1>1, <2>1 DEF Has
<1>4. Has(c, x) => Has(a, x) \/ Has(b, x)
  <2> SUFFICES ASSUME NEW i \in 1..Len(c), c[i] = x
               PROVE  Has(a, x) \/ Has(b, x)
    BY DEF Has
  <2>1. CASE i \in 1..Len(a)
    BY <1>1, <2>1 DEF Has
  <2>2. CASE i \notin 1..Len(a)
    <3>1. i - Len(a) \in 1..Len(b) /\ Len(a) + (i - Len(a)) = i
      BY <1>1, <2>2
    <3>2. c[Len(a) + (i - Len(a))] = b[i - Len(a)]
      BY <1>1, <3>1
    <3> QED
      BY <3>1, <3>2 DEF Has
  <2> QED BY <2>1, <2>2
<1> QED
  BY <1>2, <1>3, <1>4 DEF c

\* Listing a finite set lists all of it (release_all).
LEMMA SetToSeqHas ==
    ASSUME NEW S, IsFiniteSet(S)
    PROVE  \A x : Has(SetToSeq(S), x) <=> x \in S
<1> DEFINE n == Cardinality(S)
           q == SetToSeq(S)
<1>1. n \in Nat
  BY FS_CardinalityType
<1>2. PICK f : f \in Bijection(1..n, S)
  BY FS_CardinalityType, Zenon DEF ExistsBijection
<1>3. f \in [1..n -> S] /\ IsInjective(f)
  BY <1>2 DEF Bijection, Injection, IsInjective
<1>4. q \in [1..n -> S] /\ IsInjective(q)
  BY <1>3 DEF SetToSeq
<1>5. q \in Injection(1..n, S)
  BY <1>4 DEF Injection, IsInjective
<1>6. Cardinality(1..n) = n
  BY <1>1, FS_Interval
<1>7. q \in Surjection(1..n, S)
  <2> HIDE DEF q
  <2> QED
    BY <1>5, <1>6, FS_Injection
<1>8. Len(q) = n
  BY <1>1, <1>4
<1> HIDE DEF q, n
<1>9. \A x : Has(q, x) <=> x \in S
  BY <1>4, <1>7, <1>8 DEF Surjection, Has
<1> QED
  BY <1>9 DEF q

\* The kinds the code walks are those of the set.
LEMMA KindSeqHas ==
    ASSUME NEW S
    PROVE  \A m : Has(KindSeq(S), m) <=> m \in S \cap Kinds
<1> DEFINE kind(m) == IF m \in S THEN <<m>> ELSE <<>>
           a == kind("Shift")
           b == kind("Ctrl")
           c == kind("Alt")
           d == kind("AltGr")
           e == kind("Meta")
           f == kind("Fn")
           ab == a \o b
           abc == ab \o c
           abcd == abc \o d
           abcde == abcd \o e
           abcdef == abcde \o f
<1>1. \A m \in Kinds : kind(m) \in Seq(Kinds) /\ \A x : Has(kind(m), x) <=> x = m /\ m \in S
  BY DEF Has
<1>2. Kinds = {"Shift", "Ctrl", "Alt", "AltGr", "Meta", "Fn"}
  BY DEF Kinds, PreferredKey
<1>3. /\ a \in Seq(Kinds) /\ b \in Seq(Kinds) /\ c \in Seq(Kinds)
      /\ d \in Seq(Kinds) /\ e \in Seq(Kinds) /\ f \in Seq(Kinds)
  <2> HIDE DEF kind
  <2> QED BY <1>1, <1>2
<1>4. \A x : /\ Has(a, x) <=> x = "Shift" /\ "Shift" \in S
             /\ Has(b, x) <=> x = "Ctrl" /\ "Ctrl" \in S
             /\ Has(c, x) <=> x = "Alt" /\ "Alt" \in S
             /\ Has(d, x) <=> x = "AltGr" /\ "AltGr" \in S
             /\ Has(e, x) <=> x = "Meta" /\ "Meta" \in S
             /\ Has(f, x) <=> x = "Fn" /\ "Fn" \in S
  <2> HIDE DEF kind
  <2> QED BY <1>1, <1>2
<1>5. KindSeq(S) = abcdef
  BY DEF KindSeq
<1> HIDE DEF kind, a, b, c, d, e, f
<1>6. ab \in Seq(Kinds) /\ \A x : Has(ab, x) <=> Has(a, x) \/ Has(b, x)
  BY <1>3, HasCat
<1> HIDE DEF ab
<1>7. abc \in Seq(Kinds) /\ \A x : Has(abc, x) <=> Has(ab, x) \/ Has(c, x)
  BY <1>3, <1>6, HasCat
<1> HIDE DEF abc
<1>8. abcd \in Seq(Kinds) /\ \A x : Has(abcd, x) <=> Has(abc, x) \/ Has(d, x)
  BY <1>3, <1>7, HasCat
<1> HIDE DEF abcd
<1>9. abcde \in Seq(Kinds) /\ \A x : Has(abcde, x) <=> Has(abcd, x) \/ Has(e, x)
  BY <1>3, <1>8, HasCat
<1> HIDE DEF abcde
<1>10. \A x : Has(abcdef, x) <=> Has(abcde, x) \/ Has(f, x)
  BY <1>3, <1>9, HasCat
<1> HIDE DEF abcdef
<1> QED
  BY <1>2, <1>4, <1>5, <1>6, <1>7, <1>8, <1>9, <1>10

Preferred == {PreferredKey[m] : m \in Kinds}

\* The keys of a set that are some kind's preferred key, each of them.
LEMMA InKindOrderHas ==
    ASSUME NEW S
    PROVE  \A k : Has(InKindOrder(S), k) <=> k \in S \cap Preferred
<1> DEFINE T == {m \in Kinds : PreferredKey[m] \in S}
           q == KindSeq(T)
<1>1. q \in Seq(Kinds) /\ \A m : Has(q, m) <=> m \in T
  BY KindSeqType, KindSeqHas
<1>2. InKindOrder(S) = [i \in 1..Len(q) |-> PreferredKey[q[i]]]
  BY DEF InKindOrder
<1> HIDE DEF q
<1>3. Len(InKindOrder(S)) = Len(q) /\ \A i \in 1..Len(q) : InKindOrder(S)[i] = PreferredKey[q[i]]
  BY <1>1, <1>2
<1>4. \A i \in 1..Len(q) : q[i] \in T
  BY <1>1 DEF Has
<1>5. \A m \in T : \E i \in 1..Len(q) : q[i] = m
  BY <1>1 DEF Has
<1> QED
  BY <1>3, <1>4, <1>5 DEF Has, Preferred

\* The events for a list of keys.
LEMMA EachHas ==
    ASSUME NEW keys \in Seq(Keys)
    PROVE  /\ \A k : Has(Each(Up, keys), Up(k)) <=> Has(keys, k)
           /\ \A i \in 1..Len(Each(Up, keys)) : Each(Up, keys)[i].type = "Up"
           /\ \A i \in 1..Len(Each(Down, keys)) :
                 /\ Each(Down, keys)[i].type = "Down"
                 /\ Has(keys, Each(Down, keys)[i].key)
           /\ \A i \in 1..Len(Each(Repeat, keys)) : Each(Repeat, keys)[i].type = "Repeat"
<1> DEFINE u == Each(Up, keys)
           d == Each(Down, keys)
           r == Each(Repeat, keys)
<1>1. /\ Len(u) = Len(keys) /\ Len(d) = Len(keys) /\ Len(r) = Len(keys)
      /\ \A i \in 1..Len(keys) : u[i] = Up(keys[i]) /\ d[i] = Down(keys[i]) /\ r[i] = Repeat(keys[i])
  BY DEF Each
<1>2. \A k, x : Up(k) = Up(x) <=> k = x
  BY DEF Up
<1>3. \A k : Up(k).type = "Up" /\ Down(k).type = "Down" /\ Repeat(k).type = "Repeat" /\ Down(k).key = k
  BY DEF Up, Down, Repeat
<1> HIDE DEF u, d, r
<1>4. \A k : Has(u, Up(k)) <=> Has(keys, k)
  BY <1>1, <1>2 DEF Has
<1>5. \A i \in 1..Len(u) : u[i].type = "Up"
  BY <1>1, <1>3
<1>6. \A i \in 1..Len(d) : d[i].type = "Down" /\ Has(keys, d[i].key)
  BY <1>1, <1>3 DEF Has
<1>7. \A i \in 1..Len(r) : r[i].type = "Repeat"
  BY <1>1, <1>3
<1> QED
  BY <1>4, <1>5, <1>6, <1>7 DEF u, d, r

Ups == {e \in Events : e.type = "Up"}
Downs(D) == {e \in Events : e.type = "Down" /\ e.key \in D}

InjectedPreferred(s) == \A p \in PlainKeys : s.injected[p] \subseteq Preferred

\* press hands over keys that are depressed afterwards.
LEMMA PressHands ==
    ASSUME NEW s \in KeyboardStates, NEW k \in Keys, InjectedPreferred(s)
    PROVE  /\ PressEvents(s, k) \in Seq(Downs(Press(s, k).depressed))
           /\ InjectedPreferred(Press(s, k))
<1> DEFINE D == Press(s, k).depressed
<1>0. /\ Down(k) \in Events /\ Down(k).type = "Down" /\ Down(k).key = k
      /\ k \in D /\ s.depressed \subseteq D
  BY PressFacts DEF Down, Events
<1>1. CASE k \in s.depressed
  <2>1. PressEvents(s, k) = <<>> /\ Press(s, k) = s
    BY <1>1 DEF PressEvents, Press
  <2> QED
    BY <2>1
<1>2. CASE k \notin s.depressed /\ k \notin PlainKeys
  <2>1. PressEvents(s, k) = <<Down(k)>>
    BY <1>2 DEF PressEvents
  <2>2. Press(s, k).injected = s.injected
    <3>1. CASE k \in Modifiers
      <4>1. Press(s, k) = PressModifier(s, k)
        BY <1>2, <3>1, Disjoint, Zenon DEF Press
      <4> QED BY <4>1 DEF PressModifier, KeyboardStates
    <3>2. CASE k \in LockKeys
      <4>1. Press(s, k) = [s EXCEPT !.depressed = @ \cup {k}]
        BY <1>2, <3>2, Disjoint DEF Press
      <4> QED BY <4>1 DEF KeyboardStates
    <3> QED
      BY <1>2, <3>1, <3>2 DEF Keys
  <2>3. Down(k) \in Downs(D)
    BY <1>0 DEF Downs
  <2> HIDE DEF D
  <2> QED
    BY <2>1, <2>2, <2>3 DEF InjectedPreferred, D
<1>3. CASE k \notin s.depressed /\ k \in PlainKeys
  <2> DEFINE I == ToInject(s)
             keys == InKindOrder(I)
             q == Each(Down, keys)
  <2>1. Press(s, k) = PressPlain(s, k)
    BY <1>3, Disjoint DEF Press
  <2>2. I \subseteq D /\ Press(s, k).injected = [s.injected EXCEPT ![k] = I]
    BY <2>1 DEF PressPlain, KeyboardStates
  <2>3. I \subseteq Preferred
    BY DEF ToInject, Preferred, KeyboardStates
  <2>4. keys \in Seq(Keys) /\ \A x : Has(keys, x) <=> x \in I \cap Preferred
    BY InKindOrderType, InKindOrderHas
  <2>5. q \in Seq(Events) /\ \A i \in 1..Len(q) : q[i].type = "Down" /\ Has(keys, q[i].key)
    BY <2>4, EachType, EachHas
  <2>6. PressEvents(s, k) = Append(q, Down(k))
    BY <1>3 DEF PressEvents
  <2> HIDE DEF q, keys, I, D
  <2>7. \A i \in 1..Len(q) : q[i] \in Downs(D)
    BY <2>2, <2>4, <2>5 DEF Downs
  <2>8. q \in Seq(Downs(D)) /\ Down(k) \in Downs(D)
    BY <1>0, <2>5, <2>7 DEF Downs
  <2>9. InjectedPreferred(Press(s, k))
    <3>1. DOMAIN s.injected = PlainKeys
      BY DEF KeyboardStates
    <3> QED
      BY <2>2, <2>3, <3>1 DEF InjectedPreferred
  <2> QED
    BY <2>6, <2>8, <2>9 DEF D
<1> QED
  BY <1>1, <1>2, <1>3

\* release tells the sink of every key it takes out of the state.
LEMMA ReleaseHands ==
    ASSUME NEW s \in KeyboardStates, NEW k \in Keys, InjectedPreferred(s)
    PROVE  /\ ReleaseEvents(s, k) \in Seq(Ups)
           /\ \A x \in s.depressed : x \in Release(s, k).depressed \/ Has(ReleaseEvents(s, k), Up(x))
           /\ InjectedPreferred(Release(s, k))
<1>0. /\ Up(k) \in Events /\ Up(k).type = "Up" /\ Up(k) \in Ups /\ <<Up(k)>> \in Seq(Ups)
      /\ Has(<<Up(k)>>, Up(k))
  BY DEF Up, Events, Ups, Has
<1>1. CASE k \notin s.depressed
  <2>1. ReleaseEvents(s, k) = <<>> /\ Release(s, k) = s
    BY <1>1 DEF ReleaseEvents, Release
  <2> QED
    BY <2>1
<1>2. CASE k \in s.depressed /\ k \notin PlainKeys
  <2>1. ReleaseEvents(s, k) = <<Up(k)>>
    <3>1. ReleaseEvents(s, k) = <<Up(k)>> \o <<>>
      BY <1>2 DEF ReleaseEvents
    <3> QED
      BY <1>0, <3>1
  <2>2. Release(s, k).injected = s.injected /\ s.depressed \ {k} \subseteq Release(s, k).depressed
    <3>1. CASE k \in Modifiers
      <4> DEFINE i == TrackOf(s, k)
                 rest == [s EXCEPT !.depressed = @ \ {k},
                                   !.tracks = IF i = 0 THEN @ ELSE RemoveAt(@, i)]
      <4>1. Release(s, k) = ReleaseModifier(s, k)
        BY <1>2, <3>1, Disjoint, Zenon DEF Release
      <4>2. ReleaseModifier(s, k) = rest \/ ReleaseModifier(s, k) = Toggle(rest, KindOf[k])
        BY DEF ReleaseModifier
      <4>3. /\ rest.depressed = s.depressed \ {k} /\ rest.injected = s.injected
            /\ {"depressed", "latched", "locked", "injected"} \subseteq DOMAIN rest
        BY DEF KeyboardStates
      <4> HIDE DEF rest, i
      <4>4. /\ Toggle(rest, KindOf[k]).depressed = rest.depressed
            /\ Toggle(rest, KindOf[k]).injected = rest.injected
        BY <4>3 DEF Toggle
      <4> QED
        BY <4>1, <4>2, <4>3, <4>4
    <3>2. CASE k \in LockKeys
      <4>1. Release(s, k) = ReleaseLock(s, k)
        BY <1>2, <3>2, Disjoint, Zenon DEF Release
      <4> QED
        BY <4>1 DEF ReleaseLock, KeyboardStates
    <3> QED
      BY <1>2, <3>1, <3>2 DEF Keys
  <2> QED
    BY <1>0, <2>1, <2>2 DEF InjectedPreferred
<1>3. CASE k \in s.depressed /\ k \in PlainKeys
  <2> DEFINE I == s.injected[k] \cap s.depressed
             keys == InKindOrder(I)
             q == Each(Up, keys)
  <2>1. Release(s, k) = ReleasePlain(s, k)
    BY <1>3, Disjoint DEF Release
  <2>2. /\ Release(s, k).depressed = s.depressed \ ({k} \cup s.injected[k])
        /\ Release(s, k).injected = [s.injected EXCEPT ![k] = {}]
    BY <2>1 DEF ReleasePlain, KeyboardStates
  <2>3. I \subseteq Preferred
    BY <1>3 DEF InjectedPreferred
  <2>4. keys \in Seq(Keys) /\ \A x : Has(keys, x) <=> x \in I \cap Preferred
    BY InKindOrderType, InKindOrderHas
  <2>5. /\ q \in Seq(Events) /\ \A i \in 1..Len(q) : q[i].type = "Up"
        /\ \A x : Has(q, Up(x)) <=> Has(keys, x)
    BY <2>4, EachType, EachHas
  <2>6. ReleaseEvents(s, k) = <<Up(k)>> \o q
    BY <1>3 DEF ReleaseEvents
  <2> HIDE DEF q, keys
  <2>7. q \in Seq(Ups)
    BY <2>5 DEF Ups
  <2>8. \A e : Has(<<Up(k)>> \o q, e) <=> Has(<<Up(k)>>, e) \/ Has(q, e)
    BY <1>0, <2>7, HasCat
  <2>9. \A x \in s.depressed : x \in Release(s, k).depressed \/ Has(ReleaseEvents(s, k), Up(x))
    BY <1>0, <2>2, <2>3, <2>4, <2>5, <2>6, <2>8
  <2>10. InjectedPreferred(Release(s, k))
    <3>1. DOMAIN s.injected = PlainKeys
      BY DEF KeyboardStates
    <3> QED
      BY <2>2, <3>1 DEF InjectedPreferred
  <2>11. ReleaseEvents(s, k) \in Seq(Ups)
    BY <1>0, <2>6, <2>7
  <2> QED
    BY <2>9, <2>10, <2>11
<1> QED
  BY <1>1, <1>2, <1>3

\* release_all tells the sink of every depressed key.
LEMMA ReleaseAllHands ==
    ASSUME NEW s \in KeyboardStates
    PROVE  /\ ReleaseAllEvents(s) \in Seq(Ups)
           /\ \A x \in s.depressed : Has(ReleaseAllEvents(s), Up(x))
           /\ ReleaseAll(s).depressed = {} /\ InjectedPreferred(ReleaseAll(s))
<1> DEFINE A == s.depressed \ Modifiers
           B == s.depressed \cap Modifiers
           a == Each(Up, SetToSeq(A))
           b == Each(Up, SetToSeq(B))
<1>1. ASSUME NEW T \in SUBSET Keys
      PROVE  /\ Each(Up, SetToSeq(T)) \in Seq(Ups)
             /\ \A x \in T : Has(Each(Up, SetToSeq(T)), Up(x))
  <2> DEFINE keys == SetToSeq(T)
             q == Each(Up, keys)
  <2>1. IsFiniteSet(T)
    BY FiniteKeys, FS_Subset
  <2>2. keys \in Seq(T) /\ \A x : Has(keys, x) <=> x \in T
    BY <2>1, SetToSeqType, SetToSeqHas
  <2> HIDE DEF keys
  <2>3. keys \in Seq(Keys)
    BY <2>2
  <2>4. /\ q \in Seq(Events) /\ \A i \in 1..Len(q) : q[i].type = "Up"
        /\ \A x : Has(q, Up(x)) <=> Has(keys, x)
    BY <2>3, EachType, EachHas
  <2> HIDE DEF q
  <2>5. q \in Seq(Ups)
    BY <2>4 DEF Ups
  <2> QED
    BY <2>2, <2>4, <2>5 DEF q, keys
<1>2. A \in SUBSET Keys /\ B \in SUBSET Keys
  BY DEF KeyboardStates
<1>3. /\ a \in Seq(Ups) /\ b \in Seq(Ups)
      /\ \A x \in A : Has(a, Up(x))
      /\ \A x \in B : Has(b, Up(x))
  <2> HIDE DEF A, B
  <2> QED BY <1>1, <1>2
<1>4. ReleaseAllEvents(s) = a \o b
  BY DEF ReleaseAllEvents
<1> HIDE DEF a, b
<1>5. \A e : Has(a \o b, e) <=> Has(a, e) \/ Has(b, e)
  BY <1>3, HasCat
<1>6. \A x \in s.depressed : x \in A \/ x \in B
  OBVIOUS
<1>7. \A x \in s.depressed : Has(a \o b, Up(x))
  <2> HIDE DEF A, B
  <2> QED BY <1>3, <1>5, <1>6
<1>8. a \o b \in Seq(Ups)
  BY <1>3
<1>9. ReleaseAll(s).depressed = {} /\ InjectedPreferred(ReleaseAll(s))
  BY DEF ReleaseAll, KeyboardStates, InjectedPreferred
<1> QED
  BY <1>4, <1>7, <1>8, <1>9

-----------------------------------------------------------------------------
(* Nothing stuck at the broker.                                            *)

\* Every key that goes down in q is in D, or comes up again behind it.
Followed(q, D) ==
    \A i \in 1..Len(q) : q[i].type = "Down" =>
        q[i].key \in D \/ \E j \in i..Len(q) : q[j] = Up(q[i].key)

\* Every key of K is in D, or comes up in q.
Covered(K, q, D) == \A k \in K : k \in D \/ Has(q, Up(k))

\* What makes NoStuckKey inductive: who is idle has handed everything over, a
\* session that does not serve holds nothing, and what goes down is followed.
HandOver ==
    /\ cause = "idle" => pending = <<>> /\ todo = <<>>
    /\ client # "live" => session = {}
    /\ dest = "Terminal" => client = "absent"
    /\ cause = "switch" => client = "absent"
    /\ InjectedPreferred(st)
    /\ Followed(pending, st.depressed)
    /\ Covered(session, pending, st.depressed)

\* Presses of what is depressed, then releases.
LEMMA FollowedCat ==
    ASSUME NEW D, NEW E, NEW a \in Seq(Downs(D)), NEW b \in Seq(Ups), Covered(D, b, E)
    PROVE  Followed(a \o b, E)
<1> DEFINE q == a \o b
<1>1. /\ Len(a) \in Nat /\ Len(b) \in Nat /\ Len(q) = Len(a) + Len(b)
      /\ \A i \in 1..Len(a) : q[i] = a[i] /\ a[i] \in Downs(D)
      /\ \A i \in 1..Len(b) : q[Len(a) + i] = b[i] /\ b[i] \in Ups
  <2>1. a \in Seq(Downs(D) \cup Ups) /\ b \in Seq(Downs(D) \cup Ups)
    OBVIOUS
  <2> QED
    BY <2>1
<1> HIDE DEF q
<1>2. ASSUME NEW i \in 1..Len(q), q[i].type = "Down"
      PROVE  q[i].key \in E \/ \E j \in i..Len(q) : q[j] = Up(q[i].key)
  <2>1. CASE i \in 1..Len(a)
    <3>1. q[i].key \in D
      BY <1>1, <2>1 DEF Downs
    <3>2. \A j \in 1..Len(b) : Len(a) + j \in i..Len(q)
      BY <1>1, <2>1
    <3>3. CASE Has(b, Up(q[i].key))
      BY <1>1, <3>2, <3>3 DEF Has
    <3> QED
      BY <3>1, <3>3 DEF Covered
  <2>2. CASE i \notin 1..Len(a)
    <3>1. i - Len(a) \in 1..Len(b) /\ Len(a) + (i - Len(a)) = i
      BY <1>1, <2>2
    <3>2. q[Len(a) + (i - Len(a))] \in Ups
      BY <1>1, <3>1
    <3> QED
      BY <1>2, <3>1, <3>2 DEF Ups
  <2> QED BY <2>1, <2>2
<1> QED
  BY <1>2 DEF Followed, q

\* Nothing goes down in a list of releases, nor in one of repeats.
LEMMA FollowedNoDown ==
    ASSUME NEW q, NEW D, \A i \in 1..Len(q) : q[i].type # "Down"
    PROVE  Followed(q, D)
BY DEF Followed

\* One event is handed over.
LEMMA FollowedTail ==
    ASSUME NEW q \in Seq(Events), q # <<>>, NEW D, Followed(q, D)
    PROVE  /\ Followed(Tail(q), D)
           /\ Head(q).type = "Down" => Head(q).key \in D \/ Has(Tail(q), Up(Head(q).key))
           /\ \A e : Has(q, e) => e = Head(q) \/ Has(Tail(q), e)
           /\ Head(q) \in Events /\ Tail(q) \in Seq(Events)
<1> DEFINE t == Tail(q)
<1>1. /\ Len(q) \in Nat /\ Len(q) >= 1 /\ Len(t) = Len(q) - 1 /\ Head(q) = q[1]
      /\ \A i \in 1..(Len(q) - 1) : t[i] = q[i + 1]
      /\ Head(q) \in Events /\ t \in Seq(Events)
  OBVIOUS
<1> HIDE DEF t
<1>2. \A j \in 2..Len(q) : j - 1 \in 1..Len(t) /\ t[j - 1] = q[j]
  <2> SUFFICES ASSUME NEW j \in 2..Len(q) PROVE j - 1 \in 1..Len(t) /\ t[j - 1] = q[j]
    OBVIOUS
  <2>1. j - 1 \in 1..(Len(q) - 1) /\ (j - 1) + 1 = j
    BY <1>1
  <2> QED
    BY <1>1, <2>1
<1>3. Followed(t, D)
  <2> SUFFICES ASSUME NEW i \in 1..Len(t), t[i].type = "Down", t[i].key \notin D
               PROVE  \E j \in i..Len(t) : t[j] = Up(t[i].key)
    BY DEF Followed
  <2>1. i + 1 \in 1..Len(q) /\ t[i] = q[i + 1]
    BY <1>1
  <2>2. PICK j \in (i + 1)..Len(q) : q[j] = Up(t[i].key)
    BY <2>1 DEF Followed
  <2>3. j \in 2..Len(q) /\ j - 1 \in i..Len(t)
    BY <1>1, <2>1
  <2> QED
    BY <1>2, <2>2, <2>3
<1>4. Head(q).type = "Down" => Head(q).key \in D \/ Has(t, Up(Head(q).key))
  <2> SUFFICES ASSUME q[1].type = "Down", q[1].key \notin D
               PROVE  Has(t, Up(q[1].key))
    BY <1>1
  <2>1. PICK j \in 1..Len(q) : q[j] = Up(q[1].key)
    BY <1>1 DEF Followed
  <2>2. j # 1
    BY <2>1 DEF Up
  <2>3. j \in 2..Len(q)
    BY <1>1, <2>2
  <2> QED
    BY <1>2, <2>1, <2>3 DEF Has
<1>5. \A e : Has(q, e) => e = Head(q) \/ Has(t, e)
  <2> SUFFICES ASSUME NEW i \in 1..Len(q)
               PROVE  q[i] = q[1] \/ Has(t, q[i])
    BY <1>1 DEF Has
  <2>1. CASE i = 1
    BY <2>1
  <2>2. CASE i # 1
    <3>1. i \in 2..Len(q)
      BY <1>1, <2>2
    <3> QED
      BY <1>2, <3>1 DEF Has
  <2> QED BY <2>1, <2>2
<1> QED
  BY <1>1, <1>3, <1>4, <1>5 DEF t

\* emergency_release hands over the release of everything depressed.
LEMMA EmergencyHands ==
    ASSUME TypeOK, NEW caller, EmergencyRelease(caller), NEW K, K \subseteq st.depressed
    PROVE  /\ pending' \in Seq(Ups) /\ st'.depressed = {} /\ InjectedPreferred(st')
           /\ Followed(pending', st'.depressed)
           /\ Covered(K, pending', st'.depressed)
           /\ cause' = caller /\ todo' = <<>>
<1>1. st \in KeyboardStates /\ st' = ReleaseAll(st) /\ pending' = ReleaseAllEvents(st)
      /\ cause' = caller /\ todo' = <<>>
  BY DEF TypeOK, EmergencyRelease
<1>2. /\ pending' \in Seq(Ups)
      /\ \A x \in st.depressed : Has(pending', Up(x))
      /\ st'.depressed = {} /\ InjectedPreferred(st')
  BY <1>1, ReleaseAllHands
<1>3. \A i \in 1..Len(pending') : pending'[i].type # "Down"
  <2>1. \A i \in 1..Len(pending') : pending'[i] \in Ups
    BY <1>2
  <2> QED
    BY <2>1 DEF Ups
<1>4. Followed(pending', st'.depressed)
  BY <1>3, FollowedNoDown
<1> QED
  BY <1>1, <1>2, <1>4 DEF Covered

\* One event reaches its sink.
LEMMA HandOverSends ==
    ASSUME TypeOK, HandOver, SendServed \/ SendLost \/ SendDropped \/ SendTerminal
    PROVE  HandOver'
<1> DEFINE e == Head(pending)
<1>1. /\ pending # <<>> /\ pending \in Seq(Events) /\ pending' = Tail(pending)
      /\ st' = st /\ cause' = cause /\ todo' = todo /\ dest' = dest
  BY DEF SendServed, SendLost, SendDropped, SendTerminal, TypeOK, stateVars
<1>2. /\ Followed(Tail(pending), st.depressed)
      /\ e.type = "Down" => e.key \in st.depressed \/ Has(Tail(pending), Up(e.key))
      /\ \A x : Has(pending, x) => x = e \/ Has(Tail(pending), x)
      /\ e \in Events
  BY <1>1, FollowedTail DEF HandOver
<1>3. cause # "idle"
  BY <1>1 DEF HandOver
<1>4. Covered(session', pending', st'.depressed)
  <2>1. CASE session' = {}
    BY <2>1 DEF Covered
  <2>2. CASE session' = SessionAfter(e) /\ ~SessionRefuses(e)
    <3> SUFFICES ASSUME NEW k \in session', k \notin st.depressed
                 PROVE  Has(Tail(pending), Up(k))
      BY <1>1 DEF Covered
    <3>1. CASE k \in session /\ Up(k) # e
      BY <1>2, <3>1 DEF HandOver, Covered
    <3>2. CASE ~(k \in session /\ Up(k) # e)
      <4>1. e.type = "Down" /\ k = e.key
        BY <1>2, <2>2, <3>2 DEF SessionAfter, Events, Up
      <4> QED
        BY <1>2, <4>1
    <3> QED BY <3>1, <3>2
  <2>3. CASE session' = session /\ session = {}
    BY <2>3 DEF Covered
  <2>4. \/ session' = {}
        \/ session' = SessionAfter(e) /\ ~SessionRefuses(e)
        \/ session' = session /\ client # "live"
    <3>1. CASE SendServed
      BY <3>1 DEF SendServed
    <3>2. CASE SendLost \/ SendDropped
      BY <3>2 DEF SendLost, SendDropped, linkVars
    <3>3. CASE SendTerminal
      BY <3>3 DEF SendTerminal, linkVars, HandOver
    <3> QED BY <3>1, <3>2, <3>3
  <2> QED BY <2>1, <2>2, <2>3, <2>4 DEF HandOver
<1>5. client' # "live" => session' = {}
  BY DEF SendServed, SendLost, SendDropped, SendTerminal, linkVars, HandOver
<1>6. (dest' = "Terminal" => client' = "absent") /\ (cause' = "switch" => client' = "absent")
  <2>1. CASE SendServed
    BY <1>1, <2>1 DEF SendServed, HandOver
  <2>2. CASE client' = client
    BY <1>1, <2>2 DEF HandOver
  <2> QED
    BY <2>1, <2>2 DEF SendLost, SendDropped, SendTerminal, linkVars
<1>7. InjectedPreferred(st') /\ Followed(pending', st'.depressed)
  BY <1>1, <1>2 DEF HandOver
<1> QED
  BY <1>1, <1>3, <1>4, <1>5, <1>6, <1>7 DEF HandOver

\* A handler meets an error: nothing is held behind the sink that failed.
LEMMA HandOverFails ==
    ASSUME TypeOK, HandOver, SendFails \/ TerminalFull
    PROVE  HandOver'
<1>1. session' = {} /\ client' # "live" /\ HandlerFails
      /\ client' \in {client, "none"} /\ (dest = "Terminal" => client' = client)
      /\ (cause = "switch" => TerminalFull)
  <2>1. CASE SendFails
    BY <2>1 DEF SendFails, MayFail, HandOver
  <2>2. CASE TerminalFull
    BY <2>2 DEF TerminalFull, HandOver, linkVars
  <2> QED BY <2>1, <2>2
<1>2. CASE cause = "key"
  <2>1. EmergencyRelease("release") /\ dest' = dest
    BY <1>1, <1>2 DEF HandlerFails
  <2>2. /\ InjectedPreferred(st') /\ Followed(pending', st'.depressed)
        /\ cause' = "release" /\ todo' = <<>>
    BY <2>1, EmergencyHands
  <2>3. Covered(session', pending', st'.depressed)
    BY <1>1 DEF Covered
  <2> QED
    BY <1>1, <2>1, <2>2, <2>3 DEF HandOver
<1>3. CASE cause # "key"
  <2>1. /\ pending' = <<>> /\ todo' = <<>> /\ cause' = "idle" /\ st' = st
        /\ dest' = IF cause # "switch" THEN dest ELSE IF dest = "System" THEN "Terminal" ELSE "System"
    BY <1>1, <1>3 DEF HandlerFails, stateVars
  <2>2. Followed(pending', st'.depressed) /\ Covered(session', pending', st'.depressed)
    BY <1>1, <2>1 DEF Followed, Covered
  <2>3. dest' = "Terminal" => client' = "absent"
    <3>1. CASE cause # "switch"
      BY <1>1, <2>1, <3>1 DEF HandOver
    <3>2. CASE cause = "switch"
      <4>1. dest = "Terminal"
        BY <1>1, <3>2 DEF TerminalFull
      <4> QED
        BY <2>1, <3>2, <4>1
    <3> QED BY <3>1, <3>2
  <2> QED
    BY <1>1, <2>1, <2>2, <2>3 DEF HandOver
<1> QED
  BY <1>2, <1>3

\* Fingers: press, release, and the rollover that releases everything.
LEMMA HandOverKeys ==
    ASSUME TypeOK, HandOver, NEW k \in Buttons, KeyPressed(k) \/ KeyReleased(k)
    PROVE  HandOver'
<1>1. /\ k \in Keys /\ st \in KeyboardStates /\ InjectedPreferred(st)
      /\ pending = <<>> /\ todo = <<>> /\ session \subseteq st.depressed
  <2>1. pending = <<>> /\ todo = <<>>
    BY DEF KeyPressed, KeyReleased, HandOver
  <2>2. \A x : ~Has(pending, x)
    BY <2>1 DEF Has
  <2> QED
    BY <2>1, <2>2, UiAssumption DEF TypeOK, HandOver, Covered
<1>2. /\ session' = session /\ client' = client /\ dest' = dest /\ cause' \in {"key", "release"}
  BY DEF KeyPressed, KeyReleased, linkVars, EmergencyRelease
<1>3. /\ InjectedPreferred(st') /\ Followed(pending', st'.depressed)
      /\ Covered(session, pending', st'.depressed)
  <2>1. CASE EmergencyRelease("release")
    BY <1>1, <2>1, EmergencyHands
  <2>2. CASE st' = Press(st, k) /\ pending' = PressEvents(st, k)
    <3>1. /\ pending' \in Seq(Downs(st'.depressed)) /\ InjectedPreferred(st')
          /\ st.depressed \subseteq st'.depressed
      BY <1>1, <2>2, PressHands, PressFacts
    <3>2. <<>> \in Seq(Ups) /\ Covered(st'.depressed, <<>>, st'.depressed)
      BY DEF Covered
    <3>3. pending' \o <<>> = pending'
      BY <3>1
    <3>4. Followed(pending' \o <<>>, st'.depressed)
      BY <3>1, <3>2, FollowedCat
    <3> QED
      BY <1>1, <3>1, <3>3, <3>4 DEF Covered
  <2>3. CASE st' = Release(st, k) /\ pending' = ReleaseEvents(st, k)
    <3>1. /\ pending' \in Seq(Ups) /\ InjectedPreferred(st')
          /\ \A x \in st.depressed : x \in st'.depressed \/ Has(pending', Up(x))
      BY <1>1, <2>3, ReleaseHands
    <3>2. \A i \in 1..Len(pending') : pending'[i] \in Ups
      BY <3>1
    <3>3. \A i \in 1..Len(pending') : pending'[i].type # "Down"
      BY <3>2 DEF Ups
    <3> QED
      BY <1>1, <3>1, <3>3, FollowedNoDown DEF Covered
  <2> QED
    BY <2>1, <2>2, <2>3 DEF KeyPressed, KeyReleased
<1> QED
  BY <1>2, <1>3 DEF HandOver

\* One action of type_text; a tap presses and releases in one go.
LEMMA HandOverText ==
    ASSUME TypeOK, HandOver, TextAction
    PROVE  HandOver'
<1> DEFINE k == Head(todo).key
           p == Press(st, k)
<1>1. /\ k \in Keys /\ st \in KeyboardStates /\ InjectedPreferred(st)
      /\ pending = <<>> /\ session \subseteq st.depressed
  <2>1. Head(todo) \in Actions
    BY DEF TextAction, TypeOK
  <2>2. pending = <<>>
    BY DEF TextAction
  <2>3. \A x : ~Has(pending, x)
    BY <2>2 DEF Has
  <2> QED
    BY <2>1, <2>2, <2>3 DEF TypeOK, HandOver, Covered, Actions
<1>2. /\ session' = session /\ client' = client /\ dest' = dest /\ cause = "text"
      /\ cause' \in {"text", "idle"} /\ (cause' = "idle" => pending' = <<>> /\ todo' = <<>>)
  <2>1. session' = session /\ client' = client /\ dest' = dest /\ cause = "text"
    BY DEF TextAction, linkVars
  <2>2. \/ cause' = cause
        \/ cause' = "idle" /\ pending' = pending /\ todo' = <<>>
    BY Zenon DEF TextAction
  <2> QED BY <1>1, <2>1, <2>2
<1>3. /\ PressEvents(st, k) \in Seq(Downs(p.depressed)) /\ InjectedPreferred(p)
      /\ st.depressed \subseteq p.depressed /\ p \in KeyboardStates
  BY <1>1, PressHands, PressFacts, PressType
<1>4. /\ ReleaseEvents(st, k) \in Seq(Ups) /\ InjectedPreferred(Release(st, k))
      /\ Covered(st.depressed, ReleaseEvents(st, k), Release(st, k).depressed)
  BY <1>1, ReleaseHands DEF Covered
<1>5. /\ ReleaseEvents(p, k) \in Seq(Ups) /\ InjectedPreferred(Release(p, k))
      /\ Covered(p.depressed, ReleaseEvents(p, k), Release(p, k).depressed)
  <2> HIDE DEF p
  <2> QED BY <1>1, <1>3, ReleaseHands DEF Covered
<1>6. \/ st' = st /\ pending' = pending
      \/ st' = p /\ pending' = PressEvents(st, k)
      \/ st' = Release(p, k) /\ pending' = PressEvents(st, k) \o ReleaseEvents(p, k)
      \/ st' = Release(st, k) /\ pending' = ReleaseEvents(st, k)
  BY Zenon DEF TextAction
<1> DEFINE a == PressEvents(st, k)
           b == ReleaseEvents(p, k)
           c == ReleaseEvents(st, k)
           R == Release(p, k)
           Q == Release(st, k)
<1> HIDE DEF k, p, a, b, c, R, Q
<1>7. /\ InjectedPreferred(st') /\ Followed(pending', st'.depressed)
      /\ Covered(session, pending', st'.depressed)
  <2>1. CASE st' = st /\ pending' = pending
    BY <2>1 DEF HandOver
  <2>2. CASE st' = p /\ pending' = a
    <3>1. <<>> \in Seq(Ups) /\ Covered(p.depressed, <<>>, p.depressed)
      BY DEF Covered
    <3>2. a \in Seq(Downs(p.depressed))
      BY <1>3 DEF a
    <3>3. a \o <<>> = a
      BY <3>2
    <3>4. Followed(a \o <<>>, p.depressed)
      BY <3>1, <3>2, FollowedCat
    <3> QED
      BY <1>1, <1>3, <2>2, <3>3, <3>4 DEF Covered
  <2>3. CASE st' = R /\ pending' = a \o b
    <3>1. a \in Seq(Downs(p.depressed)) /\ b \in Seq(Ups) /\ Covered(p.depressed, b, R.depressed)
      BY <1>3, <1>5 DEF a, b, R
    <3>2. Followed(a \o b, R.depressed)
      BY <3>1, FollowedCat
    <3>3. \A x : Has(b, x) => Has(a \o b, x)
      <4>1. a \in Seq(Downs(p.depressed) \cup Ups) /\ b \in Seq(Downs(p.depressed) \cup Ups)
        BY <3>1
      <4> QED
        BY <4>1, HasCat
    <3>4. Covered(session, a \o b, R.depressed)
      BY <1>1, <1>3, <3>1, <3>3 DEF Covered
    <3> QED
      BY <1>5, <2>3, <3>2, <3>4 DEF R
  <2>4. CASE st' = Q /\ pending' = c
    <3>1. c \in Seq(Ups) /\ Covered(st.depressed, c, Q.depressed)
      BY <1>4 DEF c, Q
    <3>2. \A i \in 1..Len(c) : c[i] \in Ups
      BY <3>1
    <3>3. \A i \in 1..Len(c) : c[i].type # "Down"
      BY <3>2 DEF Ups
    <3>4. Followed(c, Q.depressed) /\ Covered(session, c, Q.depressed)
      BY <1>1, <3>1, <3>3, FollowedNoDown DEF Covered
    <3> QED
      BY <1>4, <2>4, <3>4 DEF Q
  <2> QED
    BY <1>6, <2>1, <2>2, <2>3, <2>4 DEF a, b, c, R, Q
<1> QED
  BY <1>2, <1>7 DEF HandOver

\* Every step keeps what is handed over followed.
LEMMA HandOverStep ==
    ASSUME TypeOK, HandOver, [Next]_vars
    PROVE  HandOver'
<1>1. ASSUME NEW f, NEW k, NEW mods, TypeChar(f, k, mods)
      PROVE  HandOver'
  BY <1>1 DEF TypeChar, HandOver, stateVars, linkVars
<1>2. ASSUME NEW f, TypeNothing(f)
      PROVE  HandOver'
  BY <1>2 DEF TypeNothing, HandOver, stateVars, runVars, linkVars
<1>3. ASSUME TickRepeat
      PROVE  HandOver'
  <2>1. PICK due \in SUBSET repeating \ {{}} : pending' = Each(Repeat, SetToSeq(due))
    BY <1>3 DEF TickRepeat
  <2>2. SetToSeq(due) \in Seq(due) /\ due \subseteq Keys
    BY FiniteKeys, FS_Subset, SetToSeqType DEF TypeOK
  <2>3. SetToSeq(due) \in Seq(Keys)
    BY <2>2
  <2>4. \A i \in 1..Len(pending') : pending'[i].type = "Repeat"
    BY <2>1, <2>3, EachHas
  <2>5. /\ st' = st /\ session' = session /\ client' = client /\ dest' = dest /\ cause' = "tick"
        /\ cause = "idle"
    BY <1>3 DEF TickRepeat, stateVars, linkVars
  <2>6. Followed(pending', st'.depressed)
    BY <2>4, FollowedNoDown
  <2>7. session \subseteq st.depressed
    <3>1. \A x : ~Has(<<>>, x)
      BY DEF Has
    <3> QED
      BY <2>5, <3>1 DEF HandOver, Covered
  <2> QED
    BY <2>5, <2>6, <2>7 DEF HandOver, Covered
<1>4. ASSUME SwitchDestination
      PROVE  HandOver'
  <2>1. /\ EmergencyRelease("switch") /\ session' = session /\ client' = client /\ dest' = dest
        /\ client = "absent" /\ session = {}
    BY <1>4 DEF SwitchDestination, linkVars, HandOver
  <2>2. /\ InjectedPreferred(st') /\ Followed(pending', st'.depressed)
        /\ cause' = "switch"
    BY <2>1, EmergencyHands
  <2> QED
    BY <2>1, <2>2 DEF HandOver, Covered
<1>5. ASSUME TapTimeout
      PROVE  HandOver'
  <2>1. PICK n \in 1..Len(st.tracks) : st' = Expire(st, n)
    BY <1>5 DEF TapTimeout
  <2>2. st'.depressed = st.depressed /\ st'.injected = st.injected
    BY <2>1 DEF Expire, KeyboardStates, TypeOK
  <2> QED
    BY <1>5, <2>2 DEF TapTimeout, HandOver, InjectedPreferred, runVars, linkVars
<1>6. ASSUME PollConnect \/ LinkLost \/ SessionEnds
      PROVE  HandOver'
  <2>1. /\ st' = st /\ pending' = pending /\ todo' = todo /\ cause' = cause /\ dest' = dest
        /\ session' \subseteq session
    BY <1>6 DEF PollConnect, LinkLost, SessionEnds, stateVars, runVars
  <2>2. /\ client # "absent"
        /\ client' # "live" => session' = {}
    BY <1>6 DEF PollConnect, LinkLost, MayFail, SessionEnds, HandOver
  <2> QED
    BY <2>1, <2>2 DEF HandOver, Covered
<1>7. ASSUME HandlerReturns
      PROVE  HandOver'
  <2>1. /\ pending = <<>> /\ todo = <<>> /\ session' = session /\ client' = client
        /\ session \subseteq st.depressed
    <3>1. pending = <<>> /\ todo = <<>> /\ session' = session /\ client' = client
      BY <1>7 DEF HandlerReturns, linkVars
    <3>2. \A x : ~Has(<<>>, x)
      BY DEF Has
    <3> QED
      BY <3>1, <3>2 DEF HandOver, Covered
  <2>2. CASE EmergencyRelease("release") /\ dest' = dest
    <3>1. /\ InjectedPreferred(st') /\ Followed(pending', st'.depressed)
          /\ Covered(session, pending', st'.depressed) /\ cause' = "release"
      BY <2>1, <2>2, EmergencyHands
    <3> QED
      BY <2>1, <2>2, <3>1 DEF HandOver
  <2>3. CASE /\ cause' = "idle" /\ st' = st /\ todo' = todo /\ pending' = pending
             /\ dest' = IF cause # "switch" THEN dest
                        ELSE IF dest = "System" THEN "Terminal" ELSE "System"
    BY <2>1, <2>3 DEF HandOver
  <2> QED
    BY <1>7, <2>2, <2>3 DEF HandlerReturns, stateVars
<1>8. ASSUME UNCHANGED vars
      PROVE  HandOver'
  BY <1>8 DEF vars, stateVars, runVars, linkVars, HandOver
<1> QED
  BY <1>1, <1>2, <1>3, <1>4, <1>5, <1>6, <1>7, <1>8, HandOverKeys, HandOverText, HandOverSends,
     HandOverFails DEF Next

\* At the start the broker holds nothing and nothing is pending.
LEMMA HandOverInit ==
    Init => HandOver
<1> SUFFICES ASSUME Init
             PROVE  HandOver
  OBVIOUS
<1>1. /\ cause = "idle" /\ pending = <<>> /\ todo = <<>> /\ session = {}
      /\ st = NewState /\ (dest = "Terminal" => client = "absent")
  BY DEF Init
<1>2. InjectedPreferred(NewState)
  BY DEF InjectedPreferred, NewState
<1>3. Followed(<<>>, NewState.depressed)
  BY DEF Followed
<1> QED
  BY <1>1, <1>2, <1>3 DEF HandOver, Covered

\* The invariant about what the broker was handed holds throughout.
LEMMA HandOverCorrect ==
    Spec => [](TypeOK /\ HandOver)
<1>1. TypeOK /\ HandOver /\ [Next]_vars => (TypeOK /\ HandOver)'
  BY TypeStep, HandOverStep
<1> QED
  BY TypeInit, HandOverInit, <1>1, PTL DEF Spec

\* No key stays down at the broker: what the session holds is depressed in the
\* UI's state or its release is on the way, through rollovers, failed writes,
\* reconnects, taps and injected modifiers, for every set of keys and limits.
THEOREM NothingStuck ==
    Spec => []NoStuckKey
<1>1. TypeOK /\ HandOver => NoStuckKey
  <2> SUFFICES ASSUME TypeOK, HandOver, NEW k \in session, k \notin st.depressed
               PROVE  k \in KeysUpSoon
    BY DEF NoStuckKey
  <2>1. PICK i \in 1..Len(pending) : pending[i] = Up(k)
    BY DEF HandOver, Covered, Has
  <2>2. pending[i].type = "Up" /\ pending[i].key = k
    BY <2>1 DEF Up
  <2> QED
    BY <2>2 DEF KeysUpSoon
<1> QED
  BY HandOverCorrect, <1>1, PTL

-----------------------------------------------------------------------------
(* The destination that is not active.                                     *)

\* Only plain keys repeat.
Sent == {e \in Events : e.type = "Repeat" => e.key \in PlainKeys}

\* Every modifier of the terminal sink is depressed or on its way up.
TermCovered(M, q, D) ==
    \A m \in M : \E k \in Modifiers : KindOf[k] = m /\ (k \in D \/ Has(q, Up(k)))

\* What makes InactiveHoldsNothing inductive: a switch has released everything,
\* and only typing mixes presses and releases, which never goes to the terminal.
Routed ==
    /\ pending \in Seq(Sent)
    /\ cause = "text" => dest = "System"
    /\ cause = "switch" => st.depressed = {}
    /\ cause \in {"switch", "release"} => pending \in Seq(Ups)
    /\ cause # "text" => pending \in Seq(Ups) \/ pending \in Seq(Events \ Ups)
    /\ dest = "System" => termMods = {}
    /\ dest = "Terminal" => TermCovered(termMods, pending, st.depressed)

\* A list without releases brings nothing up.
LEMMA NoUps ==
    ASSUME NEW q \in Seq(Events \ Ups)
    PROVE  \A k : ~Has(q, Up(k))
<1>1. \A i \in 1..Len(q) : q[i] \in Events \ Ups
  OBVIOUS
<1>2. \A k : Up(k).type = "Up"
  BY DEF Up
<1> QED
  BY <1>1, <1>2 DEF Has, Ups

\* emergency_release, once nothing is on its way up any more.
LEMMA RoutedEmergency ==
    ASSUME TypeOK, Routed, pending \in Seq(Events \ Ups), NEW caller \in {"release", "switch"},
           EmergencyRelease(caller), dest' = dest, termMods' = termMods
    PROVE  Routed'
<1>1. /\ pending' \in Seq(Ups) /\ st'.depressed = {} /\ cause' = caller
      /\ Covered(st.depressed, pending', {})
  BY EmergencyHands
<1>4. pending' \in Seq(Sent)
  <2>1. Ups \subseteq Sent
    BY DEF Ups, Sent
  <2> QED
    BY <1>1, <2>1
<1>2. \A k : ~Has(pending, Up(k))
  BY NoUps
<1>3. dest' = "Terminal" => TermCovered(termMods', pending', st'.depressed)
  <2> SUFFICES ASSUME dest = "Terminal", NEW m \in termMods
               PROVE  \E k \in Modifiers : KindOf[k] = m /\ Has(pending', Up(k))
    BY DEF TermCovered
  <2>1. PICK k \in Modifiers : KindOf[k] = m /\ k \in st.depressed
    BY <1>2 DEF Routed, TermCovered
  <2> QED
    BY <1>1, <2>1 DEF Covered
<1> QED
  BY <1>1, <1>3, <1>4 DEF Routed, TermCovered

\* One event reaches its sink.
LEMMA RoutedSends ==
    ASSUME TypeOK, HandOver, Routed, SendServed \/ SendLost \/ SendDropped \/ SendTerminal
    PROVE  Routed'
<1> DEFINE e == Head(pending)
<1>1. /\ pending # <<>> /\ pending \in Seq(Events) /\ pending' = Tail(pending)
      /\ st' = st /\ cause' = cause /\ dest' = dest
  BY DEF SendServed, SendLost, SendDropped, SendTerminal, TypeOK, stateVars
<1>2. /\ \A x : Has(pending, x) => x = e \/ Has(Tail(pending), x)
      /\ e \in Events
  BY <1>1, FollowedTail DEF HandOver
<1>3. /\ pending \in Seq(Ups) => pending' \in Seq(Ups)
      /\ pending' \in Seq(Sent) /\ e \in Sent
      /\ pending \in Seq(Events \ Ups) => pending' \in Seq(Events \ Ups)
  BY <1>1 DEF Routed
<1>4. CASE dest = "System"
  <2>1. termMods' = termMods
    BY <1>4 DEF SendServed, SendLost, SendDropped, SendTerminal, termVars
  <2> QED
    BY <1>1, <1>3, <1>4, <2>1 DEF Routed
<1>5. CASE dest = "Terminal"
  <2>1. termMods' = IF e.key \notin Modifiers THEN termMods
                    ELSE IF e.type = "Up" THEN termMods \ {KindOf[e.key]}
                    ELSE termMods \cup {KindOf[e.key]}
    BY <1>5 DEF SendServed, SendLost, SendDropped, SendTerminal
  <2>2. /\ pending \in Seq(Ups) \/ pending \in Seq(Events \ Ups)
        /\ TermCovered(termMods, pending, st.depressed) /\ dest # "System"
    BY <1>5 DEF Routed
  <2>3. e.type = "Down" => e.key \in st.depressed \/ Has(Tail(pending), Up(e.key))
    BY <1>1, FollowedTail DEF HandOver
  <2>4. ASSUME NEW m \in termMods', m \in termMods, ~(e.key \in Modifiers /\ e.type = "Up" /\ KindOf[e.key] = m)
        PROVE  \E k \in Modifiers : KindOf[k] = m /\ (k \in st.depressed \/ Has(Tail(pending), Up(k)))
    <3>1. PICK k \in Modifiers : KindOf[k] = m /\ (k \in st.depressed \/ Has(pending, Up(k)))
      BY <2>2, <2>4 DEF TermCovered
    <3>2. Up(k) # e
      BY <2>4, <3>1 DEF Up
    <3> QED
      BY <1>2, <3>1, <3>2
  <2>5. ASSUME NEW m \in termMods', m \notin termMods
        PROVE  \E k \in Modifiers : KindOf[k] = m /\ (k \in st.depressed \/ Has(Tail(pending), Up(k)))
    <3>1. e.key \in Modifiers /\ e.type # "Up" /\ KindOf[e.key] = m
      BY <2>1, <2>5
    <3>2. e.type = "Down"
      BY <1>3, <3>1, Disjoint DEF Events, Sent
    <3> QED
      BY <2>3, <3>1, <3>2
  <2>6. \A m \in termMods' : m \in termMods => ~(e.key \in Modifiers /\ e.type = "Up" /\ KindOf[e.key] = m)
    BY <2>1
  <2> QED
    BY <1>1, <1>3, <1>5, <2>4, <2>5, <2>6 DEF Routed, TermCovered
<1> QED
  BY <1>4, <1>5 DEF TypeOK

\* The lists the handlers hand over are sent lists, each of one kind.
LEMMA HandedSent ==
    /\ \A D : Downs(D) \subseteq Sent /\ Downs(D) \subseteq Events \ Ups
    /\ Ups \subseteq Sent
    /\ <<>> \in Seq(Ups) /\ <<>> \in Seq(Events \ Ups) /\ <<>> \in Seq(Sent)
    /\ \A x : ~Has(<<>>, x)
BY DEF Downs, Ups, Sent, Has

\* Fingers.
LEMMA RoutedKeys ==
    ASSUME TypeOK, HandOver, Routed, NEW k \in Buttons, KeyPressed(k) \/ KeyReleased(k)
    PROVE  Routed'
<1>1. /\ k \in Keys /\ st \in KeyboardStates /\ InjectedPreferred(st) /\ pending = <<>>
      /\ dest' = dest /\ termMods' = termMods /\ cause = "idle"
  BY UiAssumption DEF TypeOK, HandOver, KeyPressed, KeyReleased, termVars
<1>2. CASE EmergencyRelease("release")
  BY <1>1, <1>2, HandedSent, RoutedEmergency
<1>3. dest = "Terminal" => \A m \in termMods : \E x \in Modifiers : KindOf[x] = m /\ x \in st.depressed
  BY <1>1, HandedSent DEF Routed, TermCovered
<1>4. CASE st' = Press(st, k) /\ pending' = PressEvents(st, k) /\ cause' = "key"
  <2>1. pending' \in Seq(Downs(st'.depressed)) /\ st.depressed \subseteq st'.depressed
    BY <1>1, <1>4, PressHands, PressFacts
  <2>2. pending' \in Seq(Events \ Ups) /\ pending' \in Seq(Sent)
    BY <2>1, HandedSent
  <2>3. dest = "Terminal" => TermCovered(termMods, pending', st'.depressed)
    BY <1>3, <2>1 DEF TermCovered
  <2> QED
    BY <1>1, <1>4, <2>2, <2>3 DEF Routed
<1>5. CASE st' = Release(st, k) /\ pending' = ReleaseEvents(st, k) /\ cause' = "key"
  <2>1. /\ pending' \in Seq(Ups)
        /\ \A x \in st.depressed : x \in st'.depressed \/ Has(pending', Up(x))
    BY <1>1, <1>5, ReleaseHands
  <2>2. pending' \in Seq(Sent)
    BY <2>1, HandedSent
  <2>3. dest = "Terminal" => TermCovered(termMods, pending', st'.depressed)
    BY <1>3, <2>1 DEF TermCovered
  <2> QED
    BY <1>1, <1>5, <2>1, <2>2, <2>3 DEF Routed
<1> QED
  BY <1>2, <1>4, <1>5 DEF KeyPressed, KeyReleased

\* type_text serves the system destination.
LEMMA RoutedText ==
    ASSUME TypeOK, HandOver, Routed, TextAction
    PROVE  Routed'
<1> DEFINE k == Head(todo).key
           p == Press(st, k)
<1>1. /\ k \in Keys /\ st \in KeyboardStates /\ InjectedPreferred(st) /\ pending = <<>>
      /\ cause = "text" /\ dest = "System" /\ dest' = dest /\ termMods' = termMods
  <2>1. Head(todo) \in Actions
    BY DEF TextAction, TypeOK
  <2> QED
    BY <2>1 DEF TypeOK, HandOver, Routed, TextAction, Actions, termVars
<1>2. /\ PressEvents(st, k) \in Seq(Sent) /\ InjectedPreferred(p) /\ p \in KeyboardStates
      /\ ReleaseEvents(st, k) \in Seq(Sent)
  <2>1. /\ PressEvents(st, k) \in Seq(Downs(p.depressed)) /\ InjectedPreferred(p) /\ p \in KeyboardStates
        /\ ReleaseEvents(st, k) \in Seq(Ups)
    BY <1>1, PressHands, PressType, ReleaseHands
  <2>2. Downs(p.depressed) \subseteq Sent /\ Ups \subseteq Sent
    BY HandedSent
  <2> HIDE DEF p, k
  <2> QED
    BY <2>1, <2>2
<1>3. ReleaseEvents(p, k) \in Seq(Sent)
  <2> HIDE DEF p
  <2>1. ReleaseEvents(p, k) \in Seq(Ups)
    BY <1>1, <1>2, ReleaseHands
  <2> QED
    BY <2>1, HandedSent
<1>4. \/ pending' = pending /\ cause' = "idle"
      \/ pending' = PressEvents(st, k) /\ cause' = cause
      \/ pending' = PressEvents(st, k) \o ReleaseEvents(p, k) /\ cause' = cause
      \/ pending' = ReleaseEvents(st, k) /\ cause' = cause
  BY Zenon DEF TextAction
<1> DEFINE a == PressEvents(st, k)
           b == ReleaseEvents(p, k)
<1>5. a \o b \in Seq(Sent)
  <2>1. a \in Seq(Sent) /\ b \in Seq(Sent)
    BY <1>2, <1>3
  <2> HIDE DEF a, b
  <2> QED BY <2>1
<1> HIDE DEF k, p
<1>6. pending' \in Seq(Sent) /\ cause' \in {"text", "idle"} /\ (cause' = "idle" => pending' = <<>>)
  BY <1>1, <1>2, <1>4, <1>5, HandedSent
<1> QED
  BY <1>1, <1>6, HandedSent DEF Routed

\* An error: with the terminal active, nothing was on its way up.
LEMMA RoutedFails ==
    ASSUME TypeOK, HandOver, Routed, SendFails \/ TerminalFull
    PROVE  Routed'
<1>1. HandlerFails /\ termMods' = termMods /\ pending # <<>> /\ pending \in Seq(Sent)
  BY DEF SendFails, TerminalFull, termVars, Routed
<1>2. CASE dest = "System"
  <2>1. cause # "switch"
    BY <1>2 DEF SendFails, MayFail, TerminalFull, HandOver
  <2>2. CASE cause = "key"
    <3>1. EmergencyRelease("release") /\ dest' = dest
      BY <1>1, <2>2 DEF HandlerFails
    <3>2. pending' \in Seq(Ups) /\ cause' = "release"
      BY <3>1, EmergencyHands
    <3>3. pending' \in Seq(Sent)
      BY <3>2, HandedSent
    <3> QED
      BY <1>1, <1>2, <3>1, <3>2, <3>3 DEF Routed
  <2>3. CASE cause # "key"
    <3>1. pending' = <<>> /\ cause' = "idle" /\ dest' = dest
      BY <1>1, <2>1, <2>3 DEF HandlerFails
    <3> QED
      BY <1>1, <1>2, <3>1, HandedSent DEF Routed
  <2> QED BY <2>2, <2>3
<1>3. CASE dest = "Terminal"
  <2>1. /\ Head(pending).type # "Up" /\ cause # "text"
    BY <1>3 DEF SendFails, TerminalFull, Routed
  <2>2. pending \notin Seq(Ups)
    <3>1. pending \in Seq(Ups) => Head(pending) \in Ups
      BY <1>1
    <3> QED
      BY <2>1, <3>1 DEF Ups
  <2>3. pending \in Seq(Events \ Ups) /\ cause \notin {"switch", "release"}
    BY <2>1, <2>2 DEF Routed
  <2>4. CASE cause = "key"
    <3>1. EmergencyRelease("release") /\ dest' = dest
      BY <1>1, <2>4 DEF HandlerFails
    <3> QED
      BY <1>1, <2>3, <3>1, RoutedEmergency
  <2>5. CASE cause # "key"
    <3>1. pending' = <<>> /\ cause' = "idle" /\ dest' = dest /\ st' = st
      BY <1>1, <2>3, <2>5 DEF HandlerFails, stateVars
    <3>2. TermCovered(termMods, <<>>, st.depressed)
      BY <1>3, <2>3, NoUps DEF Routed, TermCovered
    <3> QED
      BY <1>1, <1>3, <3>1, <3>2, HandedSent DEF Routed
  <2> QED BY <2>4, <2>5
<1> QED
  BY <1>2, <1>3 DEF TypeOK

\* Every step keeps the destinations apart.
LEMMA RoutedStep ==
    ASSUME TypeOK, LockRepeatInv, HandOver, Routed, [Next]_vars
    PROVE  Routed'
<1>1. ASSUME NEW f, NEW k, NEW mods, TypeChar(f, k, mods)
      PROVE  Routed'
  BY <1>1 DEF TypeChar, Routed, stateVars, termVars
<1>2. ASSUME NEW f, TypeNothing(f)
      PROVE  Routed'
  BY <1>2 DEF TypeNothing, Routed, stateVars, runVars, termVars
<1>3. ASSUME TickRepeat
      PROVE  Routed'
  <2>1. PICK due \in SUBSET repeating \ {{}} : pending' = Each(Repeat, SetToSeq(due))
    BY <1>3 DEF TickRepeat
  <2>2. due \subseteq PlainKeys /\ IsFiniteSet(due)
    BY FiniteKeys, FS_Subset DEF TypeOK, LockRepeatInv, RepeatInv
  <2> DEFINE q == SetToSeq(due)
  <2>3. q \in Seq(due)
    BY <2>2, SetToSeqType
  <2> HIDE DEF q
  <2>4. \A i \in 1..Len(q) : q[i] \in PlainKeys
    BY <2>2, <2>3
  <2>5. \A k \in PlainKeys : Repeat(k) \in Sent /\ Repeat(k) \in Events \ Ups
    BY KindFacts DEF Repeat, Sent, Ups, Events
  <2>6. Each(Repeat, q) \in Seq(Sent) /\ Each(Repeat, q) \in Seq(Events \ Ups)
    BY <2>3, <2>4, <2>5 DEF Each
  <2>7. /\ st' = st /\ dest' = dest /\ cause' = "tick" /\ cause = "idle" /\ termMods' = termMods
        /\ pending = <<>>
    BY <1>3 DEF TickRepeat, stateVars, termVars, HandOver
  <2>8. dest = "Terminal" => TermCovered(termMods, pending', st.depressed)
    BY <2>7, HandedSent DEF Routed, TermCovered
  <2>9. pending' = Each(Repeat, q)
    BY <2>1 DEF q
  <2> QED
    BY <2>6, <2>7, <2>8, <2>9 DEF Routed
<1>4. ASSUME SwitchDestination
      PROVE  Routed'
  <2>1. EmergencyRelease("switch") /\ dest' = dest /\ termMods' = termMods /\ pending = <<>>
    BY <1>4 DEF SwitchDestination, termVars, HandOver
  <2> QED
    BY <2>1, HandedSent, RoutedEmergency
<1>5. ASSUME TapTimeout
      PROVE  Routed'
  <2>1. PICK n \in 1..Len(st.tracks) : st' = Expire(st, n)
    BY <1>5 DEF TapTimeout
  <2>2. st'.depressed = st.depressed
    BY <2>1 DEF Expire, KeyboardStates, TypeOK
  <2> QED
    BY <1>5, <2>2 DEF TapTimeout, Routed, runVars, termVars
<1>6. ASSUME PollConnect \/ LinkLost \/ SessionEnds
      PROVE  Routed'
  BY <1>6 DEF PollConnect, LinkLost, SessionEnds, Routed, stateVars, runVars, termVars
<1>7. ASSUME HandlerReturns
      PROVE  Routed'
  <2>1. pending = <<>> /\ termMods' = termMods
    BY <1>7 DEF HandlerReturns, termVars
  <2>2. CASE EmergencyRelease("release") /\ dest' = dest
    BY <2>1, <2>2, HandedSent, RoutedEmergency
  <2>3. CASE /\ cause' = "idle" /\ st' = st /\ pending' = pending
             /\ dest' = IF cause # "switch" THEN dest
                        ELSE IF dest = "System" THEN "Terminal" ELSE "System"
    <3>1. CASE cause # "switch"
      BY <2>1, <2>3, <3>1, HandedSent DEF Routed
    <3>2. CASE cause = "switch"
      <4>1. termMods = {}
        BY <2>1, <3>2, HandedSent DEF Routed, TermCovered, TypeOK
      <4> QED
        BY <2>1, <2>3, <4>1, HandedSent DEF Routed, TermCovered
    <3> QED BY <3>1, <3>2
  <2> QED
    BY <1>7, <2>2, <2>3 DEF HandlerReturns, stateVars
<1>8. ASSUME UNCHANGED vars
      PROVE  Routed'
  BY <1>8 DEF vars, stateVars, runVars, termVars, Routed
<1> QED
  BY <1>1, <1>2, <1>3, <1>4, <1>5, <1>6, <1>7, <1>8, RoutedKeys, RoutedText, RoutedSends,
     RoutedFails DEF Next

\* At the start no destination holds anything.
LEMMA RoutedInit ==
    Init => Routed
BY HandedSent DEF Init, Routed, TermCovered

\* The destination that is not active holds nothing: no modifier is left at the
\* terminal's sink and no key at the broker across a switch, whatever fails on
\* the way and whatever is pressed, injected or repeating when it happens.
THEOREM InactiveReleased ==
    Spec => []InactiveHoldsNothing
<1>1. TypeOK /\ LockRepeatInv /\ HandOver /\ Routed /\ [Next]_vars => Routed'
  BY RoutedStep
<1>2. HandOver /\ Routed => InactiveHoldsNothing
  BY DEF HandOver, Routed, InactiveHoldsNothing
<1> QED
  BY RoutedInit, LockRepeatCorrect, HandOverCorrect, <1>1, <1>2, PTL DEF Spec

-----------------------------------------------------------------------------
(* A chord never latches.                                                  *)

\* Every track of the key is marked as part of a chord.
Marked(tracks, k) == \A i \in 1..Len(tracks) : tracks[i].key = k => tracks[i].interleaved

\* type_text taps plain keys only.
TextActions == {a \in Actions : a.act = "Tap" => a.key \in PlainKeys}

\* What makes ChordNeverLatches hold in every step.
Chords ==
    /\ todo \in Seq(TextActions)
    /\ \A k \in chorded : Marked(st.tracks, k)

\* press marks the tracks of all held modifiers, and starts one unmarked at most
\* for its own key.
LEMMA PressMarks ==
    ASSUME NEW s \in KeyboardStates, NEW k \in Keys
    PROVE  /\ Press(s, k).latched \subseteq s.latched
           /\ \A c : Marked(s.tracks, c) /\ (k \in s.depressed \/ c # k) => Marked(Press(s, k).tracks, c)
           /\ k \in PlainKeys \ s.depressed => \A c : Marked(Press(s, k).tracks, c)
<1>0. s.tracks \in Seq(Track)
  BY DEF KeyboardStates
<1>1. CASE k \in s.depressed
  BY <1>1 DEF Press
<1>2. CASE k \notin s.depressed /\ k \in Modifiers
  <2>1. Press(s, k) = PressModifier(s, k)
    BY <1>2, Disjoint, Zenon DEF Press
  <2>2. Press(s, k).tracks = PushTrack(s, k) /\ Press(s, k).latched = s.latched
    BY <2>1 DEF PressModifier, KeyboardStates
  <2> DEFINE x == [key |-> k, interleaved |-> \E m \in HeldModifiers(s) : m # KindOf[k],
                   expired |-> FALSE]
  <2>3. PushTrack(s, k) = s.tracks \/ PushTrack(s, k) = Append(s.tracks, x)
    BY DEF PushTrack
  <2>4. x.key = k /\ x \in Track
    BY <1>2 DEF Track
  <2> HIDE DEF x
  <2>5. \A c : Marked(s.tracks, c) /\ c # k => Marked(Append(s.tracks, x), c)
    BY <1>0, <2>4 DEF Marked
  <2> QED
    BY <1>2, <2>2, <2>3, <2>5, Disjoint
<1>3. CASE k \notin s.depressed /\ k \in LockKeys
  <2>1. Press(s, k) = [s EXCEPT !.depressed = @ \cup {k}]
    BY <1>3, Disjoint DEF Press
  <2>2. Press(s, k).tracks = s.tracks /\ Press(s, k).latched = s.latched
    BY <2>1 DEF KeyboardStates
  <2> QED
    BY <1>3, <2>2, Disjoint
<1>4. CASE k \notin s.depressed /\ k \notin LockKeys /\ k \notin Modifiers
  <2>1. Press(s, k) = PressPlain(s, k)
    BY <1>4 DEF Press
  <2> DEFINE t == [i \in 1..Len(s.tracks) |-> [s.tracks[i] EXCEPT !.interleaved = TRUE]]
  <2>2. Press(s, k).tracks = t /\ Press(s, k).latched = {}
    BY <2>1 DEF PressPlain, KeyboardStates
  <2>3. Len(t) = Len(s.tracks) /\ \A i \in 1..Len(t) : t[i].interleaved
    <3>1. Len(t) = Len(s.tracks)
      BY <1>0
    <3>2. \A x \in Track : [x EXCEPT !.interleaved = TRUE].interleaved = TRUE
      BY DEF Track
    <3>3. \A i \in 1..Len(s.tracks) : s.tracks[i] \in Track
      BY <1>0
    <3> QED
      BY <3>1, <3>2, <3>3
  <2> HIDE DEF t
  <2> QED
    BY <2>2, <2>3 DEF Marked
<1> QED
  BY <1>1, <1>2, <1>3, <1>4

\* tap_track_remove finds a track of the key.
LEMMA TrackOfKey ==
    ASSUME NEW s, s.tracks \in Seq(Track), NEW k, TrackOf(s, k) # 0
    PROVE  TrackOf(s, k) \in 1..Len(s.tracks) /\ s.tracks[TrackOf(s, k)].key = k
<1> DEFINE I == {i \in 1..Len(s.tracks) : s.tracks[i].key = k}
<1>1. I \in SUBSET Nat
  OBVIOUS
<1>2. TrackOf(s, k) = IF I # {} THEN Min(I) ELSE 0
  BY DEF TrackOf, SelectInSeq
<1>3. I # {} => Min(I) \in I
  BY <1>1, MinOfNats
<1> QED
  BY <1>2, <1>3

\* Removing a track leaves the others marked.
LEMMA RemoveAtMarks ==
    ASSUME NEW t \in Seq(Track), NEW i \in 1..Len(t), NEW c, Marked(t, c)
    PROVE  Marked(RemoveAt(t, i), c)
<1> DEFINE a == SubSeq(t, 1, i - 1)
           b == SubSeq(t, i + 1, Len(t))
           q == a \o b
<1>1. /\ a \in Seq(Track) /\ Len(a) = i - 1 /\ \A j \in 1..(i - 1) : a[j] = t[j]
      /\ b \in Seq(Track) /\ Len(b) = Len(t) - i /\ \A j \in 1..(Len(t) - i) : b[j] = t[i + j]
  OBVIOUS
<1> HIDE DEF a, b
<1>2. \A x : Has(q, x) <=> Has(a, x) \/ Has(b, x)
  BY <1>1, HasCat
<1>3. \A x : Has(a, x) => Has(t, x)
  <2>1. \A j \in 1..(i - 1) : j \in 1..Len(t)
    OBVIOUS
  <2> QED
    BY <1>1, <2>1 DEF Has
<1>4. \A x : Has(b, x) => Has(t, x)
  <2>1. \A j \in 1..(Len(t) - i) : i + j \in 1..Len(t)
    OBVIOUS
  <2> QED
    BY <1>1, <2>1 DEF Has
<1>5. \A x : Has(t, x) /\ x.key = c => x.interleaved
  BY DEF Has, Marked
<1> HIDE DEF q
<1>6. \A j \in 1..Len(q) : Has(t, q[j])
  <2>1. \A j \in 1..Len(q) : Has(q, q[j])
    BY DEF Has
  <2> QED
    BY <1>2, <1>3, <1>4, <2>1
<1>7. Marked(q, c)
  BY <1>5, <1>6 DEF Marked
<1> QED
  BY <1>7 DEF RemoveAt, q, a, b

\* release latches a modifier only by a tap outside any chord.
LEMMA ReleaseMarks ==
    ASSUME NEW s \in KeyboardStates, NEW k \in Keys
    PROVE  /\ \A c : Marked(s.tracks, c) => Marked(Release(s, k).tracks, c)
           /\ \A m \in Release(s, k).latched \ s.latched :
                 /\ k \in s.depressed \cap Modifiers /\ KindOf[k] = m
                 /\ ~Marked(s.tracks, k) /\ k \notin Release(s, k).depressed
<1>0. s.tracks \in Seq(Track)
  BY DEF KeyboardStates
<1>1. CASE k \notin s.depressed
  BY <1>1 DEF Release
<1>2. CASE k \in s.depressed /\ k \in Modifiers
  <2> DEFINE i == TrackOf(s, k)
             t == IF i = 0 THEN s.tracks ELSE RemoveAt(s.tracks, i)
             rest == [s EXCEPT !.depressed = @ \ {k}, !.tracks = IF i = 0 THEN @ ELSE RemoveAt(@, i)]
             tapped == i # 0 /\ ~s.tracks[i].interleaved /\ ~s.tracks[i].expired
  <2>1. Release(s, k) = ReleaseModifier(s, k)
    BY <1>2, Disjoint, Zenon DEF Release
  <2>2. ReleaseModifier(s, k) = IF tapped /\ LatchEnabled THEN Toggle(rest, KindOf[k]) ELSE rest
    BY DEF ReleaseModifier
  <2>3. i # 0 => i \in 1..Len(s.tracks) /\ s.tracks[i].key = k
    BY <1>0, TrackOfKey
  <2>4. tapped => ~Marked(s.tracks, k)
    <3> HIDE DEF i
    <3> QED BY <2>3 DEF Marked
  <2>5. \A c : Marked(s.tracks, c) => Marked(t, c)
    <3> HIDE DEF i
    <3> QED BY <1>0, <2>3, RemoveAtMarks
  <2>6. /\ rest.tracks = t /\ rest.depressed = s.depressed \ {k} /\ rest.latched = s.latched
        /\ {"depressed", "latched", "locked", "tracks"} \subseteq DOMAIN rest
    <3> HIDE DEF i
    <3> QED BY DEF KeyboardStates
  <2> HIDE DEF rest, t, tapped, i
  <2>7. /\ Toggle(rest, KindOf[k]).tracks = rest.tracks
        /\ Toggle(rest, KindOf[k]).depressed = rest.depressed
        /\ Toggle(rest, KindOf[k]).latched \subseteq rest.latched \cup {KindOf[k]}
    BY <2>6 DEF Toggle
  <2>8. CASE tapped /\ LatchEnabled
    <3>1. Release(s, k) = Toggle(rest, KindOf[k])
      BY <2>1, <2>2, <2>8
    <3> QED
      BY <1>2, <2>4, <2>5, <2>6, <2>7, <2>8, <3>1
  <2>9. CASE ~(tapped /\ LatchEnabled)
    BY <2>1, <2>2, <2>5, <2>6, <2>9
  <2> QED
    BY <2>8, <2>9
<1>3. CASE k \in s.depressed /\ k \in LockKeys
  <2>1. Release(s, k) = ReleaseLock(s, k)
    BY <1>3, Disjoint, Zenon DEF Release
  <2>2. Release(s, k).tracks = s.tracks /\ Release(s, k).latched = s.latched
    BY <2>1 DEF ReleaseLock, KeyboardStates
  <2> QED BY <2>2
<1>4. CASE k \in s.depressed /\ k \notin LockKeys /\ k \notin Modifiers
  <2>1. Release(s, k) = ReleasePlain(s, k)
    BY <1>4 DEF Release
  <2>2. Release(s, k).tracks = s.tracks /\ Release(s, k).latched = s.latched
    BY <2>1 DEF ReleasePlain, KeyboardStates
  <2> QED BY <2>2
<1> QED
  BY <1>1, <1>2, <1>3, <1>4

\* type_text's actions: modifiers down, one tap of a plain key, modifiers up.
LEMMA TextTodoTaps ==
    ASSUME NEW k \in PlainKeys, NEW mods
    PROVE  ModifierActions("Down", KindSeq(mods)) \o <<[act |-> "Tap", key |-> k]>>
              \o ModifierActions("Up", Reverse(KindSeq(mods))) \in Seq(TextActions)
<1>1. ASSUME NEW act \in {"Down", "Up"}, NEW q \in Seq(Kinds)
      PROVE  ModifierActions(act, q) \in Seq(TextActions)
  <2>1. \A i \in 1..Len(q) : PreferredKey[q[i]] \in Keys
    BY KindFacts
  <2>2. \A i \in 1..Len(q) : [act |-> act, key |-> PreferredKey[q[i]]] \in TextActions
    BY <2>1 DEF Actions, TextActions
  <2> QED
    BY <2>2 DEF ModifierActions
<1>2. Reverse(KindSeq(mods)) \in Seq(Kinds)
  BY KindSeqType DEF Reverse
<1>3. <<[act |-> "Tap", key |-> k]>> \in Seq(TextActions)
  BY KindFacts DEF Actions, TextActions
<1>4. /\ ModifierActions("Down", KindSeq(mods)) \in Seq(TextActions)
      /\ ModifierActions("Up", Reverse(KindSeq(mods))) \in Seq(TextActions)
  BY <1>1, <1>2, KindSeqType
<1> QED
  BY <1>3, <1>4

\* What ChordNeverLatches says of one step.
LatchedByTap ==
    \A m \in st'.latched \ st.latched :
        \E k \in (st.depressed \ st'.depressed) \cap Modifiers : KindOf[k] = m /\ k \notin chorded

\* Every step keeps the chords marked, and latches by a tap alone.
LEMMA ChordStep ==
    ASSUME TypeOK, Chords, [Next]_vars
    PROVE  Chords' /\ LatchedByTap
<1>0. st \in KeyboardStates
  BY DEF TypeOK
<1>1. ASSUME NEW caller, EmergencyRelease(caller)
      PROVE  Chords' /\ LatchedByTap
  <2>1. st'.latched = {} /\ chorded' = {} /\ todo' = <<>>
    BY <1>0, <1>1 DEF EmergencyRelease, ReleaseAll, KeyboardStates
  <2> QED
    BY <2>1 DEF Chords, LatchedByTap
<1>2. ASSUME NEW k \in Buttons, KeyPressed(k)
      PROVE  Chords' /\ LatchedByTap
  <2>1. k \in Keys
    BY UiAssumption
  <2>2. CASE EmergencyRelease("release")
    BY <1>1, <2>2
  <2>3. CASE ~EmergencyRelease("release")
    <3>1. /\ st' = Press(st, k) /\ todo' = todo
          /\ chorded' = IF k \in PlainKeys \ st.depressed
                        THEN chorded \cup (st.depressed \cap Modifiers)
                        ELSE chorded \ ({k} \ st.depressed)
      BY <1>2, <2>3 DEF KeyPressed
    <3>2. /\ st'.latched \subseteq st.latched
          /\ \A c : Marked(st.tracks, c) /\ (k \in st.depressed \/ c # k) => Marked(st'.tracks, c)
          /\ k \in PlainKeys \ st.depressed => \A c : Marked(st'.tracks, c)
      BY <1>0, <2>1, <3>1, PressMarks
    <3> QED
      BY <3>1, <3>2 DEF Chords, LatchedByTap
  <2> QED
    BY <2>2, <2>3
<1>3. ASSUME NEW k \in Buttons, KeyReleased(k)
      PROVE  Chords' /\ LatchedByTap
  <2>1. k \in Keys
    BY UiAssumption
  <2>2. st' = Release(st, k) /\ todo' = todo /\ chorded' = chorded \ {k}
    BY <1>3 DEF KeyReleased
  <2>3. /\ \A c : Marked(st.tracks, c) => Marked(st'.tracks, c)
        /\ \A m \in st'.latched \ st.latched :
              /\ k \in st.depressed \cap Modifiers /\ KindOf[k] = m
              /\ ~Marked(st.tracks, k) /\ k \notin st'.depressed
    BY <1>0, <2>1, <2>2, ReleaseMarks
  <2> QED
    BY <2>2, <2>3 DEF Chords, LatchedByTap
<1>4. ASSUME TextAction
      PROVE  Chords' /\ LatchedByTap
  <2> DEFINE a == Head(todo)
             k == a.key
             p == Press(st, k)
  <2>1. a \in TextActions /\ Tail(todo) \in Seq(TextActions)
    BY <1>4 DEF TextAction, Chords
  <2>2. k \in Keys /\ (a.act = "Tap" => k \in PlainKeys)
    BY <2>1 DEF TextActions, Actions
  <2>3. /\ p.latched \subseteq st.latched /\ p \in KeyboardStates
        /\ \A c : Marked(st.tracks, c) /\ (k \in st.depressed \/ c # k) => Marked(p.tracks, c)
        /\ k \in PlainKeys \ st.depressed => \A c : Marked(p.tracks, c)
    BY <1>0, <2>2, PressMarks, PressType
  <2>4. \/ st' = st /\ chorded' = chorded /\ todo' = <<>>
        \/ st' = p /\ chorded' = chorded \ ({k} \ st.depressed) /\ todo' = Tail(todo)
        \/ /\ st' = Release(p, k) /\ a.act = "Tap" /\ todo' = Tail(todo)
           /\ chorded' = IF k \in st.depressed THEN chorded
                         ELSE chorded \cup (st.depressed \cap Modifiers)
        \/ st' = Release(st, k) /\ chorded' = chorded \ {k} /\ todo' = Tail(todo)
    BY <1>4, Zenon DEF TextAction
  <2> HIDE DEF p, k, a
  <2>5. /\ \A c : Marked(st.tracks, c) => Marked(Release(st, k).tracks, c)
        /\ \A m \in Release(st, k).latched \ st.latched :
              /\ k \in st.depressed \cap Modifiers /\ KindOf[k] = m
              /\ ~Marked(st.tracks, k) /\ k \notin Release(st, k).depressed
    BY <1>0, <2>2, ReleaseMarks
  <2>6. /\ \A c : Marked(p.tracks, c) => Marked(Release(p, k).tracks, c)
        /\ \A m \in Release(p, k).latched \ p.latched : k \in Modifiers
    BY <2>2, <2>3, ReleaseMarks
  <2>7. CASE st' = st /\ chorded' = chorded /\ todo' = <<>>
    BY <2>7 DEF Chords, LatchedByTap
  <2>8. CASE st' = p /\ chorded' = chorded \ ({k} \ st.depressed) /\ todo' = Tail(todo)
    BY <2>1, <2>3, <2>8 DEF Chords, LatchedByTap
  <2>9. CASE /\ st' = Release(p, k) /\ a.act = "Tap" /\ todo' = Tail(todo)
             /\ chorded' = IF k \in st.depressed THEN chorded
                           ELSE chorded \cup (st.depressed \cap Modifiers)
    <3>1. k \in PlainKeys /\ k \notin Modifiers
      BY <2>2, <2>9, Disjoint
    <3>2. st'.latched \subseteq st.latched
      BY <2>3, <2>6, <2>9, <3>1
    <3>3. \A c \in chorded' : Marked(st'.tracks, c)
      BY <2>3, <2>6, <2>9, <3>1 DEF Chords
    <3> QED
      BY <2>1, <2>9, <3>2, <3>3 DEF Chords, LatchedByTap
  <2>10. CASE st' = Release(st, k) /\ chorded' = chorded \ {k} /\ todo' = Tail(todo)
    BY <2>1, <2>5, <2>10 DEF Chords, LatchedByTap
  <2> QED
    BY <2>4, <2>7, <2>8, <2>9, <2>10
<1>5. ASSUME TapTimeout
      PROVE  Chords' /\ LatchedByTap
  <2>1. PICK n \in 1..Len(st.tracks) : st' = Expire(st, n)
    BY <1>5 DEF TapTimeout
  <2> DEFINE t == [i \in 1..Len(st.tracks) |-> [st.tracks[i] EXCEPT !.expired = @ \/ i <= n]]
  <2>2. st'.latched = st.latched /\ st'.tracks = t /\ chorded' = chorded /\ todo' = todo
    BY <1>0, <1>5, <2>1 DEF Expire, KeyboardStates, TapTimeout, runVars
  <2>3. st.tracks \in Seq(Track)
    BY <1>0 DEF KeyboardStates
  <2>4. Len(t) = Len(st.tracks)
    BY <2>3
  <2>5. \A x \in Track : \A b :
                            /\ [x EXCEPT !.expired = b].key = x.key
                            /\ [x EXCEPT !.expired = b].interleaved = x.interleaved
    BY DEF Track
  <2>6. \A i \in 1..Len(st.tracks) : t[i].key = st.tracks[i].key
                                     /\ t[i].interleaved = st.tracks[i].interleaved
    BY <2>3, <2>5
  <2> HIDE DEF t
  <2>7. \A c : Marked(st.tracks, c) => Marked(t, c)
    BY <2>4, <2>6 DEF Marked
  <2> QED
    BY <2>2, <2>7 DEF Chords, LatchedByTap
<1>6. ASSUME UNCHANGED <<st, chorded>>, todo' = todo \/ todo' = <<>>
      PROVE  Chords' /\ LatchedByTap
  <2>1. todo' \in Seq(TextActions)
    <3>1. todo \in Seq(TextActions) /\ <<>> \in Seq(TextActions)
      BY DEF Chords
    <3> QED
      BY <1>6, <3>1, Zenon
  <2> QED
    BY <1>6, <2>1 DEF Chords, LatchedByTap
<1>7. ASSUME HandlerFails \/ HandlerReturns
      PROVE  Chords' /\ LatchedByTap
  BY <1>1, <1>6, <1>7 DEF HandlerFails, HandlerReturns, stateVars
<1>8. ASSUME NEW f, NEW k \in PlainKeys, NEW mods, TypeChar(f, k, mods)
      PROVE  Chords' /\ LatchedByTap
  <2>1. todo' \in Seq(TextActions) /\ st' = st /\ chorded' = chorded
    BY <1>8, TextTodoTaps DEF TypeChar, stateVars
  <2> QED
    BY <2>1 DEF Chords, LatchedByTap
<1>9. \/ \E k \in Buttons : KeyPressed(k) \/ KeyReleased(k)
      \/ \E f \in Buttons \cap PlainKeys, k \in PlainKeys, mods \in TextMods : TypeChar(f, k, mods)
      \/ TextAction
      \/ TapTimeout
      \/ \E caller : EmergencyRelease(caller)
      \/ HandlerFails \/ HandlerReturns
      \/ UNCHANGED <<st, chorded, todo>>
  BY DEF Next, TypeNothing, TickRepeat, SwitchDestination, SendServed, SendLost,
     SendDropped, SendFails, PollConnect, LinkLost, SessionEnds, SendTerminal, TerminalFull, vars,
     stateVars, runVars
<1> QED
  BY <1>1, <1>2, <1>3, <1>4, <1>5, <1>6, <1>7, <1>8, <1>9

\* A modifier that took part in a chord never latches when it comes up: a step
\* that latches releases a modifier of that kind which no plain key was pressed
\* with, in any order of fingers, taps of type_text, timeouts and failures.
THEOREM ChordsDoNotLatch ==
    Spec => ChordNeverLatches
<1>1. Init => Chords
  BY DEF Init, Chords
<1>2. TypeOK /\ Chords /\ [Next]_vars => Chords' /\ LatchedByTap
  BY ChordStep
<1>3. Spec => []Chords
  BY <1>1, <1>2, UiTypeCorrect, PTL DEF Spec
<1>4. TypeOK /\ Chords /\ [Next]_vars => [LatchedByTap]_vars
  BY <1>2
<1>5. Spec => [][LatchedByTap]_vars
  BY <1>3, <1>4, UiTypeCorrect, PTL DEF Spec
<1>6. ChordNeverLatches <=> [][LatchedByTap]_vars
  BY DEF ChordNeverLatches, LatchedByTap
<1> QED
  BY <1>5, <1>6
-----------------------------------------------------------------------------
(* Keyboard mode: where a depressed key comes from.                        *)

\* A depressed key is under one of the fingers F, or was injected for a depressed
\* plain key.
AccountedBy(s, F) ==
    \A k \in s.depressed \ F : \E p \in PlainKeys \cap s.depressed : k \in s.injected[p]

\* The finger that presses accounts for its key, and the key for what it injects.
LEMMA PressAccounted ==
    ASSUME NEW s \in KeyboardStates, NEW k \in Keys, NEW F, AccountedBy(s, F)
    PROVE  AccountedBy(Press(s, k), F \cup {k})
<1>1. CASE k \in s.depressed
  <2>1. Press(s, k) = s
    BY <1>1 DEF Press
  <2> QED
    BY <2>1 DEF AccountedBy
<1>2. CASE k \notin s.depressed /\ k \notin PlainKeys
  <2>1. /\ Press(s, k).injected = s.injected
        /\ Press(s, k).depressed = s.depressed \cup {k}
    <3>1. CASE k \in Modifiers
      <4>1. Press(s, k) = PressModifier(s, k)
        BY <1>2, <3>1, Disjoint, Zenon DEF Press
      <4> QED BY <4>1 DEF PressModifier, KeyboardStates
    <3>2. CASE k \in LockKeys
      <4>1. Press(s, k) = [s EXCEPT !.depressed = @ \cup {k}]
        BY <1>2, <3>2, Disjoint DEF Press
      <4> QED BY <4>1 DEF KeyboardStates
    <3> QED
      BY <1>2, <3>1, <3>2 DEF Keys
  <2> QED
    BY <2>1, Zenon DEF AccountedBy
<1>3. CASE k \notin s.depressed /\ k \in PlainKeys
  <2> DEFINE I == ToInject(s)
             t == Press(s, k)
  <2>1. t = PressPlain(s, k)
    BY <1>3, Disjoint DEF Press
  <2>2. /\ t.depressed = s.depressed \cup I \cup {k}
        /\ t.injected = [s.injected EXCEPT ![k] = I]
    BY <2>1 DEF PressPlain, KeyboardStates
  <2>3. DOMAIN s.injected = PlainKeys
    BY DEF KeyboardStates
  <2> HIDE DEF I, t
  <2>4. t.injected[k] = I /\ \A p \in PlainKeys \ {k} : t.injected[p] = s.injected[p]
    BY <1>3, <2>2, <2>3
  <2>5. ASSUME NEW x \in t.depressed \ (F \cup {k})
        PROVE  \E p \in PlainKeys \cap t.depressed : x \in t.injected[p]
    <3>1. CASE x \in I
      BY <1>3, <2>2, <2>4, <3>1
    <3>2. CASE x \notin I
      <4>1. x \in s.depressed \ F
        BY <2>2, <2>5, <3>2
      <4>2. PICK p \in PlainKeys \cap s.depressed : x \in s.injected[p]
        BY <4>1 DEF AccountedBy
      <4> QED
        BY <1>3, <2>2, <2>4, <4>2
    <3> QED
      BY <3>1, <3>2
  <2> QED
    BY <2>5 DEF AccountedBy, t
<1> QED
  BY <1>1, <1>2, <1>3

\* The finger that leaves takes its key along, and the key what it injected.
LEMMA ReleaseAccounted ==
    ASSUME NEW s \in KeyboardStates, NEW k \in Keys, NEW F, AccountedBy(s, F)
    PROVE  AccountedBy(Release(s, k), F \ {k})
<1>1. CASE k \notin s.depressed
  <2>1. Release(s, k) = s
    BY <1>1 DEF Release
  <2> QED
    BY <1>1, <2>1 DEF AccountedBy
<1>2. CASE k \in s.depressed /\ k \notin PlainKeys
  <2>1. /\ Release(s, k).injected = s.injected
        /\ Release(s, k).depressed = s.depressed \ {k}
    <3>1. CASE k \in Modifiers
      <4> DEFINE i == TrackOf(s, k)
                 rest == [s EXCEPT !.depressed = @ \ {k},
                                   !.tracks = IF i = 0 THEN @ ELSE RemoveAt(@, i)]
      <4>1. Release(s, k) = ReleaseModifier(s, k)
        BY <1>2, <3>1, Disjoint, Zenon DEF Release
      <4>2. ReleaseModifier(s, k) = rest \/ ReleaseModifier(s, k) = Toggle(rest, KindOf[k])
        BY DEF ReleaseModifier
      <4>3. /\ rest.depressed = s.depressed \ {k} /\ rest.injected = s.injected
            /\ {"depressed", "latched", "locked", "injected"} \subseteq DOMAIN rest
        BY DEF KeyboardStates
      <4> HIDE DEF rest, i
      <4>4. /\ Toggle(rest, KindOf[k]).depressed = rest.depressed
            /\ Toggle(rest, KindOf[k]).injected = rest.injected
        BY <4>3 DEF Toggle
      <4> QED
        BY <4>1, <4>2, <4>3, <4>4
    <3>2. CASE k \in LockKeys
      <4>1. Release(s, k) = ReleaseLock(s, k)
        BY <1>2, <3>2, Disjoint, Zenon DEF Release
      <4> QED
        BY <4>1 DEF ReleaseLock, KeyboardStates
    <3> QED
      BY <1>2, <3>1, <3>2 DEF Keys
  <2> QED
    BY <1>2, <2>1 DEF AccountedBy
<1>3. CASE k \in s.depressed /\ k \in PlainKeys
  <2> DEFINE t == Release(s, k)
  <2>1. t = ReleasePlain(s, k)
    BY <1>3, Disjoint DEF Release
  <2>2. /\ t.depressed = s.depressed \ ({k} \cup s.injected[k])
        /\ t.injected = [s.injected EXCEPT ![k] = {}]
    BY <2>1 DEF ReleasePlain, KeyboardStates
  <2>3. DOMAIN s.injected = PlainKeys /\ s.injected[k] \cap PlainKeys = {}
    BY <1>3, Disjoint DEF KeyboardStates
  <2> HIDE DEF t
  <2>4. ASSUME NEW x \in t.depressed \ (F \ {k})
        PROVE  \E p \in PlainKeys \cap t.depressed : x \in t.injected[p]
    <3>1. x \in s.depressed \ F /\ x \notin s.injected[k]
      BY <2>2, <2>4
    <3>2. PICK p \in PlainKeys \cap s.depressed : x \in s.injected[p]
      BY <3>1 DEF AccountedBy
    <3>3. p # k /\ p \in t.depressed
      BY <2>2, <2>3, <3>1, <3>2
    <3>4. t.injected[p] = s.injected[p]
      BY <2>2, <2>3, <3>2, <3>3
    <3> QED
      BY <3>2, <3>3, <3>4
  <2> QED
    BY <2>4 DEF AccountedBy, t
<1> QED
  BY <1>1, <1>2, <1>3

\* In keyboard mode nothing is typed as text.
KeyMode == ~textMode => TypeOK /\ cause # "text" /\ AccountedBy(st, fingers)

\* A step of the keyboard outside text typing keeps every key accounted for.
LEMMA AccountedStep ==
    ASSUME TypeOK, cause # "text", cause' # "text", AccountedBy(st, fingers),
           \/ \E k \in Buttons : KeyPressed(k) \/ KeyReleased(k)
           \/ st' = st /\ fingers' = fingers
           \/ \E caller : EmergencyRelease(caller)
           \/ TapTimeout
    PROVE  AccountedBy(st', fingers')
<1>0. st \in KeyboardStates /\ Buttons \subseteq Keys
  BY UiAssumption DEF TypeOK
<1>1. ASSUME NEW s, s.depressed = {}  PROVE  \A F : AccountedBy(s, F)
  BY <1>1 DEF AccountedBy
<1>2. ASSUME NEW caller, EmergencyRelease(caller)  PROVE  AccountedBy(st', fingers')
  <2>1. st'.depressed = {}
    BY <1>0, <1>2 DEF EmergencyRelease, ReleaseAll, KeyboardStates
  <2> QED
    BY <1>1, <2>1
<1>3. ASSUME NEW k \in Buttons, KeyPressed(k)  PROVE  AccountedBy(st', fingers')
  <2>1. CASE EmergencyRelease("release")
    BY <1>2, <2>1
  <2>2. CASE st' = Press(st, k)
    BY <1>0, <1>3, <2>2, PressAccounted DEF KeyPressed
  <2> QED
    BY <1>3, <2>1, <2>2 DEF KeyPressed
<1>4. ASSUME NEW k \in Buttons, KeyReleased(k)  PROVE  AccountedBy(st', fingers')
  BY <1>0, <1>4, ReleaseAccounted DEF KeyReleased
<1>5. CASE TapTimeout
  <2>1. PICK n \in 1..Len(st.tracks) : st' = Expire(st, n)
    BY <1>5 DEF TapTimeout
  <2>2. st'.depressed = st.depressed /\ st'.injected = st.injected /\ fingers' = fingers
    BY <1>0, <1>5, <2>1 DEF Expire, KeyboardStates, TapTimeout
  <2> QED
    BY <2>2 DEF AccountedBy
<1> QED
  BY <1>2, <1>3, <1>4, <1>5

\* Keyboard mode stays, and its invariant with it.
LEMMA KeyModeStep ==
    ASSUME KeyMode, [TextNext]_<<vars, textVars>>
    PROVE  KeyMode'
<1>1. textMode' = textMode
  BY DEF TextNext, TextPressed, ButtonPressed, Refeed, FeedRound, Otherwise, textVars
<1>2. CASE textMode
  BY <1>1, <1>2 DEF KeyMode
<1>3. CASE ~textMode
  <2>0. TypeOK /\ cause # "text" /\ AccountedBy(st, fingers)
    BY <1>3 DEF KeyMode
  <2> SUFFICES TypeOK' /\ cause' # "text" /\ AccountedBy(st', fingers')
    BY DEF KeyMode, AccountedBy
  <2>1. ASSUME NEW k \in Buttons, KeyPressed(k) \/ KeyReleased(k)
        PROVE  [Next]_vars /\ cause' # "text"
    BY <2>1 DEF Next, KeyPressed, KeyReleased, EmergencyRelease
  <2>2. ASSUME SendFails \/ TerminalFull
        PROVE  /\ [Next]_vars /\ cause' # "text"
               /\ (st' = st /\ fingers' = fingers) \/ EmergencyRelease("release")
    BY <2>2 DEF Next, SendFails, TerminalFull, HandlerFails, EmergencyRelease, stateVars
  <2>3. ASSUME HandlerReturns
        PROVE  /\ [Next]_vars /\ cause' # "text"
               /\ (st' = st /\ fingers' = fingers) \/ EmergencyRelease("release")
    BY <2>3 DEF Next, HandlerReturns, EmergencyRelease, stateVars
  <2>4. ASSUME SwitchDestination
        PROVE  [Next]_vars /\ cause' # "text" /\ EmergencyRelease("switch")
    BY <2>4 DEF Next, SwitchDestination, EmergencyRelease
  <2>5. ASSUME TapTimeout
        PROVE  [Next]_vars /\ cause' # "text"
    BY <2>0, <2>5 DEF Next, TapTimeout, runVars
  <2>6. ASSUME \/ TickRepeat \/ SendServed \/ SendLost \/ SendDropped \/ PollConnect
               \/ LinkLost \/ SessionEnds \/ SendTerminal
        PROVE  [Next]_vars /\ cause' # "text" /\ st' = st /\ fingers' = fingers
    BY <2>0, <2>6 DEF Next, TickRepeat, SendServed, SendLost, SendDropped, PollConnect,
       LinkLost, SessionEnds, SendTerminal, stateVars, runVars
  <2>7. CASE UNCHANGED <<vars, textVars>>
    BY <2>0, <2>7, TypeStep DEF vars, stateVars, runVars
  <2>8. CASE TextNext
    <3>1. \/ \E k \in Buttons : KeyPressed(k) \/ KeyReleased(k)
          \/ SendFails \/ TerminalFull \/ HandlerReturns \/ SwitchDestination \/ TapTimeout
          \/ \/ TickRepeat \/ SendServed \/ SendLost \/ SendDropped \/ PollConnect
             \/ LinkLost \/ SessionEnds \/ SendTerminal
      BY <1>3, <2>0, <2>8 DEF TextNext, TextPressed, ButtonPressed, Refeed, Otherwise, TextAction
    <3> HIDE DEF KeyMode
    <3>2. [Next]_vars /\ cause' # "text"
      BY <3>1, <2>1, <2>2, <2>3, <2>4, <2>5, <2>6
    <3>3. TypeOK'
      BY <2>0, <3>2, TypeStep
    <3>4. \/ \E k \in Buttons : KeyPressed(k) \/ KeyReleased(k)
          \/ st' = st /\ fingers' = fingers
          \/ \E caller : EmergencyRelease(caller)
          \/ TapTimeout
      BY <3>1, <2>2, <2>3, <2>4, <2>6
    <3> QED
      BY <2>0, <3>2, <3>3, <3>4, AccountedStep
  <2> QED
    BY <2>7, <2>8
<1> QED
  BY <1>2, <1>3

\* In keyboard mode every depressed key has a finger on it, or was injected for a
\* depressed key, whenever no handler is running: no history of presses, failed sends,
\* lost links and switches of the destination leaves a key depressed on its own.
THEOREM KeysAccounted ==
    TextSpec => []KeyboardModeAccounted
<1>1. TextInit => KeyMode
  <2> SUFFICES ASSUME TextInit  PROVE  KeyMode
    OBVIOUS
  <2>1. TypeOK /\ cause # "text" /\ st.depressed = {}
    BY TypeInit DEF TextInit, Init, NewState
  <2> QED
    BY <2>1 DEF KeyMode, AccountedBy
<1>2. KeyMode /\ [TextNext]_<<vars, textVars>> => KeyMode'
  BY KeyModeStep
<1>3. KeyMode => KeyboardModeAccounted
  BY DEF KeyMode, KeyboardModeAccounted, Accounted, AccountedBy
<1> QED
  BY <1>1, <1>2, <1>3, PTL DEF TextSpec
-----------------------------------------------------------------------------
(* The broker's session, event by event.                                   *)

\* A session with room for `room` keys that holds H serves e and then holds H2.
Serves(room, H, e, H2) ==
    \/ e.type = "Down" /\ e.key \notin H /\ Cardinality(H) < room /\ H2 = H \cup {e.key}
    \/ e.type = "Up" /\ e.key \in H /\ H2 = H \ {e.key}
    \/ e.type = "Repeat" /\ e.key \in H /\ H2 = H

\* h[i] is what the session holds after i events of q.
Trace(room, h, q, S, D) ==
    /\ h \in [0..Len(q) -> SUBSET Keys]
    /\ h[0] = S /\ h[Len(q)] = D
    /\ \A i \in 1..Len(q) : Serves(room, h[i - 1], q[i], h[i])

\* A session that holds S serves all of q and ends up holding D.
Carried(room, q, S, D) == \E h : Trace(room, h, q, S, D)

\* No events change nothing.
LEMMA CarriedNone ==
    ASSUME NEW room
    PROVE
    /\ \A S \in SUBSET Keys : Carried(room, <<>>, S, S)
    /\ \A S, D : Carried(room, <<>>, S, D) => S = D
<1>1. ASSUME NEW S \in SUBSET Keys  PROVE  Carried(room, <<>>, S, S)
  <2> DEFINE h == [i \in 0..0 |-> S]
  <2>1. Trace(room, h, <<>>, S, S)
    BY DEF Trace
  <2> QED
    BY <2>1 DEF Carried
<1>2. ASSUME NEW S, NEW D, Carried(room, <<>>, S, D)  PROVE  S = D
  BY <1>2 DEF Carried, Trace
<1> QED
  BY <1>1, <1>2

\* The first event is served, and the others after it.
LEMMA CarriedHead ==
    ASSUME NEW room, NEW q \in Seq(Events), q # <<>>, NEW S, NEW D, Carried(room, q, S, D)
    PROVE  \E H : Serves(room, S, Head(q), H) /\ Carried(room, Tail(q), H, D)
<1>1. PICK h : Trace(room, h, q, S, D)
  BY DEF Carried
<1> DEFINE t == Tail(q)
           g == [i \in 0..Len(t) |-> h[i + 1]]
<1>2. /\ Len(q) \in Nat \ {0} /\ Len(t) = Len(q) - 1 /\ q[1] = Head(q)
      /\ \A i \in 1..Len(t) : t[i] = q[i + 1]
  OBVIOUS
<1> HIDE DEF t
<1>3. \A i \in 0..Len(t) : i + 1 \in 0..Len(q) /\ g[i] = h[i + 1]
  BY <1>2
<1>4. g \in [0..Len(t) -> SUBSET Keys]
  BY <1>1, <1>3 DEF Trace
<1>5. g[0] = h[1] /\ g[Len(t)] = D
  BY <1>1, <1>2, <1>3 DEF Trace
<1>6. ASSUME NEW i \in 1..Len(t)  PROVE  Serves(room, g[i - 1], t[i], g[i])
  <2>1. i + 1 \in 1..Len(q) /\ i - 1 \in 0..Len(t) /\ (i + 1) - 1 = i /\ (i - 1) + 1 = i
    BY <1>2
  <2>2. Serves(room, h[i], q[i + 1], h[i + 1])
    BY <1>1, <2>1 DEF Trace
  <2>3. g[i - 1] = h[i] /\ g[i] = h[i + 1] /\ t[i] = q[i + 1]
    BY <1>2, <1>3, <2>1
  <2> QED
    BY <2>2, <2>3
<1> HIDE DEF g
<1>7. Carried(room, t, h[1], D)
  BY <1>4, <1>5, <1>6 DEF Carried, Trace
<1>8. Serves(room, S, Head(q), h[1])
  <2>1. 1 \in 1..Len(q) /\ 1 - 1 = 0
    BY <1>2
  <2>2. Serves(room, h[1 - 1], q[1], h[1])
    BY <1>1, <2>1 DEF Trace
  <2> QED
    BY <1>1, <1>2, <2>1, <2>2 DEF Trace
<1> QED
  BY <1>7, <1>8 DEF t

\* One list of events after the other.
LEMMA CarriedCat ==
    ASSUME NEW room, NEW a \in Seq(Events), NEW b \in Seq(Events), NEW S, NEW M, NEW D,
           Carried(room, a, S, M), Carried(room, b, M, D)
    PROVE  Carried(room, a \o b, S, D)
<1>1. PICK f : Trace(room, f, a, S, M)
  BY DEF Carried
<1>2. PICK g : Trace(room, g, b, M, D)
  BY DEF Carried
<1> DEFINE q == a \o b
           m == Len(a)
           n == Len(b)
           h == [i \in 0..Len(q) |-> IF i <= m THEN f[i] ELSE g[i - m]]
<1>3. /\ m \in Nat /\ n \in Nat /\ Len(q) = m + n
      /\ \A i \in 1..m : q[i] = a[i]
      /\ \A i \in 1..(m + n) : i > m => q[i] = b[i - m]
  OBVIOUS
<1>4. /\ f \in [0..m -> SUBSET Keys] /\ f[0] = S /\ f[m] = M
      /\ \A i \in 1..m : Serves(room, f[i - 1], a[i], f[i])
  BY <1>1 DEF Trace
<1>5. /\ g \in [0..n -> SUBSET Keys] /\ g[0] = M /\ g[n] = D
      /\ \A i \in 1..n : Serves(room, g[i - 1], b[i], g[i])
  BY <1>2 DEF Trace
<1> HIDE DEF q, m, n
<1>6. /\ \A i \in 0..m : h[i] = f[i]
      /\ \A i \in 0..(m + n) : i > m => h[i] = g[i - m]
      /\ DOMAIN h = 0..Len(q) /\ h = [i \in 0..Len(q) |-> h[i]]
  BY <1>3
<1> HIDE DEF h
<1>7. \A i \in 0..Len(q) : h[i] \in SUBSET Keys
  <2>1. \A i \in 0..(m + n) : i <= m => i \in 0..m
    BY <1>3
  <2>2. \A i \in 0..(m + n) : i > m => i - m \in 0..n
    BY <1>3
  <2>3. \A i \in 0..(m + n) : i <= m \/ i > m
    BY <1>3
  <2> QED
    BY <1>3, <1>4, <1>5, <1>6, <2>1, <2>2, <2>3
<1>8. h \in [0..Len(q) -> SUBSET Keys]
  BY <1>6, <1>7
<1>9. h[0] = S
  <2>1. 0 \in 0..m
    BY <1>3
  <2> QED
    BY <1>4, <1>6, <2>1
<1>10. h[Len(q)] = D
  <2>1. CASE n = 0
    <3>1. Len(q) = m /\ m \in 0..m
      BY <1>3, <2>1
    <3> QED
      BY <1>4, <1>5, <1>6, <2>1, <3>1
  <2>2. CASE n # 0
    <3>1. m + n \in 0..(m + n) /\ m + n > m /\ (m + n) - m = n
      BY <1>3, <2>2
    <3> QED
      BY <1>3, <1>5, <1>6, <3>1
  <2> QED
    BY <2>1, <2>2
<1>11. ASSUME NEW i \in 1..Len(q)  PROVE  Serves(room, h[i - 1], q[i], h[i])
  <2>1. CASE i <= m
    <3>1. i \in 1..m /\ i - 1 \in 0..m /\ i \in 0..m
      BY <1>3, <2>1
    <3> QED
      BY <1>3, <1>4, <1>6, <3>1
  <2>2. CASE i > m
    <3> DEFINE j == i - m
    <3>1. j \in 1..n /\ i \in 0..(m + n) /\ i \in 1..(m + n)
      BY <1>3, <2>2
    <3>2. h[i] = g[j] /\ q[i] = b[j]
      BY <1>3, <1>6, <2>2, <3>1
    <3>3. h[i - 1] = g[j - 1]
      <4>1. CASE i = m + 1
        <5>1. j - 1 = 0 /\ i - 1 = m /\ m \in 0..m
          BY <1>3, <4>1
        <5> QED
          BY <1>4, <1>5, <1>6, <5>1
      <4>2. CASE i # m + 1
        <5>1. i - 1 > m /\ i - 1 \in 0..(m + n) /\ (i - 1) - m = j - 1
          BY <1>3, <2>2, <3>1, <4>2
        <5> QED
          BY <1>6, <5>1
      <4> QED
        BY <4>1, <4>2
    <3> HIDE DEF j
    <3>4. Serves(room, g[j - 1], b[j], g[j])
      BY <1>5, <3>1
    <3> QED
      BY <3>2, <3>3, <3>4
  <2> QED
    BY <1>3, <2>1, <2>2
<1>12. Trace(room, h, q, S, D)
  BY <1>8, <1>9, <1>10, <1>11 DEF Trace
<1> QED
  BY <1>12 DEF Carried, q
Distinct(q) == \A i, j \in 1..Len(q) : q[i] = q[j] => i = j

First(keys, i) == {keys[j] : j \in 1..i}

\* The first elements of a list, one more at a time.
LEMMA FirstGrows ==
    ASSUME NEW keys \in Seq(Keys)
    PROVE  /\ First(keys, 0) = {}
           /\ \A i \in 0..Len(keys) : First(keys, i) \subseteq Keys
           /\ \A i \in 1..Len(keys) : First(keys, i) = First(keys, i - 1) \cup {keys[i]}
           /\ \A x : x \in First(keys, Len(keys)) <=> Has(keys, x)
           /\ Distinct(keys) => \A i \in 1..Len(keys) : keys[i] \notin First(keys, i - 1)
<1>1. \A i \in 1..Len(keys) : 1..i = 1..(i - 1) \cup {i} /\ i \notin 1..(i - 1)
                               /\ 1..(i - 1) \subseteq 1..Len(keys)
  OBVIOUS
<1>2. First(keys, 0) = {}
  BY DEF First
<1>3. \A i \in 0..Len(keys) : First(keys, i) \subseteq Keys
  BY DEF First
<1>4. \A i \in 1..Len(keys) : First(keys, i) = First(keys, i - 1) \cup {keys[i]}
  BY <1>1 DEF First
<1>5. \A x : x \in First(keys, Len(keys)) <=> Has(keys, x)
  BY DEF First, Has
<1>6. Distinct(keys) => \A i \in 1..Len(keys) : keys[i] \notin First(keys, i - 1)
  BY <1>1 DEF First, Distinct
<1> QED
  BY <1>2, <1>3, <1>4, <1>5, <1>6

\* Presses of new keys are served while there is room.
LEMMA CarriedDowns ==
    ASSUME NEW room \in Nat, NEW keys \in Seq(Keys), Distinct(keys), NEW S \in SUBSET Keys,
           \A x : Has(keys, x) => x \notin S,
           Cardinality(S) + Len(keys) <= room
    PROVE  Carried(room, Each(Down, keys), S, S \cup First(keys, Len(keys)))
<1> DEFINE n == Len(keys)
           q == Each(Down, keys)
           h == [i \in 0..n |-> S \cup First(keys, i)]
<1>1. n \in Nat /\ Len(q) = n /\ \A i \in 1..n : q[i] = Down(keys[i]) /\ Has(keys, keys[i])
  BY DEF Each, Has
<1>2. \A k : Down(k).type = "Down" /\ Down(k).key = k
  BY DEF Down
<1>3. IsFiniteSet(S) /\ Cardinality(S) \in Nat
  BY FiniteKeys, FS_Subset, FS_CardinalityType
<1> HIDE DEF q
<1>4. \A i \in 0..n : IsFiniteSet(First(keys, i)) /\ Cardinality(First(keys, i)) <= i
  <2>1. ASSUME NEW i \in 0..n
        PROVE  IsFiniteSet(First(keys, i)) /\ Cardinality(First(keys, i)) <= i
    <3> DEFINE f == [j \in 1..i |-> keys[j]]
    <3>1. IsFiniteSet(1..i) /\ Cardinality(1..i) = i
      BY <2>1, FS_Interval
    <3>2. f \in Surjection(1..i, First(keys, i))
      BY DEF Surjection, First
    <3> HIDE DEF f
    <3> QED
      BY <3>1, <3>2, FS_Surjection
  <2> QED
    BY <2>1
<1>5. \A i \in 0..n : Cardinality(S \cup First(keys, i)) <= Cardinality(S) + i
  <2>1. ASSUME NEW i \in 0..n
        PROVE  Cardinality(S \cup First(keys, i)) <= Cardinality(S) + i
    <3> DEFINE T == First(keys, i)
    <3>1. IsFiniteSet(T) /\ Cardinality(T) <= i /\ Cardinality(T) \in Nat
      BY <1>4, FS_CardinalityType
    <3>2. IsFiniteSet(S \cap T) /\ Cardinality(S \cap T) \in Nat
      BY <1>3, FS_Intersection, FS_CardinalityType
    <3> HIDE DEF T
    <3>3. Cardinality(S \cup T) = Cardinality(S) + Cardinality(T) - Cardinality(S \cap T)
      BY <1>3, <3>1, FS_Union
    <3>4. Cardinality(S \cup T) <= Cardinality(S) + i
      BY <1>3, <3>1, <3>2, <3>3
    <3> QED
      BY <3>4 DEF T
  <2> QED
    BY <2>1
<1>6. ASSUME NEW i \in 1..n  PROVE  Serves(room, h[i - 1], q[i], h[i])
  <2>1. i - 1 \in 0..n /\ i \in 0..n
    BY <1>1
  <2>2. h[i - 1] = S \cup First(keys, i - 1) /\ h[i] = S \cup First(keys, i)
    BY <2>1
  <2>3. keys[i] \notin S /\ keys[i] \notin First(keys, i - 1)
    BY <1>1, FirstGrows
  <2>4. First(keys, i) = First(keys, i - 1) \cup {keys[i]}
    BY FirstGrows
  <2>5. Cardinality(h[i - 1]) < room
    <3> DEFINE c == Cardinality(h[i - 1])
    <3>1. c <= Cardinality(S) + (i - 1)
      BY <1>5, <2>1, <2>2
    <3>2. IsFiniteSet(h[i - 1]) /\ c \in Nat
      BY <1>3, <1>4, <2>1, <2>2, FS_Union, FS_CardinalityType
    <3> HIDE DEF c
    <3>3. c < room
      BY <1>1, <1>3, <3>1, <3>2, UiAssumption
    <3> QED
      BY <3>3 DEF c
  <2>6. q[i].type = "Down" /\ q[i].key = keys[i]
    BY <1>1, <1>2
  <2> HIDE DEF h
  <2> QED
    BY <2>2, <2>3, <2>4, <2>5, <2>6 DEF Serves
<1>7. h[0] = S /\ h[n] = S \cup First(keys, n)
  BY <1>1, FirstGrows
<1>8. h \in [0..n -> SUBSET Keys]
  BY FirstGrows
<1> HIDE DEF h
<1>9. Trace(room, h, q, S, S \cup First(keys, n))
  BY <1>1, <1>6, <1>7, <1>8 DEF Trace
<1> QED
  BY <1>9 DEF Carried, q

\* Releases of held keys are served.
LEMMA CarriedUps ==
    ASSUME NEW room, NEW keys \in Seq(Keys), Distinct(keys), NEW S \in SUBSET Keys,
           \A x : Has(keys, x) => x \in S
    PROVE  Carried(room, Each(Up, keys), S, S \ First(keys, Len(keys)))
<1> DEFINE n == Len(keys)
           q == Each(Up, keys)
           h == [i \in 0..n |-> S \ First(keys, i)]
<1>1. n \in Nat /\ Len(q) = n /\ \A i \in 1..n : q[i] = Up(keys[i]) /\ Has(keys, keys[i])
  BY DEF Each, Has
<1>2. \A k : Up(k).type = "Up" /\ Up(k).key = k
  BY DEF Up
<1> HIDE DEF q
<1>6. ASSUME NEW i \in 1..n  PROVE  Serves(room, h[i - 1], q[i], h[i])
  <2>1. i - 1 \in 0..n /\ i \in 0..n
    BY <1>1
  <2>2. h[i - 1] = S \ First(keys, i - 1) /\ h[i] = S \ First(keys, i)
    BY <2>1
  <2>3. keys[i] \in S /\ keys[i] \notin First(keys, i - 1)
    BY <1>1, FirstGrows
  <2>4. First(keys, i) = First(keys, i - 1) \cup {keys[i]}
    BY FirstGrows
  <2>6. q[i].type = "Up" /\ q[i].key = keys[i]
    BY <1>1, <1>2
  <2> HIDE DEF h
  <2> QED
    BY <2>2, <2>3, <2>4, <2>6 DEF Serves
<1>7. h[0] = S /\ h[n] = S \ First(keys, n)
  BY <1>1, FirstGrows
<1>8. h \in [0..n -> SUBSET Keys]
  OBVIOUS
<1> HIDE DEF h
<1>9. Trace(room, h, q, S, S \ First(keys, n))
  BY <1>1, <1>6, <1>7, <1>8 DEF Trace
<1> QED
  BY <1>9 DEF Carried, q

\* Repeats of held keys are served and change nothing.
LEMMA CarriedRepeats ==
    ASSUME NEW room, NEW keys \in Seq(Keys), NEW S \in SUBSET Keys, \A x : Has(keys, x) => x \in S
    PROVE  Carried(room, Each(Repeat, keys), S, S)
<1> DEFINE n == Len(keys)
           q == Each(Repeat, keys)
           h == [i \in 0..n |-> S]
<1>1. n \in Nat /\ Len(q) = n /\ \A i \in 1..n : q[i] = Repeat(keys[i]) /\ Has(keys, keys[i])
  BY DEF Each, Has
<1>2. \A k : Repeat(k).type = "Repeat" /\ Repeat(k).key = k
  BY DEF Repeat
<1> HIDE DEF q
<1>3. ASSUME NEW i \in 1..n  PROVE  Serves(room, h[i - 1], q[i], h[i])
  <2>1. h[i - 1] = S /\ h[i] = S
    BY <1>1
  <2>2. keys[i] \in S /\ q[i].type = "Repeat" /\ q[i].key = keys[i]
    BY <1>1, <1>2
  <2> HIDE DEF h
  <2> QED
    BY <2>1, <2>2 DEF Serves
<1>4. h[0] = S /\ h[n] = S /\ h \in [0..n -> SUBSET Keys]
  BY <1>1
<1> HIDE DEF h
<1>5. Trace(room, h, q, S, S)
  BY <1>1, <1>3, <1>4 DEF Trace
<1> QED
  BY <1>5 DEF Carried, q
\* Two lists without a common element.
LEMMA DistinctCat ==
    ASSUME NEW S, NEW a \in Seq(S), NEW b \in Seq(S), Distinct(a), Distinct(b),
           \A x : ~(Has(a, x) /\ Has(b, x))
    PROVE  Distinct(a \o b)
<1> DEFINE c == a \o b
           m == Len(a)
<1>1. /\ m \in Nat /\ Len(b) \in Nat /\ Len(c) = m + Len(b)
      /\ \A i \in 1..m : c[i] = a[i]
      /\ \A i \in 1..Len(c) : i > m => c[i] = b[i - m]
  OBVIOUS
<1>2. \A i \in 1..m, j \in 1..Len(b) : a[i] # b[j]
  BY DEF Has
<1>3. ASSUME NEW i \in 1..Len(c), NEW j \in 1..Len(c), c[i] = c[j]
      PROVE  i = j
  <2> HIDE DEF c
  <2>1. /\ i \in 1..m \/ (i > m /\ i - m \in 1..Len(b))
        /\ j \in 1..m \/ (j > m /\ j - m \in 1..Len(b))
    BY <1>1
  <2>2. CASE i \in 1..m /\ j \in 1..m
    BY <1>1, <1>3, <2>2 DEF Distinct
  <2>3. CASE i > m /\ i - m \in 1..Len(b) /\ j > m /\ j - m \in 1..Len(b)
    <3>1. i - m = j - m
      BY <1>1, <1>3, <2>3 DEF Distinct
    <3> QED
      BY <1>1, <3>1
  <2>4. CASE i \in 1..m /\ j > m /\ j - m \in 1..Len(b)
    BY <1>1, <1>2, <1>3, <2>4
  <2>5. CASE j \in 1..m /\ i > m /\ i - m \in 1..Len(b)
    BY <1>1, <1>2, <1>3, <2>5
  <2> QED
    BY <2>1, <2>2, <2>3, <2>4, <2>5
<1> QED
  BY <1>3 DEF Distinct

\* A set is listed without repetition.
LEMMA SetToSeqDistinct ==
    ASSUME NEW S, IsFiniteSet(S)
    PROVE  Distinct(SetToSeq(S))
<1> DEFINE n == Cardinality(S)
           q == SetToSeq(S)
<1>1. n \in Nat
  BY FS_CardinalityType
<1>2. PICK f : f \in Bijection(1..n, S)
  BY FS_CardinalityType, Zenon DEF ExistsBijection
<1>3. f \in [1..n -> S] /\ IsInjective(f)
  BY <1>2 DEF Bijection, Injection, IsInjective
<1>4. q \in [1..n -> S] /\ IsInjective(q)
  BY <1>3 DEF SetToSeq
<1>5. Len(q) = n
  BY <1>1, <1>4
<1> HIDE DEF q, n
<1>6. Distinct(q)
  BY <1>4, <1>5 DEF Distinct, IsInjective
<1> QED
  BY <1>6 DEF q

\* There are six kinds, and none is walked twice.
LEMMA KindSeqDistinct ==
    ASSUME NEW S
    PROVE  Distinct(KindSeq(S)) /\ Len(KindSeq(S)) <= 6
<1> DEFINE kind(m) == IF m \in S THEN <<m>> ELSE <<>>
           a == kind("Shift")
           b == kind("Ctrl")
           c == kind("Alt")
           d == kind("AltGr")
           e == kind("Meta")
           f == kind("Fn")
           ab == a \o b
           abc == ab \o c
           abcd == abc \o d
           abcde == abcd \o e
           abcdef == abcde \o f
           K == {"Shift", "Ctrl", "Alt", "AltGr", "Meta", "Fn"}
<1>1. \A m \in K : /\ kind(m) \in Seq(K) /\ Distinct(kind(m)) /\ Len(kind(m)) <= 1
                   /\ \A x : Has(kind(m), x) => x = m
  <2> SUFFICES ASSUME NEW m \in K
               PROVE  /\ kind(m) \in Seq(K) /\ Distinct(kind(m)) /\ Len(kind(m)) <= 1
                      /\ \A x : Has(kind(m), x) => x = m
    OBVIOUS
  <2> HIDE DEF K
  <2>1. <<m>> \in Seq(K) /\ Distinct(<<m>>) /\ Len(<<m>>) <= 1 /\ \A x : Has(<<m>>, x) => x = m
    BY DEF Has, Distinct
  <2>2. <<>> \in Seq(K) /\ Distinct(<<>>) /\ Len(<<>>) <= 1 /\ \A x : Has(<<>>, x) => x = m
    BY DEF Has, Distinct
  <2> QED
    BY <2>1, <2>2
<1>2. /\ a \in Seq(K) /\ Distinct(a) /\ Len(a) <= 1 /\ \A x : Has(a, x) => x = "Shift"
      /\ b \in Seq(K) /\ Distinct(b) /\ Len(b) <= 1 /\ \A x : Has(b, x) => x = "Ctrl"
      /\ c \in Seq(K) /\ Distinct(c) /\ Len(c) <= 1 /\ \A x : Has(c, x) => x = "Alt"
      /\ d \in Seq(K) /\ Distinct(d) /\ Len(d) <= 1 /\ \A x : Has(d, x) => x = "AltGr"
      /\ e \in Seq(K) /\ Distinct(e) /\ Len(e) <= 1 /\ \A x : Has(e, x) => x = "Meta"
      /\ f \in Seq(K) /\ Distinct(f) /\ Len(f) <= 1 /\ \A x : Has(f, x) => x = "Fn"
  <2> HIDE DEF kind
  <2> QED BY <1>1
<1>3. KindSeq(S) = abcdef
  BY DEF KindSeq
<1> HIDE DEF kind, a, b, c, d, e, f, K
<1>4. /\ ab \in Seq(K) /\ Distinct(ab) /\ Len(ab) <= 2
      /\ \A x : Has(ab, x) => x \in {"Shift", "Ctrl"}
  <2>1. \A x : ~(Has(a, x) /\ Has(b, x))
    BY <1>2
  <2>2. Distinct(ab)
    BY <1>2, <2>1, DistinctCat
  <2>3. ab \in Seq(K) /\ Len(ab) <= 2
    BY <1>2
  <2> QED
    BY <1>2, <2>2, <2>3, HasCat
<1> HIDE DEF ab
<1>5. /\ abc \in Seq(K) /\ Distinct(abc) /\ Len(abc) <= 3
      /\ \A x : Has(abc, x) => x \in {"Shift", "Ctrl", "Alt"}
  <2>1. \A x : ~(Has(ab, x) /\ Has(c, x))
    BY <1>2, <1>4
  <2>2. Distinct(abc)
    BY <1>2, <1>4, <2>1, DistinctCat
  <2>3. abc \in Seq(K) /\ Len(abc) <= 3
    BY <1>2, <1>4
  <2> QED
    BY <1>2, <1>4, <2>2, <2>3, HasCat
<1> HIDE DEF abc
<1>6. /\ abcd \in Seq(K) /\ Distinct(abcd) /\ Len(abcd) <= 4
      /\ \A x : Has(abcd, x) => x \in {"Shift", "Ctrl", "Alt", "AltGr"}
  <2>1. \A x : ~(Has(abc, x) /\ Has(d, x))
    BY <1>2, <1>5
  <2>2. Distinct(abcd)
    BY <1>2, <1>5, <2>1, DistinctCat
  <2>3. abcd \in Seq(K) /\ Len(abcd) <= 4
    BY <1>2, <1>5
  <2> QED
    BY <1>2, <1>5, <2>2, <2>3, HasCat
<1> HIDE DEF abcd
<1>7. /\ abcde \in Seq(K) /\ Distinct(abcde) /\ Len(abcde) <= 5
      /\ \A x : Has(abcde, x) => x \in {"Shift", "Ctrl", "Alt", "AltGr", "Meta"}
  <2>1. \A x : ~(Has(abcd, x) /\ Has(e, x))
    BY <1>2, <1>6
  <2>2. Distinct(abcde)
    BY <1>2, <1>6, <2>1, DistinctCat
  <2>3. abcde \in Seq(K) /\ Len(abcde) <= 5
    BY <1>2, <1>6
  <2> QED
    BY <1>2, <1>6, <2>2, <2>3, HasCat
<1> HIDE DEF abcde
<1>8. Distinct(abcdef) /\ Len(abcdef) <= 6
  <2>1. \A x : ~(Has(abcde, x) /\ Has(f, x))
    BY <1>2, <1>7
  <2>2. Distinct(abcdef)
    BY <1>2, <1>7, <2>1, DistinctCat
  <2> QED
    BY <1>2, <1>7, <2>2
<1> QED
  BY <1>3, <1>8

\* A preferred key is of the kind it is preferred for.
LEMMA PreferredKind ==
    \A m \in Kinds : PreferredKey[m] \in Modifiers /\ KindOf[PreferredKey[m]] = m
  BY DEF Kinds, PreferredKey, Modifiers, KindOf

\* Nor is a preferred key.
LEMMA InKindOrderDistinct ==
    ASSUME NEW S
    PROVE  Distinct(InKindOrder(S)) /\ Len(InKindOrder(S)) <= 6
<1> DEFINE q == KindSeq({m \in Kinds : PreferredKey[m] \in S})
           k == InKindOrder(S)
<1>1. q \in Seq(Kinds) /\ Distinct(q) /\ Len(q) <= 6
  BY KindSeqType, KindSeqDistinct
<1>2. k = [i \in 1..Len(q) |-> PreferredKey[q[i]]]
  BY DEF InKindOrder
<1> HIDE DEF q, k
<1>3. Len(k) = Len(q) /\ \A i \in 1..Len(q) : k[i] = PreferredKey[q[i]] /\ q[i] \in Kinds
  BY <1>1, <1>2
<1>4. \A m, l \in Kinds : PreferredKey[m] = PreferredKey[l] => m = l
  BY PreferredKind
<1>5. Distinct(k)
  BY <1>1, <1>3, <1>4 DEF Distinct
<1> QED
  BY <1>1, <1>3, <1>5 DEF k

\* Room for a modifier of every kind besides the UI's own keys.
Fits(room) == room \in Nat /\ MaxHeldKeys + 6 <= room

\* What a session would need that is never full.
Room == MaxHeldKeys + 6

\* It fits what a press may inject.
LEMMA RoomFits == Fits(Room)
BY KeyboardAssumption DEF Fits, Room

\* One press of a new key is served while there is room.
LEMMA CarriedDown ==
    ASSUME NEW room, NEW k \in Keys, NEW T \in SUBSET Keys, k \notin T, Cardinality(T) < room
    PROVE  Carried(room, <<Down(k)>>, T, T \cup {k})
<1> DEFINE q == <<Down(k)>>
           h == [i \in 0..1 |-> IF i = 0 THEN T ELSE T \cup {k}]
<1>1. Len(q) = 1 /\ q[1] = Down(k)
  OBVIOUS
<1>2. h[0] = T /\ h[1] = T \cup {k} /\ h \in [0..1 -> SUBSET Keys]
  OBVIOUS
<1>3. Down(k).type = "Down" /\ Down(k).key = k
  BY DEF Down
<1> HIDE DEF q, h
<1>4. Serves(room, h[0], q[1], h[1])
  BY <1>1, <1>2, <1>3 DEF Serves
<1>5. \A i \in 1..1 : i = 1 /\ i - 1 = 0
  OBVIOUS
<1>6. Trace(room, h, q, T, T \cup {k})
  BY <1>1, <1>2, <1>4, <1>5 DEF Trace
<1> QED
  BY <1>6 DEF Carried, q

\* A press of a plain key: the modifiers it injects, then the key.
LEMMA InjectCarried ==
    ASSUME NEW room, NEW s \in KeyboardStates, NEW k \in PlainKeys, k \notin s.depressed,
           ~Rollover(s, k), Fits(room)
    PROVE  /\ \E q \in Seq(Downs(Modifiers)) :
                 /\ PressEvents(s, k) = q \o <<Down(k)>>
                 /\ Carried(room, q, s.depressed, s.depressed \cup ToInject(s))
           /\ Carried(room, <<Down(k)>>, s.depressed \cup ToInject(s), s.depressed \cup ToInject(s) \cup {k})
           /\ ToInject(s) \cap s.depressed = {} /\ ToInject(s) \subseteq Modifiers
           /\ Press(s, k).depressed = s.depressed \cup ToInject(s) \cup {k}
           /\ Press(s, k).injected[k] = ToInject(s)
  <1> DEFINE S == s.depressed
             I == ToInject(s)
             keys == InKindOrder(I)
             n == Len(keys)
             q == Each(Down, keys)
  <1>0. S \in SUBSET Keys /\ IsFiniteSet(S) /\ Cardinality(S) \in Nat /\ k \in Keys
    BY FiniteKeys, FS_Subset, FS_CardinalityType DEF KeyboardStates, Keys
  <1>1. Press(s, k).depressed = S \cup I \cup {k} /\ Press(s, k).injected[k] = I
    <2>1. Press(s, k) = PressPlain(s, k)
      BY Disjoint DEF Press
    <2> QED
      BY <2>1 DEF PressPlain, KeyboardStates
  <1>2. I \subseteq Preferred /\ I \cap S = {} /\ I \subseteq Modifiers
    <2>1. ASSUME NEW x \in I
          PROVE  x \in Preferred /\ x \notin S /\ x \in Modifiers
      <3>1. PICK m \in (s.latched \cup (s.locked \ {"Shift"})) \ HeldModifiers(s) :
               x = PreferredKey[m]
        BY <2>1 DEF ToInject
      <3>2. m \in Kinds
        BY <3>1 DEF KeyboardStates
      <3>3. x \in Modifiers /\ KindOf[x] = m /\ x \in Preferred
        BY <3>1, <3>2, PreferredKind DEF Preferred
      <3>4. x \notin S
        BY <3>1, <3>3 DEF HeldModifiers
      <3> QED
        BY <3>3, <3>4
    <2> QED
      BY <2>1
  <1>3. /\ keys \in Seq(Keys) /\ Distinct(keys) /\ n <= 6 /\ n \in Nat
        /\ \A x : Has(keys, x) <=> x \in I
    BY <1>2, InKindOrderType, InKindOrderHas, InKindOrderDistinct
  <1>4. PressEvents(s, k) = Append(q, Down(k))
    BY DEF PressEvents
  <1>5. q \in Seq(Events) /\ \A i \in 1..Len(q) : q[i].type = "Down" /\ Has(keys, q[i].key)
    BY <1>3, EachType, EachHas
  <1>6. First(keys, n) = I
    BY <1>3, FirstGrows
  <1>7. Cardinality(S) < MaxHeldKeys
    BY <1>0, KeyboardAssumption DEF Rollover
  <1> HIDE DEF I, keys, n, q
  <1>8. Cardinality(S) + n <= room /\ Cardinality(S) + n < room
    BY <1>0, <1>3, <1>7, KeyboardAssumption, UiAssumption DEF Fits
  <1>9. Carried(room, q, S, S \cup I)
    <2>1. \A x : Has(keys, x) => x \notin S
      BY <1>2, <1>3
    <2>2. Carried(room, Each(Down, keys), S, S \cup First(keys, Len(keys)))
      BY <1>0, <1>3, <1>8, <2>1, CarriedDowns DEF n, Fits
    <2> QED
      BY <1>6, <2>2 DEF n, q
  <1>10. S \cup I \in SUBSET Keys /\ k \notin S \cup I
    BY <1>0, <1>2, KindFacts, Disjoint
  <1>11. Cardinality(S \cup I) < room
    <2>1. IsFiniteSet(I) /\ Cardinality(I) <= n /\ Cardinality(I) \in Nat
      <3>1. n \in Nat /\ IsFiniteSet(1..n) /\ Cardinality(1..n) = n
        BY <1>3, FS_Interval
      <3> DEFINE f == [j \in 1..n |-> keys[j]]
      <3>2. f \in Surjection(1..n, I)
        BY <1>6 DEF Surjection, First
      <3> HIDE DEF f
      <3> QED
        BY <3>1, <3>2, FS_Surjection, FS_CardinalityType
    <2>2. IsFiniteSet(S \cap I) /\ Cardinality(S \cap I) \in Nat
      BY <1>0, FS_Intersection, FS_CardinalityType
    <2>3. Cardinality(S \cup I) = Cardinality(S) + Cardinality(I) - Cardinality(S \cap I)
      BY <1>0, <2>1, FS_Union
    <2> QED
      BY <1>0, <1>3, <1>8, <2>1, <2>2, <2>3 DEF Fits
  <1>12. Carried(room, <<Down(k)>>, S \cup I, (S \cup I) \cup {k})
    BY <1>0, <1>10, <1>11, CarriedDown
  <1>13. PressEvents(s, k) = q \o <<Down(k)>>
    <2>1. Down(k) \in Events
      BY <1>0 DEF Down, Events
    <2> QED
      BY <1>4, <1>5, <2>1
  <1>14. q \in Seq(Downs(Modifiers))
    <2>1. \A i \in 1..Len(q) : q[i] \in Downs(Modifiers)
      BY <1>2, <1>3, <1>5 DEF Downs
    <2> QED
      BY <1>5, <2>1
  <1> QED
    BY <1>1, <1>2, <1>9, <1>12, <1>13, <1>14 DEF I

\* A press that is not refused by the rollover limit is served, injected modifiers first.
LEMMA PressCarried ==
    ASSUME NEW room, NEW s \in KeyboardStates, NEW k \in Keys, ~Rollover(s, k), Fits(room)
    PROVE  Carried(room, PressEvents(s, k), s.depressed, Press(s, k).depressed)
<1> DEFINE S == s.depressed
<1>0. S \in SUBSET Keys /\ IsFiniteSet(S) /\ Cardinality(S) \in Nat
  BY FiniteKeys, FS_Subset, FS_CardinalityType DEF KeyboardStates
<1>1. CASE k \in S
  <2>1. PressEvents(s, k) = <<>> /\ Press(s, k) = s
    BY <1>1 DEF PressEvents, Press
  <2> QED
    BY <1>0, <2>1, CarriedNone
<1>2. CASE k \notin S
  <2>1. Cardinality(S) < MaxHeldKeys
    BY <1>0, <1>2, KeyboardAssumption DEF Rollover
  <2>2. CASE k \notin PlainKeys
    <3>1. PressEvents(s, k) = <<Down(k)>>
      BY <1>2, <2>2 DEF PressEvents
    <3>2. Press(s, k).depressed = S \cup {k}
      <4>1. CASE k \in Modifiers
        <5>1. Press(s, k) = PressModifier(s, k)
          BY <1>2, <4>1, Disjoint, Zenon DEF Press
        <5> QED BY <5>1 DEF PressModifier, KeyboardStates
      <4>2. CASE k \in LockKeys
        <5>1. Press(s, k) = [s EXCEPT !.depressed = @ \cup {k}]
          BY <1>2, <4>2, Disjoint DEF Press
        <5> QED BY <5>1 DEF KeyboardStates
      <4> QED
        BY <2>2, <4>1, <4>2 DEF Keys
    <3>3. Cardinality(S) < room
      BY <1>0, <2>1, KeyboardAssumption, UiAssumption DEF Fits
    <3> QED
      BY <1>0, <1>2, <3>1, <3>2, <3>3, CarriedDown
  <2>3. CASE k \in PlainKeys
    <3> DEFINE I == ToInject(s)
               one == <<Down(k)>>
    <3>1. PICK q \in Seq(Downs(Modifiers)) : PressEvents(s, k) = q \o one /\ Carried(room, q, S, S \cup I)
      BY <1>2, <2>3, InjectCarried
    <3>2. /\ Carried(room, one, S \cup I, S \cup I \cup {k})
          /\ Press(s, k).depressed = S \cup I \cup {k}
      BY <1>2, <2>3, InjectCarried
    <3>3. q \in Seq(Events) /\ one \in Seq(Events)
      <4>1. Down(k) \in Events /\ Downs(Modifiers) \subseteq Events
        BY KindFacts DEF Down, Events, Downs
      <4> QED
        BY <4>1
    <3> HIDE DEF I, one
    <3>4. Carried(room, q \o one, S, S \cup I \cup {k})
      BY <3>1, <3>2, <3>3, CarriedCat
    <3> QED
      BY <3>1, <3>2, <3>4
  <2> QED
    BY <2>2, <2>3
<1> QED
  BY <1>1, <1>2

\* A release is served, with the injected modifiers that are still depressed.
LEMMA ReleaseCarried ==
    ASSUME NEW room, NEW s \in KeyboardStates, NEW k \in Keys, InjectedPreferred(s)
    PROVE  Carried(room, ReleaseEvents(s, k), s.depressed, Release(s, k).depressed)
<1> DEFINE S == s.depressed
<1>0. S \in SUBSET Keys
  BY DEF KeyboardStates
<1>1. CASE k \notin S
  <2>1. ReleaseEvents(s, k) = <<>> /\ Release(s, k) = s
    BY <1>1 DEF ReleaseEvents, Release
  <2> QED
    BY <1>0, <2>1, CarriedNone
<1>2. CASE k \in S
  <2>1. <<k>> \in Seq(Keys) /\ Distinct(<<k>>) /\ Len(<<k>>) = 1
        /\ \A x : Has(<<k>>, x) <=> x = k
    BY DEF Distinct, Has
  <2>2. Each(Up, <<k>>) = <<Up(k)>>
    BY DEF Each
  <2>3. First(<<k>>, 1) = {k}
    BY DEF First
  <2>4. Carried(room, <<Up(k)>>, S, S \ {k})
    <3> DEFINE one == <<k>>
    <3>1. one \in Seq(Keys) /\ Distinct(one) /\ Len(one) = 1 /\ \A x : Has(one, x) <=> x = k
      BY <2>1
    <3>2. Each(Up, one) = <<Up(k)>> /\ First(one, 1) = {k}
      BY <2>2, <2>3
    <3> HIDE DEF one
    <3>3. Carried(room, Each(Up, one), S, S \ First(one, Len(one)))
      BY <1>0, <1>2, <3>1, CarriedUps
    <3> QED
      BY <3>1, <3>2, <3>3
  <2>5. CASE k \notin PlainKeys
    <3>1. ReleaseEvents(s, k) = <<Up(k)>>
      BY <1>2, <2>5 DEF ReleaseEvents
    <3>2. Release(s, k).depressed = S \ {k}
      <4>1. CASE k \in Modifiers
        <5> DEFINE i == TrackOf(s, k)
                   rest == [s EXCEPT !.depressed = @ \ {k},
                                     !.tracks = IF i = 0 THEN @ ELSE RemoveAt(@, i)]
        <5>1. Release(s, k) = ReleaseModifier(s, k)
          BY <1>2, <4>1, Disjoint, Zenon DEF Release
        <5>2. ReleaseModifier(s, k) = rest \/ ReleaseModifier(s, k) = Toggle(rest, KindOf[k])
          BY DEF ReleaseModifier
        <5>3. /\ rest.depressed = s.depressed \ {k}
              /\ {"depressed", "latched", "locked"} \subseteq DOMAIN rest
          BY DEF KeyboardStates
        <5> HIDE DEF rest, i
        <5>4. Toggle(rest, KindOf[k]).depressed = rest.depressed
          BY <5>3 DEF Toggle
        <5> QED
          BY <5>1, <5>2, <5>3, <5>4
      <4>2. CASE k \in LockKeys
        <5>1. Release(s, k) = ReleaseLock(s, k)
          BY <1>2, <4>2, Disjoint, Zenon DEF Release
        <5> QED
          BY <5>1 DEF ReleaseLock, KeyboardStates
      <4> QED
        BY <2>5, <4>1, <4>2 DEF Keys
    <3> QED
      BY <2>4, <3>1, <3>2
  <2>6. CASE k \in PlainKeys
    <3> DEFINE I == s.injected[k] \cap S
               keys == InKindOrder(I)
               q == Each(Up, keys)
    <3>1. Release(s, k).depressed = (S \ {k}) \ I
      <4>1. Release(s, k) = ReleasePlain(s, k)
        BY <1>2, <2>6, Disjoint DEF Release
      <4>2. Release(s, k).depressed = S \ ({k} \cup s.injected[k])
        BY <4>1 DEF ReleasePlain, KeyboardStates
      <4> QED
        BY <4>2
    <3>2. I \subseteq Preferred /\ I \subseteq S /\ I \subseteq Modifiers
      BY <2>6 DEF InjectedPreferred, KeyboardStates
    <3>3. keys \in Seq(Keys) /\ Distinct(keys) /\ \A x : Has(keys, x) <=> x \in I
      BY <3>2, InKindOrderType, InKindOrderHas, InKindOrderDistinct
    <3>4. ReleaseEvents(s, k) = <<Up(k)>> \o q
      BY <1>2, <2>6 DEF ReleaseEvents
    <3>5. q \in Seq(Events) /\ <<Up(k)>> \in Seq(Events)
      <4>1. q \in Seq(Events)
        BY <3>3, EachType
      <4>2. Up(k) \in Events
        BY DEF Up, Events
      <4>3. <<Up(k)>> \in Seq(Events)
        BY <4>2
      <4> QED
        BY <4>1, <4>3
    <3>6. First(keys, Len(keys)) = I
      BY <3>3, FirstGrows
    <3> HIDE DEF I, keys, q
    <3>7. S \ {k} \in SUBSET Keys /\ \A x : Has(keys, x) => x \in S \ {k}
      BY <1>0, <2>6, <3>2, <3>3, Disjoint
    <3>8. Carried(room, q, S \ {k}, (S \ {k}) \ I)
      <4> DEFINE T == S \ {k}
      <4>1. T \in SUBSET Keys /\ \A x : Has(keys, x) => x \in T
        BY <3>7
      <4> HIDE DEF T
      <4>2. Carried(room, Each(Up, keys), T, T \ First(keys, Len(keys)))
        BY <3>3, <4>1, CarriedUps
      <4> QED
        BY <3>6, <4>2 DEF T, q
    <3>9. Carried(room, <<Up(k)>> \o q, S, (S \ {k}) \ I)
      BY <2>4, <3>5, <3>8, CarriedCat
    <3> QED
      BY <3>1, <3>4, <3>9
  <2> QED
    BY <2>5, <2>6
<1> QED
  BY <1>1, <1>2

\* release_all is served to the last key.
LEMMA ReleaseAllCarried ==
    ASSUME NEW room, NEW s \in KeyboardStates
    PROVE  Carried(room, ReleaseAllEvents(s), s.depressed, {})
<1> DEFINE S == s.depressed
           A == S \ Modifiers
           B == S \cap Modifiers
<1>1. ASSUME NEW T \in SUBSET Keys, NEW R \in SUBSET Keys, T \subseteq R
      PROVE  /\ Each(Up, SetToSeq(T)) \in Seq(Events)
             /\ Carried(room, Each(Up, SetToSeq(T)), R, R \ T)
  <2> DEFINE keys == SetToSeq(T)
  <2>1. IsFiniteSet(T)
    BY FiniteKeys, FS_Subset
  <2>2. keys \in Seq(T) /\ Distinct(keys) /\ \A x : Has(keys, x) <=> x \in T
    BY <2>1, SetToSeqType, SetToSeqHas, SetToSeqDistinct
  <2> HIDE DEF keys
  <2>3. keys \in Seq(Keys) /\ \A x : Has(keys, x) => x \in R
    BY <1>1, <2>2
  <2>4. First(keys, Len(keys)) = T
    BY <2>2, <2>3, FirstGrows
  <2>5. Carried(room, Each(Up, keys), R, R \ First(keys, Len(keys)))
    BY <2>2, <2>3, CarriedUps
  <2> QED
    BY <2>3, <2>4, <2>5, EachType DEF keys
<1>2. S \in SUBSET Keys /\ A \in SUBSET Keys /\ B \in SUBSET Keys /\ S \ A = B /\ B \ B = {}
      /\ A \subseteq S
  BY DEF KeyboardStates
<1>3. ReleaseAllEvents(s) = Each(Up, SetToSeq(A)) \o Each(Up, SetToSeq(B))
  BY DEF ReleaseAllEvents
<1> HIDE DEF S, A, B
<1>4. Each(Up, SetToSeq(A)) \in Seq(Events) /\ Carried(room, Each(Up, SetToSeq(A)), S, B)
  BY <1>1, <1>2
<1>5. Each(Up, SetToSeq(B)) \in Seq(Events) /\ Carried(room, Each(Up, SetToSeq(B)), B, {})
  BY <1>1, <1>2
<1>6. Carried(room, Each(Up, SetToSeq(A)) \o Each(Up, SetToSeq(B)), S, {})
  BY <1>4, <1>5, CarriedCat
<1> QED
  BY <1>3, <1>6 DEF S

\* A UI that is served and was refused nothing: its session will hold what the state
\* holds once the events that are on the way have been served, if it has the room.
Agreed ==
    /\ refused = "none"
    /\ client = "live" /\ dest = "System" /\ cause # "switch"
    /\ Carried(Room, pending, session, st.depressed)

\* A handler that starts with nothing on the way keeps the agreement.
LEMMA AgreedStarts ==
    ASSUME TypeOK, HandOver, Agreed, pending = <<>>, client' = client, dest' = dest,
           session' = session, refused' = refused, cause' # "switch",
           Carried(Room, pending', st.depressed, st'.depressed)
    PROVE  Agreed'
<1>1. session = st.depressed
  BY CarriedNone DEF Agreed
<1>2. Carried(Room, pending', session', st'.depressed)
  BY <1>1
<1> QED
  BY <1>2 DEF Agreed, Carried, Trace

\* No handler sends what a session with room refuses.
LEMMA AgreedStep ==
    ASSUME TypeOK, LockRepeatInv, HandOver, Agreed, [Next]_vars, ~LinkFaults
    PROVE  Agreed' \/ refused' = "room"
<1>0. /\ st \in KeyboardStates /\ pending \in Seq(Events) /\ InjectedPreferred(st)
      /\ Buttons \subseteq Keys /\ todo \in Seq(Actions)
      /\ client = "live" /\ dest = "System" /\ cause # "switch"
  BY UiAssumption DEF TypeOK, HandOver, Agreed
<1>1. ASSUME pending = <<>>, client' = client, dest' = dest, session' = session,
             refused' = refused, EmergencyRelease("release")
      PROVE  Agreed'
  <2>1. /\ pending' = ReleaseAllEvents(st) /\ cause' # "switch" /\ st' = ReleaseAll(st)
    BY <1>1 DEF EmergencyRelease
  <2>2. st'.depressed = {}
    BY <1>0, <2>1 DEF ReleaseAll, KeyboardStates
  <2>3. Carried(Room, pending', st.depressed, st'.depressed)
    BY <1>0, <2>1, <2>2, ReleaseAllCarried
  <2> QED
    BY <1>1, <2>1, <2>3, AgreedStarts
<1>2. ASSUME NEW k \in Buttons, KeyPressed(k)  PROVE  Agreed'
  <2>1. pending = <<>> /\ client' = client /\ dest' = dest /\ session' = session /\ refused' = refused /\ k \in Keys
    BY <1>0, <1>2 DEF KeyPressed, HandOver, linkVars
  <2>2. CASE EmergencyRelease("release")
    BY <1>1, <2>1, <2>2
  <2>3. CASE ~Rollover(st, k) /\ st' = Press(st, k) /\ pending' = PressEvents(st, k) /\ cause' = "key"
    <3>1. Carried(Room, pending', st.depressed, st'.depressed)
      BY <1>0, <2>1, <2>3, PressCarried, RoomFits
    <3> QED
      BY <2>1, <2>3, <3>1, AgreedStarts
  <2> QED
    BY <1>2, <2>2, <2>3 DEF KeyPressed
<1>3. ASSUME NEW k \in Buttons, KeyReleased(k)  PROVE  Agreed'
  <2>1. /\ pending = <<>> /\ client' = client /\ dest' = dest /\ session' = session /\ refused' = refused /\ k \in Keys
        /\ st' = Release(st, k) /\ pending' = ReleaseEvents(st, k) /\ cause' = "key"
    BY <1>0, <1>3 DEF KeyReleased, HandOver, linkVars
  <2>2. Carried(Room, pending', st.depressed, st'.depressed)
    BY <1>0, <2>1, ReleaseCarried
  <2> QED
    BY <2>1, <2>2, AgreedStarts
<1>4. CASE TextAction
  <2> DEFINE k == Head(todo).key
             act == Head(todo).act
             p == Press(st, k)
  <2>1. /\ pending = <<>> /\ client' = client /\ dest' = dest /\ session' = session /\ refused' = refused
        /\ todo # <<>> /\ cause = "text"
    BY <1>4 DEF TextAction, linkVars
  <2>2. k \in Keys
    <3>1. Head(todo) \in Actions
      BY <1>0, <2>1
    <3> QED
      BY <3>1 DEF Actions
  <2>3. \/ cause' = "idle" /\ st' = st /\ pending' = pending
        \/ ~Rollover(st, k) /\ st' = p /\ pending' = PressEvents(st, k) /\ cause' = cause
        \/ /\ ~Rollover(st, k) /\ st' = Release(p, k) /\ cause' = cause
           /\ pending' = PressEvents(st, k) \o ReleaseEvents(p, k)
        \/ st' = Release(st, k) /\ pending' = ReleaseEvents(st, k) /\ cause' = cause
    BY <1>4 DEF TextAction
  <2> HIDE DEF k, act
  <2>4. cause' # "switch"
    BY <2>1, <2>3
  <2>5. p \in KeyboardStates /\ InjectedPreferred(p)
    BY <1>0, <2>2, PressType, PressHands
  <2>6. CASE st' = st /\ pending' = pending
    BY <1>0, <2>1, <2>4, <2>6 DEF Agreed, Carried, Trace
  <2>7. CASE ~Rollover(st, k) /\ st' = p /\ pending' = PressEvents(st, k)
    <3>1. Carried(Room, pending', st.depressed, st'.depressed)
      BY <1>0, <2>2, <2>7, PressCarried, RoomFits
    <3> QED
      BY <2>1, <2>4, <3>1, AgreedStarts
  <2>8. CASE /\ ~Rollover(st, k) /\ st' = Release(p, k)
             /\ pending' = PressEvents(st, k) \o ReleaseEvents(p, k)
    <3>1. Carried(Room, PressEvents(st, k), st.depressed, p.depressed)
      BY <1>0, <2>2, <2>8, PressCarried, RoomFits
    <3>2. Carried(Room, ReleaseEvents(p, k), p.depressed, Release(p, k).depressed)
      BY <2>2, <2>5, ReleaseCarried
    <3>3. PressEvents(st, k) \in Seq(Events) /\ ReleaseEvents(p, k) \in Seq(Events)
      BY <1>0, <2>2, <2>5, EventsType
    <3>4. Carried(Room, pending', st.depressed, st'.depressed)
      BY <2>8, <3>1, <3>2, <3>3, CarriedCat
    <3> QED
      BY <2>1, <2>4, <3>4, AgreedStarts
  <2>9. CASE st' = Release(st, k) /\ pending' = ReleaseEvents(st, k)
    <3>1. Carried(Room, pending', st.depressed, st'.depressed)
      BY <1>0, <2>2, <2>9, ReleaseCarried
    <3> QED
      BY <2>1, <2>4, <3>1, AgreedStarts
  <2> QED
    BY <2>3, <2>6, <2>7, <2>8, <2>9
<1>5. CASE TickRepeat
  <2>1. PICK due \in SUBSET repeating : pending' = Each(Repeat, SetToSeq(due))
    BY <1>5 DEF TickRepeat
  <2>2. /\ pending = <<>> /\ client' = client /\ dest' = dest /\ session' = session /\ refused' = refused
        /\ st' = st /\ cause' = "tick"
    BY <1>5 DEF TickRepeat, HandOver, linkVars, stateVars
  <2> DEFINE keys == SetToSeq(due)
  <2>3. due \subseteq st.depressed /\ st.depressed \in SUBSET Keys
    BY <1>0, <2>1 DEF LockRepeatInv, RepeatInv, KeyboardStates
  <2>4. IsFiniteSet(due)
    BY <2>3, FiniteKeys, FS_Subset
  <2>5. keys \in Seq(due) /\ \A x : Has(keys, x) <=> x \in due
    BY <2>4, SetToSeqType, SetToSeqHas
  <2>6. pending' = Each(Repeat, keys)
    BY <2>1
  <2> HIDE DEF keys
  <2>7. keys \in Seq(Keys) /\ \A x : Has(keys, x) => x \in st.depressed
    BY <2>3, <2>5
  <2>8. Carried(Room, pending', st.depressed, st'.depressed)
    BY <2>2, <2>3, <2>6, <2>7, CarriedRepeats
  <2> QED
    BY <2>2, <2>8, AgreedStarts
<1>6. CASE TapTimeout
  <2>1. PICK n \in 1..Len(st.tracks) : st' = Expire(st, n)
    BY <1>6 DEF TapTimeout
  <2>2. /\ st'.depressed = st.depressed /\ client' = client /\ dest' = dest
        /\ session' = session /\ refused' = refused /\ cause' = cause /\ pending' = pending
    BY <1>0, <1>6, <2>1 DEF Expire, KeyboardStates, TapTimeout, linkVars, runVars
  <2> QED
    BY <2>2 DEF Agreed, Carried, Trace
<1>7. CASE SendServed
  <2> DEFINE e == Head(pending)
  <2>1. PICK H : Serves(Room, session, e, H) /\ Carried(Room, Tail(pending), H, st.depressed)
    BY <1>0, <1>7, CarriedHead DEF SendServed, Agreed
  <2>2. /\ ~SessionRefuses(e) => SessionAfter(e) = H
        /\ SessionRefuses(e) => e.type = "Down" /\ e.key \notin session
    <3> HIDE DEF e
    <3>2. CASE e.type = "Down"
      BY <2>1, <3>2 DEF Serves, SessionRefuses, SessionAfter
    <3>3. CASE e.type = "Up"
      BY <2>1, <3>3 DEF Serves, SessionRefuses, SessionAfter
    <3>4. CASE e.type = "Repeat"
      BY <2>1, <3>4 DEF Serves, SessionRefuses, SessionAfter
    <3> QED
      BY <2>1, <3>2, <3>3, <3>4 DEF Serves
  <2>3. CASE SessionRefuses(e)
    BY <1>7, <2>2, <2>3 DEF SendServed, Refusal, Agreed
  <2>4. CASE ~SessionRefuses(e)
    <3>1. /\ session' = H /\ client' = client /\ dest' = dest /\ cause' = cause
          /\ st' = st /\ pending' = Tail(pending) /\ refused' = refused
      BY <1>7, <2>2, <2>4 DEF SendServed, stateVars
    <3> QED
      BY <2>1, <3>1 DEF Agreed, Carried, Trace
  <2> QED
    BY <2>3, <2>4
<1>8. CASE HandlerReturns
  <2>1. /\ client' = client /\ dest' = dest /\ session' = session /\ refused' = refused /\ cause' = "idle"
        /\ st' = st /\ pending' = pending
    BY <1>0, <1>8 DEF HandlerReturns, linkVars, stateVars
  <2> QED
    BY <2>1 DEF Agreed, Carried, Trace
<1>9. ASSUME UNCHANGED <<st, session, client, refused, dest>>, pending' = pending, cause' # "switch"
      PROVE  Agreed'
  BY <1>9 DEF Agreed, Carried, Trace
<1>10. CASE \/ \E f \in Buttons \cap PlainKeys, k \in PlainKeys, mods \in TextMods : TypeChar(f, k, mods)
            \/ \E f \in Buttons \cap PlainKeys : TypeNothing(f)
            \/ UNCHANGED vars
  BY <1>0, <1>9, <1>10 DEF TypeChar, TypeNothing, vars, stateVars, linkVars, runVars
<1> QED
  BY <1>0, <1>2, <1>3, <1>4, <1>5, <1>6, <1>7, <1>8, <1>10 DEF Next, SwitchDestination, SendLost,
     SendDropped, SendFails, MayFail, PollConnect, LinkLost, SessionEnds, SendTerminal, TerminalFull

\* The first refusal is kept.
LEMMA RefusalKept ==
    ASSUME [Next]_vars
    PROVE  /\ refused # "none" => refused' = refused
           /\ refused' = "none" => refused = "none"
<1>1. CASE SendServed
  BY <1>1 DEF SendServed, Refusal
<1>2. CASE ~SendServed
  BY <1>2 DEF Next, KeyPressed, KeyReleased, TypeChar, TypeNothing, TextAction, TickRepeat,
     SwitchDestination, TapTimeout, SendLost, SendDropped, SendFails, PollConnect, LinkLost,
     SessionEnds, SendTerminal, TerminalFull, HandlerReturns, linkVars, vars
<1> QED
  BY <1>1, <1>2

\* Both sides agree until a full session refuses a key.
AgreedSoFar == Agreed \/ refused = "room"

LEMMA AgreedSoFarStep ==
    ASSUME TypeOK, LockRepeatInv, HandOver, AgreedSoFar, [Next]_vars, ~LinkFaults
    PROVE  AgreedSoFar'
<1>1. CASE Agreed
  BY <1>1, AgreedStep DEF AgreedSoFar
<1>2. CASE refused = "room"
  BY <1>2, RefusalKept DEF AgreedSoFar
<1> QED
  BY <1>1, <1>2 DEF AgreedSoFar

\* At the start nothing is held.
LEMMA AgreedInit ==
    ASSUME ~LinkFaults, ~HasTerminal, Init
    PROVE  Agreed
<1>1. /\ client = "live" /\ dest = "System" /\ cause # "switch" /\ pending = <<>>
      /\ session = {} /\ st.depressed = {} /\ refused = "none"
  BY DEF Init, NewState
<1>2. {} \in SUBSET Keys
  OBVIOUS
<1> QED
  BY <1>1, <1>2, CarriedNone DEF Agreed

\* With nothing on the way both sides hold the same.
LEMMA AgreedMeans ==
    ASSUME AgreedSoFar, HandOver
    PROVE  BrokerAgrees
<1>1. CASE Agreed
  <2>1. cause = "idle" => session = st.depressed
    BY <1>1, CarriedNone DEF Agreed, HandOver
  <2> QED
    BY <1>1, <2>1 DEF BrokerAgrees, Agreed
<1> QED
  BY <1>1 DEF AgreedSoFar, BrokerAgrees

\* Without faults of the link and without the terminal, the only thing for which the
\* broker refuses a key of the UI is a session that is full, and until then it holds just
\* what the UI's state holds whenever no handler is running: for any keys, layout and
\* text and for any two limits, the equal ones that ship included.
THEOREM BrokerFollows ==
    ASSUME ~LinkFaults, ~HasTerminal
    PROVE  Spec => []BrokerAgrees
<1>1. Init => AgreedSoFar
  BY AgreedInit DEF AgreedSoFar
<1>2. TypeOK /\ LockRepeatInv /\ HandOver /\ AgreedSoFar /\ [Next]_vars => AgreedSoFar'
  BY AgreedSoFarStep
<1>3. AgreedSoFar /\ HandOver => BrokerAgrees
  BY AgreedMeans
<1> QED
  BY <1>1, <1>2, <1>3, LockRepeatCorrect, HandOverCorrect, PTL DEF Spec
-----------------------------------------------------------------------------
(* Text mode.                                                              *)

\* What a round of the compose engine does to the keyboard: it starts to type a
\* character, or ends the handler, or goes on to the next symbol.
Fed ==
    /\ UNCHANGED <<st, repeating, pending, dest, client, session, refused, termMods, termCaps, chorded>>
    /\ pending = <<>> /\ fingers' \subseteq Buttons
    /\ \/ todo' = <<>> /\ cause' \in {"idle", "text"}
       \/ cause' = "text" /\ \E k \in Keys : \E mods : todo' = TypeActions(k, mods)

\* The keys find_char offers are those of the layout.
LEMMA FindCharKeys ==
    ASSUME NEW c, NEW active, NEW way \in FindChar(c, active)
    PROVE  way[1] \in Keys
<1> DEFINE at(mods) == {k \in DOMAIN Layout : SymbolFor(k, mods) = Char(c)}
<1>1. \A mods : at(mods) \subseteq Keys
  BY LayoutAssumption
<1> HIDE DEF at
<1>2. \A mods, X, w : w \in at(mods) \X X => w[1] \in Keys
  BY <1>1
<1>3. PICK mods, X : way \in at(mods) \X X
  BY DEF FindChar, at
<1> QED
  BY <1>2, <1>3

\* A round of the engine.
LEMMA FeedRoundFeeds ==
    ASSUME NEW sym, NEW j, FeedRound(sym, j), pending = <<>>, fingers' \subseteq Buttons
    PROVE  Fed
<1> DEFINE r == Feed(composing, sym)
<1>1. UNCHANGED <<st, repeating, pending, dest, client, session, refused, termMods, termCaps, chorded>>
  BY DEF FeedRound, stateVars, linkVars, termVars
<1>2. \/ todo' = <<>> /\ cause' \in {"idle", "text"}
      \/ cause' = "text" /\ \E way \in FindChar(r.chars[1], j.mods) :
            todo' = TypeActions(way[1], way[2])
  BY DEF FeedRound
<1> HIDE DEF r
<1>3. CASE cause' = "text" /\ \E way \in FindChar(r.chars[1], j.mods) :
              todo' = TypeActions(way[1], way[2])
  <2>1. PICK way \in FindChar(r.chars[1], j.mods) : todo' = TypeActions(way[1], way[2])
    BY <1>3
  <2>2. way[1] \in Keys
    BY FindCharKeys
  <2> QED
    BY <1>1, <1>3, <2>1, <2>2 DEF Fed
<1> QED
  BY <1>1, <1>2, <1>3 DEF Fed

\* Every step in text mode is one of the keyboard or a round of the engine.
LEMMA TextSteps ==
    ASSUME TypeOK, HandOver, [TextNext]_<<vars, textVars>>
    PROVE  [Next]_vars \/ Fed
<1>0. fingers \subseteq Buttons
  BY DEF TypeOK
<1>1. ASSUME NEW f \in Buttons, TextPressed(f)  PROVE  Fed
  <2>1. pending = <<>> /\ fingers' \subseteq Buttons
    BY <1>0, <1>1 DEF TextPressed, HandOver
  <2>2. PICK j : FeedRound(SymbolFor(f, EffectiveModifiers(st)), j)
    BY <1>1 DEF TextPressed
  <2> QED
    BY <2>1, <2>2, FeedRoundFeeds
<1>2. ASSUME Refeed  PROVE  Fed
  <2>1. pending = <<>> /\ fingers' \subseteq Buttons
    BY <1>0, <1>2 DEF Refeed
  <2>2. PICK j : FeedRound(job.again, j)
    BY <1>2 DEF Refeed
  <2> QED
    BY <2>1, <2>2, FeedRoundFeeds
<1>3. ASSUME NEW f \in Buttons, ButtonPressed(f)  PROVE  Next
  BY <1>3 DEF ButtonPressed, Next
<1>4. ASSUME Otherwise  PROVE  Next
  BY <1>4 DEF Otherwise, Next
<1>5. ASSUME UNCHANGED <<vars, textVars>>  PROVE  UNCHANGED vars
  BY <1>5
<1> QED
  BY <1>1, <1>2, <1>3, <1>4, <1>5 DEF TextNext

\* The engine touches neither the state nor the link.
LEMMA FedKeeps ==
    ASSUME TypeOK, LockRepeatInv, HandOver, Fed
    PROVE  TypeOK' /\ LockRepeatInv' /\ HandOver' /\ (Agreed => Agreed') /\ refused' = refused
<1>1. todo' \in Seq(Actions) /\ cause' \in {"idle", "text"} /\ (cause' = "idle" => todo' = <<>>)
  <2>1. CASE todo' = <<>> /\ cause' \in {"idle", "text"}
    BY <2>1
  <2>2. CASE cause' = "text" /\ \E k \in Keys : \E mods : todo' = TypeActions(k, mods)
    BY <2>2, TextTodoType DEF TypeActions
  <2> QED
    BY <2>1, <2>2 DEF Fed
<1>2. TypeOK'
  BY <1>1 DEF Fed, TypeOK, Causes
<1>3. LockRepeatInv'
  BY DEF Fed, LockRepeatInv, LockOnlyByCaps, RepeatInv
<1>4. HandOver'
  BY <1>1 DEF Fed, HandOver, InjectedPreferred, Followed, Covered, Has
<1>5. Agreed => Agreed'
  BY <1>1 DEF Fed, Agreed, Carried, Trace
<1> QED
  BY <1>2, <1>3, <1>4, <1>5 DEF Fed

\* What holds of the keyboard holds with text mode.
LEMMA TextCorrect ==
    TextSpec => [](TypeOK /\ LockRepeatInv /\ HandOver)
<1>1. TextInit => TypeOK /\ LockRepeatInv /\ HandOver
  BY TypeInit, LockRepeatInit, HandOverInit DEF TextInit
<1>2. TypeOK /\ LockRepeatInv /\ HandOver /\ [TextNext]_<<vars, textVars>>
        => TypeOK' /\ LockRepeatInv' /\ HandOver'
  BY TextSteps, FedKeeps, TypeStep, LockRepeatStep, HandOverStep
<1> QED
  BY <1>1, <1>2, PTL DEF TextSpec

\* The agreement and the first refusal, in text mode.
LEMMA TextAgreedStep ==
    ASSUME TypeOK, LockRepeatInv, HandOver, AgreedSoFar, [TextNext]_<<vars, textVars>>, ~LinkFaults
    PROVE  AgreedSoFar' /\ (refused' = "none" => refused = "none")
<1>1. CASE [Next]_vars
  BY <1>1, AgreedSoFarStep, RefusalKept
<1>2. CASE Fed
  BY <1>2, FedKeeps DEF AgreedSoFar
<1> QED
  BY <1>1, <1>2, TextSteps

\* The same for the UI with its compose engine, whatever the layout.
THEOREM BrokerFollowsText ==
    ASSUME ~LinkFaults, ~HasTerminal
    PROVE  TextSpec => []BrokerAgrees
<1>1. TextInit => AgreedSoFar
  BY AgreedInit DEF TextInit, AgreedSoFar
<1>2. TypeOK /\ LockRepeatInv /\ HandOver /\ AgreedSoFar /\ [TextNext]_<<vars, textVars>>
        => AgreedSoFar'
  BY TextAgreedStep
<1>3. AgreedSoFar /\ HandOver => BrokerAgrees
  BY AgreedMeans
<1> QED
  BY <1>1, <1>2, <1>3, TextCorrect, PTL DEF TextSpec

-----------------------------------------------------------------------------
(* What is typed is what was meant.                                        *)

\* The modifiers in effect when the keys of H are held.
KindsOf(H) == {KindOf[k] : k \in H \cap Modifiers}

\* Every plain key that goes down in q, while the session holds what h says, makes c.
Means(h, q, c) ==
    \A i \in 1..Len(q) :
        q[i].type = "Down" /\ q[i].key \in PlainKeys => SymbolFor(q[i].key, KindsOf(h[i - 1])) = Char(c)

\* A session that holds S serves all of q, ends up holding D, and q types c.
Typed(q, S, D, c) == \E h : Trace(Room, h, q, S, D) /\ Means(h, q, c)

\* Events that press no plain key type nothing else.
LEMMA TypedSilent ==
    ASSUME NEW q, NEW S, NEW D, NEW c, Carried(Room, q, S, D),
           \A i \in 1..Len(q) : q[i].type = "Down" => q[i].key \notin PlainKeys
    PROVE  Typed(q, S, D, c)
  BY DEF Carried, Typed, Means

\* The first event types c, and so do the others after it.
LEMMA TypedHead ==
    ASSUME NEW q \in Seq(Events), q # <<>>, NEW S, NEW D, NEW c, Typed(q, S, D, c)
    PROVE  /\ \E H : Serves(Room, S, Head(q), H) /\ Typed(Tail(q), H, D, c)
           /\ Head(q).type = "Down" /\ Head(q).key \in PlainKeys
                => SymbolFor(Head(q).key, KindsOf(S)) = Char(c)
<1>1. PICK h : Trace(Room, h, q, S, D) /\ Means(h, q, c)
  BY DEF Typed
<1> DEFINE t == Tail(q)
           g == [i \in 0..Len(t) |-> h[i + 1]]
<1>2. /\ Len(q) \in Nat \ {0} /\ Len(t) = Len(q) - 1 /\ q[1] = Head(q)
      /\ \A i \in 1..Len(t) : t[i] = q[i + 1]
  OBVIOUS
<1> HIDE DEF t
<1>3. \A i \in 0..Len(t) : i + 1 \in 0..Len(q) /\ g[i] = h[i + 1]
  BY <1>2
<1>4. g \in [0..Len(t) -> SUBSET Keys]
  BY <1>1, <1>3 DEF Trace
<1>5. g[0] = h[1] /\ g[Len(t)] = D
  BY <1>1, <1>2, <1>3 DEF Trace
<1>6. ASSUME NEW i \in 1..Len(t)
      PROVE  /\ Serves(Room, g[i - 1], t[i], g[i])
             /\ t[i].type = "Down" /\ t[i].key \in PlainKeys
                  => SymbolFor(t[i].key, KindsOf(g[i - 1])) = Char(c)
  <2>1. i + 1 \in 1..Len(q) /\ i - 1 \in 0..Len(t) /\ (i + 1) - 1 = i /\ (i - 1) + 1 = i
    BY <1>2
  <2>2. Serves(Room, h[i], q[i + 1], h[i + 1])
    BY <1>1, <2>1 DEF Trace
  <2>3. g[i - 1] = h[i] /\ g[i] = h[i + 1] /\ t[i] = q[i + 1]
    BY <1>2, <1>3, <2>1
  <2>4. q[i + 1].type = "Down" /\ q[i + 1].key \in PlainKeys
          => SymbolFor(q[i + 1].key, KindsOf(h[i])) = Char(c)
    BY <1>1, <2>1 DEF Means
  <2> QED
    BY <2>2, <2>3, <2>4
<1> HIDE DEF g
<1>7. Typed(t, h[1], D, c)
  BY <1>4, <1>5, <1>6 DEF Typed, Trace, Means
<1>8. 1 \in 1..Len(q) /\ 1 - 1 = 0 /\ h[0] = S
  BY <1>1, <1>2 DEF Trace
<1>9. Serves(Room, S, Head(q), h[1])
  <2>1. Serves(Room, h[1 - 1], q[1], h[1])
    BY <1>1, <1>8 DEF Trace
  <2> QED
    BY <1>2, <1>8, <2>1
<1>10. Head(q).type = "Down" /\ Head(q).key \in PlainKeys
          => SymbolFor(Head(q).key, KindsOf(S)) = Char(c)
  <2>1. q[1].type = "Down" /\ q[1].key \in PlainKeys
          => SymbolFor(q[1].key, KindsOf(h[1 - 1])) = Char(c)
    BY <1>1, <1>8 DEF Means
  <2> QED
    BY <1>2, <1>8, <2>1
<1> QED
  BY <1>7, <1>9, <1>10 DEF t

\* One list of events after the other types c.
LEMMA TypedCat ==
    ASSUME NEW a \in Seq(Events), NEW b \in Seq(Events), NEW S, NEW M, NEW D, NEW c,
           Typed(a, S, M, c), Typed(b, M, D, c)
    PROVE  Typed(a \o b, S, D, c)
<1>1. PICK f : Trace(Room, f, a, S, M) /\ Means(f, a, c)
  BY DEF Typed
<1>2. PICK g : Trace(Room, g, b, M, D) /\ Means(g, b, c)
  BY DEF Typed
<1> DEFINE q == a \o b
           m == Len(a)
           n == Len(b)
           h == [i \in 0..Len(q) |-> IF i <= m THEN f[i] ELSE g[i - m]]
           Ok(H, e, H2) == /\ Serves(Room, H, e, H2)
                           /\ e.type = "Down" /\ e.key \in PlainKeys
                                => SymbolFor(e.key, KindsOf(H)) = Char(c)
<1>3. /\ m \in Nat /\ n \in Nat /\ Len(q) = m + n
      /\ \A i \in 1..m : q[i] = a[i]
      /\ \A i \in 1..(m + n) : i > m => q[i] = b[i - m]
  OBVIOUS
<1>4. /\ f \in [0..m -> SUBSET Keys] /\ f[0] = S /\ f[m] = M
      /\ \A i \in 1..m : Ok(f[i - 1], a[i], f[i])
  BY <1>1 DEF Trace, Means
<1>5. /\ g \in [0..n -> SUBSET Keys] /\ g[0] = M /\ g[n] = D
      /\ \A i \in 1..n : Ok(g[i - 1], b[i], g[i])
  BY <1>2 DEF Trace, Means
<1> HIDE DEF q, m, n, Ok
<1>6. /\ \A i \in 0..m : h[i] = f[i]
      /\ \A i \in 0..(m + n) : i > m => h[i] = g[i - m]
      /\ DOMAIN h = 0..Len(q) /\ h = [i \in 0..Len(q) |-> h[i]]
  BY <1>3
<1> HIDE DEF h
<1>7. \A i \in 0..Len(q) : h[i] \in SUBSET Keys
  <2>1. \A i \in 0..(m + n) : i <= m => i \in 0..m
    BY <1>3
  <2>2. \A i \in 0..(m + n) : i > m => i - m \in 0..n
    BY <1>3
  <2>3. \A i \in 0..(m + n) : i <= m \/ i > m
    BY <1>3
  <2> QED
    BY <1>3, <1>4, <1>5, <1>6, <2>1, <2>2, <2>3
<1>8. h \in [0..Len(q) -> SUBSET Keys]
  BY <1>6, <1>7
<1>9. h[0] = S
  <2>1. 0 \in 0..m
    BY <1>3
  <2> QED
    BY <1>4, <1>6, <2>1
<1>10. h[Len(q)] = D
  <2>1. CASE n = 0
    <3>1. Len(q) = m /\ m \in 0..m
      BY <1>3, <2>1
    <3> QED
      BY <1>4, <1>5, <1>6, <2>1, <3>1
  <2>2. CASE n # 0
    <3>1. m + n \in 0..(m + n) /\ m + n > m /\ (m + n) - m = n
      BY <1>3, <2>2
    <3> QED
      BY <1>3, <1>5, <1>6, <3>1
  <2> QED
    BY <2>1, <2>2
<1>11. ASSUME NEW i \in 1..Len(q)  PROVE  Ok(h[i - 1], q[i], h[i])
  <2>1. CASE i <= m
    <3>1. i \in 1..m /\ i - 1 \in 0..m /\ i \in 0..m
      BY <1>3, <2>1
    <3> QED
      BY <1>3, <1>4, <1>6, <3>1
  <2>2. CASE i > m
    <3> DEFINE j == i - m
    <3>1. j \in 1..n /\ i \in 0..(m + n) /\ i \in 1..(m + n)
      BY <1>3, <2>2
    <3>2. h[i] = g[j] /\ q[i] = b[j]
      BY <1>3, <1>6, <2>2, <3>1
    <3>3. h[i - 1] = g[j - 1]
      <4>1. CASE i = m + 1
        <5>1. j - 1 = 0 /\ i - 1 = m /\ m \in 0..m
          BY <1>3, <4>1
        <5> QED
          BY <1>4, <1>5, <1>6, <5>1
      <4>2. CASE i # m + 1
        <5>1. i - 1 > m /\ i - 1 \in 0..(m + n) /\ (i - 1) - m = j - 1
          BY <1>3, <2>2, <3>1, <4>2
        <5> QED
          BY <1>6, <5>1
      <4> QED
        BY <4>1, <4>2
    <3> HIDE DEF j
    <3>4. Ok(g[j - 1], b[j], g[j])
      BY <1>5, <3>1
    <3> QED
      BY <3>2, <3>3, <3>4
  <2> QED
    BY <1>3, <2>1, <2>2
<1>12. Trace(Room, h, q, S, D) /\ Means(h, q, c)
  BY <1>8, <1>9, <1>10, <1>11 DEF Trace, Means, Ok
<1> QED
  BY <1>12 DEF Typed, q

\* A tap of a plain key that is up types the symbol of that key under the modifiers that
\* are held or latched, and leaves the keys that were held before.
LEMMA TapTyped ==
    ASSUME NEW s \in KeyboardStates, NEW k \in PlainKeys, k \notin s.depressed,
           ~Rollover(s, k), s.locked = {}, InjectedPreferred(s), NEW c,
           SymbolFor(k, HeldModifiers(s) \cup s.latched) = Char(c)
    PROVE  /\ Typed(PressEvents(s, k) \o ReleaseEvents(Press(s, k), k), s.depressed, s.depressed, c)
           /\ Release(Press(s, k), k).depressed = s.depressed
<1> DEFINE S == s.depressed
           I == ToInject(s)
           p == Press(s, k)
           r == ReleaseEvents(p, k)
           one == <<Down(k)>>
<1>1. PICK q \in Seq(Downs(Modifiers)) :
         PressEvents(s, k) = q \o one /\ Carried(Room, q, S, S \cup I)
  BY InjectCarried, RoomFits
<1>2. /\ Carried(Room, one, S \cup I, S \cup I \cup {k})
      /\ I \cap S = {} /\ I \subseteq Modifiers
      /\ p.depressed = S \cup I \cup {k} /\ p.injected[k] = I
  BY InjectCarried, RoomFits
<1>3. k \in Keys /\ p \in KeyboardStates /\ InjectedPreferred(p)
  BY PressType, PressHands DEF Keys
<1>4. Release(p, k).depressed = S
  <2>1. Release(p, k) = ReleasePlain(p, k)
    BY <1>2, Disjoint DEF Release
  <2>2. Release(p, k).depressed = p.depressed \ ({k} \cup p.injected[k])
    BY <1>3, <2>1 DEF ReleasePlain, KeyboardStates
  <2> QED
    BY <1>2, <2>2
<1>5. Carried(Room, r, S \cup I \cup {k}, S)
  <2>1. Carried(Room, ReleaseEvents(p, k), p.depressed, Release(p, k).depressed)
    <3> HIDE DEF p
    <3> QED BY <1>3, ReleaseCarried
  <2> QED
    BY <1>2, <1>4, <2>1
<1>6. r \in Seq(Ups)
  BY <1>3, ReleaseHands
<1>7. r \in Seq(Events) /\ q \in Seq(Events) /\ one \in Seq(Events)
  <2>1. Down(k) \in Events
    BY <1>3 DEF Down, Events
  <2> QED
    BY <1>6, <2>1 DEF Ups, Downs
<1>8. KindsOf(S \cup I) = HeldModifiers(s) \cup s.latched
  <2>1. I = {PreferredKey[m] : m \in s.latched \ HeldModifiers(s)}
    BY DEF ToInject
  <2>2. KindsOf(I) = s.latched \ HeldModifiers(s)
    <3>1. s.latched \subseteq Kinds
      BY DEF KeyboardStates
    <3> HIDE DEF I
    <3> QED
      BY <2>1, <3>1, PreferredKind DEF KindsOf
  <2>3. KindsOf(S \cup I) = KindsOf(S) \cup KindsOf(I)
    BY DEF KindsOf
  <2> QED
    BY <2>2, <2>3 DEF KindsOf, HeldModifiers
<1> HIDE DEF I, p, r, one
<1>9. Typed(q, S, S \cup I, c)
  <2>1. \A i \in 1..Len(q) : q[i].type = "Down" => q[i].key \notin PlainKeys
    BY Disjoint DEF Downs
  <2> QED
    BY <1>1, <2>1, TypedSilent
<1>10. Typed(r, S \cup I \cup {k}, S, c)
  <2>1. \A i \in 1..Len(r) : r[i].type = "Down" => r[i].key \notin PlainKeys
    BY <1>6 DEF Ups
  <2> QED
    BY <1>5, <2>1, TypedSilent
<1>11. Typed(one, S \cup I, S \cup I \cup {k}, c)
  <2>1. PICK h : Trace(Room, h, one, S \cup I, S \cup I \cup {k})
    BY <1>2 DEF Carried
  <2>2. Len(one) = 1 /\ one[1] = Down(k) /\ h[0] = S \cup I
    BY <2>1 DEF Trace, one
  <2>3. Down(k).key = k
    BY DEF Down
  <2>4. \A i \in 1..1 : i = 1 /\ i - 1 = 0
    OBVIOUS
  <2>5. SymbolFor(k, KindsOf(h[0])) = Char(c)
    BY <1>8, <2>2
  <2>6. Means(h, one, c)
    BY <2>2, <2>3, <2>4, <2>5 DEF Means
  <2> QED
    BY <2>1, <2>6 DEF Typed
<1>12. Typed(q \o one, S, S \cup I \cup {k}, c)
  BY <1>7, <1>9, <1>11, TypedCat
<1>13. q \o one \in Seq(Events)
  BY <1>7
<1>14. Typed((q \o one) \o r, S, S, c)
  BY <1>7, <1>10, <1>12, <1>13, TypedCat
<1> QED
  BY <1>1, <1>4, <1>14 DEF p, r

\* find_char names a key that makes the character with the modifiers it asks for, none
\* of which is active.
LEMMA FindCharMeans ==
    ASSUME NEW c, NEW active, NEW way \in FindChar(c, active)
    PROVE  /\ way[1] \in DOMAIN Layout
           /\ SymbolFor(way[1], active \cup way[2]) = Char(c)
           /\ way[2] \cap active = {} /\ way[2] \subseteq {"Shift", "AltGr"}
<1> DEFINE at(mods) == {k \in DOMAIN Layout : SymbolFor(k, mods) = Char(c)}
           combos == <<{"Shift"}, {"AltGr"}, {"Shift", "AltGr"}>>
           usable == {i \in 1..3 : ~(combos[i] \subseteq active) /\ at(active \cup combos[i]) # {}}
           first == CHOOSE i \in usable : \A j \in usable : i <= j
<1>1. FindChar(c, active) =
        IF at(active) # {} THEN at(active) \X {{}}
        ELSE IF usable = {} THEN {}
        ELSE at(active \cup combos[first]) \X {combos[first]}
  BY DEF FindChar
<1>2. \A mods : \A k \in at(mods) : k \in DOMAIN Layout /\ SymbolFor(k, mods) = Char(c)
  OBVIOUS
<1>3. combos[1] = {"Shift"} /\ combos[2] = {"AltGr"} /\ combos[3] = {"Shift", "AltGr"}
  OBVIOUS
<1>4. ASSUME usable # {}
      PROVE  /\ first \in 1..3 /\ ~(combos[first] \subseteq active)
             /\ at(active \cup combos[first]) # {} /\ \A j \in usable : first <= j
  <2>1. \A i \in usable : i = 1 \/ i = 2 \/ i = 3
    OBVIOUS
  <2> HIDE DEF usable
  <2>2. \E i \in usable : \A j \in usable : i <= j
    <3>1. CASE 1 \in usable
      BY <2>1, <3>1
    <3>2. CASE 1 \notin usable /\ 2 \in usable
      BY <2>1, <3>2
    <3>3. CASE 1 \notin usable /\ 2 \notin usable
      BY <1>4, <2>1, <3>3
    <3> QED
      BY <3>1, <3>2, <3>3
  <2>3. first \in usable /\ \A j \in usable : first <= j
    BY <2>2, Zenon
  <2> HIDE DEF first
  <2> QED
    BY <2>3 DEF usable
<1>5. 1 \in usable \/ {"Shift"} \subseteq active \/ at(active \cup {"Shift"}) = {}
  BY <1>3
<1>6. 2 \in usable \/ {"AltGr"} \subseteq active \/ at(active \cup {"AltGr"}) = {}
  BY <1>3
<1> HIDE DEF at, usable, first, combos
<1>7. CASE at(active) # {}
  <2>1. way[1] \in at(active) /\ way[2] = {}
    BY <1>1, <1>7
  <2>2. active \cup way[2] = active
    BY <2>1
  <2> QED
    BY <1>2, <2>1, <2>2
<1>8. CASE at(active) = {} /\ usable # {}
  <2>1. way[1] \in at(active \cup combos[first]) /\ way[2] = combos[first]
    BY <1>1, <1>8
  <2>2. first = 1 \/ first = 2 \/ first = 3
    BY <1>4, <1>8
  <2>3. combos[first] \subseteq {"Shift", "AltGr"}
    BY <1>3, <2>2
  <2>4. combos[first] \cap active = {}
    <3>1. CASE first = 1
      BY <1>3, <1>4, <1>8, <3>1
    <3>2. CASE first = 2
      BY <1>3, <1>4, <1>8, <3>2
    <3>3. CASE first = 3
      <4>1. 1 \notin usable /\ 2 \notin usable /\ ~({"Shift", "AltGr"} \subseteq active)
        BY <1>3, <1>4, <1>8, <3>3
      <4>2. at(active \cup {"Shift", "AltGr"}) # {}
        BY <1>3, <1>4, <1>8, <3>3
      <4>3. ASSUME "Shift" \in active PROVE FALSE
        <5>1. active \cup {"AltGr"} = active \cup {"Shift", "AltGr"} /\ ~({"AltGr"} \subseteq active)
          BY <4>1, <4>3
        <5> QED
          BY <1>6, <4>1, <4>2, <5>1
      <4>4. ASSUME "AltGr" \in active PROVE FALSE
        <5>1. active \cup {"Shift"} = active \cup {"Shift", "AltGr"} /\ ~({"Shift"} \subseteq active)
          BY <4>1, <4>4
        <5> QED
          BY <1>5, <4>1, <4>2, <5>1
      <4> QED
        BY <1>3, <3>3, <4>3, <4>4
    <3> QED
      BY <2>2, <3>1, <3>2, <3>3
  <2> QED
    BY <1>2, <2>1, <2>3, <2>4
<1> QED
  BY <1>1, <1>7, <1>8

\* The next action of type_text, and the actions left after it.
LEMMA ActionsHead ==
    ASSUME NEW act \in {"Down", "Up"}, NEW kinds \in Seq(Kinds), kinds # <<>>, NEW rest \in Seq(Actions)
    PROVE  /\ ModifierActions(act, kinds) \o rest # <<>>
           /\ Head(ModifierActions(act, kinds) \o rest) = [act |-> act, key |-> PreferredKey[Head(kinds)]]
           /\ Tail(ModifierActions(act, kinds) \o rest) = ModifierActions(act, Tail(kinds)) \o rest
           /\ Head(kinds) \in Kinds /\ Tail(kinds) \in Seq(Kinds)
<1> DEFINE a(q) == ModifierActions(act, q)
           m == a(kinds)
           t == a(Tail(kinds))
<1>1. \A q \in Seq(Kinds) : a(q) \in Seq(Actions) /\ Len(a(q)) = Len(q)
                             /\ \A i \in 1..Len(q) : a(q)[i] = [act |-> act, key |-> PreferredKey[q[i]]]
  <2> TAKE q \in Seq(Kinds)
  <2>1. \A i \in 1..Len(q) : [act |-> act, key |-> PreferredKey[q[i]]] \in Actions
    BY KindFacts DEF Actions
  <2> QED
    BY <2>1 DEF ModifierActions
<1>2. /\ Len(kinds) \in Nat \ {0} /\ Tail(kinds) \in Seq(Kinds) /\ Len(Tail(kinds)) = Len(kinds) - 1
      /\ Head(kinds) = kinds[1] /\ Head(kinds) \in Kinds
      /\ \A i \in 1..(Len(kinds) - 1) : Tail(kinds)[i] = kinds[i + 1]
  OBVIOUS
<1>3. /\ m \in Seq(Actions) /\ Len(m) = Len(kinds) /\ t \in Seq(Actions) /\ Len(t) = Len(kinds) - 1
      /\ m[1] = [act |-> act, key |-> PreferredKey[Head(kinds)]]
  <2>1. m \in Seq(Actions) /\ Len(m) = Len(kinds) /\ t \in Seq(Actions) /\ Len(t) = Len(Tail(kinds))
    BY <1>1, <1>2
  <2>2. 1 \in 1..Len(kinds)
    BY <1>2
  <2>3. m[1] = [act |-> act, key |-> PreferredKey[kinds[1]]]
    BY <1>1, <2>2
  <2> QED
    BY <1>2, <2>1, <2>3
<1>4. \A i \in 1..(Len(kinds) - 1) : t[i] = m[i + 1]
  <2> TAKE i \in 1..(Len(kinds) - 1)
  <2>1. i \in 1..Len(Tail(kinds)) /\ i + 1 \in 1..Len(kinds)
    BY <1>2
  <2>2. /\ t[i] = [act |-> act, key |-> PreferredKey[Tail(kinds)[i]]]
        /\ m[i + 1] = [act |-> act, key |-> PreferredKey[kinds[i + 1]]]
    BY <1>1, <1>2, <2>1
  <2> QED
    BY <1>2, <2>2
<1> HIDE DEF m, t
<1>5. Tail(m) = t
  <2>1. Tail(m) \in Seq(Actions) /\ Len(Tail(m)) = Len(t) /\ \A i \in 1..Len(t) : Tail(m)[i] = m[i + 1]
    BY <1>2, <1>3
  <2>2. \A i \in 1..Len(t) : Tail(m)[i] = t[i]
    BY <1>3, <1>4, <2>1
  <2> QED
    BY <1>3, <2>1, <2>2, SeqEqual
<1>6. m # <<>>
  BY <1>2, <1>3
<1>7. m \o rest # <<>> /\ Head(m \o rest) = m[1] /\ Tail(m \o rest) = Tail(m) \o rest
  BY <1>3, <1>6
<1> QED
  BY <1>2, <1>3, <1>5, <1>7 DEF m, t

\* The keys of a list one after the other, in either order.
LEMMA ReverseKeeps ==
    ASSUME NEW q \in Seq(Kinds), Distinct(q)
    PROVE  /\ Reverse(q) \in Seq(Kinds) /\ Distinct(Reverse(q))
           /\ \A x : Has(Reverse(q), x) <=> Has(q, x)
<1> DEFINE n == Len(q)
           r == Reverse(q)
<1>1. n \in Nat /\ r \in Seq(Kinds) /\ Len(r) = n /\ \A i \in 1..n : r[i] = q[(n - i) + 1]
  BY DEF Reverse
<1> HIDE DEF r
<1>2. \A i \in 1..n : (n - i) + 1 \in 1..n /\ (n - ((n - i) + 1)) + 1 = i
  BY <1>1
<1>3. \A i, j \in 1..n : (n - i) + 1 = (n - j) + 1 => i = j
  BY <1>1
<1>4. Distinct(r)
  BY <1>1, <1>2, <1>3 DEF Distinct
<1>5. \A i \in 1..n : q[i] = r[(n - i) + 1]
  BY <1>1, <1>2
<1>6. \A x : Has(r, x) <=> Has(q, x)
  <2>1. \A x : Has(r, x) => Has(q, x)
    BY <1>1, <1>2 DEF Has
  <2>2. \A x : Has(q, x) => Has(r, x)
    BY <1>1, <1>2, <1>5 DEF Has
  <2> QED
    BY <2>1, <2>2
<1> QED
  BY <1>1, <1>4, <1>6 DEF r

\* A list without repetitions loses its first element for good.
LEMMA DistinctTail ==
    ASSUME NEW q \in Seq(Kinds), Distinct(q), q # <<>>
    PROVE  /\ Distinct(Tail(q)) /\ ~Has(Tail(q), Head(q)) /\ Has(q, Head(q))
           /\ \A x : Has(q, x) <=> x = Head(q) \/ Has(Tail(q), x)
<1> DEFINE t == Tail(q)
           n == Len(q)
<1>1. /\ n \in Nat \ {0} /\ Len(t) = n - 1 /\ Head(q) = q[1] /\ 1 \in 1..n
      /\ \A i \in 1..(n - 1) : t[i] = q[i + 1]
  OBVIOUS
<1> HIDE DEF t, n
<1>2. \A i \in 1..(n - 1) : i + 1 \in 1..n /\ i + 1 # 1
  BY <1>1
<1>3. \A i \in 1..n : i # 1 => i - 1 \in 1..(n - 1) /\ (i - 1) + 1 = i
  BY <1>1
<1>4. \A i, j \in 1..(n - 1) : i + 1 = j + 1 => i = j
  BY <1>1
<1>5. Distinct(t)
  BY <1>1, <1>2, <1>4 DEF Distinct, n
<1>6. ~Has(t, Head(q))
  BY <1>1, <1>2 DEF Distinct, Has, n
<1>7. \A x : Has(t, x) => Has(q, x)
  BY <1>1, <1>2 DEF Has, n
<1>8. \A x : Has(q, x) => x = Head(q) \/ Has(t, x)
  <2> SUFFICES ASSUME NEW i \in 1..n, i # 1  PROVE  Has(t, q[i])
    BY <1>1 DEF Has, n
  <2>1. i - 1 \in 1..Len(t) /\ t[i - 1] = q[i]
    BY <1>1, <1>3
  <2> QED
    BY <2>1 DEF Has
<1>9. Has(q, Head(q))
  BY <1>1 DEF Has, n
<1> QED
  BY <1>5, <1>6, <1>7, <1>8, <1>9 DEF t

\* A modifier that comes up takes no other key with it and moves no lock.
LEMMA ModifierUp ==
    ASSUME NEW s \in KeyboardStates, NEW k \in s.depressed \cap Modifiers
    PROVE  Release(s, k).depressed = s.depressed \ {k} /\ Release(s, k).caps = s.caps
<1> DEFINE i == TrackOf(s, k)
           rest == [s EXCEPT !.depressed = @ \ {k},
                             !.tracks = IF i = 0 THEN @ ELSE RemoveAt(@, i)]
<1>1. Release(s, k) = ReleaseModifier(s, k)
  BY Disjoint, Zenon DEF Release
<1>2. ReleaseModifier(s, k) = rest \/ ReleaseModifier(s, k) = Toggle(rest, KindOf[k])
  BY DEF ReleaseModifier
<1>3. /\ rest.depressed = s.depressed \ {k} /\ rest.caps = s.caps
      /\ {"depressed", "latched", "locked", "caps"} \subseteq DOMAIN rest
  BY DEF KeyboardStates
<1> HIDE DEF rest, i
<1>4. /\ Toggle(rest, KindOf[k]).depressed = rest.depressed
      /\ Toggle(rest, KindOf[k]).caps = rest.caps
  BY <1>3 DEF Toggle
<1> QED
  BY <1>1, <1>2, <1>3, <1>4

\* A modifier that goes down takes no other key with it and moves no lock and no latch.
LEMMA ModifierDown ==
    ASSUME NEW s \in KeyboardStates, NEW k \in Modifiers \ s.depressed
    PROVE  /\ Press(s, k).depressed = s.depressed \cup {k}
           /\ Press(s, k).latched = s.latched /\ Press(s, k).caps = s.caps
           /\ PressEvents(s, k) = <<Down(k)>>
<1>1. Press(s, k) = PressModifier(s, k)
  BY Disjoint, Zenon DEF Press
<1>2. PressEvents(s, k) = <<Down(k)>>
  <2>1. k \notin PlainKeys /\ k \notin s.depressed
    BY Disjoint
  <2> QED
    BY <2>1 DEF PressEvents
<1> QED
  BY <1>1, <1>2 DEF PressModifier, KeyboardStates

\* press adds its key and injected modifiers, release takes some away.
LEMMA DepressedBounds ==
    ASSUME NEW s \in KeyboardStates, NEW k \in Keys
    PROVE  /\ Press(s, k).depressed \subseteq s.depressed \cup {k} \cup Modifiers
           /\ Release(s, k).depressed \subseteq s.depressed
<1>1. Press(s, k).depressed \subseteq s.depressed \cup {k} \cup Modifiers
  <2>1. CASE k \in s.depressed
    BY <2>1 DEF Press
  <2>2. CASE k \notin s.depressed /\ k \in Modifiers
    <3>1. Press(s, k) = PressModifier(s, k)
      BY <2>2, Disjoint, Zenon DEF Press
    <3> QED
      BY <3>1 DEF PressModifier, KeyboardStates
  <2>3. CASE k \notin s.depressed /\ k \in LockKeys
    <3>1. Press(s, k) = [s EXCEPT !.depressed = @ \cup {k}]
      BY <2>3, Disjoint DEF Press
    <3> QED
      BY <3>1 DEF KeyboardStates
  <2>4. CASE k \notin s.depressed /\ k \notin LockKeys /\ k \notin Modifiers
    <3>1. Press(s, k) = PressPlain(s, k)
      BY <2>4 DEF Press
    <3>2. ToInject(s) \subseteq Modifiers
      BY PreferredKind DEF ToInject, KeyboardStates
    <3> QED
      BY <3>1, <3>2 DEF PressPlain, KeyboardStates
  <2> QED
    BY <2>1, <2>2, <2>3, <2>4
<1>2. Release(s, k).depressed \subseteq s.depressed
  <2>1. CASE k \notin s.depressed
    BY <2>1 DEF Release
  <2>2. CASE k \in s.depressed /\ k \in Modifiers
    BY <2>2, ModifierUp
  <2>3. CASE k \in s.depressed /\ k \in LockKeys
    <3>1. Release(s, k) = ReleaseLock(s, k)
      BY <2>3, Disjoint, Zenon DEF Release
    <3> QED
      BY <3>1 DEF ReleaseLock, KeyboardStates
  <2>4. CASE k \in s.depressed /\ k \notin LockKeys /\ k \notin Modifiers
    <3>1. Release(s, k) = ReleasePlain(s, k)
      BY <2>4 DEF Release
    <3> QED
      BY <3>1 DEF ReleasePlain, KeyboardStates
  <2> QED
    BY <2>1, <2>2, <2>3, <2>4
<1> QED
  BY <1>1, <1>2

\* The key makes a character under some modifiers.
Chars(k) == \E mods \in SUBSET Kinds : SymbolFor(k, mods).kind = "Char"

\* A key that makes characters is a plain key and makes text on every level, as
\* in the layouts that come with the program.
TextLayout ==
    \A k \in DOMAIN Layout : Chars(k) =>
        k \in PlainKeys /\ \A mods \in SUBSET Kinds : IsText(SymbolFor(k, mods))

\* Keys that make characters are typed, never held.
NoneHeld(s) == \A k \in s.depressed : k \in DOMAIN Layout => ~Chars(k)

\* The record of what key_down is typing.
JobShape(j) ==
    \E a, m, c, l : \E b \in BOOLEAN :
        /\ m \subseteq Kinds
        /\ j = [again |-> a, mods |-> m, char |-> c, latched |-> l, current |-> b]

\* The kinds of modifier that a list names.
Elements(q) == {x \in Kinds : Has(q, x)}

\* R is what type_text holds besides the modifiers of the press, each by its own key.
\* Only asked for when there was no latch, which the tap would use up.
Undo(s, j, R) ==
    j.latched = {} =>
        /\ s.latched = {} /\ R \cap j.mods = {}
        /\ HeldModifiers(s) = j.mods \cup R
        /\ \A x \in s.depressed \cap Modifiers : KindOf[x] \in R => x = PreferredKey[KindOf[x]]

\* type_text before its tap of k: downs are still to be engaged, ups to be released.
Before(s, j, td, downs, k, ups) ==
    /\ downs \in Seq(Kinds) /\ Distinct(downs) /\ ups \in Seq(Kinds) /\ Distinct(ups)
    /\ Elements(downs) \subseteq Elements(ups)
    /\ td = ModifierActions("Down", downs) \o (<<[act |-> "Tap", key |-> k]>> \o ModifierActions("Up", ups))
    /\ k \in DOMAIN Layout
    /\ Elements(downs) \cap HeldModifiers(s) = {}
    /\ SymbolFor(k, HeldModifiers(s) \cup s.latched \cup Elements(downs)) = Char(j.char)
    /\ Undo(s, j, Elements(ups) \ Elements(downs))

\* type_text after its tap, or before its first.
After(s, j, td, ups) ==
    /\ ups \in Seq(Kinds) /\ Distinct(ups)
    /\ td = ModifierActions("Up", ups)
    /\ ups # <<>> => \A c : Marked(s.tracks, c)
    /\ Undo(s, j, Elements(ups))

\* Where type_text is.
Phase(s, j, td) ==
    \/ \E downs, k, ups : Before(s, j, td, downs, k, ups)
    \/ \E ups : After(s, j, td, ups)

\* type_text presses modifiers and taps keys.
Typings == {a \in Actions : a.act = "Down" => a.key \in Modifiers}

\* What makes TypesWhatWasMeant inductive.
Meant ==
    /\ textMode => NoneHeld(st)
    /\ cause = "text" =>
         /\ textMode /\ JobShape(job) /\ todo \in Seq(Typings)
         /\ job.current => /\ ~st.caps /\ Phase(st, job, todo)
                           /\ Typed(pending, session, st.depressed, job.char)

\* The actions of type_text.
LEMMA TodoTypings ==
    ASSUME NEW k \in Keys, NEW mods
    PROVE  TypeActions(k, mods) \in Seq(Typings)
<1>1. ASSUME NEW act \in {"Down", "Up"}, NEW q \in Seq(Kinds)
      PROVE  ModifierActions(act, q) \in Seq(Typings)
  <2>1. \A i \in 1..Len(q) : PreferredKey[q[i]] \in Modifiers /\ PreferredKey[q[i]] \in Keys
    BY PreferredKind, KindFacts
  <2>2. \A i \in 1..Len(q) : [act |-> act, key |-> PreferredKey[q[i]]] \in Typings
    BY <2>1 DEF Actions, Typings
  <2> QED
    BY <2>2 DEF ModifierActions
<1>2. Reverse(KindSeq(mods)) \in Seq(Kinds)
  BY KindSeqType DEF Reverse
<1>3. <<[act |-> "Tap", key |-> k]>> \in Seq(Typings)
  BY DEF Actions, Typings
<1>4. /\ ModifierActions("Down", KindSeq(mods)) \in Seq(Typings)
      /\ ModifierActions("Up", Reverse(KindSeq(mods))) \in Seq(Typings)
  BY <1>1, <1>2, KindSeqType
<1> QED
  BY <1>3, <1>4 DEF TypeActions

\* A symbol is fed with the modifiers that are in effect.
LEMMA FeedMeant ==
    ASSUME TypeOK, Agreed, Meant, textMode, pending = <<>>, NEW sym, NEW j, JobShape(j),
           j.current => ~st.caps /\ j.mods = HeldModifiers(st) \cup st.latched /\ j.latched = st.latched,
           FeedRound(sym, j)
    PROVE  Meant'
<1> DEFINE r == Feed(composing, sym)
<1>1. /\ st' = st /\ pending' = <<>> /\ session' = session /\ textMode' = textMode
  BY DEF FeedRound, stateVars, linkVars
<1>2. st \in KeyboardStates /\ session = st.depressed /\ session \in SUBSET Keys
  BY CarriedNone DEF TypeOK, Agreed
<1>3. \A c : Typed(<<>>, session, st.depressed, c)
  <2>1. Carried(Room, <<>>, session, st.depressed)
    BY <1>2, CarriedNone
  <2> QED
    BY <2>1, TypedSilent
<1>4. PICK a, m, c, l : \E b \in BOOLEAN :
        m \subseteq Kinds /\ j = [again |-> a, mods |-> m, char |-> c, latched |-> l, current |-> b]
  BY DEF JobShape
<1>5. PICK b \in BOOLEAN :
        m \subseteq Kinds /\ j = [again |-> a, mods |-> m, char |-> c, latched |-> l, current |-> b]
  BY <1>4
<1>6. j.mods = m /\ j.latched = l /\ j.current = b
  BY <1>5
<1>7. NoneHeld(st)'
  BY <1>1 DEF Meant, NoneHeld, Chars, SymbolFor
<1>8. CASE cause' = "idle"
  BY <1>1, <1>7, <1>8 DEF Meant
<1>9. CASE todo' = <<>> /\ cause' = "text" /\ job' = [j EXCEPT !.again = r.again]
  <2>1. job' = [again |-> r.again, mods |-> m, char |-> c, latched |-> l, current |-> b]
    BY <1>5, <1>9
  <2>2. JobShape(job)' /\ todo' \in Seq(Typings)
    <3>1. JobShape(job)'
      BY <1>5, <2>1 DEF JobShape
    <3>2. todo' \in Seq(Typings)
      BY <1>9
    <3> QED
      BY <3>1, <3>2
  <2>3. job'.current => ~st'.caps /\ Phase(st', job', todo')
    <3> SUFFICES ASSUME job'.current  PROVE  ~st'.caps /\ Phase(st', job', todo')
      OBVIOUS
    <3> DEFINE none == <<>>
    <3>1. /\ b /\ ~st.caps /\ m = HeldModifiers(st) \cup st.latched /\ l = st.latched
          /\ job'.mods = m /\ job'.latched = l
      BY <1>6, <2>1
    <3>2. none \in Seq(Kinds) /\ Distinct(none) /\ todo' = ModifierActions("Up", none)
          /\ Elements(none) = {}
      BY <1>9 DEF Distinct, ModifierActions, Elements, Has
    <3>3. Undo(st, job', {})
      BY <3>1 DEF Undo
    <3>4. After(st, job', todo', none)
      BY <3>2, <3>3 DEF After
    <3> QED
      BY <1>1, <3>1, <3>4 DEF Phase
  <2> QED
    BY <1>1, <1>3, <1>7, <2>2, <2>3, <1>9 DEF Meant, Typed, Trace, Means
<1>10. ASSUME NEW way \in FindChar(r.chars[1], j.mods), todo' = TypeActions(way[1], way[2]),
              cause' = "text", job' = [j EXCEPT !.again = r.again, !.char = r.chars[1]]
       PROVE  Meant'
  <2> DEFINE ch == r.chars[1]
             again == r.again
             k == way[1]
             extra == way[2]
             downs == KindSeq(extra)
             ups == Reverse(downs)
  <2>1. job' = [again |-> again, mods |-> m, char |-> ch, latched |-> l, current |-> b]
    BY <1>5, <1>10
  <2>2. JobShape(job)'
    BY <1>5, <2>1 DEF JobShape
  <2>3. /\ k \in DOMAIN Layout /\ SymbolFor(k, m \cup extra) = Char(ch)
        /\ extra \cap m = {} /\ extra \subseteq Kinds
    <3>1. way \in FindChar(ch, m)
      BY <1>6, <1>10
    <3> HIDE DEF ch
    <3>2. /\ k \in DOMAIN Layout /\ SymbolFor(k, m \cup extra) = Char(ch)
          /\ extra \cap m = {} /\ extra \subseteq {"Shift", "AltGr"}
      BY <3>1, FindCharMeans, ZenonT(40)
    <3>3. {"Shift", "AltGr"} \subseteq Kinds
      BY DEF Kinds, PreferredKey
    <3> QED
      BY <3>2, <3>3
  <2>4. /\ downs \in Seq(Kinds) /\ Distinct(downs) /\ Elements(downs) = extra
        /\ ups \in Seq(Kinds) /\ Distinct(ups) /\ Elements(ups) = extra
    <3>1. downs \in Seq(Kinds) /\ Distinct(downs) /\ \A x : Has(downs, x) <=> x \in extra \cap Kinds
      BY KindSeqType, KindSeqDistinct, KindSeqHas
    <3> HIDE DEF downs
    <3>2. ups \in Seq(Kinds) /\ Distinct(ups) /\ \A x : Has(ups, x) <=> Has(downs, x)
      BY <3>1, ReverseKeeps
    <3> QED
      BY <2>3, <3>1, <3>2 DEF Elements
  <2>5. todo' = ModifierActions("Down", downs) \o (<<[act |-> "Tap", key |-> k]>> \o ModifierActions("Up", ups))
    BY <1>10 DEF TypeActions
  <2>6. todo' \in Seq(Typings)
    BY <1>10, <2>3, LayoutAssumption, TodoTypings
  <2> HIDE DEF ch, again, k, extra, downs, ups
  <2>7. job'.current => ~st'.caps /\ Phase(st', job', todo')
    <3> SUFFICES ASSUME job'.current  PROVE  ~st'.caps /\ Phase(st', job', todo')
      OBVIOUS
    <3>1. /\ b /\ ~st.caps /\ m = HeldModifiers(st) \cup st.latched /\ l = st.latched
          /\ job'.mods = m /\ job'.latched = l /\ job'.char = ch
      BY <1>6, <2>1
    <3>2. Undo(st, job', Elements(ups) \ Elements(downs))
      BY <2>4, <3>1 DEF Undo
    <3>3. Elements(downs) \cap HeldModifiers(st) = {}
      BY <2>3, <2>4, <3>1
    <3>4. SymbolFor(k, HeldModifiers(st) \cup st.latched \cup Elements(downs)) = Char(job'.char)
      BY <2>3, <2>4, <3>1
    <3>5. Before(st, job', todo', downs, k, ups)
      BY <2>3, <2>4, <2>5, <3>2, <3>3, <3>4 DEF Before
    <3> QED
      BY <1>1, <3>1, <3>5 DEF Phase
  <2> QED
    BY <1>1, <1>3, <1>7, <1>10, <2>2, <2>6, <2>7 DEF Meant, Typed, Trace, Means
<1> QED
  <2>1. \/ cause' = "idle"
        \/ todo' = <<>> /\ cause' = "text" /\ job' = [j EXCEPT !.again = r.again]
        \/ \E way \in FindChar(r.chars[1], j.mods) :
              /\ todo' = TypeActions(way[1], way[2]) /\ cause' = "text"
              /\ job' = [j EXCEPT !.again = r.again, !.char = r.chars[1]]
    BY DEF FeedRound
  <2> QED
    BY <1>8, <1>9, <1>10, <2>1

\* Before its tap type_text has a modifier to press, or the tap.
LEMMA BeforeTap ==
    ASSUME NEW s, NEW j, NEW td, NEW downs, NEW k, NEW ups, Before(s, j, td, downs, k, ups)
    PROVE  td # <<>> /\ Head(td).act \in {"Down", "Tap"}
<1> DEFINE up == ModifierActions("Up", ups)
           tap == [act |-> "Tap", key |-> k]
<1>1. /\ downs \in Seq(Kinds) /\ ups \in Seq(Kinds) /\ k \in Keys
      /\ td = ModifierActions("Down", downs) \o (<<tap>> \o up)
  BY LayoutAssumption DEF Before
<1>2. up \in Seq(Actions) /\ tap \in Actions /\ tap.act = "Tap"
  <2>1. \A i \in 1..Len(ups) : [act |-> "Up", key |-> PreferredKey[ups[i]]] \in Actions
    BY <1>1, KindFacts DEF Actions
  <2> QED
    BY <1>1, <2>1 DEF ModifierActions, Actions
<1> HIDE DEF up, tap
<1>3. <<tap>> \o up \in Seq(Actions) /\ Head(<<tap>> \o up) = tap /\ <<tap>> \o up # <<>>
  BY <1>2
<1>4. CASE downs = <<>>
  <2>1. ModifierActions("Down", <<>>) = <<>>
    BY DEF ModifierActions
  <2>2. td = <<tap>> \o up
    BY <1>1, <1>3, <1>4, <2>1
  <2> QED
    BY <1>2, <1>3, <2>2
<1>5. CASE downs # <<>>
  <2>1. td # <<>> /\ Head(td) = [act |-> "Down", key |-> PreferredKey[Head(downs)]]
    BY <1>1, <1>3, <1>5, ActionsHead
  <2> QED
    BY <2>1
<1> QED
  BY <1>4, <1>5

\* An extra modifier goes down.
LEMMA MeantDown ==
    ASSUME NEW s \in KeyboardStates, NEW j, NEW td, NEW downs, NEW k, NEW ups,
           Before(s, j, td, downs, k, ups), Head(td).act = "Down"
    PROVE  /\ Head(td).key \in Modifiers \ s.depressed
           /\ Phase(Press(s, Head(td).key), j, Tail(td))
<1> DEFINE m == Head(downs)
           x == PreferredKey[m]
           p == Press(s, x)
           rest == <<[act |-> "Tap", key |-> k]>> \o ModifierActions("Up", ups)
           H == HeldModifiers(s)
           t == Tail(downs)
<1>1. /\ downs \in Seq(Kinds) /\ Distinct(downs) /\ ups \in Seq(Kinds) /\ Distinct(ups)
      /\ td = ModifierActions("Down", downs) \o rest
      /\ k \in DOMAIN Layout
  BY DEF Before
<1>2. rest \in Seq(Actions) /\ rest # <<>> /\ Head(rest).act = "Tap"
  <2>1. k \in Keys
    BY <1>1, LayoutAssumption
  <2>2. \A i \in 1..Len(ups) : [act |-> "Up", key |-> PreferredKey[ups[i]]] \in Actions
    BY <1>1, KindFacts DEF Actions
  <2>3. ModifierActions("Up", ups) \in Seq(Actions)
    BY <1>1, <2>2 DEF ModifierActions
  <2>4. [act |-> "Tap", key |-> k] \in Actions
    BY <2>1 DEF Actions
  <2> QED
    BY <2>3, <2>4
<1> HIDE DEF rest
<1>3. downs # <<>>
  <2> SUFFICES ASSUME downs = <<>>  PROVE  FALSE
    OBVIOUS
  <2>1. ModifierActions("Down", <<>>) = <<>>
    BY DEF ModifierActions
  <2>2. td = rest
    BY <1>1, <1>2, <2>1
  <2> QED
    BY <1>2, <2>2
<1>4. /\ Head(td) = [act |-> "Down", key |-> x] /\ Tail(td) = ModifierActions("Down", t) \o rest
      /\ m \in Kinds /\ t \in Seq(Kinds)
  BY <1>1, <1>2, <1>3, ActionsHead
<1>5. /\ Distinct(t) /\ m \notin Elements(t) /\ Elements(downs) = {m} \cup Elements(t)
  <2>1. Distinct(t) /\ ~Has(t, m) /\ \A y : Has(downs, y) <=> y = m \/ Has(t, y)
    BY <1>1, <1>3, DistinctTail
  <2> QED
    BY <1>4, <2>1 DEF Elements
<1>6. x \in Modifiers /\ KindOf[x] = m
  BY <1>4, PreferredKind
<1>7. m \notin H
  BY <1>5 DEF Before
<1>8. x \notin s.depressed
  BY <1>6, <1>7 DEF HeldModifiers
<1>9. /\ p.depressed = s.depressed \cup {x} /\ p.latched = s.latched
  BY <1>6, <1>8, ModifierDown
<1>10. HeldModifiers(p) = H \cup {m}
  BY <1>6, <1>9 DEF HeldModifiers
<1> HIDE DEF m, x, p, H, t
<1>11. HeldModifiers(p) \cup p.latched \cup Elements(t) = H \cup s.latched \cup Elements(downs)
  BY <1>5, <1>9, <1>10
<1>12. Elements(t) \cap HeldModifiers(p) = {}
  BY <1>5, <1>10 DEF Before, H
<1>13. Elements(downs) \subseteq Elements(ups)
  BY DEF Before
<1>14. Undo(p, j, Elements(ups) \ Elements(t))
  <2> SUFFICES ASSUME j.latched = {}
               PROVE  Undo(p, j, Elements(ups) \ Elements(t))
    BY DEF Undo
  <2>1. Undo(s, j, Elements(ups) \ Elements(downs))
    BY DEF Before
  <2>2. Elements(ups) \ Elements(t) = (Elements(ups) \ Elements(downs)) \cup {m}
    BY <1>5, <1>13
  <2>3. m \notin j.mods
    BY <1>7, <2>1 DEF Undo, H
  <2> DEFINE R == Elements(ups) \ Elements(downs)
  <2>4. /\ s.latched = {} /\ R \cap j.mods = {} /\ H = j.mods \cup R
        /\ \A y \in s.depressed \cap Modifiers : KindOf[y] \in R => y = PreferredKey[KindOf[y]]
    BY <2>1 DEF Undo, H
  <2> HIDE DEF R
  <2>5. \A y \in s.depressed \cap Modifiers : KindOf[y] # m
    BY <1>7 DEF H, HeldModifiers
  <2>6. \A y \in p.depressed \cap Modifiers : KindOf[y] \in R \cup {m} => y = PreferredKey[KindOf[y]]
    BY <1>6, <1>9, <2>4, <2>5 DEF x
  <2>7. Undo(p, j, R \cup {m})
    BY <1>9, <1>10, <2>3, <2>4, <2>6 DEF Undo
  <2> QED
    BY <2>2, <2>7 DEF R
<1>15. Before(p, j, Tail(td), t, k, ups)
  <2>1. SymbolFor(k, HeldModifiers(p) \cup p.latched \cup Elements(t)) = Char(j.char)
    BY <1>11 DEF Before, H
  <2>2. Elements(t) \subseteq Elements(ups)
    BY <1>5, <1>13
  <2> QED
    BY <1>1, <1>4, <1>5, <1>12, <1>14, <2>1, <2>2 DEF Before, rest
<1>16. Phase(p, j, Tail(td)) /\ Head(td).key = x
  BY <1>4, <1>15 DEF Phase
<1> QED
  BY <1>6, <1>8, <1>16 DEF p

\* An extra modifier comes up; the chord has kept it from latching.
LEMMA MeantUp ==
    ASSUME NEW s \in KeyboardStates, NEW j, NEW td, NEW ups, td # <<>>, After(s, j, td, ups)
    PROVE  /\ Head(td).act = "Up" /\ Head(td).key \in Modifiers
           /\ Phase(Release(s, Head(td).key), j, Tail(td))
<1> DEFINE m == Head(ups)
           x == PreferredKey[m]
           p == Release(s, x)
           t == Tail(ups)
<1>1. ups \in Seq(Kinds) /\ Distinct(ups) /\ td = ModifierActions("Up", ups) /\ Undo(s, j, Elements(ups))
  BY DEF After
<1>2. ups # <<>> /\ \A c : Marked(s.tracks, c)
  BY <1>1 DEF After, ModifierActions
<1>3. /\ Head(td) = [act |-> "Up", key |-> x] /\ Tail(td) = ModifierActions("Up", t)
      /\ m \in Kinds /\ t \in Seq(Kinds)
  <2> DEFINE e == <<>>
  <2>1. e \in Seq(Actions)
    OBVIOUS
  <2>2. /\ Head(ModifierActions("Up", ups) \o e) = [act |-> "Up", key |-> x]
        /\ Tail(ModifierActions("Up", ups) \o e) = ModifierActions("Up", t) \o e
        /\ m \in Kinds /\ t \in Seq(Kinds)
    BY <1>1, <1>2, <2>1, ActionsHead
  <2>3. \A q \in Seq(Kinds) : ModifierActions("Up", q) \o e = ModifierActions("Up", q)
    <3> TAKE q \in Seq(Kinds)
    <3>1. \A i \in 1..Len(q) : [act |-> "Up", key |-> PreferredKey[q[i]]] \in Actions
      BY KindFacts DEF Actions
    <3>2. ModifierActions("Up", q) \in Seq(Actions)
      BY <3>1 DEF ModifierActions
    <3> QED
      BY <3>2
  <2> QED
    BY <1>1, <2>2, <2>3
<1>4. /\ Distinct(t) /\ m \notin Elements(t) /\ Elements(ups) = {m} \cup Elements(t)
  <2>1. Distinct(t) /\ ~Has(t, m) /\ \A y : Has(ups, y) <=> y = m \/ Has(t, y)
    BY <1>1, <1>2, DistinctTail
  <2> QED
    BY <1>3, <2>1 DEF Elements
<1>5. x \in Modifiers /\ KindOf[x] = m /\ x \in Keys
  BY <1>3, PreferredKind, KindFacts
<1>6. \A c : Marked(p.tracks, c)
  BY <1>2, <1>5, ReleaseMarks
<1>7. p.latched \subseteq s.latched
  BY <1>2, <1>5, ReleaseMarks
<1>8. Undo(p, j, Elements(t))
  <2> SUFFICES ASSUME j.latched = {}  PROVE  Undo(p, j, Elements(t))
    BY DEF Undo
  <2>1. /\ s.latched = {} /\ Elements(ups) \cap j.mods = {}
        /\ HeldModifiers(s) = j.mods \cup Elements(ups)
        /\ \A y \in s.depressed \cap Modifiers :
              KindOf[y] \in Elements(ups) => y = PreferredKey[KindOf[y]]
    BY <1>1 DEF Undo
  <2>2. m \in HeldModifiers(s) /\ m \notin j.mods
    BY <1>4, <2>1
  <2>3. PICK y \in s.depressed \cap Modifiers : KindOf[y] = m
    BY <2>2 DEF HeldModifiers
  <2>4. x \in s.depressed
    BY <1>4, <2>1, <2>3
  <2>5. p.depressed = s.depressed \ {x}
    BY <1>5, <2>4, ModifierUp
  <2> HIDE DEF p, m, t
  <2>6. \A z \in s.depressed \cap Modifiers : KindOf[z] = m => z = x
    BY <1>4, <2>1
  <2>7. HeldModifiers(p) = HeldModifiers(s) \ {m}
    <3> HIDE DEF x
    <3> QED
      BY <1>5, <2>5, <2>6 DEF HeldModifiers
  <2>8. HeldModifiers(p) = j.mods \cup Elements(t)
    BY <1>4, <2>1, <2>2, <2>7
  <2>9. \A z \in p.depressed \cap Modifiers : KindOf[z] \in Elements(t) => z = PreferredKey[KindOf[z]]
    BY <1>4, <2>1, <2>5
  <2> QED
    BY <1>4, <1>7, <2>1, <2>8, <2>9 DEF Undo
<1>9. After(p, j, Tail(td), t)
  BY <1>3, <1>4, <1>6, <1>8 DEF After
<1>10. Phase(p, j, Tail(td))
  BY <1>9 DEF Phase
<1>11. Head(td).act = "Up" /\ Head(td).key = x
  BY <1>3
<1> HIDE DEF x
<1> QED
  BY <1>5, <1>10, <1>11 DEF p

\* The tap types the character, gives back what it injected and ends every chance of
\* a latch.
LEMMA MeantTap ==
    ASSUME NEW s \in KeyboardStates, NEW j, NEW td, NEW downs, NEW k, NEW ups,
           Before(s, j, td, downs, k, ups), Head(td).act = "Tap",
           TextLayout, NoneHeld(s), InjectedPreferred(s), s.locked = {},
           ~Rollover(s, Head(td).key)
    PROVE  /\ Head(td).key \in PlainKeys
           /\ Phase(Release(Press(s, Head(td).key), Head(td).key), j, Tail(td))
           /\ Typed(PressEvents(s, Head(td).key) \o ReleaseEvents(Press(s, Head(td).key), Head(td).key),
                    s.depressed, s.depressed, j.char)
           /\ Release(Press(s, Head(td).key), Head(td).key).depressed = s.depressed
<1> DEFINE up == ModifierActions("Up", ups)
           tap == [act |-> "Tap", key |-> k]
           p == Press(s, k)
           after == Release(p, k)
           M == HeldModifiers(s) \cup s.latched
<1>1. /\ downs \in Seq(Kinds) /\ ups \in Seq(Kinds) /\ Distinct(ups)
      /\ td = ModifierActions("Down", downs) \o (<<tap>> \o up)
      /\ k \in DOMAIN Layout
      /\ SymbolFor(k, M \cup Elements(downs)) = Char(j.char)
  BY DEF Before
<1>2. up \in Seq(Actions) /\ tap \in Actions /\ tap.act = "Tap" /\ tap.key = k
  <2>1. k \in Keys
    BY <1>1, LayoutAssumption
  <2>2. \A i \in 1..Len(ups) : [act |-> "Up", key |-> PreferredKey[ups[i]]] \in Actions
    BY <1>1, KindFacts DEF Actions
  <2> QED
    BY <1>1, <2>1, <2>2 DEF ModifierActions, Actions
<1> HIDE DEF up, tap
<1>3. <<tap>> \o up \in Seq(Actions) /\ Head(<<tap>> \o up) = tap /\ Tail(<<tap>> \o up) = up
  BY <1>2
<1>4. downs = <<>>
  <2> SUFFICES ASSUME downs # <<>>  PROVE  FALSE
    OBVIOUS
  <2>1. Head(td) = [act |-> "Down", key |-> PreferredKey[Head(downs)]]
    BY <1>1, <1>3, ActionsHead
  <2> QED
    BY <2>1
<1>5. Head(td) = tap /\ Tail(td) = up /\ Head(td).key = k
  <2>1. ModifierActions("Down", <<>>) = <<>>
    BY DEF ModifierActions
  <2> DEFINE rest == <<tap>> \o up
  <2> HIDE DEF rest
  <2>2. td = <<>> \o rest /\ rest \in Seq(Actions)
    BY <1>1, <1>3, <1>4, <2>1, Zenon DEF rest
  <2>3. td = rest
    BY <2>2
  <2> QED
    BY <1>2, <1>3, <2>3 DEF rest
<1>6. Elements(downs) = {} /\ SymbolFor(k, M) = Char(j.char)
  <2>1. Elements(downs) = {}
    BY <1>4 DEF Elements, Has
  <2>2. M \cup {} = M
    OBVIOUS
  <2> QED
    BY <1>1, <2>1, <2>2
<1>7. M \in SUBSET Kinds
  BY KindFacts DEF HeldModifiers, KeyboardStates
<1>8. Chars(k)
  <2>1. Char(j.char).kind = "Char"
    BY DEF Char, Sym
  <2> QED
    BY <1>6, <1>7, <2>1 DEF Chars
<1>9. k \in PlainKeys /\ k \notin s.depressed /\ k \in Keys
  BY <1>1, <1>8 DEF TextLayout, NoneHeld, Keys
<1>10. /\ Typed(PressEvents(s, k) \o ReleaseEvents(p, k), s.depressed, s.depressed, j.char)
       /\ after.depressed = s.depressed
  BY <1>5, <1>6, <1>9, TapTyped
<1>11. p \in KeyboardStates
  BY <1>9, PressType
<1>12. \A c : Marked(after.tracks, c)
  <2>1. \A c : Marked(p.tracks, c)
    BY <1>9, PressMarks
  <2> QED
    BY <1>9, <1>11, <2>1, ReleaseMarks
<1>13. after.latched = {}
  <2>1. p.latched = {}
    <3>1. p = PressPlain(s, k)
      BY <1>9, Disjoint DEF Press
    <3> QED
      BY <3>1 DEF PressPlain, KeyboardStates
  <2>2. \A m \in after.latched \ p.latched : k \in Modifiers
    BY <1>9, <1>11, ReleaseMarks
  <2> QED
    BY <1>9, <2>1, <2>2, Disjoint
<1>14. Undo(after, j, Elements(ups))
  <2>1. Undo(s, j, Elements(ups))
    <3>1. Elements(ups) \ Elements(downs) = Elements(ups)
      BY <1>6
    <3>2. Undo(s, j, Elements(ups) \ Elements(downs))
      BY DEF Before
    <3> QED
      BY <3>1, <3>2
  <2>2. HeldModifiers(after) = HeldModifiers(s)
    BY <1>10 DEF HeldModifiers
  <2> HIDE DEF after
  <2> QED
    BY <1>10, <1>13, <2>1, <2>2 DEF Undo
<1>15. After(after, j, Tail(td), ups)
  BY <1>1, <1>5, <1>12, <1>14 DEF After, up
<1>16. Phase(after, j, Tail(td))
  BY <1>15 DEF Phase
<1> HIDE DEF after, p
<1> QED
  BY <1>5, <1>9, <1>10, <1>16 DEF after, p

\* release takes its own key away.
LEMMA ReleaseOwn ==
    ASSUME NEW s \in KeyboardStates, NEW k \in Keys
    PROVE  k \notin Release(s, k).depressed
<1>1. CASE k \notin s.depressed
  BY <1>1 DEF Release
<1>2. CASE k \in s.depressed /\ k \in Modifiers
  BY <1>2, ModifierUp
<1>3. CASE k \in s.depressed /\ k \in LockKeys
  <2>1. Release(s, k) = ReleaseLock(s, k)
    BY <1>3, Disjoint, Zenon DEF Release
  <2> QED
    BY <2>1 DEF ReleaseLock, KeyboardStates
<1>4. CASE k \in s.depressed /\ k \notin LockKeys /\ k \notin Modifiers
  <2>1. Release(s, k) = ReleasePlain(s, k)
    BY <1>4 DEF Release
  <2> QED
    BY <2>1 DEF ReleasePlain, KeyboardStates
<1> QED
  BY <1>1, <1>2, <1>3, <1>4

\* Only the release of a lock key moves a lock.
LEMMA ReleaseCaps ==
    ASSUME NEW s \in KeyboardStates, NEW k \in Keys \ LockKeys
    PROVE  Release(s, k).caps = s.caps
<1>1. CASE k \notin s.depressed
  BY <1>1 DEF Release
<1>2. CASE k \in s.depressed /\ k \in Modifiers
  BY <1>2, ModifierUp
<1>3. CASE k \in s.depressed /\ k \notin Modifiers
  <2>1. Release(s, k) = ReleasePlain(s, k)
    BY <1>3 DEF Release
  <2> QED
    BY <2>1 DEF ReleasePlain, KeyboardStates
<1> QED
  BY <1>1, <1>2, <1>3

\* The next action of type_text.
LEMMA MeantAction ==
    ASSUME TypeOK, LockRepeatInv, HandOver, Agreed, Agreed', Meant, TextLayout,
           TextAction, textMode' = textMode, job' = IF cause' = "text" THEN job ELSE NoJob
    PROVE  Meant'
<1> DEFINE k == Head(todo).key
           act == Head(todo).act
           p == Press(st, k)
<1>0. /\ st \in KeyboardStates /\ InjectedPreferred(st)
      /\ ~st.caps => st.locked = {}
  BY DEF TypeOK, HandOver, LockRepeatInv, LockOnlyByCaps
<1>1. /\ pending = <<>> /\ todo # <<>> /\ cause = "text" /\ session' = session
      /\ textMode /\ JobShape(job) /\ NoneHeld(st) /\ todo \in Seq(Typings)
      /\ job.current => ~st.caps /\ Phase(st, job, todo)
  BY DEF TextAction, linkVars, Meant
<1>2. session = st.depressed /\ Carried(Room, pending', session', st'.depressed)
  BY <1>1, CarriedNone DEF Agreed
<1>3. k \in Keys /\ act \in {"Down", "Tap", "Up"} /\ (act = "Down" => k \in Modifiers)
      /\ Tail(todo) \in Seq(Typings)
  <2>1. Head(todo) \in Typings
    BY <1>1
  <2> QED
    BY <1>1, <2>1 DEF Actions, Typings
<1>4. \/ cause' = "idle" /\ st' = st
      \/ /\ act = "Down" /\ st' = p /\ pending' = PressEvents(st, k)
         /\ todo' = Tail(todo) /\ cause' = cause
      \/ /\ act = "Tap" /\ ~Rollover(st, k) /\ st' = Release(p, k)
         /\ pending' = PressEvents(st, k) \o ReleaseEvents(p, k)
         /\ todo' = Tail(todo) /\ cause' = cause
      \/ /\ act = "Up" /\ st' = Release(st, k) /\ pending' = ReleaseEvents(st, k)
         /\ todo' = Tail(todo) /\ cause' = cause
  BY DEF TextAction
<1> DEFINE Silent == \A i \in 1..Len(pending') : pending'[i].type = "Down" => pending'[i].key \notin PlainKeys
<1>5. ASSUME Silent  PROVE  \A c : Typed(pending', session', st'.depressed, c)
  BY <1>2, <1>5, TypedSilent
<1> HIDE DEF k, act, p
<1>6. p \in KeyboardStates
  BY <1>0, <1>3, PressType DEF p
<1>7. \A x \in Modifiers : x \in DOMAIN Layout => ~Chars(x)
  BY Disjoint DEF TextLayout
<1>8. CASE cause' = "idle" /\ st' = st
  BY <1>1, <1>8 DEF Meant, NoneHeld, Chars, SymbolFor
<1>9. CASE /\ act = "Down" /\ st' = p /\ pending' = PressEvents(st, k)
           /\ todo' = Tail(todo) /\ cause' = cause
  <2>1. p.depressed \subseteq st.depressed \cup Modifiers
    BY <1>0, <1>3, <1>9, DepressedBounds DEF p
  <2>2. NoneHeld(p)
    BY <1>1, <1>7, <2>1 DEF NoneHeld
  <2>3. ASSUME job.current
        PROVE  ~p.caps /\ Phase(p, job, Tail(todo)) /\ Silent
    <3>1. PICK downs, key, ups : Before(st, job, todo, downs, key, ups)
      <4>1. ASSUME NEW ups, After(st, job, todo, ups)  PROVE  FALSE
        BY <1>0, <1>1, <1>9, <4>1, MeantUp DEF act
      <4> QED
        BY <1>1, <2>3, <4>1 DEF Phase
    <3>2. k \in Modifiers \ st.depressed /\ Phase(p, job, Tail(todo))
      BY <1>0, <1>9, <3>1, MeantDown DEF act, k, p
    <3>3. pending' = <<Down(k)>> /\ p.caps = st.caps
      BY <1>0, <1>9, <3>2, ModifierDown DEF p
    <3>4. Silent
      BY <3>2, <3>3, Disjoint DEF Down
    <3> QED
      BY <1>1, <2>3, <3>2, <3>3, <3>4
  <2>4. /\ NoneHeld(st)' /\ textMode' /\ JobShape(job)' /\ todo' \in Seq(Typings)
        /\ job' = job /\ st' = p
    BY <1>1, <1>3, <1>9, <2>2 DEF NoneHeld, Chars, SymbolFor
  <2>5. job.current => ~st'.caps /\ Phase(st', job', todo') /\ Typed(pending', session', st'.depressed, job'.char)
    BY <1>5, <1>9, <2>3, <2>4
  <2> QED
    BY <2>4, <2>5 DEF Meant, Phase
<1>10. CASE /\ act = "Tap" /\ ~Rollover(st, k) /\ st' = Release(p, k)
            /\ pending' = PressEvents(st, k) \o ReleaseEvents(p, k)
            /\ todo' = Tail(todo) /\ cause' = cause
  <2>1. p.depressed \subseteq st.depressed \cup {k} \cup Modifiers
    BY <1>0, <1>3, DepressedBounds DEF p
  <2>2. Release(p, k).depressed \subseteq p.depressed \ {k}
    BY <1>3, <1>6, ReleaseOwn, DepressedBounds
  <2>3. NoneHeld(st')
    BY <1>1, <1>7, <1>10, <2>1, <2>2 DEF NoneHeld
  <2>4. st'.caps = st.caps \/ k \in LockKeys
    BY <1>0, <1>3, <1>6, <1>10, PressFacts, ReleaseCaps DEF p
  <2>5. ASSUME job.current
        PROVE  ~st'.caps /\ Phase(st', job, todo') /\ Typed(pending', session', st'.depressed, job.char)
    <3>1. PICK downs, key, ups : Before(st, job, todo, downs, key, ups)
      <4>1. ASSUME NEW ups, After(st, job, todo, ups)  PROVE  FALSE
        BY <1>0, <1>1, <1>10, <4>1, MeantUp DEF act
      <4> QED
        BY <1>1, <2>5, <4>1 DEF Phase
    <3>2. st.locked = {} /\ ~st.caps
      BY <1>0, <1>1, <2>5
    <3>3. /\ k \in PlainKeys /\ Phase(Release(p, k), job, Tail(todo))
          /\ Typed(PressEvents(st, k) \o ReleaseEvents(p, k), st.depressed, st.depressed, job.char)
          /\ Release(p, k).depressed = st.depressed
      BY <1>0, <1>1, <1>10, <3>1, <3>2, MeantTap DEF act, k, p
    <3>4. ~st'.caps
      BY <2>4, <3>2, <3>3, Disjoint
    <3> QED
      BY <1>1, <1>2, <1>10, <3>3, <3>4
  <2>6. /\ NoneHeld(st)' /\ textMode' /\ JobShape(job)' /\ todo' \in Seq(Typings) /\ job' = job
    BY <1>1, <1>3, <1>10, <2>3 DEF NoneHeld, Chars, SymbolFor
  <2> QED
    BY <2>5, <2>6 DEF Meant, Phase, Typed, Trace, Means
<1>11. CASE /\ act = "Up" /\ st' = Release(st, k) /\ pending' = ReleaseEvents(st, k)
            /\ todo' = Tail(todo) /\ cause' = cause
  <2>1. NoneHeld(st')
    BY <1>0, <1>1, <1>3, <1>11, DepressedBounds DEF NoneHeld
  <2>2. Silent
    <3>1. pending' \in Seq(Ups)
      BY <1>0, <1>3, <1>11, ReleaseHands
    <3> QED
      BY <3>1 DEF Ups
  <2>3. ASSUME job.current
        PROVE  ~st'.caps /\ Phase(st', job, todo')
    <3>1. PICK ups : After(st, job, todo, ups)
      BY <1>1, <1>11, <2>3, BeforeTap DEF Phase, act
    <3>2. k \in Modifiers /\ Phase(Release(st, k), job, Tail(todo))
      BY <1>0, <1>1, <3>1, MeantUp DEF k
    <3> QED
      BY <1>0, <1>1, <1>3, <1>11, <2>3, <3>2, ReleaseCaps, Disjoint
  <2>4. /\ NoneHeld(st)' /\ textMode' /\ JobShape(job)' /\ todo' \in Seq(Typings) /\ job' = job
    BY <1>1, <1>3, <1>11, <2>1 DEF NoneHeld, Chars, SymbolFor
  <2> QED
    BY <1>5, <2>2, <2>3, <2>4 DEF Meant, Phase, Typed, Trace, Means
<1> QED
  BY <1>4, <1>8, <1>9, <1>10, <1>11

\* A handler that types no text and presses no key that makes characters.
LEMMA MeantElsewhere ==
    ASSUME Meant, textMode' = textMode, cause' # "text", textMode => NoneHeld(st')
    PROVE  Meant'
<1>1. textMode' => NoneHeld(st)'
  BY DEF NoneHeld, Chars, SymbolFor
<1> QED
  BY <1>1 DEF Meant

\* A key that is pressed in text mode without being text.
LEMMA MeantPressed ==
    ASSUME TypeOK, Agreed, Meant, TextLayout, NEW f \in Buttons, ButtonPressed(f)
    PROVE  Meant'
<1>1. /\ st \in KeyboardStates /\ f \in Keys /\ dest = "System" /\ textMode' = textMode
  BY UiAssumption DEF TypeOK, Agreed, ButtonPressed
<1>2. \/ st' = ReleaseAll(st) /\ cause' = "release"
      \/ st' = Press(st, f) /\ cause' = "key"
  BY DEF ButtonPressed, KeyPressed, EmergencyRelease
<1>3. ASSUME textMode  PROVE  NoneHeld(st')
  <2>1. EffectiveModifiers(st) \in SUBSET Kinds
    BY <1>1, KindFacts DEF EffectiveModifiers, HeldModifiers, KeyboardStates
  <2>2. ~IsText(SymbolFor(f, EffectiveModifiers(st)))
    BY <1>1, <1>3 DEF ButtonPressed
  <2>3. f \in DOMAIN Layout => ~Chars(f)
    BY <2>1, <2>2 DEF TextLayout
  <2>4. \A x \in Modifiers : x \in DOMAIN Layout => ~Chars(x)
    BY Disjoint DEF TextLayout
  <2>5. st'.depressed \subseteq st.depressed \cup {f} \cup Modifiers
    <3>1. Press(st, f).depressed \subseteq st.depressed \cup {f} \cup Modifiers
      BY <1>1, DepressedBounds
    <3>2. ReleaseAll(st).depressed = {}
      BY <1>1 DEF ReleaseAll, KeyboardStates
    <3> QED
      BY <1>2, <3>1, <3>2
  <2>6. NoneHeld(st)
    BY <1>3 DEF Meant
  <2> QED
    BY <2>3, <2>4, <2>5, <2>6 DEF NoneHeld
<1> QED
  BY <1>1, <1>2, <1>3, MeantElsewhere

\* The fields of a job that a round of the engine starts from.
LEMMA JobFields ==
    ASSUME NEW a, NEW m, NEW c, NEW l, NEW b, NEW x, NEW y, NEW z, NEW w, NEW j,
           j = [again |-> a, mods |-> m, char |-> c, latched |-> l, current |-> b]
    PROVE  /\ [j EXCEPT !.again = x, !.current = y]
              = [again |-> x, mods |-> m, char |-> c, latched |-> l, current |-> y]
           /\ [j EXCEPT !.mods = z, !.latched = w, !.current = y]
              = [again |-> a, mods |-> z, char |-> c, latched |-> w, current |-> y]
<1> DEFINE p == [j EXCEPT !.again = x]
           q == [j EXCEPT !.mods = z]
           r == [q EXCEPT !.latched = w]
<1>1. [j EXCEPT !.again = x, !.current = y] = [p EXCEPT !.current = y]
  BY Zenon
<1>2. [j EXCEPT !.mods = z, !.latched = w, !.current = y] = [r EXCEPT !.current = y]
  BY Zenon
<1>3. /\ p = [again |-> x, mods |-> m, char |-> c, latched |-> l, current |-> b]
      /\ q = [again |-> a, mods |-> z, char |-> c, latched |-> l, current |-> b]
  OBVIOUS
<1> HIDE DEF p, q
<1>4. r = [again |-> a, mods |-> z, char |-> c, latched |-> w, current |-> b]
  BY <1>3
<1> HIDE DEF r
<1>5. /\ [p EXCEPT !.current = y] = [again |-> x, mods |-> m, char |-> c, latched |-> l, current |-> y]
      /\ [r EXCEPT !.current = y] = [again |-> a, mods |-> z, char |-> c, latched |-> w, current |-> y]
  BY <1>3, <1>4
<1> QED
  BY <1>1, <1>2, <1>5

\* The engine is fed again, with the modifiers of the press.
LEMMA MeantRefeed ==
    ASSUME TypeOK, HandOver, Agreed, Meant, Refeed
    PROVE  Meant'
<1> DEFINE j == [job EXCEPT !.again = Absent, !.current = @ /\ job.latched = {}]
<1>1. /\ cause = "text" /\ pending = <<>> /\ todo = <<>> /\ FeedRound(job.again, j)
  BY Zenon DEF Refeed
<1>2. /\ textMode /\ JobShape(job)
      /\ job.current => ~st.caps /\ Phase(st, job, todo)
  BY <1>1 DEF Meant
<1>3. PICK a, m, c, l : \E b \in BOOLEAN :
        m \subseteq Kinds /\ job = [again |-> a, mods |-> m, char |-> c, latched |-> l, current |-> b]
  BY <1>2 DEF JobShape
<1>4. PICK b \in BOOLEAN :
        m \subseteq Kinds /\ job = [again |-> a, mods |-> m, char |-> c, latched |-> l, current |-> b]
  BY <1>3
<1>5. job.mods = m /\ job.latched = l /\ job.current = b /\ job.char = c
  BY <1>4
<1> DEFINE now == job.current /\ job.latched = {}
<1>6. now \in BOOLEAN /\ (now => b /\ l = {})
  <2>1. now \in BOOLEAN
    BY Zenon
  <2>2. now => b /\ l = {}
    BY <1>5
  <2> QED
    BY <2>1, <2>2
<1>a. j = [job EXCEPT !.again = Absent, !.current = now]
  BY Zenon
<1> HIDE DEF now, j
<1>b. j = [again |-> Absent, mods |-> m, char |-> c, latched |-> l, current |-> now]
  BY <1>4, <1>a, JobFields
<1>7. JobShape(j)
  BY <1>4, <1>6, <1>b DEF JobShape
<1>8. j.current => b /\ l = {} /\ j.mods = m /\ j.latched = l
  BY <1>6, <1>b
<1>9. ASSUME b, l = {}
      PROVE  ~st.caps /\ m = HeldModifiers(st) \cup st.latched /\ st.latched = {}
  <2>1. ~st.caps /\ Phase(st, job, todo)
    BY <1>2, <1>5, <1>9
  <2>2. PICK ups : After(st, job, todo, ups)
    BY <1>1, <2>1, BeforeTap DEF Phase
  <2>3. ups = <<>> /\ Undo(st, job, Elements(ups))
    BY <1>1, <2>2 DEF After, ModifierActions
  <2>4. Elements(ups) = {}
    BY <2>3 DEF Elements, Has
  <2>5. st.latched = {} /\ HeldModifiers(st) = job.mods
    BY <1>5, <1>9, <2>3, <2>4 DEF Undo
  <2> QED
    BY <1>5, <2>1, <2>5
<1> QED
  BY <1>1, <1>2, <1>7, <1>8, <1>9, FeedMeant

\* A key that is text is fed with the modifiers in effect at its press.
LEMMA MeantFed ==
    ASSUME TypeOK, LockRepeatInv, HandOver, Agreed, Meant, NEW f \in Buttons, TextPressed(f)
    PROVE  Meant'
<1> DEFINE eff == EffectiveModifiers(st)
           j == [NoJob EXCEPT !.mods = eff, !.latched = st.latched, !.current = ~st.caps]
<1>1. /\ textMode /\ pending = <<>> /\ FeedRound(SymbolFor(f, eff), j)
  BY DEF TextPressed, HandOver
<1>2. st \in KeyboardStates /\ (~st.caps => st.locked = {}) /\ st.caps \in BOOLEAN
  BY DEF TypeOK, LockRepeatInv, LockOnlyByCaps, KeyboardStates
<1>3. eff \subseteq Kinds
  BY <1>2, KindFacts DEF EffectiveModifiers, HeldModifiers, KeyboardStates
<1>4. ~st.caps => eff = HeldModifiers(st) \cup st.latched
  BY <1>2 DEF EffectiveModifiers
<1> DEFINE now == ~st.caps
<1>5. now \in BOOLEAN /\ (now => ~st.caps)
  BY Zenon
<1>a. j = [NoJob EXCEPT !.mods = eff, !.latched = st.latched, !.current = now]
  BY Zenon
<1> HIDE DEF eff, j, now
<1>6. j = [again |-> Absent, mods |-> eff, char |-> "", latched |-> st.latched, current |-> now]
  BY <1>a, JobFields DEF NoJob
<1>7. JobShape(j)
  BY <1>3, <1>5, <1>6 DEF JobShape
<1>8. j.current => ~st.caps /\ j.mods = HeldModifiers(st) \cup st.latched /\ j.latched = st.latched
  BY <1>4, <1>5, <1>6 DEF eff
<1> QED
  BY <1>1, <1>7, <1>8, FeedMeant

\* The broker serves the next event.
LEMMA MeantServed ==
    ASSUME TypeOK, Agreed, Agreed', Meant, SendServed, textMode' = textMode,
           job' = IF cause' = "text" THEN job ELSE NoJob
    PROVE  Meant'
<1>1. /\ pending \in Seq(Events) /\ pending # <<>> /\ st' = st /\ cause' = cause /\ todo' = todo
      /\ pending' = Tail(pending) /\ client' = "live"
  BY DEF SendServed, TypeOK, Agreed, stateVars
<1>2. CASE cause # "text"
  BY <1>1, <1>2, MeantElsewhere DEF Meant
<1>3. CASE cause = "text"
  <2>1. /\ job' = job /\ NoneHeld(st) /\ textMode' /\ JobShape(job) /\ todo' \in Seq(Typings)
        /\ job.current => ~st.caps /\ Phase(st, job, todo) /\ Typed(pending, session, st.depressed, job.char)
    BY <1>1, <1>3 DEF Meant
  <2>2. ASSUME job.current
        PROVE  Typed(pending', session', st'.depressed, job.char)
    <3>1. PICK H : Serves(Room, session, Head(pending), H) /\ Typed(Tail(pending), H, st.depressed, job.char)
      BY <1>1, <2>1, <2>2, TypedHead
    <3>2. session' = H
      <4>1. session' = SessionAfter(Head(pending))
        BY <1>1 DEF SendServed
      <4> DEFINE e == Head(pending)
      <4> HIDE DEF e
      <4>2. SessionAfter(e) = H
        BY <3>1 DEF e, Serves, SessionAfter
      <4> QED
        BY <4>1, <4>2 DEF e
    <3> QED
      BY <1>1, <3>1, <3>2
  <2>3. NoneHeld(st)' /\ JobShape(job)'
    BY <1>1, <2>1 DEF NoneHeld, Chars, SymbolFor, JobShape
  <2>4. job'.current => ~st'.caps /\ Phase(st', job', todo') /\ Typed(pending', session', st'.depressed, job'.char)
    BY <1>1, <2>1, <2>2
  <2> QED
    BY <2>1, <2>3, <2>4 DEF Meant, Phase, Typed, Trace, Means
<1> QED
  BY <1>2, <1>3

\* Every step keeps what is typed to what was meant.
LEMMA MeantStep ==
    ASSUME TypeOK, LockRepeatInv, HandOver, Agreed, Agreed', Meant, TextLayout, ~LinkFaults,
           [TextNext]_<<vars, textVars>>
    PROVE  Meant'
<1>0. /\ st \in KeyboardStates /\ Buttons \subseteq Keys
      /\ client = "live" /\ client' = "live" /\ dest = "System" /\ cause # "switch"
  BY UiAssumption DEF TypeOK, Agreed
<1>1. ASSUME NEW f \in Buttons, TextPressed(f)  PROVE  Meant'
  BY <1>1, MeantFed
<1>2. ASSUME NEW f \in Buttons, ButtonPressed(f)  PROVE  Meant'
  BY <1>2, MeantPressed
<1>3. CASE Refeed
  BY <1>3, MeantRefeed
<1>4. CASE Otherwise
  <2>0. textMode' = textMode /\ job' = IF cause' = "text" THEN job ELSE NoJob
    BY <1>4 DEF Otherwise
  <2>1. ASSUME NEW k \in Buttons, KeyReleased(k)  PROVE  Meant'
    <3>1. st' = Release(st, k) /\ cause' = "key" /\ k \in Keys
      BY <1>0, <2>1 DEF KeyReleased
    <3>2. st'.depressed \subseteq st.depressed
      BY <1>0, <3>1, DepressedBounds
    <3> QED
      BY <2>0, <3>1, <3>2, MeantElsewhere DEF Meant, NoneHeld
  <2>2. CASE TextAction
    BY <2>0, <2>2, MeantAction
  <2>3. CASE TickRepeat
    BY <2>0, <2>3, MeantElsewhere DEF TickRepeat, stateVars, Meant
  <2>4. CASE TapTimeout
    <3>1. PICK n \in 1..Len(st.tracks) : st' = Expire(st, n)
      BY <2>4 DEF TapTimeout
    <3>2. st'.depressed = st.depressed /\ cause' = "idle"
      BY <1>0, <2>4, <3>1 DEF Expire, KeyboardStates, TapTimeout, runVars
    <3> QED
      BY <2>0, <3>2, MeantElsewhere DEF Meant, NoneHeld
  <2>5. CASE SendServed
    BY <2>0, <2>5, MeantServed
  <2>6. CASE HandlerReturns
    <3>1. st' = st /\ cause' = "idle"
      BY <1>0, <2>6 DEF HandlerReturns, stateVars
    <3> QED
      BY <2>0, <3>1, MeantElsewhere DEF Meant
  <2> QED
    BY <1>0, <1>4, <2>1, <2>2, <2>3, <2>4, <2>5, <2>6 DEF Otherwise, SwitchDestination, SendLost,
       SendDropped, SendFails, PollConnect, LinkLost, SessionEnds, SendTerminal, TerminalFull
<1>5. CASE UNCHANGED <<vars, textVars>>
  <2>1. /\ st' = st /\ todo' = todo /\ pending' = pending /\ cause' = cause /\ session' = session
        /\ textMode' = textMode /\ job' = job
    BY <1>5 DEF vars, stateVars, runVars, linkVars, textVars
  <2>2. (textMode => NoneHeld(st)) => (textMode => NoneHeld(st))'
    BY <2>1 DEF NoneHeld, Chars, SymbolFor
  <2>3. JobShape(job) => JobShape(job)'
    BY <2>1 DEF JobShape
  <2>4. Phase(st', job', todo') = Phase(st, job, todo)
    BY <2>1
  <2>5. Typed(pending', session', st'.depressed, job'.char) = Typed(pending, session, st.depressed, job.char)
    BY <2>1
  <2> QED
    BY <2>1, <2>2, <2>3, <2>4, <2>5 DEF Meant, Phase, Typed, Trace, Means
<1> QED
  BY <1>1, <1>2, <1>3, <1>4, <1>5 DEF TextNext

\* At the start nothing is typed.
LEMMA MeantInit ==
    ASSUME TextInit
    PROVE  Meant
  BY DEF TextInit, Init, Meant, NoneHeld, NewState

\* The next event makes the character that was meant.
LEMMA MeantMeans ==
    ASSUME TypeOK, Meant
    PROVE  TypesWhatWasMeant
<1> SUFFICES ASSUME cause = "text", pending # <<>>, job.current,
                    Head(pending).type = "Down", Head(pending).key \in PlainKeys
             PROVE  SymbolFor(Head(pending).key, KindsOf(session)) = Char(job.char)
  BY DEF TypesWhatWasMeant, KindsOf
<1>1. Typed(pending, session, st.depressed, job.char) /\ pending \in Seq(Events)
  BY DEF Meant, TypeOK
<1> QED
  BY <1>1, TypedHead

\* What is typed is what was meant, until a full session refuses a key.
MeantSoFar == refused = "none" => Meant

LEMMA MeantSoFarStep ==
    ASSUME TypeOK, LockRepeatInv, HandOver, AgreedSoFar, MeantSoFar, TextLayout, ~LinkFaults,
           [TextNext]_<<vars, textVars>>
    PROVE  MeantSoFar'
<1> SUFFICES ASSUME refused' = "none"  PROVE  Meant'
  BY DEF MeantSoFar
<1>1. AgreedSoFar' /\ refused = "none"
  BY TextAgreedStep
<1>2. Agreed /\ Agreed' /\ Meant
  BY <1>1 DEF AgreedSoFar, MeantSoFar
<1> QED
  BY <1>2, MeantStep

\* TypesWhatWasMeant for every layout of this kind, every table of sequences, every
\* two limits and every history of presses: until a full session refuses a key, the
\* character that reaches the application, read off the key and the modifiers the
\* broker holds, is the one the engine emitted.
THEOREM TypedAsMeant ==
    ASSUME ~LinkFaults, ~HasTerminal, TextLayout
    PROVE  TextSpec => []TypesWhatWasMeant
<1>1. TextInit => AgreedSoFar /\ MeantSoFar
  BY AgreedInit, MeantInit DEF TextInit, AgreedSoFar, MeantSoFar
<1>2. TypeOK /\ LockRepeatInv /\ HandOver /\ AgreedSoFar /\ [TextNext]_<<vars, textVars>>
        => AgreedSoFar'
  BY TextAgreedStep
<1>3. TypeOK /\ LockRepeatInv /\ HandOver /\ AgreedSoFar /\ MeantSoFar
        /\ [TextNext]_<<vars, textVars>> => MeantSoFar'
  BY MeantSoFarStep
<1>4. TypeOK /\ MeantSoFar => TypesWhatWasMeant
  BY MeantMeans DEF MeantSoFar, TypesWhatWasMeant
<1> QED
  BY <1>1, <1>2, <1>3, <1>4, TextCorrect, PTL DEF TextSpec

-----------------------------------------------------------------------------
(* What the terminal hears.                                                *)

\* The modifier keys that can be down: a kind without two keys has the preferred one.
Pressable == {k \in Modifiers : KindOf[k] \in TwoKeyed \/ k = PreferredKey[KindOf[k]]}

\* The kinds of the modifiers among some keys.
KindsIn(H) == {KindOf[k] : k \in H \cap Modifiers}

\* Modifiers a sink that holds H may believe in: none invented, none forgotten but of a
\* kind with two keys.
Mirrors(mods, H) == mods \subseteq KindsIn(H) /\ KindsIn(H) \subseteq mods \cup TwoKeyed

\* A sink that holds H.
SinkHolds(H) ==
    /\ H \in SUBSET Keys /\ H \cap Modifiers \subseteq Pressable
    /\ Mirrors(termMods, H)

\* What tick_repeat sends.
Repeats == {e \in Events : e.type = "Repeat"}

\* What the terminal has heard: once the events on the way have arrived its sink
\* holds the modifiers of the state; repeats carry none, and of a press the
\* plain key comes last.
Heard ==
    dest = "Terminal" =>
        /\ st.depressed \cap Modifiers \subseteq Pressable
        /\ \E H : SinkHolds(H) /\ Carried(Room, pending, H, st.depressed)
        /\ cause = "tick" => Mirrors(termMods, st.depressed) /\ pending \in Seq(Repeats)
        /\ cause = "key" => \A i \in 1..(Len(pending) - 1) :
                               pending[i].type = "Up" \/ pending[i].key \in Modifiers

\* The buttons and the preferred keys can be down, and two of one kind only if it has two.
LEMMA PressableFacts ==
    /\ Pressable \subseteq Modifiers
    /\ Buttons \cap Modifiers \subseteq Pressable
    /\ \A m \in Kinds : PreferredKey[m] \in Pressable
    /\ \A k, l \in Pressable : KindOf[k] = KindOf[l] /\ k # l => KindOf[k] \in TwoKeyed
<1>1. \A k \in Modifiers : KindOf[k] \in Kinds
  BY KindFacts
<1>2. \A k \in Buttons \cap Modifiers : k # PreferredKey[KindOf[k]] => KindOf[k] \in TwoKeyed
  BY <1>1 DEF TwoKeyed
<1> QED
  BY <1>2, PreferredKind DEF Pressable

\* press brings down the key and preferred ones.
LEMMA PressPressable ==
    ASSUME NEW s \in KeyboardStates, NEW k \in Buttons, k \in Keys,
           s.depressed \cap Modifiers \subseteq Pressable
    PROVE  Press(s, k).depressed \cap Modifiers \subseteq Pressable
<1>1. ToInject(s) \subseteq Pressable
  <2>1. s.latched \subseteq Kinds /\ s.locked \subseteq Kinds
    BY DEF KeyboardStates
  <2> QED
    BY <2>1, PressableFacts DEF ToInject
<1>2. Press(s, k).depressed \subseteq s.depressed \cup ToInject(s) \cup {k}
  BY DEF Press, PressModifier, PressPlain, KeyboardStates
<1> QED
  BY <1>1, <1>2, PressableFacts

\* A handler that starts with nothing on the way keeps the sink informed.
LEMMA HeardStarts ==
    ASSUME TypeOK, Heard, pending = <<>>, dest = "Terminal", termMods' = termMods, dest' = dest,
           Carried(Room, pending', st.depressed, st'.depressed),
           st'.depressed \cap Modifiers \subseteq Pressable,
           cause' = "tick" => st' = st /\ pending' \in Seq(Repeats),
           cause' = "key" => \A i \in 1..(Len(pending') - 1) :
                                pending'[i].type = "Up" \/ pending'[i].key \in Modifiers
    PROVE  Heard'
<1>1. PICK H : SinkHolds(H) /\ Carried(Room, pending, H, st.depressed)
  BY DEF Heard
<1>2. H = st.depressed
  BY <1>1, CarriedNone
<1>3. Mirrors(termMods, st.depressed) /\ SinkHolds(st.depressed)
  BY <1>1, <1>2 DEF SinkHolds
<1>5. \E G : G \in SUBSET Keys /\ G \cap Modifiers \subseteq Pressable /\ Mirrors(termMods', G)
             /\ Carried(Room, pending', G, st'.depressed)
  BY <1>3 DEF SinkHolds
<1>6. cause' = "tick" => Mirrors(termMods', st'.depressed) /\ pending' \in Seq(Repeats)
  BY <1>3
<1> QED
  BY <1>5, <1>6 DEF Heard, SinkHolds, Mirrors, KindsIn, Carried, Trace, Room, Repeats, Events, Keys

\* While the terminal is not the destination nothing is owed to it.
LEMMA HeardElsewhere ==
    ASSUME dest' = "System"
    PROVE  Heard'
BY DEF Heard

\* An event reaches the sink.
LEMMA HeardSends ==
    ASSUME TypeOK, HandOver, Routed, Heard, SendTerminal
    PROVE  Heard'
<1> DEFINE e == Head(pending)
           q == Tail(pending)
<1>1. /\ pending # <<>> /\ dest = "Terminal" /\ dest' = dest /\ st' = st /\ cause' = cause /\ pending' = q
      /\ termMods' = IF e.key \notin Modifiers THEN termMods
                     ELSE IF e.type = "Up" THEN termMods \ {KindOf[e.key]}
                     ELSE termMods \cup {KindOf[e.key]}
  BY DEF SendTerminal, stateVars
<1>2. pending \in Seq(Events) /\ e \in Events /\ st.depressed \in SUBSET Keys
      /\ (e.type = "Repeat" => e.key \in PlainKeys)
  BY <1>1 DEF TypeOK, KeyboardStates, Routed, Sent
<1>3. PICK H : SinkHolds(H) /\ Carried(Room, pending, H, st.depressed)
  BY <1>1 DEF Heard
<1>4. PICK G : Serves(Room, H, e, G) /\ Carried(Room, q, G, st.depressed)
  BY <1>1, <1>2, <1>3, CarriedHead
<1>5. e.type = "Down" /\ e.key \in Modifiers => e.key \in Pressable
  <2> SUFFICES ASSUME e.type = "Down", e.key \in Modifiers PROVE e.key \in Pressable
    OBVIOUS
  <2>1. e.key \in st.depressed \/ Has(q, Up(e.key))
    BY <1>1, <1>2, FollowedTail DEF HandOver
  <2>2. e \notin Ups /\ cause # "text"
    BY <1>1 DEF Ups, Routed
  <2>3. pending \notin Seq(Ups)
    BY <1>1, <2>2
  <2>4. pending \in Seq(Events \ Ups)
    BY <2>2, <2>3 DEF Routed
  <2>5. q \in Seq(Events \ Ups)
    BY <1>1, <2>4
  <2>6. ~Has(q, Up(e.key))
    <3> HIDE DEF q
    <3> QED BY <2>5, NoUps
  <2> QED
    BY <1>1, <2>1, <2>6 DEF Heard
<1> HIDE DEF e, q
<1>6. G \in SUBSET Keys /\ G \cap Modifiers \subseteq Pressable
  BY <1>2, <1>3, <1>4, <1>5 DEF Serves, SinkHolds, Events
<1>7. Mirrors(termMods', G)
  <2>0. Mirrors(termMods, H) /\ H \cap Modifiers \subseteq Pressable
    BY <1>3 DEF SinkHolds
  <2>1. CASE e.key \notin Modifiers
    <3>1. G \cap Modifiers = H \cap Modifiers
      BY <1>4, <2>1 DEF Serves
    <3> QED
      BY <1>1, <2>0, <2>1, <3>1 DEF KindsIn, Mirrors
  <2>2. CASE e.key \in Modifiers /\ e.type = "Up"
    <3>1. e.key \in Pressable /\ G = H \ {e.key} /\ termMods' = termMods \ {KindOf[e.key]}
      BY <1>1, <1>4, <2>0, <2>2 DEF Serves
    <3>2. termMods' \subseteq KindsIn(G)
      BY <2>0, <3>1 DEF KindsIn, Mirrors
    <3>3. ASSUME NEW l \in G \cap Modifiers
          PROVE  KindOf[l] \in termMods' \cup TwoKeyed
      <4>1. l \in Pressable /\ l # e.key /\ KindOf[l] \in termMods \cup TwoKeyed
        BY <2>0, <3>1, <3>3 DEF KindsIn, Mirrors
      <4>2. CASE KindOf[l] = KindOf[e.key]
        BY <3>1, <4>1, <4>2, PressableFacts
      <4> QED
        BY <3>1, <4>1, <4>2
    <3> QED
      BY <3>2, <3>3 DEF KindsIn, Mirrors
  <2>3. CASE e.key \in Modifiers /\ e.type # "Up"
    <3>1. G = H \cup {e.key} /\ termMods' = termMods \cup {KindOf[e.key]}
      BY <1>1, <1>4, <2>3 DEF Serves
    <3> QED
      BY <2>0, <2>3, <3>1 DEF KindsIn, Mirrors
  <2> QED
    BY <2>1, <2>2, <2>3
<1>8. cause = "tick" => Mirrors(termMods', st.depressed) /\ q \in Seq(Repeats)
  <2> SUFFICES ASSUME cause = "tick" PROVE Mirrors(termMods', st.depressed) /\ q \in Seq(Repeats)
    OBVIOUS
  <2>1. pending \in Seq(Repeats) /\ Mirrors(termMods, st.depressed)
    BY <1>1 DEF Heard
  <2>2. q \in Seq(Repeats) /\ e \in Repeats
    BY <1>1, <2>1 DEF q, e
  <2>3. e.key \notin Modifiers
    BY <1>2, <2>2, Disjoint DEF Repeats
  <2> QED
    BY <1>1, <2>1, <2>2, <2>3
<1>9. cause = "key" => \A i \in 1..(Len(q) - 1) : q[i].type = "Up" \/ q[i].key \in Modifiers
  <2> SUFFICES ASSUME cause = "key", NEW i \in 1..(Len(q) - 1)
               PROVE  q[i].type = "Up" \/ q[i].key \in Modifiers
    OBVIOUS
  <2>1. Len(q) = Len(pending) - 1 /\ q[i] = pending[i + 1] /\ Len(pending) \in Nat
    BY <1>1, <1>2 DEF q
  <2>2. i + 1 \in 1..(Len(pending) - 1)
    BY <2>1
  <2> QED
    BY <1>1, <2>1, <2>2 DEF Heard
<1> QED
  BY <1>1, <1>4, <1>6, <1>7, <1>8, <1>9
     DEF Heard, SinkHolds, Mirrors, KindsIn, Carried, Trace, Room, Repeats, Events, Keys
\* release_all: every key of the sink comes up.
LEMMA HeardEmergency ==
    ASSUME TypeOK, dest = "Terminal", dest' = dest, termMods' = termMods,
           Mirrors(termMods, st.depressed), st.depressed \cap Modifiers \subseteq Pressable,
           NEW caller \in {"release", "switch"}, EmergencyRelease(caller)
    PROVE  Heard'
<1>1. st \in KeyboardStates
  BY DEF TypeOK
<1>2. pending' = ReleaseAllEvents(st) /\ st' = ReleaseAll(st) /\ cause' = caller
  BY DEF EmergencyRelease
<1>3. st'.depressed = {} /\ st'.latched = {}
  BY <1>1, <1>2 DEF ReleaseAll, KeyboardStates
<1>4. Carried(Room, pending', st.depressed, {})
  BY <1>1, <1>2, ReleaseAllCarried
<1>5. \E G : G \in SUBSET Keys /\ G \cap Modifiers \subseteq Pressable /\ Mirrors(termMods', G)
             /\ Carried(Room, pending', G, st'.depressed)
  BY <1>1, <1>3, <1>4 DEF KeyboardStates
<1> QED
  BY <1>2, <1>3, <1>5 DEF Heard, SinkHolds, Mirrors, KindsIn, Carried, Trace, Room

\* The sink that has nothing on the way holds the modifiers of the state.
LEMMA HeardAll ==
    ASSUME Heard, dest = "Terminal", pending = <<>>
    PROVE  Mirrors(termMods, st.depressed)
<1>1. PICK H : SinkHolds(H) /\ Carried(Room, pending, H, st.depressed)
  BY DEF Heard
<1>2. H = st.depressed
  BY <1>1, CarriedNone
<1> QED
  BY <1>1, <1>2 DEF SinkHolds

\* A plain key's press or repeat is on its way: the modifiers have arrived.
LEMMA HeardPlain ==
    ASSUME TypeOK, Routed, HandOver, Heard, dest = "Terminal", pending # <<>>,
           Head(pending).type # "Up", Head(pending).key \in PlainKeys
    PROVE  Mirrors(termMods, st.depressed) /\ cause \in {"key", "tick"}
<1> DEFINE e == Head(pending)
<1>1. pending \in Seq(Events) /\ e \in Events /\ pending[1] = e /\ Len(pending) \in Nat \ {0}
  BY DEF TypeOK
<1>2. pending \notin Seq(Ups)
  BY DEF Ups
<1>3. cause \in {"key", "tick"}
  BY <1>2 DEF Routed, HandOver, TypeOK, Causes
<1>4. CASE cause = "tick"
  BY <1>4 DEF Heard
<1>5. CASE cause = "key"
  <2>1. Len(pending) = 1
    <3>1. ASSUME Len(pending) # 1 PROVE FALSE
      <4> DEFINE n == Len(pending)
      <4>0. n \in Nat \ {0} /\ n # 1
        BY <1>1, <3>1
      <4> HIDE DEF n
      <4>3. 1 \in 1..(n - 1)
        BY <4>0
      <4>1. 1 \in 1..(Len(pending) - 1)
        BY <4>3 DEF n
      <4>2. e.type = "Up" \/ e.key \in Modifiers
        BY <1>1, <1>5, <4>1 DEF Heard
      <4> QED
        BY <4>2, Disjoint
    <3> QED BY <3>1
  <2>2. Tail(pending) = <<>>
    <3> DEFINE q == Tail(pending)
    <3>1. q \in Seq(Events) /\ Len(q) = Len(pending) - 1
      BY <1>1
    <3> HIDE DEF q
    <3>2. Len(q) = 0
      BY <2>1, <3>1
    <3>3. q = <<>>
      BY <3>1, <3>2
    <3> QED
      BY <3>3 DEF q
  <2>3. PICK H : SinkHolds(H) /\ Carried(Room, pending, H, st.depressed)
    BY DEF Heard
  <2>4. PICK G : Serves(Room, H, e, G) /\ Carried(Room, Tail(pending), G, st.depressed)
    BY <1>1, <2>3, CarriedHead
  <2>5. G = st.depressed
    <3>1. Carried(Room, <<>>, G, st.depressed)
      BY <2>2, <2>4
    <3> QED
      BY <3>1, CarriedNone
  <2>6. H \cap Modifiers = G \cap Modifiers
    BY <2>4, Disjoint DEF Serves
  <2> QED
    BY <1>3, <2>3, <2>5, <2>6 DEF SinkHolds, KindsIn, Mirrors
<1> QED
  BY <1>3, <1>4, <1>5

\* The pending events of a press: injected modifiers, then the key.
LEMMA PressShape ==
    ASSUME NEW s \in KeyboardStates, NEW k \in Keys, ~Rollover(s, k)
    PROVE  \A i \in 1..(Len(PressEvents(s, k)) - 1) : PressEvents(s, k)[i].key \in Modifiers
<1>1. CASE k \in s.depressed
  BY <1>1 DEF PressEvents
<1>2. CASE k \notin s.depressed /\ k \notin PlainKeys
  <2>1. PressEvents(s, k) = Append(<<>>, Down(k))
    BY <1>2 DEF PressEvents
  <2> QED
    BY <2>1
<1>3. CASE k \notin s.depressed /\ k \in PlainKeys
  <2>1. PICK q \in Seq(Downs(Modifiers)) : PressEvents(s, k) = q \o <<Down(k)>>
    BY <1>3, InjectCarried, RoomFits
  <2>2. Len(q) \in Nat /\ Len(PressEvents(s, k)) = Len(q) + 1
        /\ \A i \in 1..Len(q) : PressEvents(s, k)[i] = q[i] /\ q[i] \in Downs(Modifiers)
    BY <2>1
  <2> QED
    BY <2>2 DEF Downs
<1> QED
  BY <1>1, <1>2, <1>3

\* A finger presses or leaves a button.
LEMMA HeardKeys ==
    ASSUME TypeOK, LockRepeatInv, HandOver, Heard, NEW k \in Buttons, KeyPressed(k) \/ KeyReleased(k)
    PROVE  Heard'
<1>1. /\ pending = <<>> /\ dest' = dest /\ termMods' = termMods /\ k \in Keys /\ st \in KeyboardStates
      /\ InjectedPreferred(st)
  BY UiAssumption DEF KeyPressed, KeyReleased, HandOver, termVars, TypeOK
<1>2. CASE dest = "System"
  <2>1. cause' \in {"key", "release"}
    BY DEF KeyPressed, KeyReleased, EmergencyRelease
  <2> QED
    BY <1>1, <1>2, <2>1, HeardElsewhere
<1>3. CASE dest = "Terminal" /\ EmergencyRelease("release")
  <2>1. Mirrors(termMods, st.depressed) /\ st.depressed \cap Modifiers \subseteq Pressable
    BY <1>1, <1>3, HeardAll DEF Heard
  <2> QED
    BY <1>1, <1>3, <2>1, HeardEmergency
<1>4. CASE /\ dest = "Terminal" /\ ~Rollover(st, k) /\ st' = Press(st, k)
           /\ pending' = PressEvents(st, k) /\ cause' = "key"
  <2>1. st.depressed \cap Modifiers \subseteq Pressable
    BY <1>4 DEF Heard
  <2>2. st'.depressed \cap Modifiers \subseteq Pressable
    BY <1>1, <1>4, <2>1, PressPressable
  <2>3. Carried(Room, pending', st.depressed, st'.depressed)
    BY <1>1, <1>4, PressCarried, RoomFits
  <2>4. \A i \in 1..(Len(pending') - 1) : pending'[i].type = "Up" \/ pending'[i].key \in Modifiers
    BY <1>1, <1>4, PressShape
  <2> QED
    BY <1>1, <1>4, <2>2, <2>3, <2>4, HeardStarts
<1>5. CASE dest = "Terminal" /\ st' = Release(st, k) /\ pending' = ReleaseEvents(st, k) /\ cause' = "key"
  <2>1. st.depressed \cap Modifiers \subseteq Pressable
    BY <1>5 DEF Heard
  <2>2. st'.depressed \cap Modifiers \subseteq Pressable
    BY <1>1, <1>5, <2>1, DepressedBounds
  <2>3. Carried(Room, pending', st.depressed, st'.depressed)
    BY <1>1, <1>5, ReleaseCarried
  <2>4. pending' \in Seq(Ups)
    BY <1>1, <1>5, ReleaseHands
  <2>5. \A i \in 1..(Len(pending') - 1) : pending'[i].type = "Up" \/ pending'[i].key \in Modifiers
    BY <2>4 DEF Ups
  <2> QED
    BY <1>1, <1>5, <2>2, <2>3, <2>5, HeardStarts
<1> QED
  BY <1>2, <1>3, <1>4, <1>5 DEF KeyPressed, KeyReleased, TypeOK

\* The PTY takes no more: a press is undone by release_all, a repeat is dropped.
LEMMA HeardFull ==
    ASSUME TypeOK, HandOver, Routed, Heard, TerminalFull
    PROVE  Heard'
<1>1. /\ dest = "Terminal" /\ pending # <<>> /\ Head(pending).type # "Up"
      /\ Head(pending).key \in PlainKeys /\ HandlerFails /\ termMods' = termMods
  BY DEF TerminalFull, termVars
<1>2. Mirrors(termMods, st.depressed) /\ cause \in {"key", "tick"}
  BY <1>1, HeardPlain
<1>3. st.depressed \cap Modifiers \subseteq Pressable
  BY <1>1 DEF Heard
<1>4. CASE cause = "key"
  <2>1. EmergencyRelease("release") /\ dest' = dest
    BY <1>1, <1>4 DEF HandlerFails
  <2> QED
    BY <1>1, <1>2, <1>3, <2>1, HeardEmergency
<1>5. CASE cause = "tick"
  <2>1. pending' = <<>> /\ cause' = "idle" /\ dest' = dest /\ st' = st
    BY <1>1, <1>5 DEF HandlerFails, stateVars
  <2>2. st.depressed \in SUBSET Keys
    BY DEF TypeOK, KeyboardStates
  <2>3. \E G : G \in SUBSET Keys /\ G \cap Modifiers \subseteq Pressable /\ Mirrors(termMods', G)
             /\ Carried(Room, pending', G, st'.depressed)
    BY <1>1, <1>2, <1>3, <2>1, <2>2, CarriedNone
  <2> QED
    BY <1>3, <2>1, <2>3 DEF Heard, SinkHolds, Mirrors, KindsIn, Carried, Trace, Room
<1> QED
  BY <1>2, <1>4, <1>5

\* Repeats of depressed keys.
LEMMA HeardTick ==
    ASSUME TypeOK, LockRepeatInv, HandOver, Heard, TickRepeat
    PROVE  Heard'
<1>1. /\ pending = <<>> /\ dest' = dest /\ termMods' = termMods /\ st' = st /\ cause' = "tick"
  BY DEF TickRepeat, HandOver, termVars, stateVars
<1>2. CASE dest = "System"
  BY <1>1, <1>2, HeardElsewhere
<1>3. CASE dest = "Terminal"
  <2>1. PICK due \in SUBSET repeating \ {{}} : pending' = Each(Repeat, SetToSeq(due))
    BY DEF TickRepeat
  <2>2. due \subseteq st.depressed /\ due \subseteq Keys /\ IsFiniteSet(due)
        /\ st.depressed \in SUBSET Keys
    BY FiniteKeys, FS_Subset DEF TypeOK, LockRepeatInv, RepeatInv, KeyboardStates
  <2> DEFINE keys == SetToSeq(due)
  <2>3. keys \in Seq(due) /\ \A x : Has(keys, x) => x \in st.depressed
    BY <2>2, SetToSeqType, SetToSeqHas
  <2>4. pending' = Each(Repeat, keys)
    BY <2>1
  <2> HIDE DEF keys
  <2>5. keys \in Seq(Keys)
    BY <2>2, <2>3
  <2>6. Carried(Room, Each(Repeat, keys), st.depressed, st.depressed)
    BY <2>2, <2>3, <2>5, CarriedRepeats
  <2>7. pending' \in Seq(Repeats)
    <3>1. \A k \in Keys : Repeat(k) \in Repeats
      BY DEF Repeat, Repeats, Events
    <3> QED
      BY <2>4, <2>5, <3>1 DEF Each
  <2>8. st.depressed \cap Modifiers \subseteq Pressable
    BY <1>3 DEF Heard
  <2> QED
    BY <1>1, <1>3, <2>4, <2>6, <2>7, <2>8, HeardStarts
<1> QED
  BY <1>2, <1>3 DEF TypeOK

\* The handler returns; a switch hands over to a sink that holds nothing.
LEMMA HeardReturns ==
    ASSUME TypeOK, HandOver, Routed, Heard, HandlerReturns
    PROVE  Heard'
<1>1. pending = <<>> /\ termMods' = termMods
  BY DEF HandlerReturns, termVars
<1>2. CASE dest = "System" /\ dest' = dest
  <2>1. cause' \in {"release", "idle"}
    BY DEF HandlerReturns, EmergencyRelease
  <2> QED
    BY <1>2, <2>1, HeardElsewhere
<1>3. CASE /\ dest' # dest /\ cause' = "idle" /\ st' = st /\ pending' = pending /\ cause = "switch"
           /\ dest' \in {"System", "Terminal"}
  <2>1. CASE dest' = "System"
    BY <1>3, <2>1, HeardElsewhere
  <2>2. CASE dest' = "Terminal"
    <3>1. /\ dest = "System" /\ termMods = {} /\ st.depressed = {}
      BY <1>3, <2>2 DEF TypeOK, Routed, Heard
    <3>2. {} \in SUBSET Keys /\ KindsIn({}) = {} /\ Carried(Room, <<>>, {}, {})
      <4>1. {} \in SUBSET Keys
        OBVIOUS
      <4> QED BY <4>1, CarriedNone DEF KindsIn
    <3>3. \E G : G \in SUBSET Keys /\ G \cap Modifiers \subseteq Pressable /\ Mirrors(termMods', G)
             /\ Carried(Room, pending', G, st'.depressed)
      BY <1>1, <1>3, <3>1, <3>2 DEF Mirrors
    <3> QED
      BY <1>3, <3>1, <3>3 DEF Heard, SinkHolds, Mirrors, KindsIn, Carried, Trace, Room
  <2> QED BY <1>3, <2>1, <2>2
<1>4. CASE dest = "Terminal" /\ dest' = dest /\ cause' = "idle" /\ st' = st /\ pending' = pending
  BY <1>1, <1>4 DEF Heard, SinkHolds, Mirrors, KindsIn, Carried, Trace, Room
<1> QED
  BY <1>2, <1>3, <1>4 DEF HandlerReturns, TypeOK, stateVars

\* Every step keeps the sink informed.
LEMMA HeardStep ==
    ASSUME TypeOK, LockRepeatInv, HandOver, Routed, Heard, [Next]_vars
    PROVE  Heard'
<1> USE DEF stateVars, runVars, termVars
<1>1. ASSUME UNCHANGED <<st, pending, cause, dest, termMods>>
      PROVE  Heard'
  BY <1>1 DEF Heard, SinkHolds, Mirrors, KindsIn, Carried, Trace, Room, Repeats, Events, Keys
<1>2. ASSUME dest = "System", dest' = dest, cause' # "switch"
      PROVE  Heard'
  BY <1>2, HeardElsewhere
<1>3. ASSUME NEW f, NEW k, NEW mods, TypeChar(f, k, mods)
      PROVE  Heard'
  BY <1>2, <1>3 DEF TypeChar
<1>4. ASSUME NEW f, TypeNothing(f)
      PROVE  Heard'
  BY <1>1, <1>4 DEF TypeNothing
<1>5. ASSUME TextAction
      PROVE  Heard'
  <2>1. dest = "System" /\ dest' = dest
    BY <1>5 DEF TextAction, Routed
  <2>2. cause' \in {"idle", cause} /\ cause = "text"
    BY <1>5, Zenon DEF TextAction
  <2> QED
    BY <1>2, <2>1, <2>2
<1>6. ASSUME SwitchDestination
      PROVE  Heard'
  <2>1. EmergencyRelease("switch") /\ dest' = dest /\ termMods' = termMods /\ pending = <<>>
    BY <1>6 DEF SwitchDestination, HandOver
  <2>2. CASE dest = "System"
    BY <2>1, <2>2, HeardElsewhere
  <2>3. CASE dest = "Terminal"
    <3>1. Mirrors(termMods, st.depressed) /\ st.depressed \cap Modifiers \subseteq Pressable
      BY <2>1, <2>3, HeardAll DEF Heard
    <3> QED
      BY <2>1, <2>3, <3>1, HeardEmergency
  <2> QED BY <2>2, <2>3 DEF TypeOK
<1>7. ASSUME TapTimeout
      PROVE  Heard'
  <2>1. PICK n \in 1..Len(st.tracks) : st' = Expire(st, n)
    BY <1>7 DEF TapTimeout
  <2>2. st'.depressed = st.depressed /\ st'.latched = st.latched
    BY <2>1 DEF Expire, KeyboardStates, TypeOK
  <2>3. UNCHANGED <<pending, cause, dest, termMods>>
    BY <1>7 DEF TapTimeout
  <2> QED
    BY <2>2, <2>3 DEF Heard, SinkHolds, Mirrors, KindsIn, Carried, Trace, Room, Repeats, Events, Keys
<1>8. ASSUME SendServed \/ SendLost \/ SendDropped
      PROVE  Heard'
  <2>1. UNCHANGED <<st, cause, dest>> /\ dest = "System"
    BY <1>8 DEF SendServed, SendLost, SendDropped
  <2> QED
    BY <2>1, HeardElsewhere DEF Heard
<1>9. ASSUME SendFails
      PROVE  Heard'
  <2>1. dest = "System" /\ cause # "switch"
    BY <1>9 DEF SendFails, MayFail, HandOver
  <2>2. dest' = dest /\ cause' \in {"release", "idle"}
    BY <1>9, <2>1 DEF SendFails, HandlerFails, EmergencyRelease
  <2> QED
    BY <1>2, <2>1, <2>2
<1>10. ASSUME PollConnect \/ LinkLost \/ SessionEnds
       PROVE  Heard'
  BY <1>1, <1>10 DEF PollConnect, LinkLost, SessionEnds
<1>11. ASSUME UNCHANGED vars
       PROVE  Heard'
  BY <1>1, <1>11 DEF vars
<1> QED
  BY <1>3, <1>4, <1>5, <1>6, <1>7, <1>8, <1>9, <1>10, <1>11, HeardKeys, HeardTick, HeardSends,
     HeardFull, HeardReturns DEF Next

\* The terminal has heard nothing at the start.
LEMMA HeardInit == Init => Heard
<1> SUFFICES ASSUME Init PROVE Heard
  OBVIOUS
<1>1. {} \in SUBSET Keys
  OBVIOUS
<1>2. KindsIn({}) = {} /\ Carried(Room, <<>>, {}, {})
  BY <1>1, CarriedNone DEF KindsIn
<1>3. pending = <<>> /\ cause = "idle" /\ termMods = {} /\ st.depressed = {}
  BY DEF Init, NewState
<1>4. SinkHolds({}) /\ Carried(Room, pending, {}, st.depressed)
  BY <1>1, <1>2, <1>3 DEF SinkHolds, Mirrors
<1> QED
  BY <1>3, <1>4 DEF Heard

-----------------------------------------------------------------------------
(* What a program reads.                                                   *)

\* The keys with a final letter, and their letters.
LEMMA Finals ==
    /\ FinalKeys = {"Up", "Down", "Right", "Left", "Home", "End", "F1", "F2", "F3", "F4"}
    /\ \A k, l \in FinalKeys : FinalOf(k) = FinalOf(l) => k = l
    /\ \A k \in FinalKeys : FinalOf(k) # "~"
    /\ \A k \in DOMAIN CursorFinal : FinalOf(k) = CursorFinal[k] /\ k \in FinalKeys
    /\ \A k \in DOMAIN FunctionFinal : FinalOf(k) = FunctionFinal[k] /\ k \in FinalKeys /\ k \notin DOMAIN CursorFinal
<1>1. FinalKeys = {"Up", "Down", "Right", "Left", "Home", "End", "F1", "F2", "F3", "F4"}
  BY DEF FinalKeys, CursorFinal, FunctionFinal
<1>2. /\ FinalOf("Up") = "A" /\ FinalOf("Down") = "B" /\ FinalOf("Right") = "C" /\ FinalOf("Left") = "D"
      /\ FinalOf("Home") = "H" /\ FinalOf("End") = "F"
      /\ FinalOf("F1") = "P" /\ FinalOf("F2") = "Q" /\ FinalOf("F3") = "R" /\ FinalOf("F4") = "S"
  BY DEF FinalOf, CursorFinal, FunctionFinal
<1>3. \A k, l \in FinalKeys : FinalOf(k) = FinalOf(l) => k = l
  BY <1>1, <1>2
<1>4. \A k \in FinalKeys : FinalOf(k) # "~"
  BY <1>1, <1>2
<1>5. DOMAIN CursorFinal \cap DOMAIN FunctionFinal = {}
  BY DEF CursorFinal, FunctionFinal
<1> QED
  BY <1>1, <1>3, <1>4, <1>5 DEF FinalOf, FinalKeys

\* The keys with a number, and their numbers.
LEMMA Tildes ==
    /\ DOMAIN TildeCode = {"Insert", "Delete", "PageUp", "PageDown", "F5", "F6", "F7", "F8", "F9", "F10",
                           "F11", "F12", "F13", "F20"}
    /\ \A k, l \in DOMAIN TildeCode : TildeCode[k] = TildeCode[l] => k = l
<1>1. DOMAIN TildeCode = {"Insert", "Delete", "PageUp", "PageDown", "F5", "F6", "F7", "F8", "F9", "F10",
                           "F11", "F12", "F13", "F20"}
  BY DEF TildeCode
<1>2. /\ TildeCode["Insert"] = 2 /\ TildeCode["Delete"] = 3 /\ TildeCode["PageUp"] = 5
      /\ TildeCode["PageDown"] = 6 /\ TildeCode["F5"] = 15 /\ TildeCode["F6"] = 17 /\ TildeCode["F7"] = 18
      /\ TildeCode["F8"] = 19 /\ TildeCode["F9"] = 20 /\ TildeCode["F10"] = 21 /\ TildeCode["F11"] = 23
      /\ TildeCode["F12"] = 24 /\ TildeCode["F13"] = 25 /\ TildeCode["F20"] = 34
  BY DEF TildeCode
<1> QED
  BY <1>1, <1>2

\* A special key is none of the keys with a character or a control code.
LEMMA SpecialAlone ==
    ASSUME NEW k \in SpecialKeys
    PROVE  /\ k \notin DOMAIN LetterCode /\ k \notin DOMAIN BaseAscii /\ k \notin DOMAIN CtrlOther
           /\ ~IsKeypad(k) /\ k \notin Modifiers \cup LockKeys
           /\ k \notin {"Enter", "KpEnter", "Tab", "Backspace", "Escape"}
<1>1. k \in {"Up", "Down", "Right", "Left", "Home", "End", "F1", "F2", "F3", "F4",
             "Insert", "Delete", "PageUp", "PageDown", "F5", "F6", "F7", "F8", "F9", "F10",
             "F11", "F12", "F13", "F20"}
  BY Finals, Tildes DEF SpecialKeys
<1>2. k \notin DOMAIN LetterCode
  BY <1>1 DEF LetterCode
<1>3. k \notin DOMAIN BaseAscii
  BY <1>1 DEF BaseAscii
<1>4. k \notin DOMAIN CtrlOther /\ k \notin {"Enter", "KpEnter", "Tab", "Backspace", "Escape"}
  BY <1>1 DEF CtrlOther
<1>5. ~IsKeypad(k)
  BY <1>1 DEF IsKeypad, KeypadSs3
<1>6. k \notin Modifiers \cup LockKeys
  BY <1>1 DEF Modifiers, LockKeys, KindOf
<1> QED
  BY <1>2, <1>3, <1>4, <1>5, <1>6

\* The parameter names the modifiers it can.
LEMMA ParamBits ==
    ASSUME NEW held
    PROVE  /\ Bits(ModifierParam(held)) = XtermModifiers(held)
           /\ ModifierParam(held) = 1 <=> XtermModifiers(held) = {}
           /\ ModifierParam(held) \in Nat
<1>2. ASSUME NEW s \in BOOLEAN, NEW a \in BOOLEAN, NEW c \in BOOLEAN
      PROVE  LET p == 1 + (IF s THEN 1 ELSE 0) + (IF a THEN 2 ELSE 0) + (IF c THEN 4 ELSE 0)
             IN  /\ ((p - 1) \div 1) % 2 = 1 <=> s
                 /\ ((p - 1) \div 2) % 2 = 1 <=> a
                 /\ ((p - 1) \div 4) % 2 = 1 <=> c
                 /\ p = 1 <=> ~s /\ ~a /\ ~c
                 /\ p \in Nat
  OBVIOUS
<1> DEFINE p == ModifierParam(held)
           x == XtermModifiers(held)
<1>1. /\ "Shift" \in x <=> "Shift" \in held
      /\ "Ctrl" \in x <=> "Ctrl" \in held
      /\ "Alt" \in x <=> {"Alt", "Meta"} \cap held # {}
      /\ x \subseteq {"Shift", "Alt", "Ctrl"}
  BY DEF XtermModifiers
<1>3. p = 1 + (IF "Shift" \in x THEN 1 ELSE 0) + (IF "Alt" \in x THEN 2 ELSE 0)
            + (IF "Ctrl" \in x THEN 4 ELSE 0)
  BY <1>1 DEF ModifierParam
<1> HIDE DEF x
<1>4. /\ ((p - 1) \div 1) % 2 = 1 <=> "Shift" \in x
      /\ ((p - 1) \div 2) % 2 = 1 <=> "Alt" \in x
      /\ ((p - 1) \div 4) % 2 = 1 <=> "Ctrl" \in x
      /\ p = 1 <=> "Shift" \notin x /\ "Alt" \notin x /\ "Ctrl" \notin x
      /\ p \in Nat
  BY <1>2, <1>3
<1> HIDE DEF p
<1>5. Bits(p) = x
  <2> DEFINE weight == [Shift |-> 1, Alt |-> 2, Ctrl |-> 4]
  <2>1. Bits(p) = {m \in {"Shift", "Alt", "Ctrl"} : ((p - 1) \div weight[m]) % 2 = 1}
    BY DEF Bits
  <2>2. weight["Shift"] = 1 /\ weight["Alt"] = 2 /\ weight["Ctrl"] = 4
    OBVIOUS
  <2> HIDE DEF weight
  <2>3. \A m \in {"Shift", "Alt", "Ctrl"} : ((p - 1) \div weight[m]) % 2 = 1 <=> m \in x
    BY <1>4, <2>2
  <2> QED
    BY <1>1, <2>1, <2>3
<1> QED
  BY <1>1, <1>4, <1>5 DEF p, x

\* What the encoder makes of a special key.
LEMMA SpecialEncoded ==
    ASSUME NEW k \in SpecialKeys, NEW held, NEW caps, NEW modes,
           NEW b, b = SpecialBytes(k, held, modes), b # <<>>
    PROVE  EncodeAndSend(k, held, caps, modes) = IF {"Alt", "Meta"} \cap held = {} THEN b ELSE <<ESC>> \o b
<1>1. CtrlSequence(k) = Nothing /\ SymbolBytes(k, held) = Nothing
  BY SpecialAlone DEF CtrlSequence, SymbolBytes
<1>2. CtrlOrSpecial(k, held, modes) = b /\ SymbolOrSpecial(k, held, modes) = b
  BY <1>1, SpecialAlone DEF CtrlOrSpecial, SymbolOrSpecial
<1>4. EncodeAndSend(k, held, caps, modes) = Encode(k, held, modes)
  BY SpecialAlone DEF EncodeAndSend
<1> QED
  BY <1>2, <1>4 DEF Encode, Nothing

\* The classes of keys the encoder tells apart are disjoint.
LEMMA Classes ==
    ASSUME NEW k \in SpecialKeys
    PROVE  /\ k \in DOMAIN CursorFinal => k \notin DOMAIN FunctionFinal \cup DOMAIN TildeCode
           /\ k \in DOMAIN FunctionFinal => k \notin DOMAIN CursorFinal \cup DOMAIN TildeCode
           /\ k \in DOMAIN TildeCode => k \notin DOMAIN CursorFinal \cup DOMAIN FunctionFinal
           /\ k \notin DOMAIN KeypadSs3
           /\ k # "Enter" /\ k # "KpEnter" /\ k # "Tab" /\ k # "Backspace" /\ k # "Escape"
<1>1. DOMAIN CursorFinal \cap DOMAIN FunctionFinal = {}
  BY DEF CursorFinal, FunctionFinal
<1>2. (DOMAIN CursorFinal \cup DOMAIN FunctionFinal) \cap DOMAIN TildeCode = {}
  BY DEF CursorFinal, FunctionFinal, TildeCode
<1> QED
  BY <1>1, <1>2, SpecialAlone DEF IsKeypad

\* The shapes of a special key's bytes.
Shaped(b, k, held, p) ==
    \/ k \in FinalKeys /\ held # {} /\ b = <<ESC, "[", 1, ";", p, FinalOf(k)>>
    \/ k \in FinalKeys /\ held = {} /\ \E c : b = <<ESC, c, FinalOf(k)>>
    \/ k \in DOMAIN TildeCode /\ held # {} /\ b = <<ESC, "[", TildeCode[k], ";", p, "~">>
    \/ k \in DOMAIN TildeCode /\ held = {} /\ b = <<ESC, "[", TildeCode[k], "~">>

\* SpecialBytes gives a special key one of these shapes.
LEMMA SpecialShape ==
    ASSUME NEW k \in SpecialKeys, NEW held, NEW modes \in EncoderModes
    PROVE  Shaped(SpecialBytes(k, held, modes), k, XtermModifiers(held), ModifierParam(held))
<1> USE DEF Shaped
<1>1. /\ k \in DOMAIN CursorFinal => k \notin DOMAIN FunctionFinal /\ k \notin DOMAIN TildeCode
      /\ k \in DOMAIN FunctionFinal => k \notin DOMAIN CursorFinal /\ k \notin DOMAIN TildeCode
      /\ k \in DOMAIN TildeCode => k \notin DOMAIN CursorFinal /\ k \notin DOMAIN FunctionFinal
      /\ k \notin DOMAIN KeypadSs3
      /\ k # "Enter" /\ k # "KpEnter" /\ k # "Tab" /\ k # "Backspace" /\ k # "Escape"
  BY Classes
<1>2. ModifierParam(held) = 1 <=> XtermModifiers(held) = {}
  BY ParamBits
<1>3. CASE k \in DOMAIN CursorFinal
  <2>1. SpecialBytes(k, held, modes) =
            IF ModifierParam(held) # 1 THEN Csi(1, held, CursorFinal[k])
            ELSE <<ESC, IF modes.application_cursor_keys THEN "O" ELSE "[", CursorFinal[k]>>
    BY <1>1, <1>3, Zenon DEF SpecialBytes
  <2> QED
    BY <1>2, <1>3, <2>1, Finals DEF Csi
<1>4. CASE k \in DOMAIN FunctionFinal
  <2>1. SpecialBytes(k, held, modes) =
            IF ModifierParam(held) # 1 THEN Csi(1, held, FunctionFinal[k])
            ELSE <<ESC, "O", FunctionFinal[k]>>
    BY <1>1, <1>4, Zenon DEF SpecialBytes
  <2> QED
    BY <1>2, <1>4, <2>1, Finals DEF Csi
<1>5. CASE k \in DOMAIN TildeCode
  <2>2. SpecialBytes(k, held, modes) = Csi(TildeCode[k], held, "~")
    BY <1>1, <1>5, Zenon DEF SpecialBytes
  <2> QED
    BY <1>2, <1>5, <2>2 DEF Csi
<1> QED
  BY <1>3, <1>4, <1>5 DEF SpecialKeys, FinalKeys

\* b is a sequence, of whatever bytes.
Listed(b) == \E S : b \in Seq(S)

\* Where the second of two sequences is found.
LEMMA CatPlaces ==
    ASSUME NEW T, NEW a \in Seq(T), NEW b \in Seq(T)
    PROVE  /\ a \o b \in Seq(T) /\ Len(a \o b) = Len(a) + Len(b)
           /\ \A i \in 1..Len(b) : (a \o b)[Len(a) + i] = b[i]
           /\ \A i \in 1..Len(a) : (a \o b)[i] = a[i]
OBVIOUS

\* Taking the escape off again.
LEMMA TailEscape ==
    ASSUME NEW b, Listed(b), NEW e
    PROVE  Tail(<<e>> \o b) = b /\ Head(<<e>> \o b) = e
<1>0. PICK S : b \in Seq(S)
  BY DEF Listed
<1> DEFINE T == S \cup {e}
           a == <<e>>
           c == a \o b
<1>1. a \in Seq(T) /\ b \in Seq(T) /\ Len(a) = 1 /\ a[1] = e
  BY <1>0
<1> HIDE DEF a, T
<1>2. c \in Seq(T) /\ Len(c) = 1 + Len(b) /\ c[1] = e /\ \A i \in 1..Len(b) : c[1 + i] = b[i]
  <2>1. /\ c \in Seq(T) /\ Len(c) = Len(a) + Len(b) /\ \A i \in 1..Len(b) : c[Len(a) + i] = b[i]
        /\ \A i \in 1..Len(a) : c[i] = a[i]
    BY <1>1, CatPlaces
  <2> QED
    BY <1>1, <2>1
<1>3. Len(b) \in Nat
  BY <1>0
<1> HIDE DEF c
<1>4. c # <<>>
  BY <1>2, <1>3
<1>5. Tail(c) \in Seq(T) /\ Len(Tail(c)) = Len(b) /\ \A i \in 1..Len(b) : Tail(c)[i] = c[i + 1]
  BY <1>2, <1>3, <1>4
<1>6. \A i \in 1..Len(b) : Tail(c)[i] = b[i]
  BY <1>2, <1>3, <1>5
<1>7. Tail(c) = b
  BY <1>1, <1>5, <1>6, SeqEqual
<1>8. Head(c) = e
  BY <1>2, <1>4
<1> QED
  BY <1>7, <1>8 DEF c, a

\* Six, four or three bytes, by the places that are read.
Six(b, w, y, z) == Len(b) = 6 /\ b[3] = w /\ b[5] = y /\ b[6] = z /\ b # <<>> /\ Listed(b)
Four(b, w, x) == Len(b) = 4 /\ b[3] = w /\ b[4] = x /\ b # <<>> /\ Listed(b)
Three(b, w) == Len(b) = 3 /\ b[3] = w /\ b # <<>> /\ Listed(b)

\* Tuples are sequences of bytes.
LEMMA Bytes ==
    ASSUME NEW u, NEW v, NEW w, NEW x, NEW y, NEW z
    PROVE  Six(<<u, v, w, x, y, z>>, w, y, z) /\ Four(<<u, v, w, x>>, w, x) /\ Three(<<u, v, w>>, w)
<1>1. /\ <<u, v, w, x, y, z>> \in Seq({u, v, w, x, y, z})
      /\ <<u, v, w, x>> \in Seq({u, v, w, x}) /\ <<u, v, w>> \in Seq({u, v, w})
  OBVIOUS
<1>2. Listed(<<u, v, w, x, y, z>>) /\ Listed(<<u, v, w, x>>) /\ Listed(<<u, v, w>>)
  BY <1>1 DEF Listed
<1> QED
  BY <1>2 DEF Six, Four, Three

\* The bytes of a special key read as the key with its modifiers.
LEMMA SpecialRead ==
    ASSUME NEW k \in SpecialKeys, NEW mods, NEW modes \in EncoderModes,
           NEW b, b = SpecialBytes(k, mods, modes)
    PROVE  /\ Reads(b) = {<<k, XtermModifiers(mods)>>} /\ b # <<>>
           /\ Tail(<<ESC>> \o b) = b /\ Head(<<ESC>> \o b) = ESC
<1> DEFINE p == ModifierParam(mods)
           held == XtermModifiers(mods)
<1>0. Bits(p) = held /\ (held = {} => Bits(1) = held) /\ p \in Nat
  BY ParamBits
<1> HIDE DEF p, held
<1> DEFINE named(c) == {l \in FinalKeys : FinalOf(l) = c}
           coded(c) == {l \in DOMAIN TildeCode : TildeCode[l] = c}
<1>1. /\ k \in FinalKeys => named(FinalOf(k)) = {k} /\ FinalOf(k) # "~"
      /\ k \in DOMAIN TildeCode => coded(TildeCode[k]) = {k}
  BY Finals, Tildes
<1>2. {k} \X {held} = {<<k, held>>}
  OBVIOUS
<1> HIDE DEF named, coded
<1>3. CASE k \in FinalKeys /\ held # {} /\ b = <<ESC, "[", 1, ";", p, FinalOf(k)>>
  <2>1. Six(<<ESC, "[", 1, ";", p, FinalOf(k)>>, 1, p, FinalOf(k))
    BY Bytes
  <2>2. Six(b, 1, p, FinalOf(k))
    BY <1>3, <2>1, Zenon
  <2>3. Reads(b) = named(FinalOf(k)) \X {Bits(p)}
    BY <1>1, <1>3, <2>2 DEF Reads, named, Six
  <2> QED
    BY <1>0, <1>1, <1>2, <1>3, <2>2, <2>3, TailEscape DEF Six, held
<1>4. CASE k \in FinalKeys /\ held = {} /\ \E c : b = <<ESC, c, FinalOf(k)>>
  <2>0. PICK c : b = <<ESC, c, FinalOf(k)>>
    BY <1>4
  <2>1. Three(<<ESC, c, FinalOf(k)>>, FinalOf(k))
    BY Bytes
  <2>2. Three(b, FinalOf(k))
    BY <2>0, <2>1, Zenon
  <2>3. Reads(b) = named(FinalOf(k)) \X {Bits(1)}
    BY <1>1, <1>4, <2>2 DEF Reads, named, Three
  <2> QED
    BY <1>0, <1>1, <1>2, <1>4, <2>2, <2>3, TailEscape DEF Three, held
<1>5. CASE k \in DOMAIN TildeCode /\ held # {} /\ b = <<ESC, "[", TildeCode[k], ";", p, "~">>
  <2>1. Six(<<ESC, "[", TildeCode[k], ";", p, "~">>, TildeCode[k], p, "~")
    BY Bytes
  <2>2. Six(b, TildeCode[k], p, "~")
    BY <1>5, <2>1, Zenon
  <2>3. Reads(b) = coded(TildeCode[k]) \X {Bits(p)}
    BY <2>2 DEF Reads, coded, Six
  <2> QED
    BY <1>0, <1>1, <1>2, <1>5, <2>2, <2>3, TailEscape DEF Six, held
<1>6. CASE k \in DOMAIN TildeCode /\ held = {} /\ b = <<ESC, "[", TildeCode[k], "~">>
  <2>1. Four(<<ESC, "[", TildeCode[k], "~">>, TildeCode[k], "~")
    BY Bytes
  <2>2. Four(b, TildeCode[k], "~")
    BY <1>6, <2>1, Zenon
  <2>3. Reads(b) = coded(TildeCode[k]) \X {Bits(1)}
    BY <2>2 DEF Reads, coded, Four
  <2> QED
    BY <1>0, <1>1, <1>2, <1>6, <2>2, <2>3, TailEscape DEF Four, held
<1> QED
  <2>1. Shaped(b, k, held, p)
    BY SpecialShape DEF p, held
  <2> QED
    BY <1>3, <1>4, <1>5, <1>6, <2>1 DEF Shaped, held

\* TerminalKeyReadable for every set of buttons: whatever is pressed, latched, injected,
\* repeated, refused by a full PTY or switched away and back, the sink invents no
\* modifier and forgets only one of a kind with two keys, and a special key reaches the
\* shell as itself with the modifiers the sink believes in, in every terminal mode; with
\* Alt or Meta behind an escape.
THEOREM SpecialKeysRead == Spec => []TerminalKeyReadable
<1>1. TypeOK /\ LockRepeatInv /\ HandOver /\ Routed /\ Heard /\ [Next]_vars => Heard'
  BY HeardStep
<1>2. TypeOK /\ LockRepeatInv /\ HandOver /\ Routed /\ [Next]_vars => Routed'
  BY RoutedStep
<1>3. ASSUME TypeOK, HandOver, Routed, Heard  PROVE  TerminalKeyReadable
  <2> DEFINE k == Head(pending).key
             alt == {"Alt", "Meta"} \cap termMods # {}
             Right(sent) == IF ~alt THEN Reads(sent) = {<<k, XtermModifiers(termMods)>>}
                            ELSE Head(sent) = ESC /\ Reads(Tail(sent)) = {<<k, XtermModifiers(termMods)>>}
  <2> SUFFICES ASSUME SpecialNext
               PROVE  /\ Mirrors(termMods, st.depressed)
                      /\ \A modes \in EncoderModes : Right(EncodeAndSend(k, termMods, termCaps, modes))
    BY DEF TerminalKeyReadable, Mirrors, KindsIn, HeldModifiers
  <2>0. dest = "Terminal" /\ pending # <<>> /\ Head(pending).type # "Up" /\ k \in SpecialKeys
    BY DEF SpecialNext
  <2>1. Head(pending) \in Events
    BY <1>3, <2>0 DEF TypeOK
  <2>2. k \in PlainKeys
    BY <2>0, <2>1, SpecialAlone DEF Events, Keys
  <2>3. Mirrors(termMods, st.depressed)
    BY <1>3, <2>0, <2>2, HeardPlain
  <2> HIDE DEF k
  <2>4. ASSUME NEW modes \in EncoderModes
        PROVE  Right(EncodeAndSend(k, termMods, termCaps, modes))
    <3> DEFINE b == SpecialBytes(k, termMods, modes)
    <3>1. ASSUME NEW x, x = SpecialBytes(k, termMods, modes)
          PROVE  /\ Reads(x) = {<<k, XtermModifiers(termMods)>>} /\ x # <<>>
                 /\ Tail(<<ESC>> \o x) = x /\ Head(<<ESC>> \o x) = ESC
                 /\ EncodeAndSend(k, termMods, termCaps, modes) = IF alt THEN <<ESC>> \o x ELSE x
      <4>1. /\ Reads(x) = {<<k, XtermModifiers(termMods)>>} /\ x # <<>>
            /\ Tail(<<ESC>> \o x) = x /\ Head(<<ESC>> \o x) = ESC
        BY <2>0, <3>1, SpecialRead
      <4> QED
        BY <2>0, <3>1, <4>1, SpecialEncoded
    <3> HIDE DEF b
    <3>2. b = SpecialBytes(k, termMods, modes)
      BY DEF b
    <3> QED
      BY <3>1, <3>2
  <2> QED
    BY <2>3, <2>4
<1> QED
  BY HeardInit, RoutedInit, LockRepeatCorrect, HandOverCorrect, <1>1, <1>2, <1>3, PTL DEF Spec
=============================================================================

--------------------------- MODULE FrontEndProofs ---------------------------
(* What holds of the UI's event loop for every view, every set of touches,    *)
(* points, sizes, places and outputs and every order of hands, server and     *)
(* loop: lifted hands leave no key pressed (LiftedReleases), the window is    *)
(* placed on its output (PlacedOnOutput), what the optimizer makes of the hit *)
(* regions keeps its limits (HitWithinLimits), and everything its type.       *)
EXTENDS FrontEnd, Induction

-----------------------------------------------------------------------------
(* Presses and releases in a sequence.                                        *)

\* Nothing is held after the steps of s, given whether nothing was held before:
\* the last step that matters is a release, or none is a press.
Rests(s, press, ends, before) ==
    \/ \E i \in 1..Len(s) : s[i] \in ends /\ \A j \in (i + 1)..Len(s) : s[j] \notin press
    \/ before /\ \A j \in 1..Len(s) : s[j] \notin press

\* A press comes only when nothing is held.
Orderly(s, press, ends, before) ==
    \A j \in 1..Len(s) : s[j] \in press =>
        \/ \E i \in 1..(j - 1) : s[i] \in ends /\ \A m \in (i + 1)..(j - 1) : s[m] \notin press
        \/ before /\ \A m \in 1..(j - 1) : s[m] \notin press

\* Without steps everything is as before.
LEMMA RestsEmpty ==
    ASSUME NEW press, NEW ends, NEW before \in BOOLEAN
    PROVE  /\ Rests(<<>>, press, ends, before) <=> before
           /\ Orderly(<<>>, press, ends, before)
  BY DEF Rests, Orderly

\* Rests and Orderly depend on what was held before in one direction.
LEMMA RestsMore ==
    ASSUME NEW S, NEW s \in Seq(S), NEW press, NEW ends, NEW a \in BOOLEAN, NEW b \in BOOLEAN,
           a => b
    PROVE  /\ Rests(s, press, ends, a) => Rests(s, press, ends, b)
           /\ Orderly(s, press, ends, a) => Orderly(s, press, ends, b)
  BY DEF Rests, Orderly

\* One more step: a release, or neither.
LEMMA RestsAppend ==
    ASSUME NEW S, NEW s \in Seq(S), NEW x \in S, NEW press, NEW ends, NEW before \in BOOLEAN
    PROVE  /\ x \in ends => Rests(Append(s, x), press, ends, before)
           /\ x \notin press /\ Rests(s, press, ends, before)
                => Rests(Append(s, x), press, ends, before)
<1>. DEFINE u == Append(s, x)
<1>1. Len(u) = Len(s) + 1 /\ Len(s) \in Nat /\ u[Len(s) + 1] = x
      /\ \A i \in 1..Len(s) : u[i] = s[i]
  OBVIOUS
<1>. HIDE DEF u
<1>2. x \in ends => Rests(u, press, ends, before)
  <2>1. Len(u) \in 1..Len(u) /\ \A j \in (Len(u) + 1)..Len(u) : u[j] \notin press
    BY <1>1
  <2>. QED  BY <1>1, <2>1 DEF Rests
<1>3. ASSUME x \notin press, Rests(s, press, ends, before) PROVE Rests(u, press, ends, before)
  <2>1. \A j \in 1..Len(u) : j \notin 1..Len(s) => u[j] \notin press
    BY <1>1, <1>3
  <2>2. CASE \E i \in 1..Len(s) : s[i] \in ends /\ \A j \in (i + 1)..Len(s) : s[j] \notin press
    <3>1. PICK i \in 1..Len(s) : s[i] \in ends /\ \A j \in (i + 1)..Len(s) : s[j] \notin press
      BY <2>2
    <3>2. \A j \in (i + 1)..Len(u) : u[j] \notin press
      BY <1>1, <2>1, <3>1
    <3>3. i \in 1..Len(u) /\ u[i] \in ends
      BY <1>1, <3>1
    <3>. QED  BY <3>2, <3>3 DEF Rests
  <2>3. CASE before /\ \A j \in 1..Len(s) : s[j] \notin press
    BY <1>1, <2>1, <2>3 DEF Rests
  <2>. QED  BY <1>3, <2>2, <2>3 DEF Rests
<1>. QED  BY <1>2, <1>3 DEF u

LEMMA OrderlyAppend ==
    ASSUME NEW S, NEW s \in Seq(S), NEW x \in S, NEW press, NEW ends, NEW before \in BOOLEAN,
           Orderly(s, press, ends, before), x \in press => Rests(s, press, ends, before)
    PROVE  Orderly(Append(s, x), press, ends, before)
<1>. DEFINE u == Append(s, x)
<1>1. Len(u) = Len(s) + 1 /\ Len(s) \in Nat /\ u[Len(s) + 1] = x
      /\ \A i \in 1..Len(s) : u[i] = s[i]
  OBVIOUS
<1>. HIDE DEF u
<1>. SUFFICES ASSUME NEW j \in 1..Len(u), u[j] \in press
     PROVE  \/ \E i \in 1..(j - 1) : u[i] \in ends /\ \A m \in (i + 1)..(j - 1) : u[m] \notin press
            \/ before /\ \A m \in 1..(j - 1) : u[m] \notin press
  BY DEF Orderly, u
<1>2. CASE j \in 1..Len(s)
  <2>1. \A m \in 1..(j - 1) : m \in 1..Len(s) /\ u[m] = s[m]
    BY <1>1, <1>2
  <2>2. s[j] \in press
    BY <1>1, <1>2
  <2>3. CASE before /\ \A m \in 1..(j - 1) : s[m] \notin press
    BY <2>1, <2>3
  <2>4. CASE \E i \in 1..(j - 1) : s[i] \in ends /\ \A m \in (i + 1)..(j - 1) : s[m] \notin press
    <3>1. PICK i \in 1..(j - 1) : s[i] \in ends /\ \A m \in (i + 1)..(j - 1) : s[m] \notin press
      BY <2>4
    <3>2. \A m \in (i + 1)..(j - 1) : m \in 1..(j - 1)
      BY <1>2
    <3>. QED  BY <2>1, <3>1, <3>2
  <2>. QED  BY <1>2, <2>2, <2>3, <2>4 DEF Orderly
<1>3. CASE j \notin 1..Len(s)
  <2>1. j = Len(s) + 1 /\ j - 1 = Len(s) /\ x \in press
    BY <1>1, <1>3
  <2>2. CASE before /\ \A m \in 1..Len(s) : s[m] \notin press
    BY <1>1, <2>1, <2>2
  <2>3. CASE \E i \in 1..Len(s) : s[i] \in ends /\ \A m \in (i + 1)..Len(s) : s[m] \notin press
    <3>1. PICK i \in 1..Len(s) : s[i] \in ends /\ \A m \in (i + 1)..Len(s) : s[m] \notin press
      BY <2>3
    <3>2. \A m \in (i + 1)..Len(s) : m \in 1..Len(s)
      BY <1>1
    <3>. QED  BY <1>1, <2>1, <3>1, <3>2
  <2>. QED  BY <2>1, <2>2, <2>3 DEF Rests
<1>. QED  BY <1>2, <1>3

\* The other way: what the last step must have been.
LEMMA RestsLast ==
    ASSUME NEW S, NEW s \in Seq(S), NEW x \in S, NEW press, NEW ends, NEW before \in BOOLEAN,
           press \cap ends = {}
    PROVE  /\ Rests(Append(s, x), press, ends, before)
                => x \notin press /\ (x \in ends \/ Rests(s, press, ends, before))
           /\ Orderly(Append(s, x), press, ends, before)
                => /\ Orderly(s, press, ends, before)
                   /\ x \in press => Rests(s, press, ends, before)
<1>. DEFINE u == Append(s, x)
<1>1. Len(u) = Len(s) + 1 /\ Len(s) \in Nat /\ u[Len(s) + 1] = x
      /\ \A i \in 1..Len(s) : u[i] = s[i]
  OBVIOUS
<1>. HIDE DEF u
<1>2. ASSUME Rests(u, press, ends, before)
      PROVE  x \notin press /\ (x \in ends \/ Rests(s, press, ends, before))
  <2>1. CASE before /\ \A j \in 1..Len(u) : u[j] \notin press
    <3>1. before /\ (\A j \in 1..Len(s) : s[j] \notin press) /\ x \notin press
      BY <1>1, <2>1
    <3>. QED  BY <3>1 DEF Rests
  <2>2. ASSUME NEW i \in 1..Len(u), u[i] \in ends, \A j \in (i + 1)..Len(u) : u[j] \notin press
        PROVE  x \notin press /\ (x \in ends \/ Rests(s, press, ends, before))
    <3>1. CASE i = Len(u)
      BY <1>1, <2>2, <3>1
    <3>2. CASE i # Len(u)
      <4>1. i \in 1..Len(s) /\ s[i] \in ends /\ x \notin press
        BY <1>1, <2>2, <3>2
      <4>2. \A j \in (i + 1)..Len(s) : j \in (i + 1)..Len(u) /\ j \in 1..Len(s)
        BY <1>1, <3>2
      <4>3. \A j \in (i + 1)..Len(s) : s[j] \notin press
        BY <1>1, <2>2, <4>2
      <4>. QED  BY <4>1, <4>3 DEF Rests
    <3>. QED  BY <3>1, <3>2
  <2>. QED  BY <1>2, <2>1, <2>2 DEF Rests
<1>3. ASSUME Orderly(u, press, ends, before) PROVE Orderly(s, press, ends, before)
  <2>. SUFFICES ASSUME NEW j \in 1..Len(s), s[j] \in press
       PROVE  \/ \E i \in 1..(j - 1) : s[i] \in ends /\ \A m \in (i + 1)..(j - 1) : s[m] \notin press
              \/ before /\ \A m \in 1..(j - 1) : s[m] \notin press
    BY DEF Orderly
  <2>1. j \in 1..Len(u) /\ u[j] \in press
    BY <1>1
  <2>2. \A m \in 1..(j - 1) : u[m] = s[m]
    BY <1>1
  <2>3. CASE before /\ \A m \in 1..(j - 1) : u[m] \notin press
    BY <2>2, <2>3
  <2>4. ASSUME NEW i \in 1..(j - 1), u[i] \in ends, \A m \in (i + 1)..(j - 1) : u[m] \notin press
        PROVE  \E k \in 1..(j - 1) : s[k] \in ends /\ \A m \in (k + 1)..(j - 1) : s[m] \notin press
    <3>1. \A m \in (i + 1)..(j - 1) : m \in 1..(j - 1)
      OBVIOUS
    <3>. QED  BY <2>2, <2>4, <3>1
  <2>. QED  BY <1>3, <2>1, <2>3, <2>4 DEF Orderly
<1>4. ASSUME Orderly(u, press, ends, before), x \in press PROVE Rests(s, press, ends, before)
  <2>1. Len(u) \in 1..Len(u) /\ u[Len(u)] \in press /\ Len(u) - 1 = Len(s)
    BY <1>1, <1>4
  <2>2. CASE before /\ \A m \in 1..Len(s) : u[m] \notin press
    BY <1>1, <2>2 DEF Rests
  <2>3. ASSUME NEW i \in 1..Len(s), u[i] \in ends, \A m \in (i + 1)..Len(s) : u[m] \notin press
        PROVE  Rests(s, press, ends, before)
    <3>1. \A m \in (i + 1)..Len(s) : m \in 1..Len(s)
      BY <1>1
    <3>. QED  BY <1>1, <2>3, <3>1 DEF Rests
  <2>. QED  BY <1>4, <2>1, <2>2, <2>3 DEF Orderly
<1>. QED  BY <1>2, <1>3, <1>4 DEF u

\* The first step is taken.
LEMMA RestsTail ==
    ASSUME NEW S, NEW s \in Seq(S), s # <<>>, NEW press, NEW ends, NEW before \in BOOLEAN,
           press \cap ends = {},
           NEW after \in BOOLEAN,
           Head(s) \in ends => after,
           Head(s) \notin press /\ before => after
    PROVE  /\ Rests(s, press, ends, before) => Rests(Tail(s), press, ends, after)
           /\ Orderly(s, press, ends, before) => Orderly(Tail(s), press, ends, after)
<1>. DEFINE u == Tail(s)
<1>1. Len(s) \in Nat \ {0} /\ Len(u) = Len(s) - 1 /\ Head(s) = s[1]
      /\ \A i \in 1..Len(u) : u[i] = s[i + 1]
  OBVIOUS
<1>. HIDE DEF u
<1>2. ASSUME Rests(s, press, ends, before) PROVE Rests(u, press, ends, after)
  <2>1. CASE before /\ \A j \in 1..Len(s) : s[j] \notin press
    <3>1. \A j \in 1..Len(u) : j + 1 \in 1..Len(s)
      BY <1>1
    <3>2. after /\ \A j \in 1..Len(u) : u[j] \notin press
      BY <1>1, <2>1, <3>1
    <3>. QED  BY <3>2 DEF Rests
  <2>2. ASSUME NEW i \in 1..Len(s), s[i] \in ends, \A j \in (i + 1)..Len(s) : s[j] \notin press
        PROVE  Rests(u, press, ends, after)
    <3>1. CASE i = 1
      <4>1. \A j \in 1..Len(u) : j + 1 \in (i + 1)..Len(s)
        BY <1>1, <3>1
      <4>2. \A j \in 1..Len(u) : u[j] \notin press
        BY <1>1, <2>2, <4>1
      <4>. QED  BY <1>1, <2>2, <3>1, <4>2 DEF Rests
    <3>2. CASE i # 1
      <4>1. i - 1 \in 1..Len(u) /\ u[i - 1] = s[i]
        BY <1>1, <3>2
      <4>2. \A j \in (i - 1 + 1)..Len(u) : j + 1 \in (i + 1)..Len(s) /\ u[j] = s[j + 1]
        BY <1>1, <3>2
      <4>. QED  BY <2>2, <4>1, <4>2 DEF Rests
    <3>. QED  BY <3>1, <3>2
  <2>. QED  BY <1>2, <2>1, <2>2 DEF Rests
<1>3. ASSUME Orderly(s, press, ends, before), NEW j \in 1..Len(u), u[j] \in press
      PROVE  \/ \E i \in 1..(j - 1) : u[i] \in ends /\ \A m \in (i + 1)..(j - 1) : u[m] \notin press
             \/ after /\ \A m \in 1..(j - 1) : u[m] \notin press
  <2>1. j + 1 \in 1..Len(s) /\ s[j + 1] \in press /\ (j + 1) - 1 = j
    BY <1>1, <1>3
  <2>2. CASE before /\ \A m \in 1..j : s[m] \notin press
    <3>1. \A m \in 1..(j - 1) : m + 1 \in 1..j /\ u[m] = s[m + 1]
      BY <1>1
    <3>2. 1 \in 1..j
      OBVIOUS
    <3>. QED  BY <1>1, <2>2, <3>1, <3>2
  <2>3. ASSUME NEW i \in 1..j, s[i] \in ends, \A m \in (i + 1)..j : s[m] \notin press
        PROVE  \/ \E k \in 1..(j - 1) : u[k] \in ends /\ \A m \in (k + 1)..(j - 1) : u[m] \notin press
               \/ after /\ \A m \in 1..(j - 1) : u[m] \notin press
    <3>1. CASE i = 1
      <4>1. \A m \in 1..(j - 1) : m + 1 \in (i + 1)..j /\ u[m] = s[m + 1]
        BY <1>1, <3>1
      <4>. QED  BY <1>1, <2>3, <3>1, <4>1
    <3>2. CASE i # 1
      <4>1. i - 1 \in 1..(j - 1) /\ u[i - 1] = s[i]
        BY <1>1, <3>2
      <4>2. \A m \in (i - 1 + 1)..(j - 1) : m + 1 \in (i + 1)..j /\ u[m] = s[m + 1]
        BY <1>1, <3>2
      <4>. QED  BY <2>3, <4>1, <4>2
    <3>. QED  BY <3>1, <3>2
  <2>. QED  BY <1>3, <2>1, <2>2, <2>3 DEF Orderly
<1>. QED  BY <1>2, <1>3 DEF Orderly, u

-----------------------------------------------------------------------------
(* The surface, the messages of the server and the events.                    *)

Wins == Sizes \cup {Window}

Flags == BOOLEAN

\* Requests that wait for an answer.
Requests == Seq(Wins)

SurfaceType ==
    [size : Wins, visible : Flags, ready : Flags, configured : Flags,
     created : Flags, pending : Wins \cup {<<0, 0>>}, output : Outputs \cup {None},
     margins : Int \X Int, positioned : Flags, place : Places \cup {None},
     pointer : Points \cup {None}, touch : Points \cup {None},
     active : SUBSET Touches, positions : [Touches -> Points \cup {None}],
     out : Requests, wants : Requests, shm : Wins \cup {None}, buffer : Wins \cup {None},
     at : Int \X Int, mapped : Flags, maps : Nat]

\* The surface is well formed: the tracker knows where its touches are; a layer
\* surface was created for the size it has.
SurfaceOK(s) ==
    /\ s \in SurfaceType
    /\ \A t \in s.active : s.positions[t] \in Points
    /\ backend = "wayland" => s.created /\ s.ready /\ s.pending = s.size
    /\ backend = "x11" => s.pending \in Wins
    /\ backend \notin {"wayland", "x11"} => s.pending = <<0, 0>>

Messages ==
    [t : {"down", "move"}, id : Touches, p : Points]
    \cup [t : {"up"}, id : Touches]
    \cup [t : {"motion", "press"}, p : Points]
    \cup [t : {"leave", "release"}]
    \cup (IF backend = "x11" THEN {} ELSE [t : {"cancel"}])
    \cup [t : {"configure"}, size : IF backend = "wayland" THEN Wins \cup {<<0, 0>>} ELSE Wins]
    \cup [t : {"mode"}, size : Outputs]
    \cup [t : {"expose"}]

Events ==
    [t : {"touchPressed", "pointerPressed"}, p : Points \cup {<<0, 0>>}]
    \cup [t : {"touchMoved", "touchReleased", "touchCancelled",
               "pointerMoved", "pointerLeft", "pointerReleased"}]
    \cup [t : {"resized"}, size : Wins]

\* The operations leave the tracker and the pointer alone.
Untouched(s, u) ==
    /\ u.active = s.active /\ u.positions = s.positions /\ u.pointer = s.pointer

LEMMA FlagsTyped == TRUE \in Flags /\ FALSE \in Flags
  BY DEF Flags

\* None is no pair.
LEMMA NonePair ==
    /\ None \notin Wins /\ None \notin Points /\ None \notin Places /\ None \notin Outputs
    /\ \A w \in Wins \cup Outputs : w[1] \in Nat /\ w[2] \in Nat /\ w = <<w[1], w[2]>>
    /\ \A p \in Points \cup Places : p[1] \in Int /\ p[2] \in Int /\ p = <<p[1], p[2]>>
  BY FrontEndAssumption DEF Wins, None

\* Margins are a pair of numbers.
LEMMA MarginsTyped ==
    ASSUME NEW xy \in Int \X Int, NEW size \in Int \X Int, NEW output \in Int \X Int
    PROVE  MarginsFor(xy, size, output) \in Int \X Int
  BY DEF MarginsFor, Clip, NonNeg

LEMMA FlushTyped ==
    ASSUME NEW s \in SurfaceType
    PROVE  /\ Flush(s) \in SurfaceType /\ Untouched(s, Flush(s))
           /\ Flush(s).size = s.size /\ Flush(s).pending = s.pending
           /\ Flush(s).created = s.created /\ Flush(s).ready = s.ready /\ Flush(s).output = s.output
           /\ Flush(s).margins = s.margins /\ Flush(s).positioned = s.positioned
<1>. DEFINE all == s.wants \o s.out
            none == <<>>
<1>1. all \in Requests /\ none \in Requests
  BY DEF SurfaceType, Requests
<1>2. Flush(s) = [s EXCEPT !.wants = all, !.out = none]
  BY DEF Flush
<1>. HIDE DEF all, none
<1>. QED  BY Zenon, FlagsTyped, <1>1, <1>2 DEF SurfaceType, Untouched

LEMMA RefreshTyped ==
    ASSUME NEW s \in SurfaceType
    PROVE  /\ RefreshOutput(s) \in SurfaceType /\ Untouched(s, RefreshOutput(s))
           /\ RefreshOutput(s).size = s.size /\ RefreshOutput(s).pending = s.pending
           /\ RefreshOutput(s).created = s.created /\ RefreshOutput(s).ready = s.ready
           /\ RefreshOutput(s).output = s.output
<1>. DEFINE centre == <<NonNeg(s.output[1] - s.pending[1]) \div 2, NonNeg(s.output[2] - s.pending[2])>>
            xy == IF s.place = None THEN centre ELSE s.place
            m == MarginsFor(xy, s.pending, s.output)
<1>1. CASE s.output = None \/ ~ s.created \/ s.positioned
  BY <1>1 DEF RefreshOutput, Untouched
<1>2. CASE ~ (s.output = None \/ ~ s.created \/ s.positioned)
  <2>1. s.output \in Outputs /\ s.pending \in Int \X Int /\ s.output \in Int \X Int
    BY <1>2, FrontEndAssumption DEF SurfaceType, Wins
  <2>2. centre \in Int \X Int
    BY <2>1 DEF NonNeg
  <2>3. xy \in Int \X Int
    BY <2>2, FrontEndAssumption DEF SurfaceType
  <2>4. m \in Int \X Int
    BY <2>1, <2>3, MarginsTyped
  <2>5. RefreshOutput(s) = [s EXCEPT !.margins = m, !.positioned = TRUE, !.place = None]
    BY <1>2 DEF RefreshOutput
  <2>. HIDE DEF m
  <2>. QED  BY Zenon, FlagsTyped, <2>4, <2>5 DEF SurfaceType, Untouched
<1>. QED  BY <1>1, <1>2

\* Creating the layer surface for a size.
LEMMA CreateTyped ==
    ASSUME NEW s \in SurfaceType, NEW size \in Wins
    PROVE  /\ EnsureCreated(s, size) \in SurfaceType /\ Untouched(s, EnsureCreated(s, size))
           /\ EnsureCreated(s, size).size = s.size /\ EnsureCreated(s, size).pending = size
           /\ EnsureCreated(s, size).created /\ EnsureCreated(s, size).ready = s.ready
           /\ EnsureCreated(s, size).output = s.output
<1>. DEFINE o == Append(s.out, size)
            u == [s EXCEPT !.created = TRUE, !.pending = size, !.out = o]
<1>0. o \in Requests
  BY DEF SurfaceType, Requests
<1>3. [s EXCEPT !.created = TRUE, !.pending = size, !.out = Append(@, size)] = u
  OBVIOUS
<1>. HIDE DEF o
<1>1. /\ u \in SurfaceType /\ Untouched(s, u)
      /\ u.size = s.size /\ u.pending = size /\ u.created /\ u.ready = s.ready
      /\ u.output = s.output
  BY Zenon, FlagsTyped, <1>0 DEF SurfaceType, Untouched
<1>2. EnsureCreated(s, size) = RefreshOutput(u)
  BY <1>3 DEF EnsureCreated
<1>. HIDE DEF u
<1>. QED  BY <1>1, <1>2, RefreshTyped DEF Untouched

\* What the operations of the trait keep.
LEMMA SetSizeOK ==
    ASSUME NEW s, SurfaceOK(s), NEW size \in Wins
    PROVE  /\ SurfaceOK(SurfaceSetSize(s, size)) /\ Untouched(s, SurfaceSetSize(s, size))
           /\ SurfaceSetSize(s, size).output = s.output
           /\ SurfaceSetSize(s, size).size = size
<1>. DEFINE u == [s EXCEPT !.size = size]
            all == Append(s.wants, size)
            v == [s EXCEPT !.size = size, !.pending = size, !.wants = all]
<1>0. s \in SurfaceType
  BY DEF SurfaceOK
<1>6. all \in Requests /\ X11SetSize(s, size) = v
  BY <1>0 DEF SurfaceType, Requests, X11SetSize
<1>. HIDE DEF all
<1>1. /\ u \in SurfaceType /\ Untouched(s, u) /\ u.pending = s.pending /\ u.output = s.output
      /\ u.size = size /\ u.ready = s.ready
  BY Zenon, FlagsTyped, <1>0 DEF SurfaceType, Untouched
<1>5. /\ v \in SurfaceType /\ Untouched(s, v) /\ v.pending = size /\ v.output = s.output
      /\ v.size = size
  BY Zenon, FlagsTyped, <1>0, <1>6 DEF SurfaceType, Untouched
<1>. HIDE DEF u, v
<1>2. CASE backend = "wayland"
  <2>0. s.ready
    BY <1>2 DEF SurfaceOK
  <2>1. SurfaceSetSize(s, size) = EnsureCreated(u, size)
    BY <1>2, <2>0 DEF SurfaceSetSize, WlSetSize, u
  <2>. DEFINE w == EnsureCreated(u, size)
  <2>2. /\ w \in SurfaceType /\ Untouched(s, w) /\ w.size = size /\ w.pending = size
        /\ w.created /\ w.ready = s.ready /\ w.output = s.output
    BY <1>1, CreateTyped DEF Untouched
  <2>. HIDE DEF w
  <2>3. w.ready
    BY <2>0, <2>2
  <2>4. SurfaceOK(w)
    BY <1>2, <2>2, <2>3 DEF Untouched, SurfaceOK
  <2>. QED  BY <2>1, <2>2, <2>4 DEF w
<1>3. CASE backend = "x11"
  <2>1. SurfaceSetSize(s, size) = v
    BY <1>3, <1>6 DEF SurfaceSetSize
  <2>. QED  BY <1>3, <1>5, <2>1 DEF Untouched, SurfaceOK
<1>4. CASE backend # "x11" /\ backend # "wayland"
  <2>1. SurfaceSetSize(s, size) = u
    BY <1>4 DEF SurfaceSetSize, u
  <2>. QED  BY <1>1, <1>4, <2>1 DEF Untouched, SurfaceOK
<1>. QED  BY <1>2, <1>3, <1>4

LEMMA SetPositionOK ==
    ASSUME NEW s, SurfaceOK(s), NEW xy \in Int \X Int,
           backend = "wayland" /\ xy \notin Places => s.output # None
    PROVE  /\ SurfaceOK(SurfaceSetPosition(s, xy)) /\ Untouched(s, SurfaceSetPosition(s, xy))
           /\ SurfaceSetPosition(s, xy).output = s.output
           /\ SurfaceSetPosition(s, xy).size = s.size
<1>0. s \in SurfaceType
  BY DEF SurfaceOK
<1>2. CASE backend = "wayland" /\ s.output = None
  <2>1. SurfaceSetPosition(s, xy) = [s EXCEPT !.place = xy]
    BY <1>2 DEF SurfaceSetPosition, WlSetPosition
  <2>2. xy \in Places
    BY <1>2
  <2>3. /\ SurfaceSetPosition(s, xy) \in SurfaceType /\ Untouched(s, SurfaceSetPosition(s, xy))
        /\ SurfaceSetPosition(s, xy).pending = s.pending
        /\ SurfaceSetPosition(s, xy).created = s.created /\ SurfaceSetPosition(s, xy).ready = s.ready
        /\ SurfaceSetPosition(s, xy).output = s.output
        /\ SurfaceSetPosition(s, xy).size = s.size
    BY Zenon, FlagsTyped, <1>0, <2>1, <2>2 DEF SurfaceType, Untouched
  <2>. QED  BY <2>3 DEF Untouched, SurfaceOK
<1>3. CASE backend = "wayland" /\ s.output # None
  <2>. DEFINE m == MarginsFor(xy, s.size, s.output)
              u == [s EXCEPT !.margins = m, !.positioned = TRUE, !.place = None]
  <2>0. s.created
    BY <1>3 DEF SurfaceOK
  <2>1. SurfaceSetPosition(s, xy) = Flush(u)
    BY <1>3, <2>0 DEF SurfaceSetPosition, WlSetPosition
  <2>2. s.size \in Int \X Int /\ s.output \in Int \X Int
    BY <1>0, <1>3, FrontEndAssumption DEF SurfaceType, Wins
  <2>3. m \in Int \X Int
    BY <2>2, MarginsTyped
  <2>. HIDE DEF m
  <2>4. /\ u \in SurfaceType /\ Untouched(s, u) /\ u.pending = s.pending
        /\ u.created = s.created /\ u.ready = s.ready /\ u.output = s.output /\ u.size = s.size
    BY Zenon, FlagsTyped, <1>0, <2>3 DEF SurfaceType, Untouched
  <2>. HIDE DEF u
  <2>. QED  BY <2>1, <2>4, FlushTyped DEF Untouched, SurfaceOK
<1>4. CASE backend = "x11"
  <2>. DEFINE all == Append(s.wants, s.pending)
  <2>0. all \in Requests
    BY <1>0, <1>4 DEF SurfaceOK, SurfaceType, Requests
  <2>1. SurfaceSetPosition(s, xy) = [s EXCEPT !.at = xy, !.wants = all]
    BY <1>4 DEF SurfaceSetPosition, X11SetPosition
  <2>. HIDE DEF all
  <2>2. /\ SurfaceSetPosition(s, xy) \in SurfaceType /\ Untouched(s, SurfaceSetPosition(s, xy))
        /\ SurfaceSetPosition(s, xy).pending = s.pending
        /\ SurfaceSetPosition(s, xy).output = s.output
        /\ SurfaceSetPosition(s, xy).size = s.size
    BY Zenon, FlagsTyped, <1>0, <2>0, <2>1 DEF SurfaceType, Untouched
  <2>. QED  BY <1>4, <2>2 DEF Untouched, SurfaceOK
<1>5. CASE backend # "x11" /\ backend # "wayland"
  BY <1>5 DEF SurfaceSetPosition, Untouched
<1>. QED  BY <1>2, <1>3, <1>4, <1>5

LEMMA SetVisibleOK ==
    ASSUME NEW s, SurfaceOK(s), NEW v \in BOOLEAN
    PROVE  /\ SurfaceOK(SurfaceSetVisible(s, v)) /\ Untouched(s, SurfaceSetVisible(s, v))
           /\ SurfaceSetVisible(s, v).output = s.output
           /\ SurfaceSetVisible(s, v).size = s.size
           /\ s.ready => SurfaceSetVisible(s, v).ready
<1>. DEFINE w == SurfaceSetVisible(s, v)
<1>0. s \in SurfaceType
  BY DEF SurfaceOK
<1>1. CASE backend = "wayland" /\ v
  <2>. DEFINE a == [s EXCEPT !.visible = TRUE]
              b == Flush(EnsureCreated(a, s.size))
  <2>1. /\ a \in SurfaceType /\ Untouched(s, a) /\ a.size = s.size /\ a.output = s.output
        /\ s.size \in Wins
    BY Zenon, FlagsTyped, <1>0 DEF SurfaceType, Untouched
  <2>2. w = [b EXCEPT !.ready = TRUE]
    BY <1>1 DEF SurfaceSetVisible, WlSetVisible
  <2>. HIDE DEF a
  <2>3. /\ b \in SurfaceType /\ Untouched(s, b) /\ b.size = s.size /\ b.pending = s.size
        /\ b.created /\ b.output = s.output
    BY <2>1, CreateTyped, FlushTyped DEF Untouched
  <2>. HIDE DEF b
  <2>4. /\ w \in SurfaceType /\ Untouched(s, w) /\ w.size = s.size /\ w.pending = s.size
        /\ w.created /\ w.output = s.output /\ w.ready
    BY <2>2, <2>3 DEF SurfaceType, Untouched
  <2>. HIDE DEF w
  <2>. QED  BY <1>1, <2>4 DEF Untouched, SurfaceOK, w
<1>2. CASE backend = "wayland" /\ ~ v
  <2>. DEFINE a == [s EXCEPT !.visible = FALSE, !.buffer = None]
  <2>1. /\ a \in SurfaceType /\ Untouched(s, a) /\ a.size = s.size /\ a.output = s.output
        /\ a.pending = s.pending
    BY Zenon, FlagsTyped, <1>0 DEF SurfaceType, Untouched
  <2>5. a.created = s.created /\ a.ready = s.ready
    BY Zenon, FlagsTyped, <1>0 DEF SurfaceType
  <2>2. w = Flush(a)
    BY <1>2 DEF SurfaceSetVisible, WlSetVisible
  <2>3. Flush(a).ready = a.ready
    BY <2>1 DEF Flush, SurfaceType
  <2>. HIDE DEF a
  <2>4. /\ w \in SurfaceType /\ Untouched(s, w) /\ w.size = s.size /\ w.pending = s.pending
        /\ w.created = s.created /\ w.ready = s.ready /\ w.output = s.output
    BY <2>1, <2>2, <2>3, <2>5, FlushTyped DEF Untouched
  <2>. HIDE DEF w
  <2>. QED  BY <1>2, <2>4 DEF Untouched, SurfaceOK, w
<1>3. CASE backend = "x11"
  <2>. DEFINE n == IF s.mapped THEN s.maps ELSE s.maps + 1
  <2>1. n \in Nat
    BY <1>0 DEF SurfaceType
  <2>2. CASE v
    <3>1. w = [s EXCEPT !.visible = TRUE, !.ready = TRUE, !.maps = n]
      BY <1>3, <2>2 DEF SurfaceSetVisible, X11SetVisible
    <3>. HIDE DEF w, n
    <3>2. w \in SurfaceType /\ w.ready
      BY Zenon, FlagsTyped, <1>0, <2>1, <3>1 DEF SurfaceType
    <3>3. /\ Untouched(s, w) /\ w.size = s.size /\ w.pending = s.pending
          /\ w.output = s.output
      BY Zenon, FlagsTyped, <1>0, <3>1 DEF SurfaceType, Untouched
    <3>. QED  BY <1>3, <3>2, <3>3 DEF Untouched, SurfaceOK, w
  <2>3. CASE ~ v
    <3>1. w = [s EXCEPT !.visible = FALSE, !.mapped = FALSE, !.buffer = None]
      BY <1>3, <2>3 DEF SurfaceSetVisible, X11SetVisible
    <3>. HIDE DEF w, n
    <3>2. w \in SurfaceType /\ w.ready = s.ready
      BY Zenon, FlagsTyped, <1>0, <3>1 DEF SurfaceType
    <3>3. /\ Untouched(s, w) /\ w.size = s.size /\ w.pending = s.pending
          /\ w.output = s.output
      BY Zenon, FlagsTyped, <1>0, <3>1 DEF SurfaceType, Untouched
    <3>. QED  BY <1>3, <3>2, <3>3 DEF Untouched, SurfaceOK, w
  <2>. QED  BY <2>2, <2>3
<1>4. CASE backend # "x11" /\ backend # "wayland"
  <2>. DEFINE r == s.ready \/ (v /\ ValidSize(s.size))
  <2>1. r \in Flags /\ v \in Flags /\ (s.ready => r)
    BY DEF Flags
  <2>2. w = [s EXCEPT !.visible = v, !.ready = r]
    BY <1>4 DEF SurfaceSetVisible, NullSetVisible
  <2>. HIDE DEF w, r
  <2>3. w \in SurfaceType /\ w.ready = r
    BY Zenon, FlagsTyped, <1>0, <2>1, <2>2 DEF SurfaceType
  <2>4. /\ Untouched(s, w) /\ w.size = s.size /\ w.pending = s.pending
        /\ w.output = s.output
    BY Zenon, FlagsTyped, <1>0, <2>2 DEF SurfaceType, Untouched
  <2>. QED  BY <1>4, <2>1, <2>3, <2>4 DEF Untouched, SurfaceOK, w
<1>. QED  BY <1>1, <1>2, <1>3, <1>4

LEMMA PresentOK ==
    ASSUME NEW s, SurfaceOK(s), NEW size \in Wins
    PROVE  /\ SurfaceOK(Present(s, size)) /\ Untouched(s, Present(s, size))
           /\ Present(s, size).output = s.output /\ Present(s, size).size = s.size
           /\ backend = "wayland" => /\ Present(s, size).margins = s.margins
                                     /\ Present(s, size).positioned = s.positioned
                                     /\ Present(s, size).ready = s.ready
<1>. DEFINE w == Present(s, size)
<1>0. s \in SurfaceType
  BY DEF SurfaceOK
<1>1. CASE backend = "wayland"
  <2>1. s.created
    BY <1>1 DEF SurfaceOK
  <2>. DEFINE c == SharedBuffer(s, size)
  <2>5. c \in Wins \cup {None} /\ s.shm \in Wins \cup {None}
    BY <1>0 DEF SharedBuffer, SurfaceType
  <2>2. \/ w = [s EXCEPT !.shm = s.shm, !.buffer = None]
        \/ w = Flush([s EXCEPT !.shm = c, !.buffer = c])
    BY <1>0, <1>1, <2>1 DEF Present, WlPresent, SurfaceType
  <2>. HIDE DEF c
  <2>3. ASSUME NEW h \in Wins \cup {None}, NEW b \in Wins \cup {None}
        PROVE  LET a == [s EXCEPT !.shm = h, !.buffer = b]
               IN  /\ a \in SurfaceType /\ Untouched(s, a) /\ a.size = s.size
                   /\ a.output = s.output /\ a.pending = s.pending /\ a.created = s.created
                   /\ a.ready = s.ready /\ a.margins = s.margins /\ a.positioned = s.positioned
    BY Zenon, FlagsTyped, <1>0 DEF SurfaceType, Untouched
  <2>4. /\ w \in SurfaceType /\ Untouched(s, w) /\ w.size = s.size /\ w.pending = s.pending
        /\ w.created = s.created /\ w.ready = s.ready /\ w.output = s.output
        /\ w.margins = s.margins /\ w.positioned = s.positioned
    <3>. DEFINE A(h, b) == [s EXCEPT !.shm = h, !.buffer = b]
    <3>1. /\ None \in Wins \cup {None}
          /\ (w = A(s.shm, None) \/ w = Flush(A(c, c)))
      BY <2>2
    <3>2. \A h, b \in Wins \cup {None} :
             /\ A(h, b) \in SurfaceType /\ Untouched(s, A(h, b)) /\ A(h, b).size = s.size
             /\ A(h, b).output = s.output /\ A(h, b).pending = s.pending
             /\ A(h, b).created = s.created /\ A(h, b).ready = s.ready
             /\ A(h, b).margins = s.margins /\ A(h, b).positioned = s.positioned
      BY <2>3
    <3>. HIDE DEF A, w
    <3>. QED  BY <2>5, <3>1, <3>2, FlushTyped DEF Untouched
  <2>. HIDE DEF w
  <2>. QED  BY <1>1, <2>4 DEF Untouched, SurfaceOK, w
<1>2. CASE backend = "x11"
  <2>. DEFINE b == IF s.mapped THEN size ELSE None
  <2>1. b \in Wins \cup {None}
    OBVIOUS
  <2>2. w = [s EXCEPT !.buffer = b]
    BY <1>2 DEF Present, X11Present
  <2>4. /\ w \in SurfaceType /\ Untouched(s, w) /\ w.size = s.size /\ w.pending = s.pending
        /\ w.output = s.output
    <3>. HIDE DEF w, b
    <3>. QED  BY Zenon, <1>0, <2>1, <2>2 DEF SurfaceType, Untouched
  <2>. HIDE DEF w
  <2>. QED  BY <1>2, <2>4 DEF Untouched, SurfaceOK, w
<1>3. CASE backend # "x11" /\ backend # "wayland"
  <2>2. w = [s EXCEPT !.ready = s.visible]
    BY <1>3 DEF Present, NullPresent
  <2>4. /\ w \in SurfaceType /\ Untouched(s, w) /\ w.size = s.size /\ w.pending = s.pending
        /\ w.output = s.output
    <3>. HIDE DEF w
    <3>. QED  BY Zenon, FlagsTyped, <1>0, <2>2 DEF SurfaceType, Untouched
  <2>. HIDE DEF w
  <2>. QED  BY <1>3, <2>4 DEF Untouched, SurfaceOK, w
<1>. QED  BY <1>1, <1>2, <1>3

-----------------------------------------------------------------------------
(* One message: what it does to the surface and which events it makes.        *)

PointerDowns == {e \in Events : e.t = "pointerPressed"}
PointerEnds == {e \in Events : e.t \in {"pointerReleased", "pointerLeft"}}
TouchDowns == {e \in Events : e.t = "touchPressed"}
TouchEnds == {e \in Events : e.t \in {"touchReleased", "touchCancelled"}}

Presses == {m \in Messages : m.t = "press"}
Releases == {m \in Messages : m.t \in {"release", "leave"}}
Downs == {m \in Messages : m.t = "down"}
Ups == {m \in Messages : m.t \in {"up", "cancel"}}

\* What a message of the pointer, and one of a touch on Wayland, is made of.
PointerMade(m, evs) ==
    /\ m \in Presses => \E e \in PointerDowns : evs = <<e>>
    /\ m \in Releases => \E e \in PointerEnds : evs = <<e>>
    /\ m \notin Presses \cup Releases =>
          \A i \in 1..Len(evs) : evs[i] \notin PointerDowns

TouchMade(m, evs) ==
    /\ m \in Downs => \E e \in TouchDowns : evs = <<e>>
    /\ m \in Ups => \E e \in TouchEnds : evs = <<e>>
    /\ m \notin Downs \cup Ups => \A i \in 1..Len(evs) : evs[i] \notin TouchDowns

\* On X11 the tracker stands between: when its last touch goes, it says so.
TouchTracked(s, m, u, evs) ==
    /\ u.active = CASE m.t = "down" -> s.active \cup {m.id}
                    [] m.t = "up" -> s.active \ {m.id}
                    [] OTHER -> s.active
    /\ u.active = {} =>
          \/ s.active = {} /\ \A i \in 1..Len(evs) : evs[i] \notin TouchDowns
          \/ \E e \in TouchEnds : evs = <<e>>

\* At most two events, the second a press by the tracker.
Made(evs) ==
    \/ evs = <<>>
    \/ \E e \in Events : evs = <<e>>
    \/ \E e \in TouchEnds, f \in TouchDowns : evs = <<e>> \o <<f>>

\* A message is of one of four kinds.
LEMMA MessageKinds ==
    ASSUME NEW m \in Messages
    PROVE  \/ m.t \in {"down", "move"} /\ m.id \in Touches /\ m.p \in Points
           \/ m.t = "up" /\ m.id \in Touches
           \/ m.t \in {"motion", "press"} /\ m.p \in Points
           \/ m.t \in {"leave", "release"}
           \/ m.t = "cancel" /\ backend # "x11"
           \/ /\ m.t = "configure" /\ m.size \in Wins \cup {<<0, 0>>}
              /\ backend # "wayland" => m.size \in Wins
           \/ m.t = "mode" /\ m.size \in Outputs
           \/ m.t = "expose"
  BY DEF Messages

\* The events, by their kind.
LEMMA EventsMade ==
    /\ \A p \in Points \cup {<<0, 0>>} :
          [t |-> "touchPressed", p |-> p] \in TouchDowns
          /\ [t |-> "pointerPressed", p |-> p] \in PointerDowns
    /\ [t |-> "touchReleased"] \in TouchEnds /\ [t |-> "touchCancelled"] \in TouchEnds
    /\ [t |-> "pointerReleased"] \in PointerEnds /\ [t |-> "pointerLeft"] \in PointerEnds
    /\ [t |-> "touchMoved"] \in Events /\ [t |-> "pointerMoved"] \in Events
    /\ \A w \in Wins : [t |-> "resized", size |-> w] \in Events
  BY DEF Events, TouchDowns, TouchEnds, PointerDowns, PointerEnds

\* The first of the touches is one of them.
LEMMA FirstIsOne ==
    ASSUME NEW ids \in SUBSET Touches, ids # {}
    PROVE  First(ids) \in ids
<1>1. \E t \in ids : \A u \in ids : t <= u
  BY LeastNat, TouchAssumption
<1>. QED  BY <1>1 DEF First

\* What a message does, all together.
Dispatches(s, m, u, evs) ==
    /\ SurfaceOK(u) /\ Made(evs) /\ PointerMade(m, evs)
    /\ backend # "x11" => TouchMade(m, evs)
    /\ backend = "x11" => TouchTracked(s, m, u, evs)

\* An event of neither kind that matters: the rest of what a message does follows.
LEMMA MadeNone ==
    ASSUME NEW s, NEW m \in Messages, NEW u, SurfaceOK(u), u.active = s.active,
           m.t \in {"move", "motion", "configure", "mode", "expose"},
           NEW evs, evs = <<>> \/ \E e \in Events : evs = <<e>> /\ e.t \in {"touchMoved", "pointerMoved", "resized"}
    PROVE  Dispatches(s, m, u, evs)
<1>1. m \notin Presses \cup Releases \cup Downs \cup Ups
  BY DEF Presses, Releases, Downs, Ups
<1>2. Made(evs) /\ \A i \in 1..Len(evs) : evs[i] \notin PointerDowns /\ evs[i] \notin TouchDowns
  <2>1. CASE evs = <<>>
    BY <2>1 DEF Made
  <2>2. ASSUME NEW e \in Events, evs = <<e>>, e.t \in {"touchMoved", "pointerMoved", "resized"}
        PROVE  Made(evs) /\ \A i \in 1..Len(evs) : evs[i] \notin PointerDowns /\ evs[i] \notin TouchDowns
    BY <2>2 DEF Made, PointerDowns, TouchDowns
  <2>. QED  BY <2>1, <2>2
<1>3. backend = "x11" => TouchTracked(s, m, u, evs)
  BY <1>2 DEF TouchTracked
<1>. QED  BY <1>1, <1>2, <1>3 DEF Dispatches, PointerMade, TouchMade

\* One event of the pointer.
LEMMA MadePointer ==
    ASSUME NEW s, NEW m \in Messages, NEW u, SurfaceOK(u), u.active = s.active, NEW e,
           m.t \in {"press", "release", "leave"},
           m.t = "press" => e \in PointerDowns, m.t # "press" => e \in PointerEnds
    PROVE  Dispatches(s, m, u, <<e>>)
<1>1. m \notin Downs \cup Ups /\ (m \in Presses <=> m.t = "press")
      /\ (m \in Releases <=> m.t # "press")
  BY DEF Presses, Releases, Downs, Ups
<1>2. e \in Events /\ e \notin TouchDowns /\ e.t \in {"pointerPressed", "pointerReleased", "pointerLeft"}
  BY DEF PointerDowns, PointerEnds, TouchDowns
<1>3. Made(<<e>>) /\ \A i \in 1..Len(<<e>>) : <<e>>[i] \notin TouchDowns
  BY <1>2 DEF Made
<1>4. backend = "x11" => TouchTracked(s, m, u, <<e>>)
  BY <1>3 DEF TouchTracked
<1>5. PointerMade(m, <<e>>)
  BY <1>1 DEF PointerMade
<1>. QED  BY <1>1, <1>3, <1>4, <1>5 DEF Dispatches, TouchMade

\* Fields of the surface that carry no size.
LEMMA FieldOK ==
    ASSUME NEW s, SurfaceOK(s), NEW p \in Points \cup {None}
    PROVE  /\ SurfaceOK([s EXCEPT !.pointer = p]) /\ [s EXCEPT !.pointer = p].active = s.active
           /\ SurfaceOK([s EXCEPT !.touch = p]) /\ [s EXCEPT !.touch = p].active = s.active
           /\ backend = "wayland" =>
                 /\ SurfaceOK([s EXCEPT !.configured = TRUE])
                 /\ [s EXCEPT !.configured = TRUE].active = s.active
<1>0. s \in SurfaceType
  BY DEF SurfaceOK
<1>. DEFINE a == [s EXCEPT !.pointer = p]
            b == [s EXCEPT !.touch = p]
            c == [s EXCEPT !.configured = TRUE]
<1>1. a \in SurfaceType /\ a.active = s.active /\ a.positions = s.positions
      /\ a.created = s.created /\ a.ready = s.ready /\ a.pending = s.pending /\ a.size = s.size
  BY Zenon, <1>0 DEF SurfaceType
<1>2. b \in SurfaceType /\ b.active = s.active /\ b.positions = s.positions
      /\ b.created = s.created /\ b.ready = s.ready /\ b.pending = s.pending /\ b.size = s.size
  BY Zenon, <1>0 DEF SurfaceType
<1>3. c \in SurfaceType /\ c.active = s.active /\ c.positions = s.positions
      /\ c.created = s.created /\ c.ready = s.ready /\ c.pending = s.pending /\ c.size = s.size
  BY Zenon, FlagsTyped, <1>0 DEF SurfaceType
<1>. HIDE DEF a, b, c
<1>. QED  BY <1>1, <1>2, <1>3 DEF SurfaceOK, a, b, c

LEMMA PointerDispatched ==
    ASSUME NEW s, SurfaceOK(s), NEW m \in Messages, m.t \in {"motion", "leave", "press", "release"}
    PROVE  Dispatches(s, m, DispatchPointer(s, m)[1], DispatchPointer(s, m)[2])
<1>0. s.pointer \in Points \cup {None}
  BY Zenon DEF SurfaceOK, SurfaceType
<1>1. CASE m.t = "motion"
  <2>. DEFINE u == [s EXCEPT !.pointer = m.p]
              e == [t |-> "pointerMoved"]
  <2>1. m.p \in Points
    BY <1>1, MessageKinds
  <2>2. DispatchPointer(s, m)[1] = u /\ DispatchPointer(s, m)[2] = <<e>>
    BY <1>1 DEF DispatchPointer
  <2>3. SurfaceOK(u) /\ u.active = s.active
    BY <2>1, FieldOK
  <2>4. e \in Events /\ e.t = "pointerMoved"
    BY <2>1, EventsMade
  <2>. HIDE DEF u, e
  <2>. QED  BY <1>1, <2>2, <2>3, <2>4, MadeNone
<1>2. CASE m.t = "leave"
  <2>. DEFINE u == [s EXCEPT !.pointer = None]
              e == [t |-> "pointerLeft"]
  <2>2. DispatchPointer(s, m)[1] = u /\ DispatchPointer(s, m)[2] = <<e>>
    BY <1>2 DEF DispatchPointer
  <2>3. SurfaceOK(u) /\ u.active = s.active
    BY FieldOK
  <2>4. e \in PointerEnds
    BY EventsMade
  <2>. HIDE DEF u, e
  <2>. QED  BY <1>2, <2>2, <2>3, <2>4, MadePointer
<1>3. CASE m.t = "release"
  <2>1. DispatchPointer(s, m) = <<s, <<[t |-> "pointerReleased"]>>>>
    BY <1>3 DEF DispatchPointer
  <2>. QED  BY <1>3, <2>1, EventsMade, MadePointer
<1>4. CASE m.t = "press"
  <2>. DEFINE p == IF backend = "x11" THEN m.p
                   ELSE IF s.pointer = None THEN <<0, 0>> ELSE s.pointer
              e == [t |-> "pointerPressed", p |-> p]
  <2>1. DispatchPointer(s, m)[1] = s /\ DispatchPointer(s, m)[2] = <<e>>
    BY <1>4 DEF DispatchPointer
  <2>2. m.p \in Points
    BY <1>4, MessageKinds
  <2>3. p \in Points \cup {<<0, 0>>}
    BY <1>0, <2>2
  <2>. HIDE DEF p
  <2>4. e \in PointerDowns
    BY <2>3, EventsMade
  <2>. HIDE DEF e
  <2>. QED  BY <1>4, <2>1, <2>4, MadePointer
<1>. QED  BY <1>1, <1>2, <1>3, <1>4

\* Wayland: every touch is handed on.
LEMMA WaylandTouch ==
    ASSUME NEW s, SurfaceOK(s), NEW m \in Messages, backend # "x11",
           m.t \in {"down", "move", "up", "cancel"}
    PROVE  Dispatches(s, m, DispatchTouch(s, m)[1], DispatchTouch(s, m)[2])
<1>1. CASE m.t = "move"
  <2>. DEFINE u == [s EXCEPT !.touch = m.p]
              e == [t |-> "touchMoved"]
  <2>1. m.p \in Points
    BY <1>1, MessageKinds
  <2>2. DispatchTouch(s, m)[1] = u /\ DispatchTouch(s, m)[2] = <<e>>
    BY <1>1 DEF DispatchTouch
  <2>3. SurfaceOK(u) /\ u.active = s.active
    BY <2>1, FieldOK
  <2>4. e \in Events /\ e.t = "touchMoved"
    BY <2>1, EventsMade
  <2>. HIDE DEF u, e
  <2>. QED  BY <1>1, <2>2, <2>3, <2>4, MadeNone
<1>2. ASSUME m.t # "move", NEW e, NEW u, SurfaceOK(u),
             m.t = "down" => e \in TouchDowns, m.t # "down" => e \in TouchEnds
      PROVE  Dispatches(s, m, u, <<e>>)
  <2>1. m \notin Presses \cup Releases /\ (m \in Downs <=> m.t = "down") /\ (m \in Ups <=> m.t # "down")
    BY <1>2 DEF Presses, Releases, Downs, Ups
  <2>2. e \in Events /\ e \notin PointerDowns
    BY <1>2 DEF PointerDowns, TouchDowns, TouchEnds
  <2>3. Made(<<e>>) /\ \A i \in 1..Len(<<e>>) : <<e>>[i] \notin PointerDowns
    BY <2>2 DEF Made
  <2>4. TouchMade(m, <<e>>)
    BY <1>2, <2>1 DEF TouchMade
  <2>. QED  BY <1>2, <2>1, <2>3, <2>4 DEF Dispatches, PointerMade
<1>3. CASE m.t = "down"
  <2>. DEFINE u == [s EXCEPT !.touch = m.p]
              e == [t |-> "touchPressed", p |-> m.p]
  <2>1. m.p \in Points
    BY <1>3, MessageKinds
  <2>2. DispatchTouch(s, m)[1] = u /\ DispatchTouch(s, m)[2] = <<e>>
    BY <1>3 DEF DispatchTouch
  <2>3. SurfaceOK(u) /\ u.active = s.active
    BY <2>1, FieldOK
  <2>4. e \in TouchDowns
    BY <2>1, EventsMade
  <2>. HIDE DEF u, e
  <2>. QED  BY <1>2, <1>3, <2>2, <2>3, <2>4
<1>4. CASE m.t = "up"
  <2>. DEFINE u == [s EXCEPT !.touch = None]
              e == [t |-> "touchReleased"]
  <2>2. DispatchTouch(s, m)[1] = u /\ DispatchTouch(s, m)[2] = <<e>>
    BY <1>4 DEF DispatchTouch
  <2>3. SurfaceOK(u) /\ u.active = s.active
    BY FieldOK
  <2>4. e \in TouchEnds
    BY EventsMade
  <2>. HIDE DEF u, e
  <2>. QED  BY <1>2, <1>4, <2>2, <2>3, <2>4
<1>5. CASE m.t = "cancel"
  <2>. DEFINE u == [s EXCEPT !.touch = None]
              e == [t |-> "touchCancelled"]
  <2>2. DispatchTouch(s, m)[1] = u /\ DispatchTouch(s, m)[2] = <<e>>
    BY <1>5 DEF DispatchTouch
  <2>3. SurfaceOK(u) /\ u.active = s.active
    BY FieldOK
  <2>4. e \in TouchEnds
    BY EventsMade
  <2>. HIDE DEF u, e
  <2>. QED  BY <1>2, <1>5, <2>2, <2>3, <2>4
<1>. QED  BY <1>1, <1>3, <1>4, <1>5

LEMMA TwoEvents ==
    ASSUME NEW e, NEW f
    PROVE  <<e>> \o <<>> = <<e>> /\ Len(<<e>> \o <<f>>) = 2
           /\ (<<e>> \o <<f>>)[1] = e /\ (<<e>> \o <<f>>)[2] = f
<1>. DEFINE S == {e, f}
<1>1. <<e>> \in Seq(S) /\ <<f>> \in Seq(S) /\ <<>> \in Seq(S)
  OBVIOUS
<1>. QED  BY <1>1

\* X11: the tracker hands on one touch at a time.
LEMMA X11Touch ==
    ASSUME NEW s, SurfaceOK(s), NEW m \in Messages, backend = "x11", m.t \in {"down", "move", "up"}
    PROVE  Dispatches(s, m, DispatchTouch(s, m)[1], DispatchTouch(s, m)[2])
<1>0. /\ s \in SurfaceType /\ s.active \in SUBSET Touches
      /\ s.positions \in [Touches -> Points \cup {None}]
  BY Zenon DEF SurfaceOK, SurfaceType
<1>. DEFINE W(a, pos) == [s EXCEPT !.active = a, !.positions = pos]
<1>1. ASSUME NEW a \in SUBSET Touches, NEW pos \in [Touches -> Points \cup {None}],
             \A t \in a : pos[t] \in Points
      PROVE  SurfaceOK(W(a, pos)) /\ W(a, pos).active = a
  <2>. DEFINE w == W(a, pos)
  <2>1. w \in SurfaceType /\ w.active = a /\ w.positions = pos
        /\ w.created = s.created /\ w.ready = s.ready /\ w.pending = s.pending /\ w.size = s.size
    BY Zenon, <1>0 DEF SurfaceType
  <2>. HIDE DEF w
  <2>2. SurfaceOK(w) /\ w.active = a
    BY <1>1, <2>1 DEF SurfaceOK
  <2>. QED  BY <2>2 DEF w
<1>2. CASE m.t = "move"
  <2>. DEFINE pos == [s.positions EXCEPT ![m.id] = m.p]
              evs == IF s.active # {} /\ First(s.active) = m.id THEN <<[t |-> "touchMoved"]>> ELSE <<>>
  <2>1. m.id \in Touches /\ m.p \in Points
    BY <1>2, MessageKinds
  <2>2. /\ DispatchTouch(s, m)[1] = [s EXCEPT !.positions = pos]
        /\ DispatchTouch(s, m)[2] = evs
    BY <1>2 DEF DispatchTouch, TrackMove
  <2>3. [s EXCEPT !.positions = pos] = W(s.active, pos)
    BY <1>0 DEF SurfaceType
  <2>4. /\ pos \in [Touches -> Points \cup {None}]
        /\ \A t \in s.active : pos[t] \in Points
    BY <1>0, <2>1 DEF SurfaceOK
  <2>5. SurfaceOK(W(s.active, pos)) /\ W(s.active, pos).active = s.active
    BY <1>0, <1>1, <2>4
  <2>6. evs = <<>> \/ \E e \in Events : evs = <<e>> /\ e.t \in {"touchMoved", "pointerMoved", "resized"}
    BY EventsMade
  <2>. HIDE DEF evs, pos, W
  <2>. QED  BY <1>2, <2>2, <2>3, <2>5, <2>6, MadeNone
<1>3. ASSUME m.t # "move" PROVE m \notin Presses \cup Releases
  BY <1>3 DEF Presses, Releases
<1>4. CASE m.t = "down"
  <2>. DEFINE a == s.active \cup {m.id}
              pos == [s.positions EXCEPT ![m.id] = m.p]
              e == [t |-> "touchPressed", p |-> m.p]
              evs == IF s.active = {} THEN <<e>> ELSE <<>>
  <2>1. m.id \in Touches /\ m.p \in Points
    BY <1>4, MessageKinds
  <2>2. /\ DispatchTouch(s, m)[1] = W(a, pos)
        /\ DispatchTouch(s, m)[2] = evs
    BY <1>4 DEF DispatchTouch, TrackDown
  <2>4. /\ a \in SUBSET Touches /\ a # {}
        /\ pos \in [Touches -> Points \cup {None}]
        /\ \A t \in a : pos[t] \in Points
    BY <1>0, <2>1 DEF SurfaceOK
  <2>5. e \in TouchDowns /\ e \in Events /\ e \notin PointerDowns
    BY <2>1, EventsMade DEF TouchDowns, PointerDowns
  <2>. HIDE DEF W, pos, e
  <2>6. SurfaceOK(W(a, pos)) /\ W(a, pos).active = a
    BY <1>1, <2>4
  <2>7. Made(evs) /\ PointerMade(m, evs)
    BY <1>3, <1>4, <2>5 DEF Made, PointerMade
  <2>8. TouchTracked(s, m, W(a, pos), evs)
    BY <1>4, <2>4, <2>6 DEF TouchTracked
  <2>. QED  BY <2>2, <2>6, <2>7, <2>8 DEF Dispatches
<1>5. CASE m.t = "up"
  <2>. DEFINE a == s.active \ {m.id}
              pos == [s.positions EXCEPT ![m.id] = None]
              next == s.positions[First(a)]
              e == [t |-> "touchReleased"]
              f == [t |-> "touchPressed", p |-> next]
              evs == IF m.id \notin s.active THEN <<>>
                     ELSE <<e>> \o (IF a = {} THEN <<>> ELSE <<f>>)
  <2>1. m.id \in Touches
    BY <1>5, MessageKinds
  <2>2. /\ DispatchTouch(s, m)[1] = W(a, pos)
        /\ DispatchTouch(s, m)[2] = evs
    BY <1>5 DEF DispatchTouch, TrackUp
  <2>4. /\ a \in SUBSET Touches
        /\ pos \in [Touches -> Points \cup {None}]
        /\ \A t \in a : pos[t] \in Points
    BY <1>0, <2>1 DEF SurfaceOK
  <2>5. e \in TouchEnds /\ e \in Events /\ e \notin PointerDowns
    BY EventsMade DEF TouchEnds, PointerDowns
  <2>6. a # {} => f \in TouchDowns /\ f \notin PointerDowns
    <3>1. a # {} => next \in Points
      BY <2>4, FirstIsOne DEF SurfaceOK
    <3>. HIDE DEF next
    <3>. QED  BY <3>1, EventsMade DEF TouchDowns, PointerDowns
  <2>7. evs \in {<<>>, <<e>>} \/ (a # {} /\ evs = <<e>> \o <<f>>)
    <3>. HIDE DEF e, f
    <3>. QED  BY TwoEvents
  <2>8. a = {} => (s.active = {} /\ evs = <<>>) \/ evs = <<e>>
    <3>. HIDE DEF e, f
    <3>. QED  BY TwoEvents
  <2>. HIDE DEF W, pos, e, f, evs, next
  <2>9. SurfaceOK(W(a, pos)) /\ W(a, pos).active = a
    BY <1>1, <2>4
  <2>10. Made(evs)
    BY <2>5, <2>6, <2>7 DEF Made
  <2>11. PointerMade(m, evs)
    <3>1. \A i \in 1..Len(evs) : evs[i] \notin PointerDowns
      <4>1. CASE evs \in {<<>>, <<e>>}
        BY <2>5, <4>1
      <4>2. CASE a # {} /\ evs = <<e>> \o <<f>>
        <5>1. Len(evs) = 2 /\ evs[1] = e /\ evs[2] = f
          BY <4>2, TwoEvents
        <5>. QED  BY <2>5, <2>6, <4>2, <5>1
      <4>. QED  BY <2>7, <4>1, <4>2
    <3>. QED  BY <1>3, <1>5, <3>1 DEF PointerMade
  <2>12. TouchTracked(s, m, W(a, pos), evs)
    <3>1. W(a, pos).active = CASE m.t = "down" -> s.active \cup {m.id}
                               [] m.t = "up" -> s.active \ {m.id}
                               [] OTHER -> s.active
      BY <1>5, <2>9
    <3>2. a = {} => \/ s.active = {} /\ \A i \in 1..Len(evs) : evs[i] \notin TouchDowns
                    \/ \E x \in TouchEnds : evs = <<x>>
      BY <2>5, <2>8
    <3>. QED  BY <2>9, <3>1, <3>2 DEF TouchTracked
  <2>. QED  BY <2>2, <2>9, <2>10, <2>11, <2>12 DEF Dispatches
<1>. QED  BY <1>2, <1>4, <1>5

LEMMA ConfigureDispatched ==
    ASSUME NEW s, SurfaceOK(s), NEW m \in Messages, m.t = "configure"
    PROVE  Dispatches(s, m, DispatchConfigure(s, m.size)[1], DispatchConfigure(s, m.size)[2])
<1>. DEFINE given == IF m.size = <<0, 0>> THEN s.pending ELSE m.size
            e == [t |-> "resized", size |-> given]
            u == IF backend = "x11" THEN [s EXCEPT !.size = given] ELSE [s EXCEPT !.configured = TRUE]
<1>0. s \in SurfaceType /\ s.size \in Wins
  BY Zenon DEF SurfaceOK, SurfaceType
<1>1. /\ DispatchConfigure(s, m.size)[1] = u
      /\ DispatchConfigure(s, m.size)[2] = <<e>>
  BY DEF DispatchConfigure
<1>2. given \in Wins
  <2>1. m.size \in Wins \cup {<<0, 0>>} /\ (backend # "wayland" => m.size \in Wins)
    BY MessageKinds
  <2>. QED  BY <1>0, <2>1 DEF SurfaceOK
<1>. HIDE DEF given
<1>3. e \in Events /\ e.t = "resized"
  BY <1>2, EventsMade
<1>. HIDE DEF e
<1>4. SurfaceOK(u) /\ u.active = s.active
  <2>1. CASE backend = "x11"
    <3>. DEFINE v == [s EXCEPT !.size = given]
    <3>1. v \in SurfaceType /\ v.active = s.active /\ v.positions = s.positions /\ v.pending = s.pending
      BY Zenon, <1>0, <1>2 DEF SurfaceType
    <3>2. u = v
      BY <2>1
    <3>. HIDE DEF v, u
    <3>. QED  BY <2>1, <3>1, <3>2 DEF SurfaceOK
  <2>2. CASE backend # "x11"
    <3>. DEFINE v == [s EXCEPT !.configured = TRUE]
    <3>1. v \in SurfaceType /\ v.active = s.active /\ v.positions = s.positions
          /\ v.pending = s.pending /\ v.size = s.size /\ v.created = s.created /\ v.ready = s.ready
      BY Zenon, FlagsTyped, <1>0 DEF SurfaceType
    <3>2. u = v
      BY <2>2
    <3>. HIDE DEF v, u
    <3>. QED  BY <2>2, <3>1, <3>2 DEF SurfaceOK
  <2>. QED  BY <2>1, <2>2
<1>. HIDE DEF u
<1>. QED  BY <1>1, <1>3, <1>4, MadeNone

LEMMA ModeDispatched ==
    ASSUME NEW s, SurfaceOK(s), NEW m \in Messages, m.t = "mode"
    PROVE  Dispatches(s, m, DispatchMode(s, m.size)[1], DispatchMode(s, m.size)[2])
<1>. DEFINE v == [s EXCEPT !.output = m.size]
            u == RefreshOutput(v)
<1>0. s \in SurfaceType /\ m.size \in Outputs
  BY MessageKinds DEF SurfaceOK
<1>1. /\ v \in SurfaceType /\ v.active = s.active /\ v.positions = s.positions
      /\ v.pending = s.pending /\ v.size = s.size /\ v.created = s.created /\ v.ready = s.ready
  BY Zenon, <1>0 DEF SurfaceType
<1>2. DispatchMode(s, m.size)[1] = u /\ DispatchMode(s, m.size)[2] = <<>>
  BY DEF DispatchMode
<1>. HIDE DEF v
<1>3. SurfaceOK(u) /\ u.active = s.active
  BY <1>1, RefreshTyped DEF SurfaceOK, Untouched
<1>. HIDE DEF u
<1>. QED  BY <1>2, <1>3, MadeNone

LEMMA ExposeDispatched ==
    ASSUME NEW s, SurfaceOK(s), NEW m \in Messages, m.t = "expose"
    PROVE  Dispatches(s, m, DispatchExpose(s)[1], DispatchExpose(s)[2])
<1>. DEFINE u == [s EXCEPT !.ready = TRUE]
<1>0. s \in SurfaceType
  BY DEF SurfaceOK
<1>1. /\ u \in SurfaceType /\ u.active = s.active /\ u.positions = s.positions
      /\ u.pending = s.pending /\ u.size = s.size /\ u.created = s.created /\ u.ready
  BY Zenon, FlagsTyped, <1>0 DEF SurfaceType
<1>2. DispatchExpose(s)[1] = u /\ DispatchExpose(s)[2] = <<>>
  BY DEF DispatchExpose
<1>. HIDE DEF u
<1>3. SurfaceOK(u) /\ u.active = s.active
  BY <1>1 DEF SurfaceOK
<1>. QED  BY <1>2, <1>3, MadeNone

\* Every message keeps the surface well formed and makes the events it should.
LEMMA OneDispatched ==
    ASSUME NEW s, SurfaceOK(s), NEW m \in Messages
    PROVE  Dispatches(s, m, DispatchOne(s, m)[1], DispatchOne(s, m)[2])
<1>1. CASE m.t = "configure"
  BY <1>1, ConfigureDispatched DEF DispatchOne
<1>2. CASE m.t = "mode"
  BY <1>2, ModeDispatched DEF DispatchOne
<1>3. CASE m.t \in {"motion", "leave", "press", "release"}
  BY <1>3, PointerDispatched DEF DispatchOne
<1>4. CASE m.t \in {"down", "move", "up", "cancel"}
  <2>1. DispatchOne(s, m) = DispatchTouch(s, m)
    BY <1>4 DEF DispatchOne
  <2>2. backend = "x11" => m.t # "cancel"
    BY MessageKinds
  <2>. QED  BY <1>4, <2>1, <2>2, WaylandTouch, X11Touch
<1>5. CASE m.t = "expose"
  BY <1>5, ExposeDispatched DEF DispatchOne
<1>. QED  BY <1>1, <1>2, <1>3, <1>4, <1>5, MessageKinds

-----------------------------------------------------------------------------
(* All messages of a poll.                                                    *)

DispatchStep(r, m) == <<DispatchOne(r[1], m)[1], r[2] \o DispatchOne(r[1], m)[2]>>

GoodSurfaces == {u \in SurfaceType : SurfaceOK(u)}

PollResults == GoodSurfaces \X Seq(Events)

LEMMA GoodSurface == \A u : u \in GoodSurfaces <=> SurfaceOK(u)
  BY Zenon DEF GoodSurfaces, SurfaceOK

LEMMA MadeSeq ==
    ASSUME NEW evs, Made(evs)
    PROVE  evs \in Seq(Events)
<1>1. CASE evs = <<>>
  BY <1>1
<1>3. CASE \E e \in Events : evs = <<e>>
  <2>1. PICK e \in Events : evs = <<e>>
    BY <1>3
  <2>2. <<e>> \in Seq(Events)
    OBVIOUS
  <2>. QED  BY <2>1, <2>2
<1>2. CASE \E e \in TouchEnds, f \in TouchDowns : evs = <<e>> \o <<f>>
  <2>1. PICK e \in Events, f \in Events : evs = <<e>> \o <<f>>
    BY <1>2 DEF TouchEnds, TouchDowns
  <2>2. <<e>> \in Seq(Events) /\ <<f>> \in Seq(Events)
    OBVIOUS
  <2>. QED  BY <2>1, <2>2
<1>. QED  BY <1>1, <1>2, <1>3 DEF Made

LEMMA DispatchStepTyped ==
    ASSUME NEW r \in PollResults, NEW m \in Messages
    PROVE  /\ DispatchStep(r, m) \in PollResults
           /\ Dispatches(r[1], m, DispatchOne(r[1], m)[1], DispatchOne(r[1], m)[2])
           /\ DispatchOne(r[1], m)[2] \in Seq(Events)
<1>. DEFINE u == DispatchOne(r[1], m)[1]
            evs == DispatchOne(r[1], m)[2]
<1>1. SurfaceOK(r[1]) /\ r[2] \in Seq(Events)
  BY GoodSurface DEF PollResults
<1>2. Dispatches(r[1], m, u, evs)
  BY <1>1, OneDispatched
<1>3. DispatchStep(r, m) = <<u, r[2] \o evs>>
  BY DEF DispatchStep
<1>. HIDE DEF u, evs
<1>4. SurfaceOK(u) /\ evs \in Seq(Events)
  BY <1>2, MadeSeq DEF Dispatches
<1>5. u \in GoodSurfaces
  BY <1>4, GoodSurface
<1>6. r[2] \o evs \in Seq(Events)
  BY <1>1, <1>4
<1>7. DispatchStep(r, m) \in PollResults
  <2>. DEFINE q == r[2] \o evs
  <2>1. q \in Seq(Events) /\ DispatchStep(r, m) = <<u, q>>
    BY <1>3, <1>6
  <2>. HIDE DEF q
  <2>. QED  BY <1>5, <2>1 DEF PollResults
<1>. QED  BY <1>2, <1>4, <1>7 DEF u, evs

\* The recursion of Dispatched has a table.
LEMMA DispatchedTable ==
    ASSUME NEW s, SurfaceOK(s), NEW msgs \in Seq(Messages)
    PROVE  \E g : /\ g[0] = <<s, <<>>>>
                  /\ \A n \in 1..Len(msgs) : g[n] = DispatchStep(g[n - 1], msgs[n])
                  /\ \A n \in 0..Len(msgs) : g[n] \in PollResults
                  /\ Dispatched(s, msgs) = g[Len(msgs)]
<1>. DEFINE N == Len(msgs)
            base == <<s, <<>>>>
            F == [a \in (1..N) \X PollResults |-> DispatchStep(a[2], msgs[a[1]])]
            Table(f) == [i \in 0..N |-> IF i = 0 THEN base ELSE DispatchStep(f[i - 1], msgs[i])]
            G == CHOOSE f : f = Table(f)
<1>1. N \in Nat /\ \A n \in 1..N : msgs[n] \in Messages
  OBVIOUS
<1>2. base \in PollResults
  <2>1. s \in GoodSurfaces /\ <<>> \in Seq(Events)
    BY GoodSurface
  <2>. QED  BY <2>1 DEF PollResults
<1>3. \A n \in 1..N, u \in PollResults : DispatchStep(u, msgs[n]) \in PollResults
  BY <1>1, DispatchStepTyped
<1>4. Dispatched(s, msgs) = G[N]
  BY DEF Dispatched, DispatchStep
<1>5. IsStep(F, N, PollResults)
  BY <1>3 DEF IsStep
<1>6. PICK g : IsTable(g, base, F, N, PollResults)
  <2>. HIDE DEF F, N, base
  <2>. QED  BY <1>1, <1>2, <1>5, RecursionExists
<1>7. g \in [0..N -> PollResults] /\ g[0] = base
  BY <1>6 DEF IsTable
<1>. HIDE DEF base
<1>8. ASSUME NEW n \in 1..N PROVE g[n] = DispatchStep(g[n - 1], msgs[n])
  <2>1. n - 1 \in 0..N
    BY <1>1
  <2>2. <<n, g[n - 1]>> \in (1..N) \X PollResults
    BY <1>7, <2>1
  <2>3. g[n] = F[<<n, g[n - 1]>>]
    BY <1>6 DEF IsTable
  <2>. QED  BY <2>2, <2>3
<1>9. g = Table(g)
  <2>. HIDE DEF N
  <2>1. ASSUME NEW n \in 0..N PROVE g[n] = IF n = 0 THEN base ELSE DispatchStep(g[n - 1], msgs[n])
    BY <1>1, <1>7, <1>8
  <2>. QED  BY <1>7, <2>1
<1>10. G = Table(G)
  BY <1>9
<1>. HIDE DEF G, N
<1>11. G[0] = base /\ \A n \in 1..N : G[n] = DispatchStep(G[n - 1], msgs[n])
  BY <1>1, <1>10
<1>12. \A n \in 0..N : G[n] \in PollResults
  <2>. DEFINE T == {n \in Nat : G[n] \in PollResults}
  <2>1. 0 \in T
    BY <1>2, <1>11
  <2>2. ASSUME NEW n \in 0..(N - 1), n \in T PROVE n + 1 \in T
    <3>1. n + 1 \in 1..N /\ (n + 1) - 1 = n /\ n + 1 \in Nat
      BY <1>1
    <3>. QED  BY <1>3, <1>11, <2>2, <3>1
  <2>3. 0..N \subseteq T
    <3>. HIDE DEF T
    <3>. QED  BY <1>1, <2>1, <2>2, BoundedInduction
  <2>. QED  BY <2>3
<1>. QED  BY <1>4, <1>11, <1>12 DEF N, base

\* One message more.
LEMMA DispatchedAppend ==
    ASSUME NEW s, SurfaceOK(s), NEW msgs \in Seq(Messages), NEW m \in Messages
    PROVE  /\ Dispatched(s, <<>>) = <<s, <<>>>>
           /\ Dispatched(s, msgs) \in PollResults
           /\ Dispatched(s, Append(msgs, m)) = DispatchStep(Dispatched(s, msgs), m)
<1>1. PICK g : /\ g[0] = <<s, <<>>>>
               /\ \A n \in 1..Len(msgs) : g[n] = DispatchStep(g[n - 1], msgs[n])
               /\ \A n \in 0..Len(msgs) : g[n] \in PollResults
               /\ Dispatched(s, msgs) = g[Len(msgs)]
  BY DispatchedTable
<1>. DEFINE more == Append(msgs, m)
<1>2. /\ more \in Seq(Messages) /\ Len(msgs) \in Nat /\ Len(more) = Len(msgs) + 1
      /\ more[Len(msgs) + 1] = m /\ \A n \in 1..Len(msgs) : more[n] = msgs[n]
  OBVIOUS
<1>. HIDE DEF more
<1>3. PICK h : /\ h[0] = <<s, <<>>>>
               /\ \A n \in 1..Len(more) : h[n] = DispatchStep(h[n - 1], more[n])
               /\ Dispatched(s, more) = h[Len(more)]
  BY <1>2, DispatchedTable
<1>4. \A n \in 0..(Len(msgs) - 1) : g[n] = h[n] => g[n + 1] = h[n + 1]
  <2>1. ASSUME NEW n \in 0..(Len(msgs) - 1), g[n] = h[n] PROVE g[n + 1] = h[n + 1]
    <3>1. n + 1 \in 1..Len(msgs) /\ n + 1 \in 1..Len(more) /\ (n + 1) - 1 = n
      BY <1>2
    <3>. QED  BY <1>1, <1>2, <1>3, <2>1, <3>1
  <2>. QED  BY <2>1
<1>5. \A n \in 0..Len(msgs) : g[n] = h[n]
  <2>1. g[0] = h[0]
    BY <1>1, <1>3
  <2>. QED  BY <1>2, <1>4, <2>1, RecursionUnique
<1>6. Dispatched(s, more) = DispatchStep(g[Len(msgs)], m)
  <2>1. Len(more) \in 1..Len(more) /\ Len(more) - 1 = Len(msgs) /\ Len(msgs) \in 0..Len(msgs)
    BY <1>2
  <2>. QED  BY <1>2, <1>3, <1>5, <2>1
<1>7. Dispatched(s, <<>>) = <<s, <<>>>>
  <2>1. <<>> \in Seq(Messages) /\ Len(<<>>) = 0
    OBVIOUS
  <2>. QED  BY <2>1, DispatchedTable
<1>8. Dispatched(s, msgs) \in PollResults
  BY <1>1, <1>2
<1>. QED  BY <1>1, <1>6, <1>7, <1>8 DEF more

LEMMA Disjoint ==
    /\ PointerDowns \cap PointerEnds = {} /\ TouchDowns \cap TouchEnds = {}
    /\ Presses \cap Releases = {} /\ Downs \cap Ups = {}
    /\ TouchEnds \subseteq Events /\ TouchDowns \subseteq Events
    /\ PointerEnds \subseteq Events /\ PointerDowns \subseteq Events
  BY DEF PointerDowns, PointerEnds, TouchDowns, TouchEnds, Presses, Releases, Downs, Ups

\* Events without a press, or a single release, leave nothing held.
LEMMA RestsConcat ==
    ASSUME NEW s \in Seq(Events), NEW evs, Made(evs), NEW press, NEW ends,
           NEW before \in BOOLEAN
    PROVE  /\ (\E e \in ends : evs = <<e>>) => Rests(s \o evs, press, ends, before)
           /\ /\ \A i \in 1..Len(evs) : evs[i] \notin press
              /\ Rests(s, press, ends, before)
              => Rests(s \o evs, press, ends, before)
           /\ /\ \A i \in 1..Len(evs) : evs[i] \notin press
              /\ Orderly(s, press, ends, before)
              => Orderly(s \o evs, press, ends, before)
           /\ (\E e \in press : evs = <<e>>) /\ Rests(s, press, ends, before)
              /\ Orderly(s, press, ends, before)
              => Orderly(s \o evs, press, ends, before)
<1>1. CASE evs = <<>>
  <2>1. s \o evs = s
    BY <1>1
  <2>2. ~ \E e \in ends \cup press : evs = <<e>>
    BY <1>1
  <2>. QED  BY <2>1, <2>2
<1>2. ASSUME NEW e \in Events, evs = <<e>>
      PROVE  /\ s \o evs = Append(s, e) /\ evs[1] = e /\ 1 \in 1..Len(evs)
             /\ \A f : evs = <<f>> => f = e
  BY <1>2
<1>3. CASE \E e \in Events : evs = <<e>>
  <2>1. PICK e \in Events : evs = <<e>>
    BY <1>3
  <2>2. /\ s \o evs = Append(s, e) /\ evs[1] = e /\ 1 \in 1..Len(evs)
        /\ \A f : evs = <<f>> => f = e
    BY <1>2, <2>1
  <2>3. e \in ends => Rests(s \o evs, press, ends, before)
    BY <2>2, RestsAppend
  <2>4. e \notin press => /\ Rests(s, press, ends, before) => Rests(s \o evs, press, ends, before)
                          /\ Orderly(s, press, ends, before) => Orderly(s \o evs, press, ends, before)
    BY <2>2, RestsAppend, OrderlyAppend
  <2>5. Rests(s, press, ends, before) /\ Orderly(s, press, ends, before)
        => Orderly(s \o evs, press, ends, before)
    BY <2>2, OrderlyAppend
  <2>. QED  BY <2>2, <2>3, <2>4, <2>5
<1>4. CASE \E e \in TouchEnds, f \in TouchDowns : evs = <<e>> \o <<f>>
  <2>1. PICK e \in Events, f \in Events : evs = <<e>> \o <<f>>
    BY <1>4, Disjoint
  <2>2. /\ s \o evs = Append(Append(s, e), f) /\ evs[1] = e /\ evs[2] = f
        /\ Len(evs) = 2 /\ Append(s, e) \in Seq(Events)
    <3>1. <<e>> \in Seq(Events) /\ <<f>> \in Seq(Events)
      OBVIOUS
    <3>2. evs \in Seq(Events) /\ Len(evs) = 2 /\ evs[1] = e /\ evs[2] = f
      BY <2>1, <3>1, TwoEvents
    <3>. DEFINE a == s \o evs
                b == Append(Append(s, e), f)
    <3>3. a \in Seq(Events) /\ Len(a) = Len(s) + 2 /\ Len(s) \in Nat
          /\ (\A i \in 1..Len(s) : a[i] = s[i]) /\ a[Len(s) + 1] = e /\ a[Len(s) + 2] = f
      <4>1. /\ a \in Seq(Events) /\ Len(a) = Len(s) + Len(evs)
            /\ \A i \in 1..(Len(s) + Len(evs)) : a[i] = IF i <= Len(s) THEN s[i] ELSE evs[i - Len(s)]
        BY <3>2, ConcatProperties
      <4>2. /\ Len(s) \in Nat /\ Len(s) + 1 \in 1..(Len(s) + 2) /\ Len(s) + 2 \in 1..(Len(s) + 2)
            /\ (Len(s) + 1) - Len(s) = 1 /\ (Len(s) + 2) - Len(s) = 2
            /\ ~ (Len(s) + 1 <= Len(s)) /\ ~ (Len(s) + 2 <= Len(s))
        OBVIOUS
      <4>. HIDE DEF a
      <4>. QED  BY <3>2, <4>1, <4>2
    <3>4. b \in Seq(Events) /\ Len(b) = Len(s) + 2
          /\ (\A i \in 1..Len(s) : b[i] = s[i]) /\ b[Len(s) + 1] = e /\ b[Len(s) + 2] = f
      OBVIOUS
    <3>. HIDE DEF a, b
    <3>5. \A i \in 1..Len(a) : i \in 1..Len(s) \/ i = Len(s) + 1 \/ i = Len(s) + 2
      BY <3>3
    <3>6. \A i \in 1..Len(a) : a[i] = b[i]
      BY <3>3, <3>4, <3>5
    <3>7. a = b
      BY <3>3, <3>4, <3>6, SeqEqual
    <3>. QED  BY <3>2, <3>7 DEF a, b
  <2>3. ~ \E g : evs = <<g>>
    <3>1. \A g : Len(<<g>>) = 1
      OBVIOUS
    <3>. QED  BY <2>2, <3>1
  <2>4. ASSUME \A i \in 1..Len(evs) : evs[i] \notin press
        PROVE  /\ Rests(s, press, ends, before) => Rests(s \o evs, press, ends, before)
               /\ Orderly(s, press, ends, before) => Orderly(s \o evs, press, ends, before)
    <3>1. e \notin press /\ f \notin press
      BY <2>2, <2>4
    <3>2. /\ Rests(s, press, ends, before) => Rests(Append(s, e), press, ends, before)
          /\ Orderly(s, press, ends, before) => Orderly(Append(s, e), press, ends, before)
      BY <3>1, RestsAppend, OrderlyAppend
    <3>. QED  BY <2>2, <3>1, <3>2, RestsAppend, OrderlyAppend
  <2>. QED  BY <2>3, <2>4
<1>. QED  BY <1>1, <1>3, <1>4 DEF Made

DownsOf(t) == {m \in Messages : m.t = "down" /\ m.id = t}
UpsOf(t) == {m \in Messages : m.t = "up" /\ m.id = t}

\* What rests in the messages rests in their events.
PolledPointer(msgs, evs) ==
    \A before \in BOOLEAN :
        /\ Rests(msgs, Presses, Releases, before) => Rests(evs, PointerDowns, PointerEnds, before)
        /\ Orderly(msgs, Presses, Releases, before) => Orderly(evs, PointerDowns, PointerEnds, before)

PolledTouch(msgs, evs) ==
    \A before \in BOOLEAN :
        Rests(msgs, Downs, Ups, before) => Rests(evs, TouchDowns, TouchEnds, before)

\* Or in the tracker, whose last touch to go is a release.
PolledTracker(s, msgs, u, evs) ==
    /\ u.active = {} => Rests(evs, TouchDowns, TouchEnds, s.active = {})
    /\ \A t \in Touches :
          Rests(msgs, DownsOf(t), UpsOf(t), t \notin s.active) => t \notin u.active

Polled(s, msgs, u, evs) ==
    /\ PolledPointer(msgs, evs)
    /\ backend # "x11" => PolledTouch(msgs, evs)
    /\ backend = "x11" => PolledTracker(s, msgs, u, evs)

\* One message more, for each.
LEMMA PointerPolled ==
    ASSUME NEW msgs \in Seq(Messages), NEW m \in Messages, NEW evs \in Seq(Events), NEW made,
           Made(made), PointerMade(m, made), PolledPointer(msgs, evs)
    PROVE  PolledPointer(Append(msgs, m), evs \o made)
<1>. SUFFICES ASSUME NEW before \in BOOLEAN
     PROVE  /\ Rests(Append(msgs, m), Presses, Releases, before)
                  => Rests(evs \o made, PointerDowns, PointerEnds, before)
            /\ Orderly(Append(msgs, m), Presses, Releases, before)
                  => Orderly(evs \o made, PointerDowns, PointerEnds, before)
  BY DEF PolledPointer
<1>0. /\ Rests(msgs, Presses, Releases, before) => Rests(evs, PointerDowns, PointerEnds, before)
      /\ Orderly(msgs, Presses, Releases, before) => Orderly(evs, PointerDowns, PointerEnds, before)
  BY DEF PolledPointer
<1>1. ASSUME Rests(Append(msgs, m), Presses, Releases, before)
      PROVE  Rests(evs \o made, PointerDowns, PointerEnds, before)
  <2>1. m \notin Presses /\ (m \in Releases \/ Rests(msgs, Presses, Releases, before))
    BY <1>1, Disjoint, RestsLast
  <2>2. CASE m \in Releases
    <3>1. \E e \in PointerEnds : made = <<e>>
      BY <2>2 DEF PointerMade
    <3>. QED  BY <3>1, RestsConcat
  <2>3. CASE m \notin Releases
    <3>1. \A i \in 1..Len(made) : made[i] \notin PointerDowns
      BY <2>1, <2>3 DEF PointerMade
    <3>. QED  BY <1>0, <2>1, <2>3, <3>1, RestsConcat
  <2>. QED  BY <2>2, <2>3
<1>2. ASSUME Orderly(Append(msgs, m), Presses, Releases, before)
      PROVE  Orderly(evs \o made, PointerDowns, PointerEnds, before)
  <2>1. /\ Orderly(msgs, Presses, Releases, before)
        /\ m \in Presses => Rests(msgs, Presses, Releases, before)
    BY <1>2, Disjoint, RestsLast
  <2>2. CASE m \in Presses
    <3>1. \E e \in PointerDowns : made = <<e>>
      BY <2>2 DEF PointerMade
    <3>. QED  BY <1>0, <2>1, <2>2, <3>1, RestsConcat
  <2>3. CASE m \notin Presses
    <3>1. \A i \in 1..Len(made) : made[i] \notin PointerDowns
      <4>1. CASE m \in Releases
        <5>1. PICK e \in PointerEnds : made = <<e>>
          BY <4>1 DEF PointerMade
        <5>2. e \notin PointerDowns
          BY Disjoint
        <5>. QED  BY <5>1, <5>2
      <4>2. CASE m \notin Releases
        BY <2>3, <4>2 DEF PointerMade
      <4>. QED  BY <4>1, <4>2
    <3>. QED  BY <1>0, <2>1, <3>1, RestsConcat
  <2>. QED  BY <2>2, <2>3
<1>. QED  BY <1>1, <1>2

LEMMA TouchPolled ==
    ASSUME NEW msgs \in Seq(Messages), NEW m \in Messages, NEW evs \in Seq(Events), NEW made,
           Made(made), TouchMade(m, made), PolledTouch(msgs, evs)
    PROVE  PolledTouch(Append(msgs, m), evs \o made)
<1>. SUFFICES ASSUME NEW before \in BOOLEAN, Rests(Append(msgs, m), Downs, Ups, before)
     PROVE  Rests(evs \o made, TouchDowns, TouchEnds, before)
  BY DEF PolledTouch
<1>1. m \notin Downs /\ (m \in Ups \/ Rests(msgs, Downs, Ups, before))
  BY Disjoint, RestsLast
<1>2. CASE m \in Ups
  <2>1. \E e \in TouchEnds : made = <<e>>
    BY <1>2 DEF TouchMade
  <2>. QED  BY <2>1, RestsConcat
<1>3. CASE m \notin Ups
  <2>1. \A i \in 1..Len(made) : made[i] \notin TouchDowns
    BY <1>1, <1>3 DEF TouchMade
  <2>2. Rests(evs, TouchDowns, TouchEnds, before)
    BY <1>1, <1>3 DEF PolledTouch
  <2>. QED  BY <2>1, <2>2, RestsConcat
<1>. QED  BY <1>2, <1>3

LEMMA TrackerPolled ==
    ASSUME NEW s, NEW msgs \in Seq(Messages), NEW m \in Messages, NEW u, NEW evs \in Seq(Events),
           NEW w, NEW made, Made(made), TouchTracked(u, m, w, made), PolledTracker(s, msgs, u, evs)
    PROVE  PolledTracker(s, Append(msgs, m), w, evs \o made)
<1>1. ASSUME w.active = {} PROVE Rests(evs \o made, TouchDowns, TouchEnds, s.active = {})
  <2>1. CASE \E e \in TouchEnds : made = <<e>>
    BY <2>1, RestsConcat
  <2>2. CASE u.active = {} /\ \A i \in 1..Len(made) : made[i] \notin TouchDowns
    <3>1. Rests(evs, TouchDowns, TouchEnds, s.active = {})
      BY <2>2 DEF PolledTracker
    <3>. QED  BY <2>2, <3>1, RestsConcat
  <2>. QED  BY <1>1, <2>1, <2>2 DEF TouchTracked
<1>2. ASSUME NEW t \in Touches, Rests(Append(msgs, m), DownsOf(t), UpsOf(t), t \notin s.active)
      PROVE  t \notin w.active
  <2>0. DownsOf(t) \cap UpsOf(t) = {}
    BY DEF DownsOf, UpsOf
  <2>1. m \notin DownsOf(t) /\ (m \in UpsOf(t) \/ Rests(msgs, DownsOf(t), UpsOf(t), t \notin s.active))
    BY <1>2, <2>0, RestsLast
  <2>2. m \in UpsOf(t) \/ t \notin u.active
    BY <2>1 DEF PolledTracker
  <2>3. m.t = "down" => m.id # t
    BY <2>1 DEF DownsOf
  <2>4. m \in UpsOf(t) => m.t = "up" /\ m.id = t
    BY DEF UpsOf
  <2>. QED  BY <2>2, <2>3, <2>4 DEF TouchTracked
<1>. QED  BY <1>1, <1>2 DEF PolledTracker

LEMMA SomeMessage == [t |-> "release"] \in Messages
  BY DEF Messages

\* All messages.
LEMMA AllPolled ==
    ASSUME NEW s, SurfaceOK(s), NEW msgs \in Seq(Messages)
    PROVE  /\ SurfaceOK(Dispatched(s, msgs)[1]) /\ Dispatched(s, msgs)[2] \in Seq(Events)
           /\ Polled(s, msgs, Dispatched(s, msgs)[1], Dispatched(s, msgs)[2])
<1>. DEFINE D(q) == Dispatched(s, q)
            T == {q \in Seq(Messages) : Polled(s, q, D(q)[1], D(q)[2])}
<1>1. <<>> \in T
  <2>1. <<>> \in Seq(Messages) /\ D(<<>>)[1] = s /\ D(<<>>)[2] = <<>>
    BY SomeMessage, DispatchedAppend
  <2>2. PolledPointer(<<>>, <<>>) /\ PolledTouch(<<>>, <<>>) /\ PolledTracker(s, <<>>, s, <<>>)
    BY RestsEmpty DEF PolledPointer, PolledTouch, PolledTracker
  <2>. QED  BY <2>1, <2>2 DEF Polled
<1>2. ASSUME NEW q \in Seq(Messages), NEW m \in Messages, q \in T PROVE Append(q, m) \in T
  <2>. DEFINE r == D(q)
              u == DispatchOne(r[1], m)[1]
              made == DispatchOne(r[1], m)[2]
  <2>1. r \in PollResults /\ D(Append(q, m)) = DispatchStep(r, m) /\ Append(q, m) \in Seq(Messages)
    BY DispatchedAppend
  <2>2. Dispatches(r[1], m, u, made) /\ r[2] \in Seq(Events)
    BY <2>1, DispatchStepTyped DEF PollResults
  <2>3. D(Append(q, m))[1] = u /\ D(Append(q, m))[2] = r[2] \o made
    <3>. HIDE DEF D
    <3>1. D(Append(q, m)) = <<u, r[2] \o made>>
      BY <2>1 DEF DispatchStep
    <3>. HIDE DEF u, made, r
    <3>. QED  BY <3>1
  <2>4. Polled(s, q, r[1], r[2])
    BY <1>2
  <2>. HIDE DEF r, u, made, D
  <2>5. Polled(s, Append(q, m), u, r[2] \o made)
    BY <2>2, <2>4, PointerPolled, TouchPolled, TrackerPolled DEF Polled, Dispatches
  <2>. QED  BY <2>1, <2>3, <2>5
<1>3. Seq(Messages) \subseteq T
  <2>. HIDE DEF T
  <2>. QED  BY <1>1, <1>2, SeqInduction
<1>4. D(msgs) \in PollResults
  BY SomeMessage, DispatchedAppend
<1>5. SurfaceOK(D(msgs)[1]) /\ D(msgs)[2] \in Seq(Events)
  BY <1>4, GoodSurface DEF PollResults
<1>. QED  BY <1>3, <1>5

-----------------------------------------------------------------------------
(* The loop: what it holds is what the hands hold.                            *)

Platforms == [size : Wins, redraw : BOOLEAN]

\* Everything has its type; messages wait for the loop at its top, events are
\* handled before it goes on.
LoopTypes ==
    /\ backend \in {"wayland", "x11", "null"}
    /\ SurfaceOK(sf) /\ plat \in Platforms
    /\ inbox \in Seq(Messages) /\ events \in Seq(Events)
    /\ loop \in {"top", "events", "render"}
    /\ loop # "top" => inbox = <<>>
    /\ loop # "events" => events = <<>>
    /\ fingers \in [Touches -> Points \cup {None}] /\ mouse \in Points \cup {None}
    /\ button \in BOOLEAN

\* The bridge releases what it pressed.
BridgeHolds == 0 \notin down /\ down \subseteq {touchDown, pointerDown}

TouchRests == Rests(events, TouchDowns, TouchEnds, touchDown = 0)
PointerRests == Rests(events, PointerDowns, PointerEnds, pointerDown = 0)

\* Nothing is left of fingers that were lifted: the last of their messages, or of
\* the events made of them, is a release.
FingersRest ==
    /\ backend # "x11" /\ (\A t \in Touches : fingers[t] = None) => Rests(inbox, Downs, Ups, TouchRests)
    /\ backend = "x11" =>
          /\ sf.active = {} => TouchRests
          /\ \A t \in Touches : fingers[t] = None =>
                Rests(inbox, DownsOf(t), UpsOf(t), t \notin sf.active)

\* The same of the button, whose presses and releases also alternate.
ButtonRests ==
    /\ Orderly(events, PointerDowns, PointerEnds, pointerDown = 0)
    /\ Orderly(inbox, Presses, Releases, PointerRests)
    /\ ~ button => Rests(inbox, Presses, Releases, PointerRests)

HandsInv == LoopTypes /\ BridgeHolds /\ FingersRest /\ ButtonRests

LEMMA SameBackend ==
    ASSUME backend' = backend
    PROVE  /\ Messages' = Messages /\ Presses' = Presses /\ Releases' = Releases
           /\ Downs' = Downs /\ Ups' = Ups
           /\ \A t : DownsOf(t)' = DownsOf(t) /\ UpsOf(t)' = UpsOf(t)
           /\ Events' = Events /\ TouchDowns' = TouchDowns /\ TouchEnds' = TouchEnds
           /\ PointerDowns' = PointerDowns /\ PointerEnds' = PointerEnds
           /\ SurfaceOK(sf)' <=> SurfaceOK(sf')
<1>1. Messages' = Messages
  BY DEF Messages
<1>2. SurfaceOK(sf)' <=> SurfaceOK(sf')
  BY DEF SurfaceOK
<1>. QED  BY <1>1, <1>2 DEF Presses, Releases, Downs, Ups, DownsOf, UpsOf, Events, TouchDowns,
                            TouchEnds, PointerDowns, PointerEnds

\* The type of everything is kept.
LEMMA TypesKept ==
    ASSUME LoopTypes, backend' = backend,
           SurfaceOK(sf'), plat' \in Platforms,
           inbox' \in Seq(Messages), events' \in Seq(Events),
           loop' \in {"top", "events", "render"},
           loop' # "top" => inbox' = <<>>,
           loop' # "events" => events' = <<>>,
           fingers' \in [Touches -> Points \cup {None}], mouse' \in Points \cup {None},
           button' \in BOOLEAN
    PROVE  LoopTypes'
<1>1. Messages' = Messages /\ Events' = Events /\ (SurfaceOK(sf)' <=> SurfaceOK(sf'))
  BY SameBackend
<1>2. Platforms' = Platforms
  BY DEF Platforms
<1>. QED  BY <1>1, <1>2 DEF LoopTypes

\* The server delivers a message of the hands.
LEMMA HandsDeliver ==
    ASSUME HandsInv, NEW m \in Messages, loop = "top", loop' = loop, inbox' = Append(inbox, m),
           UNCHANGED <<backend, sf, plat, events, touchDown, pointerDown, down>>,
           fingers' \in [Touches -> Points \cup {None}], mouse' \in Points \cup {None},
           button' \in BOOLEAN,
           (\A t \in Touches : fingers'[t] = None)
              => m \in Ups \/ (m \notin Downs /\ \A t \in Touches : fingers[t] = None),
           backend = "x11" => \A t \in Touches : fingers'[t] = None
              => m \in UpsOf(t) \/ (m \notin DownsOf(t) /\ fingers[t] = None),
           m \in Presses => ~ button,
           ~ button' => m \in Releases \/ (m \notin Presses /\ ~ button)
    PROVE  HandsInv'
<1>. USE DEF HandsInv
<1>1. inbox \in Seq(Messages) /\ inbox' \in Seq(Messages) /\ events = <<>> /\ events' \in Seq(Events)
  BY DEF LoopTypes
<1>2. LoopTypes'
  <2>1. SurfaceOK(sf') /\ plat' \in Platforms
    BY DEF LoopTypes
  <2>. QED  BY <1>1, <2>1, TypesKept
<1>3. BridgeHolds'
  BY DEF BridgeHolds
<1>4. TouchRests' = TouchRests /\ PointerRests' = PointerRests
      /\ TouchRests \in BOOLEAN /\ PointerRests \in BOOLEAN
  BY SameBackend DEF TouchRests, PointerRests, Rests
<1>5. FingersRest'
  <2>1. ASSUME backend # "x11", \A t \in Touches : fingers'[t] = None
        PROVE  Rests(inbox', Downs, Ups, TouchRests)
    <3>1. CASE m \in Ups
      BY <1>1, <1>4, <3>1, RestsAppend
    <3>2. CASE m \notin Downs /\ \A t \in Touches : fingers[t] = None
      <4>1. Rests(inbox, Downs, Ups, TouchRests)
        BY <2>1, <3>2 DEF FingersRest
      <4>. QED  BY <1>1, <1>4, <3>2, <4>1, RestsAppend
    <3>. QED  BY <2>1, <3>1, <3>2
  <2>2. ASSUME backend = "x11", NEW t \in Touches, fingers'[t] = None
        PROVE  Rests(inbox', DownsOf(t), UpsOf(t), t \notin sf.active)
    <3>0. (t \notin sf.active) \in BOOLEAN
      OBVIOUS
    <3>1. CASE m \in UpsOf(t)
      BY <1>1, <3>0, <3>1, RestsAppend
    <3>2. CASE m \notin DownsOf(t) /\ fingers[t] = None
      <4>1. Rests(inbox, DownsOf(t), UpsOf(t), t \notin sf.active)
        BY <2>2, <3>2 DEF FingersRest
      <4>. QED  BY <1>1, <3>0, <3>2, <4>1, RestsAppend
    <3>. QED  BY <2>2, <3>1, <3>2
  <2>3. backend = "x11" /\ sf.active = {} => TouchRests
    BY DEF FingersRest
  <2>4. backend' = backend /\ sf' = sf /\ Downs' = Downs /\ Ups' = Ups
        /\ \A t : DownsOf(t)' = DownsOf(t) /\ UpsOf(t)' = UpsOf(t)
    BY SameBackend
  <2>. QED  BY <1>4, <2>1, <2>2, <2>3, <2>4 DEF FingersRest
<1>6. ButtonRests'
  <2>1. Orderly(inbox', Presses, Releases, PointerRests)
    <3>1. Orderly(inbox, Presses, Releases, PointerRests)
          /\ (m \in Presses => Rests(inbox, Presses, Releases, PointerRests))
      BY DEF ButtonRests
    <3>. QED  BY <1>1, <1>4, <3>1, OrderlyAppend
  <2>2. ASSUME ~ button' PROVE Rests(inbox', Presses, Releases, PointerRests)
    <3>1. m \notin Presses /\ ~ button => Rests(inbox, Presses, Releases, PointerRests)
      BY DEF ButtonRests
    <3>. QED  BY <1>1, <1>4, <2>2, <3>1, RestsAppend
  <2>3. Orderly(events', PointerDowns, PointerEnds, pointerDown' = 0)
    BY DEF ButtonRests
  <2>4. Presses' = Presses /\ Releases' = Releases /\ PointerDowns' = PointerDowns
        /\ PointerEnds' = PointerEnds
    BY SameBackend
  <2>. QED  BY <1>4, <2>1, <2>2, <2>3, <2>4 DEF ButtonRests
<1>. QED  BY <1>2, <1>3, <1>5, <1>6

\* The loop handles an event.
LEMMA EventHandled ==
    ASSUME HandsInv, Handled,
           UNCHANGED <<backend, sf, inbox, loop, fingers, mouse, button>>, plat' \in Platforms,
           Head(events) \in TouchEnds => touchDown' = 0,
           Head(events) \notin TouchDowns /\ touchDown = 0 => touchDown' = 0,
           Head(events) \in PointerEnds => pointerDown' = 0,
           Head(events) \notin PointerDowns /\ pointerDown = 0 => pointerDown' = 0,
           BridgeHolds'
    PROVE  HandsInv'
<1>. USE DEF HandsInv
<1>1. /\ loop = "events" /\ inbox = <<>> /\ inbox' = <<>> /\ events \in Seq(Events)
      /\ events # <<>> /\ events' = Tail(events) /\ events' \in Seq(Events)
  BY DEF LoopTypes, Handled
<1>2. LoopTypes'
  <2>1. SurfaceOK(sf') /\ loop' = "events" /\ inbox' \in Seq(Messages)
        /\ fingers' \in [Touches -> Points \cup {None}] /\ mouse' \in Points \cup {None}
        /\ button' \in BOOLEAN
    BY <1>1 DEF LoopTypes
  <2>. QED  BY <1>1, <2>1, TypesKept
<1>3. /\ TouchRests => Rests(events', TouchDowns, TouchEnds, touchDown' = 0)
      /\ PointerRests => Rests(events', PointerDowns, PointerEnds, pointerDown' = 0)
      /\ Orderly(events', PointerDowns, PointerEnds, pointerDown' = 0)
  <2>1. /\ (touchDown = 0) \in BOOLEAN /\ (touchDown' = 0) \in BOOLEAN
        /\ (pointerDown = 0) \in BOOLEAN /\ (pointerDown' = 0) \in BOOLEAN
    OBVIOUS
  <2>2. Orderly(events, PointerDowns, PointerEnds, pointerDown = 0)
    BY DEF ButtonRests
  <2>3. TouchRests => Rests(events', TouchDowns, TouchEnds, touchDown' = 0)
    BY <1>1, <2>1, Disjoint, RestsTail DEF TouchRests
  <2>4. /\ PointerRests => Rests(events', PointerDowns, PointerEnds, pointerDown' = 0)
        /\ Orderly(events', PointerDowns, PointerEnds, pointerDown' = 0)
    BY <1>1, <2>1, <2>2, Disjoint, RestsTail DEF PointerRests
  <2>. QED  BY <2>3, <2>4
<1>4. /\ TouchRests => TouchRests'
      /\ PointerRests => PointerRests'
      /\ {TouchRests, TouchRests', PointerRests, PointerRests'} \subseteq BOOLEAN
  BY <1>3, SameBackend DEF TouchRests, PointerRests, Rests
<1>5. FingersRest'
  <2>1. ASSUME backend # "x11", \A t \in Touches : fingers[t] = None
        PROVE  Rests(inbox', Downs, Ups, TouchRests')
    <3>1. Rests(<<>>, Downs, Ups, TouchRests)
      BY <1>1, <2>1 DEF FingersRest
    <3>. QED  BY <1>1, <1>4, <3>1, RestsEmpty
  <2>2. backend' = backend /\ sf' = sf /\ fingers' = fingers /\ Downs' = Downs /\ Ups' = Ups
        /\ \A t : DownsOf(t)' = DownsOf(t) /\ UpsOf(t)' = UpsOf(t)
    BY SameBackend
  <2>. QED  BY <1>1, <1>4, <2>1, <2>2 DEF FingersRest
<1>6. ButtonRests'
  <2>1. ASSUME ~ button PROVE Rests(inbox', Presses, Releases, PointerRests')
    <3>1. Rests(<<>>, Presses, Releases, PointerRests)
      BY <1>1, <2>1 DEF ButtonRests
    <3>. QED  BY <1>1, <1>4, <3>1, RestsEmpty
  <2>2. Orderly(inbox', Presses, Releases, PointerRests')
    BY <1>1, <1>4, RestsEmpty
  <2>3. Presses' = Presses /\ Releases' = Releases /\ PointerDowns' = PointerDowns
        /\ PointerEnds' = PointerEnds
    BY SameBackend
  <2>. QED  BY <1>3, <2>1, <2>2, <2>3 DEF ButtonRests
<1>. QED  BY <1>2, <1>5, <1>6

\* What leaves hands, queues and keys alone.
LEMMA HandsUntouched ==
    ASSUME HandsInv, UNCHANGED <<backend, inbox, events, fingers, mouse, button,
                                 touchDown, pointerDown, down>>,
           SurfaceOK(sf'), sf'.active = sf.active, plat' \in Platforms,
           loop' \in {"top", "events", "render"},
           loop' # "top" => inbox = <<>>, loop' # "events" => events = <<>>
    PROVE  HandsInv'
<1>. USE DEF HandsInv
<1>1. LoopTypes'
  <2>1. /\ inbox' \in Seq(Messages) /\ events' \in Seq(Events)
        /\ fingers' \in [Touches -> Points \cup {None}] /\ mouse' \in Points \cup {None}
        /\ button' \in BOOLEAN
    BY DEF LoopTypes
  <2>. QED  BY <2>1, TypesKept
<1>2. TouchRests' = TouchRests /\ PointerRests' = PointerRests
  BY SameBackend DEF TouchRests, PointerRests
<1>3. backend' = backend /\ fingers' = fingers /\ Downs' = Downs /\ Ups' = Ups
      /\ Presses' = Presses /\ Releases' = Releases
      /\ PointerDowns' = PointerDowns /\ PointerEnds' = PointerEnds
      /\ \A t : DownsOf(t)' = DownsOf(t) /\ UpsOf(t)' = UpsOf(t)
  BY SameBackend
<1>4. FingersRest'
  BY <1>2, <1>3 DEF FingersRest
<1>5. ButtonRests'
  BY <1>2, <1>3 DEF ButtonRests
<1>6. BridgeHolds'
  BY DEF BridgeHolds
<1>. QED  BY <1>1, <1>4, <1>5, <1>6

\* The server answers, or tells of a mode: no hand is in it.
LEMMA ServerDelivers ==
    ASSUME HandsInv, NEW m \in Messages, m.t \in {"configure", "mode", "expose"}, loop = "top", loop' = loop,
           inbox' = Append(inbox, m),
           UNCHANGED <<backend, plat, events, fingers, mouse, button, touchDown, pointerDown, down>>,
           SurfaceOK(sf'), sf'.active = sf.active
    PROVE  HandsInv'
<1>. USE DEF HandsInv
<1>1. inbox \in Seq(Messages) /\ inbox' \in Seq(Messages)
  BY DEF LoopTypes
<1>2. LoopTypes'
  <2>1. /\ plat' \in Platforms /\ events' \in Seq(Events) /\ events' = <<>> /\ loop' = "top"
        /\ fingers' \in [Touches -> Points \cup {None}] /\ mouse' \in Points \cup {None}
        /\ button' \in BOOLEAN
    BY DEF LoopTypes
  <2>. QED  BY <1>1, <2>1, TypesKept
<1>3. /\ TouchRests' = TouchRests /\ PointerRests' = PointerRests
      /\ {TouchRests, PointerRests} \subseteq BOOLEAN
  BY SameBackend DEF TouchRests, PointerRests, Rests
<1>4. /\ m \notin Downs /\ m \notin Presses
      /\ \A t \in Touches : m \notin DownsOf(t)
  BY DEF Downs, Presses, DownsOf
<1>5. /\ Rests(inbox, Downs, Ups, TouchRests) => Rests(inbox', Downs, Ups, TouchRests)
      /\ Rests(inbox, Presses, Releases, PointerRests) => Rests(inbox', Presses, Releases, PointerRests)
      /\ Orderly(inbox, Presses, Releases, PointerRests)
            => Orderly(inbox', Presses, Releases, PointerRests)
      /\ \A t \in Touches :
            Rests(inbox, DownsOf(t), UpsOf(t), t \notin sf.active)
            => Rests(inbox', DownsOf(t), UpsOf(t), t \notin sf.active)
  BY <1>1, <1>3, <1>4, RestsAppend, OrderlyAppend
<1>6. backend' = backend /\ fingers' = fingers /\ Downs' = Downs /\ Ups' = Ups
      /\ Presses' = Presses /\ Releases' = Releases
      /\ PointerDowns' = PointerDowns /\ PointerEnds' = PointerEnds
      /\ \A t : DownsOf(t)' = DownsOf(t) /\ UpsOf(t)' = UpsOf(t)
  BY SameBackend
<1>7. FingersRest'
  BY <1>3, <1>5, <1>6 DEF FingersRest
<1>8. ButtonRests'
  BY <1>3, <1>5, <1>6 DEF ButtonRests
<1>9. BridgeHolds'
  BY DEF BridgeHolds
<1>. QED  BY <1>2, <1>7, <1>8, <1>9

\* Of numbers up to a bound there is a latest.
LEMMA LatestIsOne ==
    ASSUME NEW N \in Nat, NEW places \in SUBSET (1..N), places # {}
    PROVE  Latest(places) \in places
<1>. DEFINE back == {N - i : i \in places}
<1>0. \A i \in places : i \in 1..N /\ N - i \in Nat
  OBVIOUS
<1>1. back \in SUBSET Nat /\ back # {}
  BY <1>0
<1>2. PICK x \in back : \A y \in back : x <= y
  <2>. HIDE DEF back
  <2>. QED  BY <1>1, LeastNat
<1>3. PICK i \in places : x = N - i
  BY <1>2
<1>4. \A j \in places : j <= i
  <2>1. ASSUME NEW j \in places PROVE j <= i
    <3>1. x <= N - j
      BY <1>2
    <3>. QED  BY <1>0, <1>3, <3>1
  <2>. QED  BY <2>1
<1>. QED  BY <1>4 DEF Latest

LEMMA ResizedTyped ==
    ASSUME NEW p \in Platforms, NEW evs \in Seq(Events)
    PROVE  Resized(p, evs) \in Platforms
<1>. DEFINE sizes == {i \in DOMAIN evs : evs[i].t = "resized"}
<1>1. CASE sizes = {}
  BY <1>1 DEF Resized
<1>2. CASE sizes # {}
  <2>1. sizes \in SUBSET (1..Len(evs)) /\ Len(evs) \in Nat
    OBVIOUS
  <2>2. Latest(sizes) \in sizes
    <3>. HIDE DEF sizes
    <3>. QED  BY <1>2, <2>1, LatestIsOne
  <2>. DEFINE e == evs[Latest(sizes)]
  <2>3. e \in Events /\ e.t = "resized"
    BY <2>2
  <2>4. Resized(p, evs) = [size |-> e.size, redraw |-> TRUE]
    BY <1>2 DEF Resized
  <2>. HIDE DEF e
  <2>5. e.size \in Wins
    BY <2>3 DEF Events
  <2>. QED  BY <2>4, <2>5 DEF Platforms
<1>. QED  BY <1>1, <1>2

LEMMA FlushOK ==
    ASSUME NEW s, SurfaceOK(s)
    PROVE  SurfaceOK(Flush(s)) /\ Flush(s).active = s.active
<1>1. s \in SurfaceType
  BY DEF SurfaceOK
<1>. QED  BY <1>1, FlushTyped DEF SurfaceOK, Untouched

\* A poll turns the messages into events.
LEMMA PollHolds ==
    ASSUME HandsInv, Poll
    PROVE  HandsInv'
<1>. USE DEF HandsInv
<1>. DEFINE s == Flush(sf)
            D == Dispatched(s, inbox)
<1>1. /\ loop = "top" /\ loop' = "events" /\ sf' = D[1] /\ events' = D[2] /\ inbox' = <<>>
      /\ plat' = Resized(plat, events') /\ backend' = backend
      /\ UNCHANGED <<fingers, mouse, button, touchDown, pointerDown, down>>
  BY DEF Poll, LoopGoes, handVars, bridgeVars
<1>2. inbox \in Seq(Messages) /\ events = <<>> /\ SurfaceOK(sf) /\ plat \in Platforms
  BY <1>1 DEF LoopTypes
<1>3. SurfaceOK(s) /\ s.active = sf.active
  BY <1>2, FlushOK
<1>. HIDE DEF s
<1>4. SurfaceOK(sf') /\ events' \in Seq(Events) /\ Polled(s, inbox, sf', events')
  BY <1>1, <1>2, <1>3, AllPolled
<1>. HIDE DEF D
<1>5. LoopTypes'
  <2>1. plat' \in Platforms
    BY <1>1, <1>2, <1>4, ResizedTyped
  <2>2. /\ fingers' \in [Touches -> Points \cup {None}] /\ mouse' \in Points \cup {None}
        /\ button' \in BOOLEAN /\ inbox' \in Seq(Messages)
    BY <1>1 DEF LoopTypes
  <2>. QED  BY <1>1, <1>4, <2>1, <2>2, TypesKept
<1>6. BridgeHolds'
  BY <1>1 DEF BridgeHolds
<1>7. /\ TouchRests <=> touchDown = 0
      /\ PointerRests <=> pointerDown = 0
      /\ TouchRests' <=> Rests(events', TouchDowns, TouchEnds, touchDown = 0)
      /\ PointerRests' <=> Rests(events', PointerDowns, PointerEnds, pointerDown = 0)
      /\ {TouchRests, PointerRests, TouchRests', PointerRests', touchDown = 0, pointerDown = 0} \subseteq BOOLEAN
  <2>1. (touchDown = 0) \in BOOLEAN /\ (pointerDown = 0) \in BOOLEAN
    OBVIOUS
  <2>2. /\ TouchRests <=> touchDown = 0
        /\ PointerRests <=> pointerDown = 0
    BY <1>2, <2>1, RestsEmpty DEF TouchRests, PointerRests
  <2>3. /\ TouchRests' <=> Rests(events', TouchDowns, TouchEnds, touchDown = 0)
        /\ PointerRests' <=> Rests(events', PointerDowns, PointerEnds, pointerDown = 0)
    BY <1>1, SameBackend DEF TouchRests, PointerRests
  <2>4. {TouchRests, PointerRests, TouchRests', PointerRests'} \subseteq BOOLEAN
    BY DEF TouchRests, PointerRests, Rests
  <2>. QED  BY <2>1, <2>2, <2>3, <2>4
<1>8. backend' = backend /\ fingers' = fingers /\ Downs' = Downs /\ Ups' = Ups
      /\ Presses' = Presses /\ Releases' = Releases
      /\ PointerDowns' = PointerDowns /\ PointerEnds' = PointerEnds
      /\ \A t : DownsOf(t)' = DownsOf(t) /\ UpsOf(t)' = UpsOf(t)
  BY <1>1, SameBackend
<1>9. FingersRest'
  <2>1. ASSUME backend # "x11", \A t \in Touches : fingers[t] = None
        PROVE  Rests(inbox', Downs, Ups, TouchRests')
    <3>1. Rests(inbox, Downs, Ups, touchDown = 0)
      <4>1. Rests(inbox, Downs, Ups, TouchRests)
        BY <2>1 DEF FingersRest
      <4>. QED  BY <1>2, <1>7, <4>1, RestsMore
    <3>2. TouchRests'
      BY <1>4, <1>7, <2>1, <3>1 DEF Polled, PolledTouch
    <3>. QED  BY <1>1, <1>7, <3>2, RestsEmpty
  <2>2. ASSUME backend = "x11" PROVE sf'.active = {} => TouchRests'
    <3>1. sf'.active = {} => Rests(events', TouchDowns, TouchEnds, s.active = {})
      BY <1>4, <2>2 DEF Polled, PolledTracker
    <3>2. s.active = {} => touchDown = 0
      BY <1>3, <1>7, <2>2 DEF FingersRest
    <3>3. (s.active = {}) \in BOOLEAN /\ (touchDown = 0) \in BOOLEAN
      OBVIOUS
    <3>4. Rests(events', TouchDowns, TouchEnds, s.active = {})
          => Rests(events', TouchDowns, TouchEnds, touchDown = 0)
      BY <1>4, <3>2, <3>3, RestsMore
    <3>. QED  BY <1>7, <3>1, <3>4
  <2>3. ASSUME backend = "x11", NEW t \in Touches, fingers[t] = None
        PROVE  Rests(inbox', DownsOf(t), UpsOf(t), t \notin sf'.active)
    <3>1. Rests(inbox, DownsOf(t), UpsOf(t), t \notin s.active)
      BY <1>3, <2>3 DEF FingersRest
    <3>2. t \notin sf'.active
      BY <1>4, <2>3, <3>1 DEF Polled, PolledTracker
    <3>. QED  BY <1>1, <3>2, RestsEmpty
  <2>. QED  BY <1>8, <2>1, <2>2, <2>3 DEF FingersRest
<1>10. ButtonRests'
  <2>1. PolledPointer(inbox, events') /\ (pointerDown = 0) \in BOOLEAN
    BY <1>4 DEF Polled
  <2>2. Orderly(inbox, Presses, Releases, pointerDown = 0)
        /\ (~ button => Rests(inbox, Presses, Releases, pointerDown = 0))
    BY <1>2, <1>7, RestsMore DEF ButtonRests
  <2>3. Orderly(events', PointerDowns, PointerEnds, pointerDown = 0)
        /\ (~ button => PointerRests')
    BY <1>7, <2>1, <2>2 DEF PolledPointer
  <2>4. Orderly(inbox', Presses, Releases, PointerRests')
        /\ (~ button => Rests(inbox', Presses, Releases, PointerRests'))
    BY <1>1, <1>7, <2>3, RestsEmpty
  <2>. QED  BY <1>1, <1>8, <2>3, <2>4 DEF ButtonRests
<1>. QED  BY <1>5, <1>6, <1>9, <1>10

\* At the start.
LEMMA InitHolds ==
    ASSUME Init
    PROVE  HandsInv
<1>1. PICK o \in left.outputs :
         /\ backend \in {Decide(p) : p \in Probes}
         /\ LET s0 == SurfaceSetSize(Connected(IF backend = "null" THEN None ELSE o), Window)
            IN  sf = SurfaceSetVisible(s0, TRUE)
         /\ plat = [size |-> Window, redraw |-> TRUE]
         /\ inbox = <<>> /\ events = <<>>
  BY DEF Init, SurfaceInit
<1>2. backend \in {"wayland", "x11", "null"}
  BY <1>1 DEF Decide, Probes
<1>. DEFINE out == IF backend = "null" THEN None ELSE o
            c == Connected(out)
            u == [c EXCEPT !.size = Window]
            first == <<Window>>
            v == [c EXCEPT !.size = Window, !.pending = Window, !.wants = first]
<1>3. out \in Outputs \cup {None}
  BY FrontEndAssumption DEF Init
<1>. HIDE DEF out
<1>. DEFINE Loose ==
                [size : {<<0, 0>>}, visible : Flags, ready : Flags, configured : Flags,
                 created : Flags, pending : {<<0, 0>>}, output : Outputs \cup {None},
                 margins : Int \X Int, positioned : Flags, place : {None}, pointer : {None},
                 touch : {None}, active : {{}}, positions : [Touches -> {None}],
                 out : Requests, wants : Requests, shm : {None}, buffer : {None},
                 at : Int \X Int, mapped : Flags, maps : Nat]
            start == <<0, 0>>
            nowhere == [t \in Touches |-> None]
            none == <<>>
<1>4. /\ start \in Int \X Int /\ start \in {<<0, 0>>} /\ nowhere \in [Touches -> {None}]
      /\ None \in {None} /\ {} \in {{}} /\ none \in Requests /\ 0 \in Nat
  BY DEF Requests
<1>5. /\ c = [size |-> start, visible |-> FALSE, ready |-> FALSE, configured |-> FALSE,
              created |-> FALSE, pending |-> start, output |-> out, margins |-> start,
              positioned |-> FALSE, place |-> None, pointer |-> None, touch |-> None,
              active |-> {}, positions |-> nowhere,
              out |-> none, wants |-> none, shm |-> None, buffer |-> None, at |-> start,
              mapped |-> FALSE, maps |-> 0]
  BY DEF Connected
<1>16. X11SetSize(c, Window) = v /\ first \in Requests /\ Window \in Wins
  <2>1. c.wants = <<>>
    BY DEF Connected
  <2>. HIDE DEF c
  <2>. QED  BY <2>1 DEF X11SetSize, Requests, Wins
<1>. HIDE DEF start, nowhere, none, first, c
<1>12. c \in Loose /\ c.ready = FALSE
  BY Zenon, FlagsTyped, <1>3, <1>4, <1>5
<1>13. [Touches -> {None}] \subseteq [Touches -> Points \cup {None}] /\ Window \in Wins
  BY DEF Wins
<1>14. u \in SurfaceType /\ u.pending \in {<<0, 0>>} /\ u.active \in {{}} /\ u.size = Window
       /\ u.ready = c.ready
  BY Zenon, <1>12, <1>13 DEF SurfaceType
<1>15. v \in SurfaceType /\ v.pending = Window /\ v.active \in {{}}
  BY Zenon, <1>12, <1>13, <1>16 DEF SurfaceType
<1>. HIDE DEF u, v, c
<1>6. SurfaceOK(sf) /\ sf.active = {}
  <2>1. CASE backend = "wayland"
    <3>1. sf = SurfaceSetVisible(u, TRUE)
      BY <1>1, <1>12, <2>1 DEF SurfaceSetSize, WlSetSize, u, c, out
    <3>. DEFINE a == [u EXCEPT !.visible = TRUE]
                b == Flush(EnsureCreated(a, Window))
    <3>2. a \in SurfaceType /\ a.active \in {{}} /\ a.size = Window /\ Window \in Wins
      BY Zenon, FlagsTyped, <1>13, <1>14 DEF SurfaceType
    <3>3. sf = [b EXCEPT !.ready = TRUE]
      BY <1>14, <2>1, <3>1 DEF SurfaceSetVisible, WlSetVisible
    <3>. HIDE DEF a
    <3>4. b \in SurfaceType /\ b.active = {} /\ b.created /\ b.pending = Window /\ b.size = Window
      BY <3>2, CreateTyped, FlushTyped DEF Untouched
    <3>. HIDE DEF b
    <3>5. sf \in SurfaceType /\ sf.active = {} /\ sf.pending = Window /\ sf.size = Window
      BY Zenon, FlagsTyped, <3>3, <3>4 DEF SurfaceType
    <3>6. sf.created /\ sf.ready
      BY <3>3, <3>4 DEF SurfaceType
    <3>. QED  BY <2>1, <3>5, <3>6 DEF SurfaceOK
  <2>2. CASE backend = "x11"
    <3>1. sf = SurfaceSetVisible(v, TRUE)
      BY <1>1, <1>16, <2>2 DEF SurfaceSetSize, c, out
    <3>2. SurfaceOK(v)
      BY <1>13, <1>15, <2>2 DEF SurfaceOK
    <3>. QED  BY <1>15, <3>1, <3>2, SetVisibleOK DEF Untouched
  <2>3. CASE backend = "null"
    <3>1. sf = SurfaceSetVisible(u, TRUE)
      BY <1>1, <2>3 DEF SurfaceSetSize, u, c, out
    <3>2. SurfaceOK(u)
      BY <1>14, <2>3 DEF SurfaceOK
    <3>. QED  BY <1>14, <3>1, <3>2, SetVisibleOK DEF Untouched
  <2>. QED  BY <1>2, <2>1, <2>2, <2>3
<1>7. /\ loop = "top" /\ fingers = [t \in Touches |-> None] /\ mouse = None /\ button = FALSE
      /\ touchDown = 0 /\ pointerDown = 0 /\ down = {}
  BY DEF Init
<1>8. LoopTypes
  <2>1. plat \in Platforms
    BY <1>1 DEF Platforms, Wins
  <2>2. inbox \in Seq(Messages) /\ events \in Seq(Events)
    BY <1>1
  <2>3. fingers \in [Touches -> Points \cup {None}]
    BY <1>7
  <2>. QED  BY <1>1, <1>2, <1>6, <1>7, <2>1, <2>2, <2>3 DEF LoopTypes
<1>9. TouchRests /\ PointerRests
  BY <1>1, <1>7, RestsEmpty DEF TouchRests, PointerRests
<1>10. FingersRest
  BY <1>1, <1>6, <1>9, RestsEmpty DEF FingersRest
<1>11. ButtonRests
  BY <1>1, <1>7, <1>9, RestsEmpty DEF ButtonRests
<1>. QED  BY <1>7, <1>8, <1>10, <1>11 DEF HandsInv, BridgeHolds

LEMMA PositionTyped ==
    ASSUME NEW s, SurfaceOK(s), Position(s) # None
    PROVE  Position(s) \in Int \X Int /\ (backend = "wayland" => s.output # None)
<1>1. /\ s.margins \in Int \X Int /\ s.at \in Int \X Int /\ s.size \in Wins
      /\ s.output \in Outputs \cup {None}
  BY Zenon DEF SurfaceOK, SurfaceType
<1>2. CASE backend = "wayland"
  <2>1. s.output # None /\ Position(s) = <<s.margins[1], s.output[2] - s.size[2] - s.margins[2]>>
    BY <1>2 DEF Position, WlPosition
  <2>2. s.output[2] \in Int /\ s.size[2] \in Int
    BY <1>1, <2>1, NonePair
  <2>. QED  BY <1>1, <2>1, <2>2
<1>3. CASE backend # "wayland"
  BY <1>1, <1>3 DEF Position
<1>. QED  BY <1>2, <1>3

\* Messages the hands and the server send.
LEMMA HandMessages ==
    /\ \A t \in Touches : [t |-> "up", id |-> t] \in UpsOf(t) /\ [t |-> "up", id |-> t] \in Ups
    /\ \A t \in Touches : [t |-> "up", id |-> t] \notin Downs \cup Presses \cup Releases
    /\ \A t, u \in Touches : [t |-> "up", id |-> t] \notin DownsOf(u)
    /\ \A k \in {"down", "move"}, t \in Touches, p \in Points :
          /\ [t |-> k, id |-> t, p |-> p] \in Messages
          /\ [t |-> k, id |-> t, p |-> p] \notin Presses \cup Releases
          /\ \A u \in Touches : u # t => [t |-> k, id |-> t, p |-> p] \notin DownsOf(u)
    /\ \A k \in {"motion", "press"}, p \in Points :
          /\ [t |-> k, p |-> p] \in Messages
          /\ [t |-> k, p |-> p] \notin Downs \cup Releases
          /\ \A u \in Touches : [t |-> k, p |-> p] \notin DownsOf(u)
          /\ k = "motion" => [t |-> k, p |-> p] \notin Presses
    /\ \A k \in {"leave", "release"} :
          /\ [t |-> k] \in Messages
          /\ [t |-> k] \in Releases /\ [t |-> k] \notin Downs \cup Presses
          /\ \A u \in Touches : [t |-> k] \notin DownsOf(u)
    /\ backend # "x11" =>
          [t |-> "cancel"] \in Ups /\ [t |-> "cancel"] \notin Presses \cup Releases
  BY DEF Messages, UpsOf, DownsOf, Ups, Downs, Presses, Releases

LEMMA HandsHold ==
    ASSUME HandsInv, loop = "top", Hands
    PROVE  HandsInv'
<1>. USE DEF HandsInv
<1>0. /\ fingers \in [Touches -> Points \cup {None}] /\ mouse \in Points \cup {None}
      /\ button \in BOOLEAN /\ None \notin Points /\ Ups \subseteq Messages
  BY NonePair DEF LoopTypes, Ups
<1>1. ASSUME NEW m, Deliver(m), Elsewhere
      PROVE  /\ loop' = loop /\ inbox' = Append(inbox, m)
             /\ UNCHANGED <<backend, sf, plat, events, touchDown, pointerDown, down>>
  BY <1>1 DEF Deliver, Elsewhere, bridgeVars
<1>2. ASSUME NEW t \in Touches, FingerUp(t) PROVE HandsInv'
  <2>. DEFINE m == [t |-> "up", id |-> t]
  <2>1. m \in Ups /\ m \in UpsOf(t) /\ m \notin Downs \cup Presses \cup Releases
        /\ m \in Messages /\ \A u \in Touches : m \notin DownsOf(u)
    BY <1>0, HandMessages
  <2>2. Deliver(m) /\ Elsewhere /\ fingers' = [fingers EXCEPT ![t] = None]
        /\ mouse' = mouse /\ button' = button
    BY <1>2 DEF FingerUp
  <2>. HIDE DEF m
  <2>3. fingers' \in [Touches -> Points \cup {None}]
        /\ \A u \in Touches : fingers'[u] = None => u = t \/ fingers[u] = None
    BY <1>0, <2>2
  <2>. QED  BY <1>0, <1>1, <2>1, <2>2, <2>3, HandsDeliver
<1>3. ASSUME NEW t \in Touches, NEW p \in Points, FingerDown(t, p) \/ FingerMove(t, p) PROVE HandsInv'
  <2>1. PICK k \in {"down", "move"} :
           /\ Deliver([t |-> k, id |-> t, p |-> p]) /\ Elsewhere
           /\ fingers' = [fingers EXCEPT ![t] = p] /\ mouse' = mouse /\ button' = button
    BY <1>3 DEF FingerDown, FingerMove
  <2>. DEFINE m == [t |-> k, id |-> t, p |-> p]
  <2>2. m \in Messages /\ m \notin Presses \cup Releases
        /\ \A u \in Touches : u # t => m \notin DownsOf(u)
    BY HandMessages
  <2>4. Deliver(m)
    BY <2>1
  <2>. HIDE DEF m
  <2>3. fingers' \in [Touches -> Points \cup {None}] /\ fingers'[t] # None
        /\ \A u \in Touches : fingers'[u] = None => u # t /\ fingers[u] = None
    BY <1>0, <2>1
  <2>. QED  BY <1>0, <1>1, <2>1, <2>2, <2>3, <2>4, HandsDeliver
<1>4. CASE TouchesCancelled
  <2>. DEFINE m == [t |-> "cancel"]
  <2>1. /\ backend = "wayland" /\ Deliver(m) /\ Elsewhere
        /\ fingers' = [t \in Touches |-> None] /\ mouse' = mouse /\ button' = button
    BY <1>4 DEF TouchesCancelled
  <2>2. m \in Ups /\ m \notin Presses \cup Releases
    BY <2>1, HandMessages
  <2>. HIDE DEF m
  <2>3. fingers' \in [Touches -> Points \cup {None}]
    BY <2>1
  <2>. QED  BY <1>0, <1>1, <2>1, <2>2, <2>3, HandsDeliver
<1>5. ASSUME NEW p \in Points, PointerGoes(p) PROVE HandsInv'
  <2>. DEFINE m == [t |-> "motion", p |-> p]
  <2>1. Deliver(m) /\ Elsewhere /\ mouse' = p /\ fingers' = fingers /\ button' = button
    BY <1>5 DEF PointerGoes
  <2>2. m \in Messages /\ m \notin Downs \cup Releases \cup Presses
        /\ \A u \in Touches : m \notin DownsOf(u)
    BY HandMessages
  <2>. HIDE DEF m
  <2>. QED  BY <1>0, <1>1, <2>1, <2>2, HandsDeliver
<1>6. CASE PointerGone \/ ButtonUp
  <2>1. PICK k \in {"leave", "release"} :
           /\ Deliver([t |-> k]) /\ Elsewhere /\ fingers' = fingers
           /\ mouse' \in Points \cup {None} /\ button' \in BOOLEAN
    BY <1>0, <1>6 DEF PointerGone, ButtonUp
  <2>. DEFINE m == [t |-> k]
  <2>2. m \in Messages /\ m \in Releases /\ m \notin Downs \cup Presses
        /\ \A u \in Touches : m \notin DownsOf(u)
    BY HandMessages
  <2>3. Deliver(m)
    BY <2>1
  <2>. HIDE DEF m
  <2>. QED  BY <1>0, <1>1, <2>1, <2>2, <2>3, HandsDeliver
<1>7. CASE ButtonDown
  <2>. DEFINE m == [t |-> "press", p |-> mouse]
  <2>1. /\ Deliver(m) /\ Elsewhere /\ fingers' = fingers /\ mouse' = mouse /\ button' = TRUE
        /\ ~ button /\ mouse \in Points
    BY <1>0, <1>7 DEF ButtonDown
  <2>2. m \in Messages /\ m \notin Downs \cup Releases /\ \A u \in Touches : m \notin DownsOf(u)
    BY <2>1, HandMessages
  <2>. HIDE DEF m
  <2>. QED  BY <1>0, <1>1, <2>1, <2>2, HandsDeliver
<1>. QED  BY <1>2, <1>3, <1>4, <1>5, <1>6, <1>7 DEF Hands

LEMMA ServerHolds ==
    ASSUME HandsInv, loop = "top", Configure \/ MapWindow \/ Uncovered \/ OutputMode
    PROVE  HandsInv'
<1>. USE DEF HandsInv
<1>0. SurfaceOK(sf) /\ sf \in SurfaceType
  BY DEF LoopTypes, SurfaceOK
<1>1. CASE Configure
  <2>1. PICK i \in DOMAIN sf.wants :
           \E size \in {sf.wants[i]} \cup (IF backend = "wayland" THEN {<<0, 0>>} ELSE {}) :
              /\ inbox' = Append(inbox, [t |-> "configure", size |-> size])
              /\ sf' = [sf EXCEPT !.wants = SubSeq(sf.wants, i + 1, Len(sf.wants)),
                                  !.buffer = IF backend = "x11" THEN None ELSE sf.buffer]
              /\ UNCHANGED <<backend, plat, events, fingers, mouse, button, touchDown, pointerDown, down, loop>>
    BY <1>1 DEF Configure, handVars, bridgeVars, Elsewhere
  <2>7. PICK size \in {sf.wants[i]} \cup (IF backend = "wayland" THEN {<<0, 0>>} ELSE {}) :
              /\ inbox' = Append(inbox, [t |-> "configure", size |-> size])
              /\ sf' = [sf EXCEPT !.wants = SubSeq(sf.wants, i + 1, Len(sf.wants)),
                                  !.buffer = IF backend = "x11" THEN None ELSE sf.buffer]
              /\ UNCHANGED <<backend, plat, events, fingers, mouse, button, touchDown, pointerDown, down, loop>>
    BY <2>1
  <2>. DEFINE m == [t |-> "configure", size |-> size]
              rest == SubSeq(sf.wants, i + 1, Len(sf.wants))
              b == IF backend = "x11" THEN None ELSE sf.buffer
  <2>8. sf.wants \in Seq(Wins) /\ sf.wants[i] \in Wins
    BY <1>0 DEF SurfaceType, Requests
  <2>2. m \in Messages /\ m.t = "configure"
    BY <2>7, <2>8 DEF Messages
  <2>9. rest \in Requests /\ b \in Wins \cup {None} /\ sf' = [sf EXCEPT !.wants = rest, !.buffer = b]
    <3>1. rest \in Requests
      BY <2>8 DEF Requests
    <3>2. b \in Wins \cup {None}
      BY <1>0 DEF SurfaceType
    <3>. QED  BY <2>7, <3>1, <3>2
  <2>. HIDE DEF rest, b
  <2>3. /\ sf' \in SurfaceType /\ sf'.active = sf.active /\ sf'.positions = sf.positions
        /\ sf'.pending = sf.pending /\ sf'.size = sf.size
    BY Zenon, <1>0, <2>9 DEF SurfaceType
  <2>4. sf'.created = sf.created /\ sf'.ready = sf.ready
    BY Zenon, <1>0, <2>9 DEF SurfaceType
  <2>5. SurfaceOK(sf')
    BY <1>0, <2>3, <2>4 DEF SurfaceOK
  <2>. HIDE DEF m
  <2>6. inbox' = Append(inbox, m)
    BY <2>7 DEF m
  <2>. QED  BY <2>2, <2>3, <2>5, <2>6, <2>7, ServerDelivers
<1>3. CASE MapWindow \/ Uncovered
  <2>. DEFINE m == [t |-> "expose"]
              n == sf.maps - 1
  <2>1. /\ inbox' = Append(inbox, m)
        /\ \/ n \in Nat /\ sf' = [sf EXCEPT !.maps = n, !.mapped = TRUE]
           \/ sf' = [sf EXCEPT !.buffer = None]
        /\ UNCHANGED <<backend, plat, events, fingers, mouse, button, touchDown, pointerDown, down, loop>>
    BY <1>0, <1>3 DEF MapWindow, Uncovered, SurfaceType, handVars, bridgeVars, Elsewhere
  <2>2. m \in Messages /\ m.t = "expose"
    BY DEF Messages
  <2>. HIDE DEF m, n
  <2>3. /\ sf' \in SurfaceType /\ sf'.active = sf.active /\ sf'.positions = sf.positions
        /\ sf'.pending = sf.pending /\ sf'.size = sf.size
        /\ sf'.created = sf.created /\ sf'.ready = sf.ready
    <3>1. CASE n \in Nat /\ sf' = [sf EXCEPT !.maps = n, !.mapped = TRUE]
      BY Zenon, FlagsTyped, <1>0, <3>1 DEF SurfaceType
    <3>2. CASE sf' = [sf EXCEPT !.buffer = None]
      BY Zenon, <1>0, <3>2 DEF SurfaceType
    <3>. QED  BY <2>1, <3>1, <3>2
  <2>5. SurfaceOK(sf')
    BY <1>0, <2>3 DEF SurfaceOK
  <2>. QED  BY <2>1, <2>2, <2>3, <2>5, ServerDelivers
<1>2. CASE OutputMode
  <2>1. PICK mode \in Outputs :
           /\ inbox' = Append(inbox, [t |-> "mode", size |-> mode])
           /\ UNCHANGED <<sf, backend, plat, events, fingers, mouse, button,
                          touchDown, pointerDown, down, loop>>
    BY <1>2 DEF OutputMode, Deliver, handVars, bridgeVars, Elsewhere
  <2>. DEFINE m == [t |-> "mode", size |-> mode]
  <2>2. m \in Messages /\ m.t = "mode"
    BY DEF Messages
  <2>. HIDE DEF m
  <2>3. inbox' = Append(inbox, m)
    BY <2>1 DEF m
  <2>. QED  BY <1>0, <2>1, <2>2, <2>3, ServerDelivers
<1>. QED  BY <1>1, <1>2, <1>3

\* What the window is told to do.
LEMMA WindowHolds ==
    ASSUME HandsInv, TrayToggle \/ EscapeHides \/ MoveWindow \/ ResizeWindow \/ SceneChanges
                     \/ Render \/ Tick
    PROVE  HandsInv'
<1>. USE DEF HandsInv
<1>0. /\ SurfaceOK(sf) /\ plat \in Platforms /\ plat.size \in Wins
      /\ loop \in {"top", "events", "render"}
      /\ (loop # "top" => inbox = <<>>) /\ (loop # "events" => events = <<>>)
  BY DEF LoopTypes, Platforms
<1>. DEFINE Alone == UNCHANGED <<backend, inbox, events, fingers, mouse, button,
                                 touchDown, pointerDown, down>>
<1>1. CASE TrayToggle \/ EscapeHides
  <2>1. PICK v \in BOOLEAN : PlatformSetVisible(v) /\ Alone /\ loop' = loop
    <3>1. TrayToggle => (~ visible) \in BOOLEAN /\ PlatformSetVisible(~ visible)
      BY DEF TrayToggle, PlatformSetVisible
    <3>2. EscapeHides => PlatformSetVisible(FALSE)
      BY DEF EscapeHides
    <3>3. Alone /\ loop' = loop
      BY <1>1 DEF TrayToggle, EscapeHides, handVars, bridgeVars
    <3>. QED  BY <1>1, <3>1, <3>2, <3>3
  <2>2. SurfaceOK(sf') /\ sf'.active = sf.active
    BY <1>0, <2>1, SetVisibleOK DEF PlatformSetVisible, Untouched
  <2>3. plat' \in Platforms
    BY <1>0, <2>1 DEF PlatformSetVisible, Platforms
  <2>. QED  BY <1>0, <2>1, <2>2, <2>3, HandsUntouched
<1>2. CASE MoveWindow
  <2>1. PICK xy \in Places : sf' = SurfaceSetPosition(sf, xy) /\ Alone /\ loop' = loop /\ plat' = plat
    BY <1>2 DEF MoveWindow, handVars, bridgeVars
  <2>2. xy \in Int \X Int
    BY FrontEndAssumption
  <2>3. SurfaceOK(sf') /\ sf'.active = sf.active
    BY <1>0, <2>1, <2>2, SetPositionOK DEF Untouched
  <2>. QED  BY <1>0, <2>1, <2>3, HandsUntouched
<1>3. CASE ResizeWindow
  <2>1. PICK size \in Sizes :
           /\ sf' = LET s == SurfaceSetSize(sf, size)
                    IN  IF Position(s) = None THEN s ELSE SurfaceSetPosition(s, Position(s))
           /\ plat' = [size |-> size, redraw |-> TRUE] /\ Alone /\ loop' = loop
    BY <1>3 DEF ResizeWindow, handVars, bridgeVars
  <2>. DEFINE s == SurfaceSetSize(sf, size)
  <2>2. size \in Wins /\ plat' \in Platforms
    BY <2>1 DEF Wins, Platforms
  <2>3. SurfaceOK(s) /\ s.active = sf.active
    BY <1>0, <2>2, SetSizeOK DEF Untouched
  <2>. HIDE DEF s
  <2>4. sf' = IF Position(s) = None THEN s ELSE SurfaceSetPosition(s, Position(s))
    BY <2>1 DEF s
  <2>5. SurfaceOK(sf') /\ sf'.active = sf.active
    <3>1. CASE Position(s) = None
      BY <2>3, <2>4, <3>1
    <3>2. CASE Position(s) # None
      <4>1. Position(s) \in Int \X Int /\ (backend = "wayland" => s.output # None)
        BY <2>3, <3>2, PositionTyped
      <4>. QED  BY <2>3, <2>4, <3>2, <4>1, SetPositionOK DEF Untouched
    <3>. QED  BY <3>1, <3>2
  <2>. QED  BY <1>0, <2>1, <2>2, <2>5, HandsUntouched
<1>4. CASE SceneChanges
  <2>1. sf' = sf /\ plat' \in Platforms /\ Alone /\ loop' = loop
    BY <1>0, <1>4 DEF SceneChanges, Platforms, handVars, bridgeVars
  <2>. QED  BY <1>0, <2>1, HandsUntouched
<1>5. CASE Render
  <2>1. RenderIfDirty /\ Alone /\ loop = "render" /\ loop' = "top"
    BY <1>5 DEF Render, LoopGoes, handVars, bridgeVars
  <2>2. SurfaceOK(sf') /\ sf'.active = sf.active
    <3>1. sf' = sf \/ sf' = Present(sf, plat.size)
      BY <2>1 DEF RenderIfDirty
    <3>. QED  BY <1>0, <3>1, PresentOK DEF Untouched
  <2>3. plat' \in Platforms
    BY <1>0, <2>1 DEF RenderIfDirty, Platforms
  <2>. QED  BY <1>0, <2>1, <2>2, <2>3, HandsUntouched
<1>6. CASE Tick
  <2>1. sf' = sf /\ plat' = plat /\ Alone /\ loop = "events" /\ events = <<>> /\ loop' = "render"
    BY <1>6 DEF Tick, LoopGoes, surfaceVars, handVars, bridgeVars
  <2>. QED  BY <1>0, <2>1, HandsUntouched
<1>. QED  BY <1>1, <1>2, <1>3, <1>4, <1>5, <1>6

\* The bridge.
LEMMA EventsHold ==
    ASSUME HandsInv, HandleTouchPress \/ HandleTouchRelease \/ HandlePointerPress
                     \/ HandlePointerRelease \/ HandleOther
    PROVE  HandsInv'
<1>. USE DEF HandsInv
<1>0. /\ plat \in Platforms /\ events \in Seq(Events) /\ BridgeHolds
      /\ Orderly(events, PointerDowns, PointerEnds, pointerDown = 0)
  BY DEF LoopTypes, ButtonRests
<1>. DEFINE e == Head(events)
            Rest == UNCHANGED <<backend, sf, inbox, loop, fingers, mouse, button>>
<1>1. ASSUME Handled
      PROVE  /\ e \in Events
             /\ e \in TouchDowns <=> e.t = "touchPressed"
             /\ e \in TouchEnds <=> e.t \in {"touchReleased", "touchCancelled"}
             /\ e \in PointerDowns <=> e.t = "pointerPressed"
             /\ e \in PointerEnds <=> e.t \in {"pointerReleased", "pointerLeft"}
             /\ e \in PointerDowns => pointerDown = 0
  <2>1. e \in Events /\ e = events[1] /\ 1 \in 1..Len(events)
    BY <1>0, <1>1 DEF Handled
  <2>2. e \in PointerDowns => pointerDown = 0
    BY <1>0, <2>1 DEF Orderly
  <2>. QED  BY <2>1, <2>2 DEF TouchDowns, TouchEnds, PointerDowns, PointerEnds
<1>2. ASSUME NEW c, plat' = [plat EXCEPT !.redraw = @ \/ c] PROVE plat' \in Platforms
  BY <1>0, <1>2 DEF Platforms
<1>3. CASE HandleTouchPress
  <2>1. Handled /\ e.t = "touchPressed" /\ Rest
    BY <1>3 DEF HandleTouchPress, handVars
  <2>. DEFINE k == TouchKeyAt(Pt(Head(events).p))
  <2>2. \/ touchDown # 0 /\ UNCHANGED <<touchDown, pointerDown, down, plat>>
        \/ /\ touchDown = 0 /\ touchDown' = k /\ down' = down \cup ({k} \ {0})
           /\ pointerDown' = pointerDown /\ plat' = [plat EXCEPT !.redraw = @ \/ (k # 0)]
    BY <1>3 DEF HandleTouchPress, Lights, bridgeVars
  <2>. HIDE DEF k
  <2>3. plat' \in Platforms
    BY <1>0, <1>2, <2>2
  <2>4. BridgeHolds'
    BY <1>0, <2>2 DEF BridgeHolds
  <2>5. /\ e \in TouchDowns /\ e \notin TouchEnds /\ e \notin PointerEnds
        /\ pointerDown' = pointerDown
    BY <1>1, <2>1, <2>2
  <2>. QED  BY <2>1, <2>3, <2>4, <2>5, EventHandled
<1>4. CASE HandleTouchRelease
  <2>1. /\ Handled /\ e.t \in {"touchReleased", "touchCancelled"} /\ Rest
        /\ touchDown' = 0 /\ down' = down \ {touchDown} /\ pointerDown' = pointerDown
        /\ plat' \in Platforms
    BY <1>2, <1>4 DEF HandleTouchRelease, handVars, Lights
  <2>2. BridgeHolds'
    BY <1>0, <2>1 DEF BridgeHolds
  <2>3. e \notin PointerEnds
    BY <1>1, <2>1
  <2>. QED  BY <2>1, <2>2, <2>3, EventHandled
<1>5. CASE HandlePointerPress
  <2>. DEFINE k == KeyAt(Pt(Head(events).p))
  <2>1. /\ Handled /\ e.t = "pointerPressed" /\ Rest
        /\ pointerDown' = (IF k = 0 THEN pointerDown ELSE k) /\ down' = down \cup ({k} \ {0})
        /\ touchDown' = touchDown /\ plat' \in Platforms
    BY <1>2, <1>5 DEF HandlePointerPress, handVars, Lights
  <2>. HIDE DEF k
  <2>2. /\ e \in PointerDowns /\ e \notin PointerEnds /\ e \notin TouchEnds /\ pointerDown = 0
    BY <1>1, <2>1
  <2>3. BridgeHolds'
    BY <1>0, <2>1, <2>2 DEF BridgeHolds
  <2>. QED  BY <2>1, <2>2, <2>3, EventHandled
<1>6. CASE HandlePointerRelease
  <2>1. /\ Handled /\ e.t \in {"pointerReleased", "pointerLeft"} /\ Rest
        /\ pointerDown' = 0 /\ down' = down \ {pointerDown} /\ touchDown' = touchDown
        /\ plat' \in Platforms
    BY <1>2, <1>6 DEF HandlePointerRelease, handVars, Lights
  <2>2. BridgeHolds'
    BY <1>0, <2>1 DEF BridgeHolds
  <2>3. e \notin TouchEnds
    BY <1>1, <2>1
  <2>. QED  BY <2>1, <2>2, <2>3, EventHandled
<1>7. CASE HandleOther
  <2>1. /\ Handled /\ e.t \in {"pointerMoved", "touchMoved", "resized"} /\ Rest
        /\ UNCHANGED <<touchDown, pointerDown, down, plat>>
    BY <1>7 DEF HandleOther, handVars, bridgeVars
  <2>2. BridgeHolds'
    BY <1>0, <2>1 DEF BridgeHolds
  <2>3. e \notin TouchEnds /\ e \notin PointerEnds
    BY <1>1, <2>1
  <2>. QED  BY <1>0, <2>1, <2>2, <2>3, EventHandled
<1>. QED  BY <1>3, <1>4, <1>5, <1>6, <1>7

LEMMA HandsStep ==
    ASSUME HandsInv, [Next]_vars
    PROVE  HandsInv'
<1>1. CASE UNCHANGED vars
  <2>1. /\ UNCHANGED <<backend, inbox, events, fingers, mouse, button, touchDown, pointerDown, down>>
        /\ sf' = sf /\ plat' = plat /\ loop' = loop
    BY <1>1 DEF vars, surfaceVars, handVars, bridgeVars
  <2>2. /\ SurfaceOK(sf) /\ plat \in Platforms /\ loop \in {"top", "events", "render"}
        /\ (loop # "top" => inbox = <<>>) /\ (loop # "events" => events = <<>>)
    BY DEF HandsInv, LoopTypes
  <2>. QED  BY <2>1, <2>2, HandsUntouched
<1>2. CASE Next
  BY <1>2, HandsHold, ServerHolds, PollHolds, WindowHolds, EventsHold DEF Next, EventLoop
<1>. QED  BY <1>1, <1>2

(* However fingers overlap, hand over or are cancelled and whatever the       *)
(* button does meanwhile, on Wayland as on X11, for any number of touches and *)
(* any burst of messages: once everything is lifted and every event is        *)
(* handled, the bridge holds no key (TouchTracker, wl_touch, PointerBridge).  *)
THEOREM NoKeyOutlivesItsTouch == Spec => []LiftedReleases
<1>1. HandsInv => LiftedReleases
  <2>. SUFFICES ASSUME HandsInv, Lifted, inbox = <<>>, events = <<>> PROVE down = {}
    BY DEF LiftedReleases
  <2>. USE DEF HandsInv
  <2>1. (touchDown = 0) \in BOOLEAN /\ (pointerDown = 0) \in BOOLEAN
        /\ TouchRests \in BOOLEAN /\ PointerRests \in BOOLEAN
    BY DEF TouchRests, PointerRests, Rests
  <2>2. /\ TouchRests <=> touchDown = 0
        /\ PointerRests <=> pointerDown = 0
    BY <2>1, RestsEmpty DEF TouchRests, PointerRests
  <2>3. PointerRests
    BY <2>1, RestsEmpty DEF ButtonRests, Lifted
  <2>4. TouchRests
    <3>1. CASE backend # "x11"
      BY <2>1, <3>1, RestsEmpty DEF FingersRest, Lifted
    <3>2. CASE backend = "x11"
      <4>1. \A t \in Touches : t \notin sf.active
        <5>1. ASSUME NEW t \in Touches PROVE t \notin sf.active
          <6>1. Rests(<<>>, DownsOf(t), UpsOf(t), t \notin sf.active)
            BY <3>2 DEF FingersRest, Lifted
          <6>2. (t \notin sf.active) \in BOOLEAN
            OBVIOUS
          <6>. QED  BY <6>1, <6>2, RestsEmpty
        <5>. QED  BY <5>1
      <4>2. sf.active \subseteq Touches
        BY Zenon DEF LoopTypes, SurfaceOK, SurfaceType
      <4>. QED  BY <3>2, <4>1, <4>2 DEF FingersRest
    <3>. QED  BY <3>1, <3>2
  <2>. QED  BY <2>2, <2>3, <2>4 DEF BridgeHolds
<1>2. Spec => []HandsInv
  BY InitHolds, HandsStep, PTL DEF Spec
<1>. QED  BY <1>1, <1>2, PTL

-----------------------------------------------------------------------------
(* Where the window is put.                                                   *)

\* Margins made for the size and the output put the window on it.
LEMMA MarginsFit ==
    ASSUME NEW s \in SurfaceType, s.output # None, NEW xy \in Int \X Int,
           s.margins = MarginsFor(xy, s.size, s.output)
    PROVE  OnOutput(s)
<1>1. s.size \in Wins /\ s.output \in Outputs
  BY Zenon DEF SurfaceType
<1>2. s.size[1] \in Nat /\ s.size[2] \in Nat /\ s.output[1] \in Nat /\ s.output[2] \in Nat
      /\ xy[1] \in Int /\ xy[2] \in Int
  BY <1>1, NonePair
<1>. DEFINE w == s.size[1]
            h == s.size[2]
            a == s.output[1]
            b == s.output[2]
            x == Clip(xy[1], 0, NonNeg(a - w))
            y == Clip(xy[2], 0, NonNeg(b - h))
            m == NonNeg(b - y - h)
<1>3. s.margins = <<x, m>> /\ WlPosition(s) = <<s.margins[1], b - h - s.margins[2]>>
  BY DEF MarginsFor, WlPosition
<1>4. WlPosition(s) = <<x, b - h - m>>
  BY <1>3
<1>5. w <= a => x >= 0 /\ x + w <= a
  BY <1>2 DEF Clip, NonNeg
<1>6. h <= b => b - h - m >= 0 /\ (b - h - m) + h <= b
  BY <1>2 DEF Clip, NonNeg
<1>. HIDE DEF x, y, m
<1>. QED  BY <1>4, <1>5, <1>6 DEF OnOutput

\* As far as the output goes, nothing has changed.
Kept(s, u) ==
    /\ u.margins = s.margins /\ u.size = s.size
    /\ u.positioned => s.positioned

\* The window stays where it was put, or is put on its output.
Placed(s, u) == Kept(s, u) \/ u.output = None \/ OnOutput(u)

\* Where the window is put says all about it.
LEMMA SamePlace ==
    ASSUME NEW s, NEW u, u.margins = s.margins, u.size = s.size, u.output = s.output
    PROVE  OnOutput(u) <=> OnOutput(s)
  BY DEF OnOutput, WlPosition

LEMMA RefreshPlaces ==
    ASSUME NEW s \in SurfaceType, s.pending = s.size
    PROVE  Kept(s, RefreshOutput(s)) \/ OnOutput(RefreshOutput(s))
<1>. DEFINE centre == <<NonNeg(s.output[1] - s.pending[1]) \div 2, NonNeg(s.output[2] - s.pending[2])>>
            xy == IF s.place = None THEN centre ELSE s.place
            m == MarginsFor(xy, s.pending, s.output)
            u == RefreshOutput(s)
<1>1. CASE s.output = None \/ ~ s.created \/ s.positioned
  BY <1>1 DEF RefreshOutput, Kept
<1>2. CASE ~ (s.output = None \/ ~ s.created \/ s.positioned)
  <2>1. s.output \in Outputs /\ s.pending \in Int \X Int /\ s.output \in Int \X Int
    BY <1>2, FrontEndAssumption DEF SurfaceType, Wins
  <2>2. centre \in Int \X Int
    BY <2>1 DEF NonNeg
  <2>3. xy \in Int \X Int
    BY <2>2, FrontEndAssumption DEF SurfaceType
  <2>4. u = [s EXCEPT !.margins = m, !.positioned = TRUE, !.place = None]
    BY <1>2 DEF RefreshOutput
  <2>5. u.margins = m
    <3>. HIDE DEF m, u
    <3>. QED  BY Zenon, <2>4 DEF SurfaceType
  <2>6. u \in SurfaceType /\ u.size = s.size /\ u.output = s.output
    BY RefreshTyped
  <2>. HIDE DEF u, xy
  <2>7. u.margins = MarginsFor(xy, u.size, u.output) /\ u.output # None
    BY <1>2, <2>5, <2>6
  <2>8. OnOutput(u)
    BY <2>3, <2>6, <2>7, MarginsFit
  <2>. QED  BY <2>8 DEF u
<1>. QED  BY <1>1, <1>2

LEMMA FlushKeeps ==
    ASSUME NEW s \in SurfaceType
    PROVE  Kept(s, Flush(s)) /\ (OnOutput(Flush(s)) <=> OnOutput(s))
  BY FlushTyped, SamePlace DEF Kept

\* A place was asked for: it is taken if the output is known.
LEMMA SetPositionPlaces ==
    ASSUME backend = "wayland", NEW s, SurfaceOK(s), NEW xy \in Int \X Int
    PROVE  LET u == SurfaceSetPosition(s, xy)
           IN  /\ u.output = s.output
               /\ s.output # None => OnOutput(u)
<1>0. s \in SurfaceType /\ s.created
  BY DEF SurfaceOK
<1>1. CASE s.output = None
  <2>1. SurfaceSetPosition(s, xy) = [s EXCEPT !.place = xy]
    BY <1>1 DEF SurfaceSetPosition, WlSetPosition
  <2>. QED  BY Zenon, <1>0, <1>1, <2>1 DEF SurfaceType
<1>2. CASE s.output # None
  <2>. DEFINE m == MarginsFor(xy, s.size, s.output)
              u == [s EXCEPT !.margins = m, !.positioned = TRUE, !.place = None]
  <2>1. SurfaceSetPosition(s, xy) = Flush(u)
    BY <1>0, <1>2 DEF SurfaceSetPosition, WlSetPosition
  <2>2. s.size \in Int \X Int /\ s.output \in Int \X Int
    BY <1>0, <1>2, FrontEndAssumption DEF SurfaceType, Wins
  <2>3. m \in Int \X Int
    BY <2>2, MarginsTyped
  <2>. HIDE DEF m
  <2>4. u \in SurfaceType /\ u.output = s.output /\ u.size = s.size /\ u.margins = m
    BY Zenon, FlagsTyped, <1>0, <2>3 DEF SurfaceType
  <2>. HIDE DEF u
  <2>5. OnOutput(u)
    BY <1>2, <2>4, MarginsFit DEF m
  <2>. QED  BY <1>2, <2>1, <2>4, <2>5, FlushTyped, FlushKeeps
<1>. QED  BY <1>1, <1>2

LEMMA SetVisiblePlaces ==
    ASSUME backend = "wayland", NEW s, SurfaceOK(s), NEW v \in BOOLEAN
    PROVE  Placed(s, SurfaceSetVisible(s, v))
<1>0. s \in SurfaceType /\ s.created /\ s.pending = s.size /\ s.size \in Wins
  BY Zenon DEF SurfaceOK, SurfaceType
<1>. DEFINE w == SurfaceSetVisible(s, v)
<1>1. CASE v
  <2>. DEFINE o == Append(s.out, s.size)
              a == [s EXCEPT !.visible = TRUE, !.created = TRUE, !.pending = s.size, !.out = o]
              b == RefreshOutput(a)
              c == Flush(b)
  <2>0. o \in Requests
    BY <1>0 DEF SurfaceType, Requests
  <2>1. w = [c EXCEPT !.ready = TRUE]
    <3>. DEFINE vis == [s EXCEPT !.visible = TRUE]
    <3>1. [vis EXCEPT !.created = TRUE, !.pending = s.size, !.out = Append(@, s.size)] = a
      BY <1>0 DEF SurfaceType
    <3>2. w = [Flush(EnsureCreated(vis, s.size)) EXCEPT !.ready = TRUE]
      BY <1>1 DEF SurfaceSetVisible, WlSetVisible
    <3>. HIDE DEF a, vis
    <3>. QED  BY <3>1, <3>2 DEF EnsureCreated
  <2>. HIDE DEF o
  <2>2. /\ a \in SurfaceType /\ a.size = s.size /\ a.pending = s.size
        /\ a.output = s.output /\ a.margins = s.margins
    BY Zenon, FlagsTyped, <1>0, <2>0 DEF SurfaceType
  <2>3. a.positioned = s.positioned
    BY Zenon, FlagsTyped, <1>0 DEF SurfaceType
  <2>. HIDE DEF a
  <2>4. Kept(a, b) \/ OnOutput(b)
    BY <2>2, RefreshPlaces
  <2>5. b \in SurfaceType
    BY <2>2, RefreshTyped
  <2>. HIDE DEF b
  <2>6. c \in SurfaceType /\ Kept(b, c) /\ (OnOutput(c) <=> OnOutput(b))
    BY <2>5, FlushTyped, FlushKeeps
  <2>. HIDE DEF c
  <2>7. w.margins = c.margins /\ w.size = c.size /\ w.output = c.output
    BY Zenon, <2>1, <2>6 DEF SurfaceType
  <2>8. w.positioned = c.positioned
    BY Zenon, <2>1, <2>6 DEF SurfaceType
  <2>. HIDE DEF w
  <2>9. OnOutput(w) <=> OnOutput(c)
    BY <2>7, SamePlace
  <2>. QED  BY <2>2, <2>3, <2>4, <2>6, <2>7, <2>8, <2>9 DEF Placed, Kept, w
<1>2. CASE ~ v
  <2>. DEFINE a == [s EXCEPT !.visible = FALSE, !.buffer = None]
  <2>1. a \in SurfaceType /\ a.margins = s.margins /\ a.size = s.size
    BY Zenon, FlagsTyped, <1>0 DEF SurfaceType
  <2>2. a.positioned = s.positioned
    BY Zenon, FlagsTyped, <1>0 DEF SurfaceType
  <2>3. w = Flush(a)
    BY <1>2 DEF SurfaceSetVisible, WlSetVisible
  <2>. HIDE DEF a
  <2>. QED  BY <2>1, <2>2, <2>3, FlushKeeps DEF Placed, Kept
<1>. QED  BY <1>1, <1>2

Still(s, u) ==
    /\ u.margins = s.margins /\ u.size = s.size /\ u.output = s.output
    /\ u.positioned => s.positioned

\* Only a new mode of the output moves the window.
LEMMA DispatchPlaces ==
    ASSUME backend = "wayland", NEW s, SurfaceOK(s), NEW m \in Messages
    PROVE  LET u == DispatchOne(s, m)[1]
           IN  /\ m.t # "mode" => Still(s, u)
               /\ m.t = "mode" => Kept(s, u) \/ OnOutput(u)
<1>0. s \in SurfaceType /\ s.pending = s.size
  BY DEF SurfaceOK
<1>. DEFINE u == DispatchOne(s, m)[1]
<1>1. CASE m.t = "mode"
  <2>. DEFINE a == [s EXCEPT !.output = m.size]
  <2>1. m.size \in Outputs
    BY <1>1, MessageKinds
  <2>2. u = RefreshOutput(a)
    BY <1>1 DEF DispatchOne, DispatchMode
  <2>3. a \in SurfaceType /\ a.pending = s.pending /\ a.size = s.size /\ a.margins = s.margins
    BY Zenon, <1>0, <2>1 DEF SurfaceType
  <2>4. a.positioned = s.positioned
    BY Zenon, <1>0, <2>1 DEF SurfaceType
  <2>. HIDE DEF a
  <2>5. Kept(a, u) \/ OnOutput(u)
    BY <1>0, <2>2, <2>3, RefreshPlaces
  <2>. HIDE DEF u
  <2>. QED  BY <1>1, <2>3, <2>4, <2>5 DEF Kept, u
<1>2. CASE m.t # "mode"
  <2>1. \/ u = s
        \/ \E p : u = [s EXCEPT !.pointer = p]
        \/ \E p : u = [s EXCEPT !.touch = p]
        \/ u = [s EXCEPT !.configured = TRUE]
        \/ u = [s EXCEPT !.ready = TRUE]
    <3>1. CASE m.t = "configure"
      <4>. DEFINE given == IF m.size = <<0, 0>> THEN s.pending ELSE m.size
      <4>1. DispatchOne(s, m) = <<[s EXCEPT !.configured = TRUE], <<[t |-> "resized", size |-> given]>>>>
        BY <3>1 DEF DispatchOne, DispatchConfigure
      <4>. QED  BY <4>1
    <3>2. CASE m.t = "motion"
      BY <3>2 DEF DispatchOne, DispatchPointer
    <3>3. CASE m.t = "leave"
      BY <3>3 DEF DispatchOne, DispatchPointer
    <3>4. CASE m.t \in {"press", "release"}
      BY <3>4 DEF DispatchOne, DispatchPointer
    <3>5. CASE m.t \in {"down", "move", "up", "cancel"}
      BY <3>5 DEF DispatchOne, DispatchTouch
    <3>6. CASE m.t = "expose"
      BY <3>6 DEF DispatchOne, DispatchExpose
    <3>. QED  BY <1>2, <3>1, <3>2, <3>3, <3>4, <3>5, <3>6, MessageKinds
  <2>. HIDE DEF u
  <2>2. u.margins = s.margins /\ u.size = s.size /\ u.output = s.output
    BY Zenon, <1>0, <2>1 DEF SurfaceType
  <2>3. u.positioned = s.positioned
    BY Zenon, <1>0, <2>1 DEF SurfaceType
  <2>. QED  BY <1>2, <2>2, <2>3 DEF Still, u
<1>. QED  BY <1>1, <1>2

\* Not more than one mode arrives between two polls.
OneMode(msgs) ==
    \A i, j \in 1..Len(msgs) : msgs[i].t = "mode" /\ msgs[j].t = "mode" => i = j

LEMMA OneModeAppend ==
    ASSUME NEW q \in Seq(Messages), NEW m \in Messages
    PROVE  /\ OneMode(Append(q, m)) => OneMode(q)
           /\ OneMode(Append(q, m)) /\ m.t = "mode" => \A i \in 1..Len(q) : q[i].t # "mode"
           /\ OneMode(q) /\ (m.t = "mode" => \A i \in 1..Len(q) : q[i].t # "mode")
                => OneMode(Append(q, m))
<1>. DEFINE u == Append(q, m)
<1>1. Len(u) = Len(q) + 1 /\ Len(q) \in Nat /\ u[Len(q) + 1] = m
      /\ \A i \in 1..Len(q) : u[i] = q[i]
  OBVIOUS
<1>. HIDE DEF u
<1>2. OneMode(u) => OneMode(q)
  BY <1>1 DEF OneMode
<1>3. ASSUME OneMode(u), m.t = "mode", NEW i \in 1..Len(q) PROVE q[i].t # "mode"
  <2>1. i \in 1..Len(u) /\ Len(q) + 1 \in 1..Len(u) /\ i # Len(q) + 1
    BY <1>1
  <2>. QED  BY <1>1, <1>3, <2>1 DEF OneMode
<1>4. ASSUME OneMode(q), m.t = "mode" => \A i \in 1..Len(q) : q[i].t # "mode" PROVE OneMode(u)
  <2>1. \A i \in 1..Len(u) : i \in 1..Len(q) \/ i = Len(q) + 1
    BY <1>1
  <2>. QED  BY <1>1, <1>4, <2>1 DEF OneMode
<1>. QED  BY <1>2, <1>3, <1>4 DEF u

LEMMA PollPlaces ==
    ASSUME backend = "wayland", NEW s, SurfaceOK(s), NEW msgs \in Seq(Messages), OneMode(msgs)
    PROVE  Kept(s, Dispatched(s, msgs)[1]) \/ OnOutput(Dispatched(s, msgs)[1])
<1>. DEFINE D(q) == Dispatched(s, q)
            NoMode(q) == \A i \in 1..Len(q) : q[i].t # "mode"
            T == {q \in Seq(Messages) :
                    /\ NoMode(q) => Still(s, D(q)[1])
                    /\ OneMode(q) => Kept(s, D(q)[1]) \/ OnOutput(D(q)[1])}
<1>1. <<>> \in T
  <2>1. <<>> \in Seq(Messages) /\ D(<<>>)[1] = s
    BY SomeMessage, DispatchedAppend
  <2>. HIDE DEF D
  <2>. QED  BY <2>1 DEF Still, Kept
<1>2. ASSUME NEW q \in Seq(Messages), NEW m \in Messages, q \in T PROVE Append(q, m) \in T
  <2>. DEFINE r == D(q)[1]
              u == DispatchOne(r, m)[1]
              more == Append(q, m)
  <2>1. /\ D(q) \in PollResults /\ D(more) = DispatchStep(D(q), m)
        /\ more \in Seq(Messages)
    BY DispatchedAppend
  <2>2. SurfaceOK(r)
    BY <2>1, GoodSurface DEF PollResults
  <2>3. D(more)[1] = u
    <3>. HIDE DEF D, u
    <3>. QED  BY <2>1 DEF DispatchStep, u
  <2>4. /\ m.t # "mode" => Still(r, u)
        /\ m.t = "mode" => Kept(r, u) \/ OnOutput(u)
    BY <2>2, DispatchPlaces
  <2>5. /\ NoMode(q) => Still(s, r)
        /\ OneMode(q) => Kept(s, r) \/ OnOutput(r)
    BY <1>2
  <2>6. /\ OneMode(more) => OneMode(q)
        /\ OneMode(more) /\ m.t = "mode" => NoMode(q)
        /\ NoMode(more) => m.t # "mode" /\ NoMode(q)
    <3>1. /\ Len(more) = Len(q) + 1 /\ Len(q) \in Nat /\ more[Len(q) + 1] = m
          /\ \A i \in 1..Len(q) : more[i] = q[i]
      OBVIOUS
    <3>2. NoMode(more) => m.t # "mode" /\ NoMode(q)
      <4>. HIDE DEF more
      <4>1. Len(q) + 1 \in 1..Len(more) /\ \A i \in 1..Len(q) : i \in 1..Len(more)
        BY <3>1
      <4>. QED  BY <3>1, <4>1
    <3>. QED  BY <3>2, OneModeAppend
  <2>. HIDE DEF D, u, r, more, NoMode
  <2>7. NoMode(more) => Still(s, u)
    BY <2>4, <2>5, <2>6 DEF Still
  <2>8. ASSUME OneMode(more) PROVE Kept(s, u) \/ OnOutput(u)
    <3>1. CASE m.t = "mode"
      <4>1. Still(s, r) /\ (Kept(r, u) \/ OnOutput(u))
        BY <2>4, <2>5, <2>6, <2>8, <3>1
      <4>. QED  BY <4>1 DEF Still, Kept
    <3>2. CASE m.t # "mode"
      <4>1. Still(r, u) /\ (Kept(s, r) \/ OnOutput(r))
        BY <2>4, <2>5, <2>6, <2>8, <3>2
      <4>2. OnOutput(u) <=> OnOutput(r)
        BY <4>1, SamePlace DEF Still
      <4>. QED  BY <4>1, <4>2 DEF Still, Kept
    <3>. QED  BY <3>1, <3>2
  <2>9. more \in T
    BY <2>1, <2>3, <2>7, <2>8
  <2>. QED  BY <2>9 DEF more
<1>3. Seq(Messages) \subseteq T
  <2>. HIDE DEF T
  <2>. QED  BY <1>1, <1>2, SeqInduction
<1>. QED  BY <1>3

PlaceInv == HandsInv /\ OneMode(inbox)

\* The messages of one poll hold at most one mode.
LEMMA OneModeStep ==
    ASSUME PlaceInv, [Next]_vars
    PROVE  OneMode(inbox)'
<1>. USE DEF PlaceInv
<1>0. inbox \in Seq(Messages)
  BY DEF HandsInv, LoopTypes
<1>1. ASSUME inbox' = inbox PROVE OneMode(inbox)'
  BY <1>1 DEF OneMode
<1>2. ASSUME NEW m \in Messages, inbox' = Append(inbox, m),
             m.t = "mode" => \A i \in 1..Len(inbox) : inbox[i].t # "mode"
      PROVE  OneMode(inbox)'
  <2>1. OneMode(inbox')
    BY <1>0, <1>2, OneModeAppend
  <2>. QED  BY <2>1 DEF OneMode
<1>3. ASSUME loop = "top", Hands PROVE OneMode(inbox)'
  <2>1. PICK m : inbox' = Append(inbox, m) /\ m.t # "mode"
    <3>. DEFINE Other(m) == inbox' = Append(inbox, m) /\ m.t # "mode"
    <3>1. ASSUME NEW t, FingerUp(t) PROVE Other([t |-> "up", id |-> t])
      BY <3>1 DEF FingerUp, Deliver
    <3>2. ASSUME NEW t, NEW p, FingerDown(t, p) PROVE Other([t |-> "down", id |-> t, p |-> p])
      BY <3>2 DEF FingerDown, Deliver
    <3>3. ASSUME NEW t, NEW p, FingerMove(t, p) PROVE Other([t |-> "move", id |-> t, p |-> p])
      BY <3>3 DEF FingerMove, Deliver
    <3>4. ASSUME TouchesCancelled PROVE Other([t |-> "cancel"])
      BY <3>4 DEF TouchesCancelled, Deliver
    <3>5. ASSUME PointerGone PROVE Other([t |-> "leave"])
      BY <3>5 DEF PointerGone, Deliver
    <3>6. ASSUME ButtonDown PROVE Other([t |-> "press", p |-> mouse])
      BY <3>6 DEF ButtonDown, Deliver
    <3>7. ASSUME ButtonUp PROVE Other([t |-> "release"])
      BY <3>7 DEF ButtonUp, Deliver
    <3>8. ASSUME NEW p, PointerGoes(p) PROVE Other([t |-> "motion", p |-> p])
      BY <3>8 DEF PointerGoes, Deliver
    <3>. HIDE DEF Other
    <3>9. \E m : Other(m)
      BY <1>3, <3>1, <3>2, <3>3, <3>4, <3>5, <3>6, <3>7, <3>8 DEF Hands
    <3>. QED  BY <3>9 DEF Other
  <2>2. inbox' \in Seq(Messages)
    <3>1. HandsInv'
      BY <1>3, HandsHold
    <3>2. Messages' = Messages
      BY <1>3, SameBackend DEF Hands, FingerUp, FingerDown, FingerMove, TouchesCancelled, PointerGone,
               ButtonDown, ButtonUp, PointerGoes, Deliver
    <3>. QED  BY <3>1, <3>2 DEF HandsInv, LoopTypes
  <2>3. OneMode(inbox')
    <3>1. Len(inbox') = Len(inbox) + 1 /\ Len(inbox) \in Nat /\ inbox'[Len(inbox) + 1] = m
          /\ \A i \in 1..Len(inbox) : inbox'[i] = inbox[i]
      BY <1>0, <2>1
    <3>2. \A i \in 1..Len(inbox') : i \in 1..Len(inbox) \/ i = Len(inbox) + 1
      BY <3>1
    <3>. QED  BY <2>1, <3>1, <3>2 DEF OneMode
  <2>. QED  BY <2>3 DEF OneMode
<1>4. CASE Configure \/ MapWindow \/ Uncovered
  <2>1. PICK m : inbox' = Append(inbox, m) /\ m.t # "mode"
    <3>1. ASSUME Configure PROVE \E m : inbox' = Append(inbox, m) /\ m.t # "mode"
      BY <3>1 DEF Configure
    <3>2. ASSUME MapWindow \/ Uncovered PROVE \E m : inbox' = Append(inbox, m) /\ m.t # "mode"
      <4>1. inbox' = Append(inbox, [t |-> "expose"]) /\ [t |-> "expose"].t # "mode"
        BY <3>2 DEF MapWindow, Uncovered
      <4>. QED  BY <4>1
    <3>. QED  BY <1>4, <3>1, <3>2
  <2>2. OneMode(inbox')
    <3>1. Len(inbox') = Len(inbox) + 1 /\ Len(inbox) \in Nat /\ inbox'[Len(inbox) + 1] = m
          /\ \A i \in 1..Len(inbox) : inbox'[i] = inbox[i]
      BY <1>0, <2>1
    <3>2. \A i \in 1..Len(inbox') : i \in 1..Len(inbox) \/ i = Len(inbox) + 1
      BY <3>1
    <3>. QED  BY <2>1, <3>1, <3>2 DEF OneMode
  <2>. QED  BY <2>2 DEF OneMode
<1>5. CASE OutputMode
  <2>1. PICK mode \in Outputs :
           /\ inbox' = Append(inbox, [t |-> "mode", size |-> mode])
           /\ \A i \in DOMAIN inbox : inbox[i].t # "mode"
    BY <1>5 DEF OutputMode, Deliver
  <2>2. [t |-> "mode", size |-> mode] \in Messages
    BY DEF Messages
  <2>. QED  BY <1>0, <1>2, <2>1, <2>2
<1>6. CASE Poll
  BY <1>6 DEF Poll, OneMode
<1>7. CASE EventLoop /\ ~ Poll
  <2>1. inbox' = inbox
    BY <1>7 DEF EventLoop, HandleTouchPress, HandleTouchRelease, HandlePointerPress,
                HandlePointerRelease, HandleOther, Tick, Render, surfaceVars
  <2>. QED  BY <1>1, <2>1
<1>8. CASE TrayToggle \/ EscapeHides \/ MoveWindow \/ ResizeWindow \/ SceneChanges
  <2>1. inbox' = inbox
    BY <1>8 DEF TrayToggle, EscapeHides, MoveWindow, ResizeWindow, SceneChanges
  <2>. QED  BY <1>1, <2>1
<1>9. CASE UNCHANGED vars
  BY <1>1, <1>9 DEF vars, surfaceVars
<1>. QED  BY <1>3, <1>4, <1>5, <1>6, <1>7, <1>8, <1>9 DEF Next

\* Every step keeps the window where it is or puts it on its output.
LEMMA StepPlaces ==
    ASSUME PlaceInv, [Next]_vars, backend = "wayland"
    PROVE  Placed(sf, sf')
<1>. USE DEF PlaceInv
<1>0. /\ SurfaceOK(sf) /\ inbox \in Seq(Messages) /\ plat.size \in Wins /\ sf \in SurfaceType
  BY DEF HandsInv, LoopTypes, Platforms, SurfaceOK
<1>1. ASSUME sf' = sf PROVE Placed(sf, sf')
  BY <1>1 DEF Placed, Kept
<1>2. CASE Configure \/ MapWindow \/ Uncovered
  <2>1. \/ \E rest, b : sf' = [sf EXCEPT !.wants = rest, !.buffer = b]
        \/ \E n : sf' = [sf EXCEPT !.maps = n, !.mapped = TRUE]
        \/ sf' = [sf EXCEPT !.buffer = None]
    BY <1>2 DEF Configure, MapWindow, Uncovered
  <2>2. sf'.margins = sf.margins /\ sf'.size = sf.size
    BY Zenon, <1>0, <2>1 DEF SurfaceType
  <2>3. sf'.positioned = sf.positioned
    BY Zenon, <1>0, <2>1 DEF SurfaceType
  <2>. QED  BY <2>2, <2>3 DEF Placed, Kept
<1>3. CASE Poll
  <2>. DEFINE s == Flush(sf)
  <2>1. sf' = Dispatched(s, inbox)[1]
    BY <1>3 DEF Poll
  <2>2. SurfaceOK(s) /\ Kept(sf, s)
    BY <1>0, FlushOK, FlushKeeps
  <2>. HIDE DEF s
  <2>3. Kept(s, sf') \/ OnOutput(sf')
    BY <1>0, <2>1, <2>2, PollPlaces
  <2>. QED  BY <2>2, <2>3 DEF Placed, Kept
<1>4. CASE TrayToggle \/ EscapeHides
  <2>1. PICK v \in BOOLEAN : sf' = SurfaceSetVisible(sf, v)
    <3>1. TrayToggle => (~ visible) \in BOOLEAN /\ sf' = SurfaceSetVisible(sf, ~ visible)
      BY DEF TrayToggle, PlatformSetVisible
    <3>2. EscapeHides => sf' = SurfaceSetVisible(sf, FALSE)
      BY DEF EscapeHides, PlatformSetVisible
    <3>. QED  BY <1>4, <3>1, <3>2
  <2>. QED  BY <1>0, <2>1, SetVisiblePlaces
<1>5. CASE MoveWindow
  <2>1. PICK xy \in Places : sf' = SurfaceSetPosition(sf, xy)
    BY <1>5 DEF MoveWindow
  <2>2. xy \in Int \X Int
    BY FrontEndAssumption
  <2>. QED  BY <1>0, <2>1, <2>2, SetPositionPlaces DEF Placed
<1>6. CASE ResizeWindow
  <2>1. PICK size \in Sizes :
           sf' = LET s == SurfaceSetSize(sf, size)
                 IN  IF Position(s) = None THEN s ELSE SurfaceSetPosition(s, Position(s))
    BY <1>6 DEF ResizeWindow
  <2>. DEFINE s == SurfaceSetSize(sf, size)
  <2>2. SurfaceOK(s)
    BY <1>0, SetSizeOK DEF Wins
  <2>. HIDE DEF s
  <2>3. sf' = IF Position(s) = None THEN s ELSE SurfaceSetPosition(s, Position(s))
    BY <2>1 DEF s
  <2>4. CASE Position(s) = None
    <3>1. s.output = None
      BY <2>4 DEF Position, WlPosition, None
    <3>. QED  BY <2>3, <2>4, <3>1 DEF Placed
  <2>5. CASE Position(s) # None
    <3>1. Position(s) \in Int \X Int /\ s.output # None
      BY <2>2, <2>5, PositionTyped
    <3>2. OnOutput(SurfaceSetPosition(s, Position(s)))
      BY <2>2, <3>1, SetPositionPlaces
    <3>. QED  BY <2>3, <2>5, <3>2 DEF Placed
  <2>. QED  BY <2>4, <2>5
<1>7. CASE Render
  <2>1. sf' = sf \/ sf' = Present(sf, plat.size)
    BY <1>7 DEF Render, RenderIfDirty
  <2>2. LET u == Present(sf, plat.size)
        IN  u.margins = sf.margins /\ u.size = sf.size /\ u.positioned = sf.positioned
    BY <1>0, PresentOK
  <2>. QED  BY <1>1, <2>1, <2>2 DEF Placed, Kept
<1>8. CASE loop = "top" /\ (Hands \/ OutputMode)
  <2>1. sf' = sf
    BY <1>8 DEF Hands, FingerUp, FingerDown, FingerMove, TouchesCancelled, PointerGone, ButtonDown,
               ButtonUp, PointerGoes, OutputMode, Deliver
  <2>. QED  BY <1>1, <2>1
<1>9. CASE HandleTouchPress \/ HandleTouchRelease \/ HandlePointerPress \/ HandlePointerRelease
           \/ HandleOther \/ Tick \/ SceneChanges
  <2>1. sf' = sf
    BY <1>9 DEF HandleTouchPress, HandleTouchRelease, HandlePointerPress, HandlePointerRelease,
                HandleOther, Tick, SceneChanges, surfaceVars
  <2>. QED  BY <1>1, <2>1
<1>10. CASE UNCHANGED vars
  BY <1>1, <1>10 DEF vars, surfaceVars
<1>. QED  BY <1>2, <1>3, <1>4, <1>5, <1>6, <1>7, <1>8, <1>9, <1>10 DEF Next, EventLoop

(* On Wayland every step that places or resizes the window leaves it on the   *)
(* output it is known to fit: whenever the output becomes known, before or    *)
(* after the surface, whatever place was asked for, with any messages between *)
(* two polls (margins_for_position, refresh_output_size, set_position).       *)
THEOREM WindowStaysOnOutput == Spec => PlacedOnOutput
<1>1. PlaceInv /\ [Next]_vars
      => [backend = "wayland" /\ sf'.output # None /\ sf'.created
          /\ (sf'.margins # sf.margins \/ sf'.size # sf.size \/ (sf'.positioned /\ ~ sf.positioned))
          => OnOutput(sf')]_vars
  BY StepPlaces DEF Placed, Kept
<1>2. Init => PlaceInv
  <2>1. Init => inbox = <<>>
    BY DEF Init, SurfaceInit
  <2>. QED  BY <2>1, InitHolds DEF PlaceInv, OneMode
<1>3. PlaceInv /\ [Next]_vars => PlaceInv'
  BY HandsStep, OneModeStep DEF PlaceInv
<1>4. Spec => []PlaceInv
  BY <1>2, <1>3, PTL DEF Spec
<1>. QED  BY <1>1, <1>4, PTL DEF Spec, PlacedOnOutput

-----------------------------------------------------------------------------
(* The view: every key has its rectangle.                                     *)

ViewKeys == [width : Nat, logo : BOOLEAN]

LEMMA KeyWide ==
    ASSUME NEW key \in ViewKeys
    PROVE  KeyWidth(key) \in Nat /\ KeyWidth(key) >= 96
  BY DEF ViewKeys, KeyWidth, Most2, MinKeyWidth, Unit

LEMMA RowTyped ==
    ASSUME NEW r \in 1..Len(Rows)
    PROVE  /\ Rows[r] \in Seq(ViewKeys) /\ Len(Rows[r]) \in Nat
           /\ \A c \in 1..Len(Rows[r]) : Rows[r][c] \in ViewKeys
<1>1. Rows \in Seq(Seq(ViewKeys))
  BY ViewAssumption DEF ViewKeys
<1>2. Rows[r] \in Seq(ViewKeys)
  BY <1>1
<1>. QED  BY <1>2

\* The edges of a row are numbers.
LEMMA EdgesTyped ==
    ASSUME NEW r \in 1..Len(Rows)
    PROVE  \A c \in 0..Len(Rows[r]) : Edges(r)[c] \in Int
<1>. DEFINE N == Len(Rows[r])
            After(x, c) == x + KeyWidth(Rows[r][c]) + Spacing
            F == [a \in (1..N) \X Int |-> After(a[2], a[1])]
            Table(f) == [c \in 0..N |-> IF c = 0 THEN ViewPad ELSE After(f[c - 1], c)]
            G == CHOOSE f : f = Table(f)
<1>1. N \in Nat /\ ViewPad \in Int /\ \A c \in 1..N, x \in Int : After(x, c) \in Int
  BY RowTyped, KeyWide DEF ViewPad, Spacing, Unit
<1>2. Edges(r) = G
  BY DEF Edges
<1>. HIDE DEF After
<1>3. IsStep(F, N, Int)
  BY <1>1 DEF IsStep
<1>4. PICK g : IsTable(g, ViewPad, F, N, Int)
  <2>. HIDE DEF F, N
  <2>. QED  BY <1>1, <1>3, RecursionExists
<1>5. g \in [0..N -> Int] /\ g[0] = ViewPad
  BY <1>4 DEF IsTable
<1>6. ASSUME NEW c \in 1..N PROVE g[c] = After(g[c - 1], c)
  <2>1. c - 1 \in 0..N
    BY <1>1
  <2>2. <<c, g[c - 1]>> \in (1..N) \X Int
    BY <1>5, <2>1
  <2>3. g[c] = F[<<c, g[c - 1]>>]
    BY <1>4 DEF IsTable
  <2>. QED  BY <2>2, <2>3
<1>7. g = Table(g)
  <2>. HIDE DEF N
  <2>1. ASSUME NEW c \in 0..N PROVE g[c] = IF c = 0 THEN ViewPad ELSE After(g[c - 1], c)
    BY <1>1, <1>5, <1>6
  <2>. QED  BY <1>5, <2>1
<1>8. G = Table(G)
  BY <1>7
<1>. HIDE DEF G, N
<1>9. G[0] = ViewPad /\ \A c \in 1..N : G[c] = After(G[c - 1], c)
  <2>1. ASSUME NEW c \in 0..N PROVE G[c] = IF c = 0 THEN ViewPad ELSE After(G[c - 1], c)
    <3>1. Table(G)[c] = IF c = 0 THEN ViewPad ELSE After(G[c - 1], c)
      OBVIOUS
    <3>. HIDE DEF Table
    <3>. QED  BY <1>8, <3>1
  <2>2. 0 \in 0..N /\ \A c \in 1..N : c \in 0..N /\ c # 0
    BY <1>1
  <2>. QED  BY <2>1, <2>2
<1>. DEFINE T == {c \in Nat : G[c] \in Int}
<1>10. 0 \in T
  BY <1>1, <1>9
<1>11. ASSUME NEW c \in 0..(N - 1), c \in T PROVE c + 1 \in T
  <2>1. c + 1 \in 1..N /\ (c + 1) - 1 = c /\ c + 1 \in Nat
    BY <1>1
  <2>. QED  BY <1>1, <1>9, <1>11, <2>1
<1>12. 0..N \subseteq T
  <2>. HIDE DEF T
  <2>. QED  BY <1>1, <1>10, <1>11, BoundedInduction
<1>. QED  BY <1>2, <1>12 DEF N

\* The places of the keys.
Cells == {q \in Nat \X Nat : q[1] \in 1..Len(Rows) /\ q[2] \in 1..Len(Rows[q[1]])}

LEMMA InteractiveTyped ==
    ASSUME NEW r \in 1..Len(Rows)
    PROVE  Interactive(r) \in Seq(Cells)
<1>. DEFINE N == Len(Rows[r])
            Go(x, c) == IF Rows[r][c].logo THEN x ELSE Append(x, <<r, c>>)
            F == [a \in (1..N) \X Seq(Cells) |-> Go(a[2], a[1])]
            Table(f) == [c \in 0..N |-> IF c = 0 THEN <<>> ELSE Go(f[c - 1], c)]
            G == CHOOSE f : f = Table(f)
<1>1. N \in Nat /\ <<>> \in Seq(Cells) /\ \A c \in 1..N, x \in Seq(Cells) : Go(x, c) \in Seq(Cells)
  <2>1. N \in Nat /\ r \in Nat
    BY RowTyped, ViewAssumption
  <2>2. ASSUME NEW c \in 1..N, NEW x \in Seq(Cells) PROVE Go(x, c) \in Seq(Cells)
    <3>1. <<r, c>> \in Cells
      BY <2>1 DEF Cells
    <3>. QED  BY <3>1
  <2>. QED  BY <2>1, <2>2
<1>2. Interactive(r) = G[N]
  BY DEF Interactive
<1>. HIDE DEF Go
<1>3. IsStep(F, N, Seq(Cells))
  BY <1>1 DEF IsStep
<1>4. PICK g : IsTable(g, <<>>, F, N, Seq(Cells))
  <2>. HIDE DEF F, N
  <2>. QED  BY <1>1, <1>3, RecursionExists
<1>5. g \in [0..N -> Seq(Cells)] /\ g[0] = <<>>
  BY <1>4 DEF IsTable
<1>6. ASSUME NEW c \in 1..N PROVE g[c] = Go(g[c - 1], c)
  <2>1. c - 1 \in 0..N
    BY <1>1
  <2>2. <<c, g[c - 1]>> \in (1..N) \X Seq(Cells)
    BY <1>5, <2>1
  <2>3. g[c] = F[<<c, g[c - 1]>>]
    BY <1>4 DEF IsTable
  <2>. QED  BY <2>2, <2>3
<1>7. g = Table(g)
  <2>. HIDE DEF N
  <2>1. ASSUME NEW c \in 0..N PROVE g[c] = IF c = 0 THEN <<>> ELSE Go(g[c - 1], c)
    BY <1>1, <1>5, <1>6
  <2>. QED  BY <1>5, <2>1
<1>8. G = Table(G)
  BY <1>7
<1>. HIDE DEF G, N
<1>9. G[0] = <<>> /\ \A c \in 1..N : G[c] = Go(G[c - 1], c)
  <2>1. ASSUME NEW c \in 0..N PROVE G[c] = IF c = 0 THEN <<>> ELSE Go(G[c - 1], c)
    <3>1. Table(G)[c] = IF c = 0 THEN <<>> ELSE Go(G[c - 1], c)
      OBVIOUS
    <3>. HIDE DEF Table
    <3>. QED  BY <1>8, <3>1
  <2>2. 0 \in 0..N /\ \A c \in 1..N : c \in 0..N /\ c # 0
    BY <1>1
  <2>. QED  BY <2>1, <2>2
<1>. DEFINE T == {c \in Nat : G[c] \in Seq(Cells)}
<1>10. 0 \in T
  BY <1>1, <1>9
<1>11. ASSUME NEW c \in 0..(N - 1), c \in T PROVE c + 1 \in T
  <2>1. c + 1 \in 1..N /\ (c + 1) - 1 = c /\ c + 1 \in Nat
    BY <1>1
  <2>. QED  BY <1>1, <1>9, <1>11, <2>1
<1>12. 0..N \subseteq T
  <2>. HIDE DEF T
  <2>. QED  BY <1>1, <1>10, <1>11, BoundedInduction
<1>. QED  BY <1>1, <1>2, <1>12

LEMMA BasisTyped == Basis \in Seq(Cells)
<1>. DEFINE N == Len(Rows)
            Go(x, c) == x \o Interactive(c)
            F == [a \in (1..N) \X Seq(Cells) |-> Go(a[2], a[1])]
            Table(f) == [c \in 0..N |-> IF c = 0 THEN <<>> ELSE Go(f[c - 1], c)]
            G == CHOOSE f : f = Table(f)
<1>1. N \in Nat /\ <<>> \in Seq(Cells) /\ \A c \in 1..N, x \in Seq(Cells) : Go(x, c) \in Seq(Cells)
  <2>1. N \in Nat
    BY ViewAssumption
  <2>2. ASSUME NEW c \in 1..N, NEW x \in Seq(Cells) PROVE Go(x, c) \in Seq(Cells)
    <3>1. Interactive(c) \in Seq(Cells)
      BY InteractiveTyped
    <3>. QED  BY <3>1
  <2>. QED  BY <2>1, <2>2
<1>2. Basis = G[N]
  BY DEF Basis
<1>. HIDE DEF Go
<1>3. IsStep(F, N, Seq(Cells))
  BY <1>1 DEF IsStep
<1>4. PICK g : IsTable(g, <<>>, F, N, Seq(Cells))
  <2>. HIDE DEF F, N
  <2>. QED  BY <1>1, <1>3, RecursionExists
<1>5. g \in [0..N -> Seq(Cells)] /\ g[0] = <<>>
  BY <1>4 DEF IsTable
<1>6. ASSUME NEW c \in 1..N PROVE g[c] = Go(g[c - 1], c)
  <2>1. c - 1 \in 0..N
    BY <1>1
  <2>2. <<c, g[c - 1]>> \in (1..N) \X Seq(Cells)
    BY <1>5, <2>1
  <2>3. g[c] = F[<<c, g[c - 1]>>]
    BY <1>4 DEF IsTable
  <2>. QED  BY <2>2, <2>3
<1>7. g = Table(g)
  <2>. HIDE DEF N
  <2>1. ASSUME NEW c \in 0..N PROVE g[c] = IF c = 0 THEN <<>> ELSE Go(g[c - 1], c)
    BY <1>1, <1>5, <1>6
  <2>. QED  BY <1>5, <2>1
<1>8. G = Table(G)
  BY <1>7
<1>. HIDE DEF G, N
<1>9. G[0] = <<>> /\ \A c \in 1..N : G[c] = Go(G[c - 1], c)
  <2>1. ASSUME NEW c \in 0..N PROVE G[c] = IF c = 0 THEN <<>> ELSE Go(G[c - 1], c)
    <3>1. Table(G)[c] = IF c = 0 THEN <<>> ELSE Go(G[c - 1], c)
      OBVIOUS
    <3>. HIDE DEF Table
    <3>. QED  BY <1>8, <3>1
  <2>2. 0 \in 0..N /\ \A c \in 1..N : c \in 0..N /\ c # 0
    BY <1>1
  <2>. QED  BY <2>1, <2>2
<1>. DEFINE T == {c \in Nat : G[c] \in Seq(Cells)}
<1>10. 0 \in T
  BY <1>1, <1>9
<1>11. ASSUME NEW c \in 0..(N - 1), c \in T PROVE c + 1 \in T
  <2>1. c + 1 \in 1..N /\ (c + 1) - 1 = c /\ c + 1 \in Nat
    BY <1>1
  <2>. QED  BY <1>1, <1>9, <1>11, <2>1
<1>12. 0..N \subseteq T
  <2>. HIDE DEF T
  <2>. QED  BY <1>1, <1>10, <1>11, BoundedInduction
<1>. QED  BY <1>1, <1>2, <1>12

LEMMA BothAxes == Axes = {"x", "y"}
  BY DEF Axes

\* A key is at least as wide as the minimum and as high as all.
LEMMA KeyShape ==
    ASSUME NEW k \in Keys
    PROVE  /\ Middle[k].x \in Int /\ Middle[k].y \in Int
           /\ Radius[k].x \in Int /\ Radius[k].x >= 48 /\ Radius[k].y = 104
<1>1. k \in 1..Len(Basis) /\ Basis[k] \in Cells
  BY BasisTyped DEF Keys
<1>. DEFINE r == Basis[k][1]
            c == Basis[k][2]
            lx == Edges(r)[c - 1]
            ly == ViewPad + (r - 1) * (KeyHeight + Spacing)
            w == KeyWidth(Rows[r][c])
<1>2. r \in 1..Len(Rows) /\ c \in 1..Len(Rows[r]) /\ r \in Nat /\ c \in Nat
  BY <1>1 DEF Cells
<1>3. w \in Nat /\ w >= 96
  BY <1>2, RowTyped, KeyWide
<1>4. lx \in Int
  <2>1. c - 1 \in 0..Len(Rows[r])
    BY <1>2, RowTyped
  <2>. QED  BY <1>2, <2>1, EdgesTyped
<1>5. ly \in Int
  BY <1>2 DEF ViewPad, KeyHeight, Spacing, Unit
<1>6. Visual[k] = [lo |-> [x |-> lx, y |-> ly], len |-> [x |-> w, y |-> KeyHeight]]
  BY DEF Visual, RectAt
<1>. HIDE DEF lx, ly, w, r, c
<1>7. Middle[k] = [a \in Axes |-> Visual[k].lo[a] + Visual[k].len[a] \div 2]
      /\ Radius[k] = [a \in Axes |-> Visual[k].len[a] \div 2]
  BY DEF Middle, Radius
<1>8. /\ Visual[k].lo["x"] = lx /\ Visual[k].lo["y"] = ly
      /\ Visual[k].len["x"] = w /\ Visual[k].len["y"] = KeyHeight
  BY <1>6
<1>9. /\ Middle[k]["x"] = lx + w \div 2 /\ Middle[k]["y"] = ly + KeyHeight \div 2
      /\ Radius[k]["x"] = w \div 2 /\ Radius[k]["y"] = KeyHeight \div 2
  BY <1>7, <1>8, BothAxes
<1>10. KeyHeight \div 2 = 104
  BY DEF KeyHeight, Unit
<1>11. w \div 2 \in Int /\ w \div 2 >= 48
  BY <1>3
<1>. QED  BY <1>4, <1>5, <1>9, <1>10, <1>11

-----------------------------------------------------------------------------
(* Roots and areas.                                                           *)

LEMMA SquareGrows ==
    ASSUME NEW a \in Nat, NEW b \in Nat, a <= b
    PROVE  a * a <= b * b
<1>1. b = a + (b - a) /\ b - a \in Nat
  OBVIOUS
<1>2. ASSUME NEW d \in Nat PROVE (a + d) * (a + d) = a * a + 2 * (a * d) + d * d
                                 /\ a * d >= 0 /\ d * d >= 0
  OBVIOUS
<1>. QED  BY <1>1, <1>2

\* There is a root of every number, rounded up.
LEMMA RootIs ==
    ASSUME NEW n \in Nat
    PROVE  /\ Root(n) \in Nat /\ Root(n) * Root(n) >= n
           /\ Root(n) = 0 \/ (Root(n) - 1) * (Root(n) - 1) < n
<1>. DEFINE T == {r \in Nat : r * r >= n}
<1>1. n \in T
  <2>1. CASE n = 0
    BY <2>1
  <2>2. CASE n >= 1
    <3>1. n - 1 \in Nat /\ n * n = n + n * (n - 1)
      BY <2>2
    <3>2. n * (n - 1) >= 0
      BY <3>1
    <3>. QED  BY <3>1, <3>2
  <2>. QED  BY <2>1, <2>2
<1>2. PICK r \in T : \A s \in T : r <= s
  <2>1. T \in SUBSET Nat /\ T # {}
    BY <1>1
  <2>. HIDE DEF T
  <2>. QED  BY <2>1, LeastNat
<1>3. r \in 0..n /\ r * r >= n
  BY <1>1, <1>2
<1>4. r = 0 \/ (r - 1) * (r - 1) < n
  <2>1. CASE r # 0
    <3>1. r - 1 \in Nat /\ r - 1 \notin T
      BY <1>2, <2>1
    <3>2. (r - 1) * (r - 1) \in Nat
      BY <3>1
    <3>. QED  BY <3>1, <3>2
  <2>. QED  BY <2>1
<1>5. LET q == Root(n) IN q \in 0..n /\ q * q >= n /\ (q = 0 \/ (q - 1) * (q - 1) < n)
  BY <1>3, <1>4 DEF Root
<1>. QED  BY <1>5

\* Between which numbers it lies.
LEMMA RootBetween ==
    ASSUME NEW n \in Nat, NEW lo \in Nat, NEW hi \in Nat, lo * lo < n, n <= hi * hi
    PROVE  Root(n) \in Nat /\ Root(n) > lo /\ Root(n) <= hi
<1>. DEFINE q == Root(n)
<1>1. q \in Nat /\ q * q >= n /\ (q = 0 \/ (q - 1) * (q - 1) < n)
  BY RootIs
<1>. HIDE DEF q
<1>2. ASSUME q <= lo PROVE FALSE
  <2>1. q * q <= lo * lo
    BY <1>1, <1>2, SquareGrows
  <2>2. q * q \in Nat /\ lo * lo \in Nat
    BY <1>1
  <2>. QED  BY <1>1, <2>1, <2>2
<1>3. ASSUME q > hi PROVE FALSE
  <2>1. q - 1 \in Nat /\ hi <= q - 1 /\ q # 0
    BY <1>1, <1>3
  <2>2. hi * hi <= (q - 1) * (q - 1)
    BY <2>1, SquareGrows
  <2>3. hi * hi \in Nat /\ (q - 1) * (q - 1) \in Nat
    BY <2>1
  <2>. QED  BY <1>1, <2>1, <2>2, <2>3
<1>. QED  BY <1>1, <1>2, <1>3 DEF q

LEMMA ProductGrows ==
    ASSUME NEW a \in Nat, NEW b \in Nat, NEW c \in Nat, NEW d \in Nat, a <= c, b <= d
    PROVE  a * b <= c * d
<1>1. a * b <= a * d
  <2>1. ASSUME NEW e \in Nat PROVE a * (b + e) = a * b + a * e /\ a * e >= 0 /\ a * b \in Nat
    OBVIOUS
  <2>2. d - b \in Nat /\ d = b + (d - b)
    OBVIOUS
  <2>. QED  BY <2>1, <2>2
<1>2. a * d <= c * d
  <2>1. ASSUME NEW e \in Nat PROVE (a + e) * d = a * d + e * d /\ e * d >= 0 /\ a * d \in Nat
    OBVIOUS
  <2>2. c - a \in Nat /\ c = a + (c - a)
    OBVIOUS
  <2>. QED  BY <2>1, <2>2
<1>3. a * b \in Nat /\ a * d \in Nat /\ c * d \in Nat
  OBVIOUS
<1>. QED  BY <1>1, <1>2, <1>3

LEMMA Limits ==
    /\ MaxCenter.x = 48 /\ MaxCenter.y = 32
    /\ MaxExpansion.x = 40 /\ MaxExpansion.y = 24
    /\ MinRadius.x = 40 /\ MinRadius.y = 48
    /\ MinProduct = 2037
  BY DEF MaxCenter, MaxExpansion, MinRadius, MinProduct, Unit

\* Radii that reach the minimum area as they are, or when rounded up.
Reaches(x, y) == /\ ~ (x = 40 /\ y <= 50)
                 /\ ~ (x = 41 /\ y <= 49)
                 /\ ~ (x = 42 /\ y = 48)

LEMMA Areas ==
    ASSUME NEW x \in Int, NEW y \in Int, x >= 40, y >= 48
    PROVE  /\ (x + 1) * (y + 1) >= 2037 <=> ~ (x = 40 /\ y = 48)
           /\ x * y >= 2037 <=> Reaches(x, y)
<1>1. /\ (x + 1) * (y + 1) \in Nat /\ x * y \in Nat /\ x \in Nat /\ y \in Nat
      /\ x + 1 \in Nat /\ y + 1 \in Nat
  OBVIOUS
<1>2. ASSUME NEW p \in Nat, NEW q \in Nat, p <= x, q <= y PROVE p * q <= x * y
  BY <1>1, <1>2, ProductGrows
<1>3. ASSUME NEW p \in Nat, NEW q \in Nat, p <= x + 1, q <= y + 1 PROVE p * q <= (x + 1) * (y + 1)
  BY <1>1, <1>3, ProductGrows
<1>4. x >= 43 => x * y >= 2037
  BY <1>1, <1>2
<1>5. y >= 51 => x * y >= 2037
  BY <1>1, <1>2
<1>6. x >= 41 => (x + 1) * (y + 1) >= 2037
  BY <1>1, <1>3
<1>7. y >= 49 => (x + 1) * (y + 1) >= 2037
  BY <1>1, <1>3
<1>8. x = 40 /\ y = 48 => (x + 1) * (y + 1) = 2009
  OBVIOUS
<1>9. x < 43 /\ y < 51 => /\ x \in {40, 41, 42} /\ y \in {48, 49, 50}
                          /\ x * y >= 2037 <=> Reaches(x, y)
  BY DEF Reaches
<1>10. x >= 43 \/ y >= 51 => Reaches(x, y)
  BY DEF Reaches
<1>. QED  BY <1>4, <1>5, <1>6, <1>7, <1>8, <1>9, <1>10

\* Radii that do not are scaled up, to ones that do.
LEMMA ScaledUp ==
    ASSUME NEW x \in Int, NEW y \in Int, x >= 40, y >= 48, ~ Reaches(x, y),
           NEW u, u = Root((x * 2037) \div y + 1), NEW v, v = Root((y * 2037) \div x + 1)
    PROVE  /\ u \in Int /\ u >= 40 /\ u <= 51 /\ v \in Int /\ v >= 48 /\ v <= 51
           /\ Reaches(u, v)
<1>1. \/ x = 40 /\ y = 48
      \/ x = 40 /\ y = 49
      \/ x = 40 /\ y = 50
      \/ x = 41 /\ y = 48
      \/ x = 41 /\ y = 49
      \/ x = 42 /\ y = 48
  BY DEF Reaches
<1>. DEFINE m == (x * 2037) \div y + 1
            n == (y * 2037) \div x + 1
<1>2. ASSUME NEW a \in Nat, NEW lo \in Nat, NEW hi \in Nat, lo * lo < a, a <= hi * hi
      PROVE  Root(a) \in Nat /\ Root(a) > lo /\ Root(a) <= hi
  BY <1>2, RootBetween
<1>3. CASE x = 40 /\ y = 48
  <2>1. m = 1698 /\ n = 2445
    BY <1>3
  <2>2. Root(1698) = 42 /\ Root(2445) = 50
    <3>1. Root(1698) \in Nat /\ Root(1698) > 41 /\ Root(1698) <= 42
      BY <1>2
    <3>2. Root(2445) \in Nat /\ Root(2445) > 49 /\ Root(2445) <= 50
      BY <1>2
    <3>. QED  BY <3>1, <3>2
  <2>. QED  BY <2>1, <2>2 DEF Reaches
<1>4. CASE x = 40 /\ y = 49
  <2>1. m = 1663 /\ n = 2496
    BY <1>4
  <2>2. Root(1663) = 41 /\ Root(2496) = 50
    <3>1. Root(1663) \in Nat /\ Root(1663) > 40 /\ Root(1663) <= 41
      BY <1>2
    <3>2. Root(2496) \in Nat /\ Root(2496) > 49 /\ Root(2496) <= 50
      BY <1>2
    <3>. QED  BY <3>1, <3>2
  <2>. QED  BY <2>1, <2>2 DEF Reaches
<1>5. CASE x = 40 /\ y = 50
  <2>1. m = 1630 /\ n = 2547
    BY <1>5
  <2>2. Root(1630) = 41 /\ Root(2547) = 51
    <3>1. Root(1630) \in Nat /\ Root(1630) > 40 /\ Root(1630) <= 41
      BY <1>2
    <3>2. Root(2547) \in Nat /\ Root(2547) > 50 /\ Root(2547) <= 51
      BY <1>2
    <3>. QED  BY <3>1, <3>2
  <2>. QED  BY <2>1, <2>2 DEF Reaches
<1>6. CASE x = 41 /\ y = 48
  <2>1. m = 1740 /\ n = 2385
    BY <1>6
  <2>2. Root(1740) = 42 /\ Root(2385) = 49
    <3>1. Root(1740) \in Nat /\ Root(1740) > 41 /\ Root(1740) <= 42
      BY <1>2
    <3>2. Root(2385) \in Nat /\ Root(2385) > 48 /\ Root(2385) <= 49
      BY <1>2
    <3>. QED  BY <3>1, <3>2
  <2>. QED  BY <2>1, <2>2 DEF Reaches
<1>7. CASE x = 41 /\ y = 49
  <2>1. m = 1705 /\ n = 2435
    BY <1>7
  <2>2. Root(1705) = 42 /\ Root(2435) = 50
    <3>1. Root(1705) \in Nat /\ Root(1705) > 41 /\ Root(1705) <= 42
      BY <1>2
    <3>2. Root(2435) \in Nat /\ Root(2435) > 49 /\ Root(2435) <= 50
      BY <1>2
    <3>. QED  BY <3>1, <3>2
  <2>. QED  BY <2>1, <2>2 DEF Reaches
<1>8. CASE x = 42 /\ y = 48
  <2>1. m = 1783 /\ n = 2329
    BY <1>8
  <2>2. Root(1783) = 43 /\ Root(2329) = 49
    <3>1. Root(1783) \in Nat /\ Root(1783) > 42 /\ Root(1783) <= 43
      BY <1>2
    <3>2. Root(2329) \in Nat /\ Root(2329) > 48 /\ Root(2329) <= 49
      BY <1>2
    <3>. QED  BY <3>1, <3>2
  <2>. QED  BY <2>1, <2>2 DEF Reaches
<1>. QED  BY <1>1, <1>3, <1>4, <1>5, <1>6, <1>7, <1>8

\* Half way between two numbers, rounded down.
HalfWay(a, b) == a + ((b - a) * 500) \div 1000

LEMMA HalfWayIs ==
    ASSUME NEW a \in Int, NEW b \in Int
    PROVE  /\ HalfWay(a, b) \in Int
           /\ a <= b => a <= HalfWay(a, b) /\ HalfWay(a, b) <= b
           /\ b <= a => b <= HalfWay(a, b) /\ HalfWay(a, b) <= a
           /\ 2 * HalfWay(a, b) <= a + b /\ a + b <= 2 * HalfWay(a, b) + 1
<1>. DEFINE d == ((b - a) * 500) \div 1000
<1>1. d \in Int /\ 1000 * d <= (b - a) * 500 /\ (b - a) * 500 < 1000 * d + 1000
  OBVIOUS
<1>2. HalfWay(a, b) = a + d
  BY DEF HalfWay
<1>. HIDE DEF d
<1>. QED  BY <1>1, <1>2

\* It stays between limits; at the lower one, the second number is next to it.
LEMMA HalfWayBetween ==
    ASSUME NEW a \in Int, NEW b \in Int, NEW lo \in Int, NEW hi \in Int,
           lo <= a, a <= hi, lo <= b, b <= hi
    PROVE  /\ HalfWay(a, b) \in Int /\ lo <= HalfWay(a, b) /\ HalfWay(a, b) <= hi
           /\ HalfWay(a, b) = lo => b <= lo + 1
<1>. DEFINE h == HalfWay(a, b)
<1>1. /\ h \in Int
      /\ a <= b => a <= h /\ h <= b
      /\ b <= a => b <= h /\ h <= a
      /\ 2 * h <= a + b /\ a + b <= 2 * h + 1
  BY HalfWayIs
<1>. HIDE DEF h
<1>2. /\ h \in Int /\ lo <= h /\ h <= hi
      /\ h = lo => b <= lo + 1
  BY <1>1
<1>. QED  BY <1>2 DEF h

-----------------------------------------------------------------------------
(* The hit regions.                                                           *)

Shape(e) == /\ e.c["x"] \in Int /\ e.c["y"] \in Int
            /\ e.r["x"] \in Int /\ e.r["y"] \in Int

\* An ellipse is within its limits, said in numbers.
LEMMA WithinIs ==
    ASSUME NEW k \in Keys, NEW e, Shape(e)
    PROVE  Within(k, e) <=>
              /\ e.c["x"] - Middle[k].x >= -48 /\ e.c["x"] - Middle[k].x <= 48
              /\ e.c["y"] - Middle[k].y >= -32 /\ e.c["y"] - Middle[k].y <= 32
              /\ e.r["x"] >= 40 /\ e.r["x"] <= Radius[k].x + 40
              /\ e.r["y"] >= 48 /\ e.r["y"] <= 128
              /\ ~ (e.r["x"] = 40 /\ e.r["y"] = 48)
<1>. DEFINE x == e.r["x"]
            y == e.r["y"]
            In(a) == /\ e.c[a] - Middle[k][a] \in -MaxCenter[a] .. MaxCenter[a]
                     /\ e.r[a] <= Radius[k][a] + MaxExpansion[a]
                     /\ e.r[a] >= MinRadius[a]
<1>1. Within(k, e) <=> In("x") /\ In("y") /\ (x + 1) * (y + 1) >= MinProduct
  BY BothAxes DEF Within
<1>2. /\ x \in Int /\ y \in Int /\ e.c["x"] \in Int /\ e.c["y"] \in Int
      /\ Middle[k].x \in Int /\ Middle[k].y \in Int /\ Radius[k].x \in Int /\ Radius[k].y = 104
  BY KeyShape DEF Shape
<1>3. In("x") <=> /\ e.c["x"] - Middle[k].x >= -48 /\ e.c["x"] - Middle[k].x <= 48
                  /\ x >= 40 /\ x <= Radius[k].x + 40
  BY <1>2, Limits
<1>4. In("y") <=> /\ e.c["y"] - Middle[k].y >= -32 /\ e.c["y"] - Middle[k].y <= 32
                  /\ y >= 48 /\ y <= 128
  BY <1>2, Limits
<1>. HIDE DEF In
<1>5. x >= 40 /\ y >= 48 => ((x + 1) * (y + 1) >= MinProduct <=> ~ (x = 40 /\ y = 48))
  BY <1>2, Limits, Areas
<1>. QED  BY <1>1, <1>3, <1>4, <1>5

\* The drawn key is within its own limits.
LEMMA BaselineFits ==
    ASSUME NEW k \in Keys
    PROVE  Shape(Baseline(k)) /\ Within(k, Baseline(k))
<1>. DEFINE e == Baseline(k)
<1>1. /\ e.c["x"] = Middle[k].x /\ e.c["y"] = Middle[k].y
      /\ e.r["x"] = Radius[k].x /\ e.r["y"] = Radius[k].y
  BY DEF Baseline
<1>2. Shape(e)
  BY <1>1, KeyShape DEF Shape
<1>. HIDE DEF e
<1>. QED  BY <1>1, <1>2, KeyShape, WithinIs DEF e

\* What is clamped is within the limits, whatever it was and whoever competes.
LEMMA ClampFits ==
    ASSUME NEW k \in Keys, NEW e, Shape(e), Shape(hit[k]), Within(k, hit[k])
    PROVE  Shape(ClampTo(k, e)) /\ Within(k, ClampTo(k, e))
<1>. DEFINE box == [c |-> [a \in Axes |-> Clamp(e.c[a], Middle[k][a] - MaxCenter[a],
                                                        Middle[k][a] + MaxCenter[a])],
                    r |-> [a \in Axes |-> Clamp(e.r[a], MinRadius[a],
                                                Radius[k][a] + MaxExpansion[a])]]
            out == Accessible(box)
            mid == Lerp(hit[k], out, 500)
            x == box.r["x"]
            y == box.r["y"]
<1>1. /\ Middle[k].x \in Int /\ Middle[k].y \in Int /\ Radius[k].x \in Int /\ Radius[k].x >= 48
      /\ Radius[k].y = 104 /\ e.c["x"] \in Int /\ e.c["y"] \in Int
      /\ e.r["x"] \in Int /\ e.r["y"] \in Int
  BY KeyShape DEF Shape
<1>2. /\ box.c["x"] = Clamp(e.c["x"], Middle[k].x - 48, Middle[k].x + 48)
      /\ box.c["y"] = Clamp(e.c["y"], Middle[k].y - 32, Middle[k].y + 32)
      /\ x = Clamp(e.r["x"], 40, Radius[k].x + 40)
      /\ y = Clamp(e.r["y"], 48, 104 + 24)
  BY <1>1, Limits, BothAxes
<1>3. /\ box.c["x"] \in Int /\ box.c["x"] - Middle[k].x >= -48 /\ box.c["x"] - Middle[k].x <= 48
      /\ box.c["y"] \in Int /\ box.c["y"] - Middle[k].y >= -32 /\ box.c["y"] - Middle[k].y <= 32
      /\ x \in Int /\ x >= 40 /\ x <= Radius[k].x + 40
      /\ y \in Int /\ y >= 48 /\ y <= 128
  BY <1>1, <1>2 DEF Clamp
<1>4. ClampTo(k, e) = IF Within(k, out) /\ Crowded(k, out) THEN mid ELSE out
  BY DEF ClampTo
<1>5. box = [c |-> box.c, r |-> box.r]
  OBVIOUS
<1>. HIDE DEF box
<1>6. /\ out.c["x"] = box.c["x"] /\ out.c["y"] = box.c["y"]
      /\ out.r["x"] \in Int /\ out.r["x"] >= 40 /\ out.r["x"] <= Radius[k].x + 40
      /\ out.r["y"] \in Int /\ out.r["y"] >= 48 /\ out.r["y"] <= 128
      /\ Reaches(out.r["x"], out.r["y"])
  <2>1. CASE x * y >= MinProduct
    <3>1. out = box
      BY <2>1 DEF Accessible
    <3>2. Reaches(x, y)
      BY <1>3, <2>1, Limits, Areas
    <3>. QED  BY <1>3, <3>1, <3>2
  <2>2. CASE ~ (x * y >= MinProduct)
    <3>. DEFINE u == Root((x * 2037) \div y + 1)
                v == Root((y * 2037) \div x + 1)
    <3>1. out = [box EXCEPT !.r = [x |-> u, y |-> v]]
      BY <2>2, Limits DEF Accessible
    <3>2. ~ Reaches(x, y)
      BY <1>3, <2>2, Limits, Areas
    <3>3. /\ u \in Int /\ u >= 40 /\ u <= 51 /\ v \in Int /\ v >= 48 /\ v <= 51
          /\ Reaches(u, v)
      <4>1. u = Root((x * 2037) \div y + 1) /\ v = Root((y * 2037) \div x + 1)
        OBVIOUS
      <4>. HIDE DEF u, v, x, y
      <4>. QED  BY <1>3, <3>2, <4>1, ScaledUp
    <3>. HIDE DEF u, v
    <3>4. out.c = box.c /\ out.r["x"] = u /\ out.r["y"] = v
      BY <1>5, <3>1
    <3>. QED  BY <1>1, <3>3, <3>4
  <2>. QED  BY <2>1, <2>2
<1>. HIDE DEF out
<1>7. Shape(out) /\ Within(k, out)
  <2>1. Shape(out)
    BY <1>3, <1>6 DEF Shape
  <2>. QED  BY <1>3, <1>6, <2>1, WithinIs DEF Reaches
<1>8. Shape(mid) /\ Within(k, mid)
  <2>1. /\ mid.c["x"] = HalfWay(hit[k].c["x"], out.c["x"])
        /\ mid.c["y"] = HalfWay(hit[k].c["y"], out.c["y"])
        /\ mid.r["x"] = HalfWay(hit[k].r["x"], out.r["x"])
        /\ mid.r["y"] = HalfWay(hit[k].r["y"], out.r["y"])
    BY BothAxes DEF Lerp, Thousand, HalfWay
  <2>. HIDE DEF mid
  <2>2. /\ hit[k].c["x"] \in Int /\ hit[k].c["y"] \in Int
        /\ hit[k].r["x"] \in Int /\ hit[k].r["y"] \in Int
        /\ out.c["x"] \in Int /\ out.c["y"] \in Int
    BY <1>7 DEF Shape
  <2>3. /\ hit[k].c["x"] - Middle[k].x >= -48 /\ hit[k].c["x"] - Middle[k].x <= 48
        /\ hit[k].c["y"] - Middle[k].y >= -32 /\ hit[k].c["y"] - Middle[k].y <= 32
        /\ hit[k].r["x"] >= 40 /\ hit[k].r["x"] <= Radius[k].x + 40
        /\ hit[k].r["y"] >= 48 /\ hit[k].r["y"] <= 128
    BY WithinIs
  <2>4. /\ mid.c["x"] \in Int /\ Middle[k].x - 48 <= mid.c["x"] /\ mid.c["x"] <= Middle[k].x + 48
    <3>1. /\ Middle[k].x - 48 <= hit[k].c["x"] /\ hit[k].c["x"] <= Middle[k].x + 48
          /\ Middle[k].x - 48 <= out.c["x"] /\ out.c["x"] <= Middle[k].x + 48
          /\ Middle[k].x - 48 \in Int /\ Middle[k].x + 48 \in Int
      BY <1>1, <1>3, <1>6, <2>2, <2>3
    <3>. QED  BY <2>1, <2>2, <3>1, HalfWayBetween
  <2>5. /\ mid.c["y"] \in Int /\ Middle[k].y - 32 <= mid.c["y"] /\ mid.c["y"] <= Middle[k].y + 32
    <3>1. /\ Middle[k].y - 32 <= hit[k].c["y"] /\ hit[k].c["y"] <= Middle[k].y + 32
          /\ Middle[k].y - 32 <= out.c["y"] /\ out.c["y"] <= Middle[k].y + 32
          /\ Middle[k].y - 32 \in Int /\ Middle[k].y + 32 \in Int
      BY <1>1, <1>3, <1>6, <2>2, <2>3
    <3>. QED  BY <2>1, <2>2, <3>1, HalfWayBetween
  <2>6. /\ mid.r["x"] \in Int /\ 40 <= mid.r["x"] /\ mid.r["x"] <= Radius[k].x + 40
        /\ mid.r["x"] = 40 => out.r["x"] <= 41
    <3>1. /\ 40 <= hit[k].r["x"] /\ hit[k].r["x"] <= Radius[k].x + 40
          /\ 40 <= out.r["x"] /\ out.r["x"] <= Radius[k].x + 40
          /\ 40 \in Int /\ Radius[k].x + 40 \in Int /\ 40 + 1 = 41
      BY <1>1, <1>6, <2>2, <2>3
    <3>. QED  BY <1>6, <2>1, <2>2, <3>1, HalfWayBetween
  <2>7. /\ mid.r["y"] \in Int /\ 48 <= mid.r["y"] /\ mid.r["y"] <= 128
        /\ mid.r["y"] = 48 => out.r["y"] <= 49
    <3>1. /\ 48 <= hit[k].r["y"] /\ hit[k].r["y"] <= 128
          /\ 48 <= out.r["y"] /\ out.r["y"] <= 128
          /\ 48 \in Int /\ 128 \in Int /\ 48 + 1 = 49
      BY <1>1, <1>6, <2>2, <2>3
    <3>. QED  BY <1>6, <2>1, <2>2, <3>1, HalfWayBetween
  <2>8. Shape(mid)
    BY <2>4, <2>5, <2>6, <2>7 DEF Shape
  <2>9. /\ mid.c["x"] - Middle[k].x >= -48 /\ mid.c["x"] - Middle[k].x <= 48
        /\ mid.c["y"] - Middle[k].y >= -32 /\ mid.c["y"] - Middle[k].y <= 32
    BY <1>1, <2>4, <2>5
  <2>10. ~ (mid.r["x"] = 40 /\ mid.r["y"] = 48)
    BY <1>6, <2>6, <2>7 DEF Reaches
  <2>. QED  BY <2>6, <2>7, <2>8, <2>9, <2>10, WithinIs DEF mid
<1>. QED  BY <1>4, <1>7, <1>8

-----------------------------------------------------------------------------
(* What was learned.                                                          *)

\* The spread of the samples is never negative: one more keeps it so.
LEMMA SpreadGrows ==
    ASSUME NEW n \in Nat, NEW s \in Int, NEW q \in Int, NEW d \in Int,
           n * q >= s * s, n = 0 => s = 0 /\ q = 0
    PROVE  (n + 1) * (q + d * d) >= (s + d) * (s + d)
<1>1. CASE n = 0
  <2>1. (n + 1) * (q + d * d) = d * d /\ (s + d) * (s + d) = d * d
    BY <1>1
  <2>2. d * d \in Int
    OBVIOUS
  <2>. QED  BY <2>1, <2>2
<1>2. CASE n # 0
  <2>. DEFINE m == n * d
              e == q + m * d - 2 * (s * d)
  <2>1. m \in Int /\ e \in Int /\ n * q \in Int /\ s * s \in Int /\ s * d \in Int /\ m * d \in Int
        /\ m * m \in Int /\ s * m \in Int /\ n * e \in Int
    OBVIOUS
  <2>2. n * e = n * q + m * m - 2 * (s * m)
    <3>1. n * (m * d) = m * m /\ n * (s * d) = s * m
      OBVIOUS
    <3>2. n * e = n * q + n * (m * d) - 2 * (n * (s * d))
      OBVIOUS
    <3>. QED  BY <3>1, <3>2
  <2>3. (s - m) * (s - m) = s * s + m * m - 2 * (s * m) /\ (s - m) * (s - m) >= 0
    <3>. HIDE DEF m, e
    <3>1. \A z \in Int : z * z >= 0
      OBVIOUS
    <3>2. (s - m) * (s - m) = s * s + m * m - 2 * (s * m)
      BY <2>1
    <3>. QED  BY <2>1, <3>1, <3>2
  <2>. HIDE DEF e
  <2>4. n * e >= 0
    <3>. HIDE DEF m
    <3>. QED  BY <2>1, <2>2, <2>3
  <2>5. e >= 0
    <3>1. ASSUME e < 0 PROVE FALSE
      <4>. DEFINE z == 0 - e
      <4>1. z \in Nat /\ 1 <= z /\ 1 <= n
        BY <1>2, <2>1, <3>1
      <4>2. n * z = 0 - n * e
        BY <2>1
      <4>. HIDE DEF z
      <4>3. 1 * 1 <= n * z
        BY <4>1, ProductGrows
      <4>. QED  BY <2>1, <2>4, <4>2, <4>3
    <3>. QED  BY <2>1, <3>1
  <2>6. (n + 1) * (q + d * d) = n * q + m * d + q + d * d
    OBVIOUS
  <2>7. (s + d) * (s + d) = s * s + 2 * (s * d) + d * d
    OBVIOUS
  <2>8. e = q + m * d - 2 * (s * d) /\ d * d \in Int
    BY DEF e
  <2>. HIDE DEF m
  <2>. QED  BY <2>1, <2>5, <2>6, <2>7, <2>8
<1>. QED  BY <1>1, <1>2

LEMMA DivNat ==
    ASSUME NEW a \in Nat, NEW b \in Nat, b # 0
    PROVE  a \div b \in Nat /\ b * (a \div b) <= a /\ a % b \in 0..(b - 1)
  OBVIOUS

\* The pairs of the two loops are pairs of keys.
LEMMA PairTyped ==
    ASSUME NEW m \in 1..(Len(Basis) * Len(Basis))
    PROVE  PairAt(m)[1] \in Keys /\ PairAt(m)[2] \in Keys
<1>. DEFINE L == Len(Basis)
            q == (m - 1) \div L
            r == (m - 1) % L
<1>1. L \in Nat /\ Keys = 1..L
  BY BasisTyped DEF Keys
<1>. HIDE DEF L
<1>2. m \in 1..(L * L) /\ L * L \in Nat
  BY <1>1 DEF L
<1>3. L # 0
  <2>1. L = 0 => L * L = 0
    OBVIOUS
  <2>. QED  BY <1>2, <2>1
<1>4. m - 1 \in Nat /\ m - 1 < L * L
  BY <1>2
<1>5. q \in Nat /\ L * q <= m - 1 /\ r \in 0..(L - 1)
  BY <1>1, <1>3, <1>4, DivNat
<1>6. PairAt(m)[1] = q + 1 /\ PairAt(m)[2] = r + 1
  BY DEF PairAt, L
<1>. HIDE DEF q, r
<1>7. q < L
  <2>1. ASSUME q >= L PROVE FALSE
    <3>1. L * L <= L * q
      BY <1>1, <1>5, <2>1, ProductGrows
    <3>2. L * q \in Nat
      BY <1>1, <1>5
    <3>. QED  BY <1>2, <1>4, <1>5, <3>1, <3>2
  <2>. QED  BY <1>1, <1>5, <2>1
<1>. QED  BY <1>1, <1>5, <1>6, <1>7

\* Samples: how many, their sums and the sums of their squares.
Sampled(s) ==
    /\ s.n \in Nat
    /\ \A a \in Axes : /\ s.sum[a] \in Int /\ s.sq[a] \in Int
                       /\ s.n * s.sq[a] >= s.sum[a] * s.sum[a]
                       /\ s.n = 0 => s.sum[a] = 0 /\ s.sq[a] = 0

LEMMA SpreadTyped ==
    ASSUME NEW k \in Keys, Sampled(stats[k]), NEW a \in Axes
    PROVE  Mean(k, a) \in Int /\ Variance(k, a) \in Nat
<1>. DEFINE n == stats[k].n
            s == stats[k].sum[a]
            q == stats[k].sq[a]
<1>1. n \in Nat /\ s \in Int /\ q \in Int /\ n * q >= s * s
  BY DEF Sampled
<1>2. Mean(k, a) = (IF n = 0 THEN 0 ELSE s \div n)
      /\ Variance(k, a) = IF n = 0 THEN 0 ELSE (n * q - s * s) \div (n * n)
  BY DEF Mean, Variance
<1>. HIDE DEF n, s, q
<1>3. n # 0 => s \div n \in Int
  BY <1>1
<1>4. n # 0 => (n * q - s * s) \div (n * n) \in Nat
  <2>. SUFFICES ASSUME n # 0 PROVE (n * q - s * s) \div (n * n) \in Nat
    OBVIOUS
  <2>1. n * q - s * s \in Nat
    <3>1. n * q \in Int /\ s * s \in Int
      BY <1>1
    <3>. QED  BY <1>1, <3>1
  <2>2. n * n \in Nat /\ n * n # 0
    <3>1. 1 * 1 <= n * n
      BY <1>1, ProductGrows
    <3>2. n * n \in Nat
      BY <1>1
    <3>. QED  BY <3>1, <3>2
  <2>. QED  BY <2>1, <2>2, DivNat
<1>. QED  BY <1>2, <1>3, <1>4

-----------------------------------------------------------------------------
(* The optimizer.                                                             *)

Ellipses == [c : [Axes -> Int], r : [Axes -> Nat]]

LEMMA CandidateTyped ==
    ASSUME NEW k \in Keys, Sampled(stats[k])
    PROVE  Candidate(k) \in Ellipses
<1>. DEFINE abs(v) == IF v < 0 THEN -v ELSE v
            sure(a) == /\ stats[k].n >= MinSamples
                       /\ abs(Mean(k, a)) * Thousand >= Confidence * Radius[k][a]
            bias(a) == IF sure(a) THEN Clamp(Mean(k, a), -MaxCenter[a], MaxCenter[a]) ELSE 0
            mid(a) == Middle[k][a] + bias(a)
            rad(a) == Clamp(Radius[k][a] + Root(Variance(k, a)) \div 2,
                            MinRadius[a], Radius[k][a] + MaxExpansion[a])
<1>1. Candidate(k) = [c |-> [a \in Axes |-> mid(a)], r |-> [a \in Axes |-> rad(a)]]
  BY DEF Candidate
<1>2. ASSUME NEW a \in Axes PROVE mid(a) \in Int /\ rad(a) \in Nat
  <2>1. /\ Mean(k, a) \in Int /\ Variance(k, a) \in Nat
    BY SpreadTyped
  <2>2. /\ Middle[k][a] \in Int /\ Radius[k][a] \in Nat /\ MaxCenter[a] \in Int
        /\ MaxExpansion[a] \in Nat /\ MinRadius[a] \in Nat
    BY BothAxes, KeyShape, Limits
  <2>3. Root(Variance(k, a)) \in Nat
    BY <2>1, RootIs
  <2>4. bias(a) \in Int
    <3>1. Clamp(Mean(k, a), -MaxCenter[a], MaxCenter[a]) \in Int
      BY <2>1, <2>2 DEF Clamp
    <3>. HIDE DEF sure
    <3>. QED  BY <3>1
  <2>5. rad(a) \in Nat
    <3>1. Root(Variance(k, a)) \div 2 \in Nat
      BY <2>3
    <3>. QED  BY <2>2, <3>1 DEF Clamp
  <2>. HIDE DEF bias, rad
  <2>. QED  BY <2>2, <2>4, <2>5
<1>. HIDE DEF mid, rad
<1>3. [a \in Axes |-> mid(a)] \in [Axes -> Int] /\ [a \in Axes |-> rad(a)] \in [Axes -> Nat]
  BY <1>2
<1>. QED  BY <1>1, <1>3 DEF Ellipses

\* Two that compete keep their shapes.
LEMMA CompeteTyped ==
    ASSUME NEW cand \in [Keys -> Ellipses], NEW i \in Keys, NEW j \in Keys
    PROVE  Compete(cand, i, j) \in [Keys -> Ellipses]
<1>. DEFINE e == cand[i]
            f == cand[j]
            narrow(g) == 2 * Least2(g.r.x, g.r.y)
            total == narrow(e) + narrow(f)
            share(g) == (Excess(e, f) * narrow(g)) \div (Unit * total)
<1>1. e \in Ellipses /\ f \in Ellipses
  OBVIOUS
<1>2. Compete(cand, i, j) =
         IF Excess(e, f) <= 0 \/ narrow(e) = 0 \/ narrow(f) = 0 THEN cand
         ELSE [cand EXCEPT ![i] = Shrink(e, share(e)), ![j] = Shrink(f, share(f))]
  BY DEF Compete
<1>. HIDE DEF e, f
<1>3. ASSUME NEW g \in Ellipses
      PROVE  /\ g.c["x"] \in Int /\ g.c["y"] \in Int /\ g.r["x"] \in Nat /\ g.r["y"] \in Nat
             /\ g.c \in [Axes -> Int] /\ g.r \in [Axes -> Nat] /\ g = [c |-> g.c, r |-> g.r]
  BY BothAxes DEF Ellipses
<1>4. ASSUME NEW g \in Ellipses PROVE narrow(g) \in Nat
  BY <1>3 DEF Least2
<1>5. Excess(e, f) \in Int
  <2>. DEFINE side(a) == Least2(e.c[a] + e.r[a], f.c[a] + f.r[a])
                           - Most2(e.c[a] - e.r[a], f.c[a] - f.r[a])
              small(a) == 2 * Least2(e.r[a], f.r[a])
              inter == IF side("x") > 0 /\ side("y") > 0 THEN side("x") * side("y") ELSE 0
  <2>1. Excess(e, f) = inter - (OverlapShare * small("x") * small("y")) \div Thousand
    BY DEF Excess
  <2>2. side("x") \in Int /\ side("y") \in Int /\ small("x") \in Int /\ small("y") \in Int
    BY <1>1, <1>3 DEF Least2, Most2
  <2>. HIDE DEF side, small
  <2>3. inter \in Int
    BY <2>2
  <2>. HIDE DEF inter
  <2>4. (OverlapShare * small("x") * small("y")) \div Thousand \in Int
    <3>1. OverlapShare * small("x") * small("y") \in Int
      BY <2>2 DEF OverlapShare
    <3>. DEFINE z == OverlapShare * small("x") * small("y")
    <3>. HIDE DEF z
    <3>2. z \in Int => z \div Thousand \in Int
      BY DEF Thousand
    <3>. QED  BY <3>1, <3>2 DEF z
  <2>. QED  BY <2>1, <2>3, <2>4
<1>6. ASSUME NEW g \in Ellipses, NEW amount \in Int PROVE Shrink(g, amount) \in Ellipses
  <2>. DEFINE s == [a \in Axes |-> Most2(g.r[a] - amount \div 2, 0)]
  <2>1. \A a \in Axes : Most2(g.r[a] - amount \div 2, 0) \in Nat
    BY <1>3 DEF Most2
  <2>2. s \in [Axes -> Nat]
    BY <2>1
  <2>3. Shrink(g, amount) = [g EXCEPT !.r = s]
    BY DEF Shrink
  <2>. HIDE DEF s
  <2>. QED  BY <2>2, <2>3 DEF Ellipses
<1>7. ASSUME ~ (Excess(e, f) <= 0 \/ narrow(e) = 0 \/ narrow(f) = 0), NEW g \in Ellipses
      PROVE  share(g) \in Int
  <2>1. Unit * total \in Nat /\ Unit * total # 0
    <3>1. narrow(e) \in Nat /\ narrow(f) \in Nat /\ narrow(e) # 0 /\ narrow(f) # 0
      BY <1>1, <1>4, <1>7
    <3>. HIDE DEF narrow
    <3>. QED  BY <3>1 DEF Unit
  <2>2. Excess(e, f) * narrow(g) \in Int
    <3>1. narrow(g) \in Int
      BY <1>4
    <3>. HIDE DEF narrow
    <3>. QED  BY <1>5, <3>1
  <2>3. ASSUME NEW a \in Int, NEW b \in Nat, b # 0 PROVE a \div b \in Int
    BY <2>3
  <2>. QED  BY <2>1, <2>2, <2>3
<1>. HIDE DEF share, narrow
<1>. QED  BY <1>1, <1>2, <1>6, <1>7

LEMMA CompetitionTyped ==
    ASSUME NEW cand \in [Keys -> Ellipses]
    PROVE  Competition(cand) \in [Keys -> Ellipses]
<1>. DEFINE N == Len(Basis) * Len(Basis)
            Go(x, c) == LET i == PairAt(c)[1]  j == PairAt(c)[2]
                        IN  IF i < j /\ j \in Neighbors[i] THEN Compete(x, i, j) ELSE x
            F == [a \in (1..N) \X [Keys -> Ellipses] |-> Go(a[2], a[1])]
            Table(f) == [c \in 0..N |-> IF c = 0 THEN cand ELSE Go(f[c - 1], c)]
            G == CHOOSE f : f = Table(f)
<1>1. N \in Nat /\ \A c \in 1..N, x \in [Keys -> Ellipses] : Go(x, c) \in [Keys -> Ellipses]
  <2>1. N \in Nat
    <3>1. Len(Basis) \in Nat
      BY BasisTyped
    <3>. QED  BY <3>1
  <2>2. ASSUME NEW c \in 1..N, NEW x \in [Keys -> Ellipses] PROVE Go(x, c) \in [Keys -> Ellipses]
    <3>1. PairAt(c)[1] \in Keys /\ PairAt(c)[2] \in Keys
      BY PairTyped
    <3>2. Compete(x, PairAt(c)[1], PairAt(c)[2]) \in [Keys -> Ellipses]
      BY <3>1, CompeteTyped
    <3>. QED  BY <3>2
  <2>. QED  BY <2>1, <2>2
<1>2. Competition(cand) = G[N]
  BY DEF Competition
<1>. HIDE DEF Go
<1>3. IsStep(F, N, [Keys -> Ellipses])
  BY <1>1 DEF IsStep
<1>4. PICK g : IsTable(g, cand, F, N, [Keys -> Ellipses])
  <2>. HIDE DEF F, N
  <2>. QED  BY <1>1, <1>3, RecursionExists
<1>5. g \in [0..N -> [Keys -> Ellipses]] /\ g[0] = cand
  BY <1>4 DEF IsTable
<1>6. ASSUME NEW c \in 1..N PROVE g[c] = Go(g[c - 1], c)
  <2>1. c - 1 \in 0..N
    BY <1>1
  <2>2. <<c, g[c - 1]>> \in (1..N) \X [Keys -> Ellipses]
    BY <1>5, <2>1
  <2>3. g[c] = F[<<c, g[c - 1]>>]
    BY <1>4 DEF IsTable
  <2>. QED  BY <2>2, <2>3
<1>7. g = Table(g)
  <2>. HIDE DEF N
  <2>1. ASSUME NEW c \in 0..N PROVE g[c] = IF c = 0 THEN cand ELSE Go(g[c - 1], c)
    BY <1>1, <1>5, <1>6
  <2>. QED  BY <1>5, <2>1
<1>8. G = Table(G)
  BY <1>7
<1>. HIDE DEF G, N
<1>9. G[0] = cand /\ \A c \in 1..N : G[c] = Go(G[c - 1], c)
  <2>1. ASSUME NEW c \in 0..N PROVE G[c] = IF c = 0 THEN cand ELSE Go(G[c - 1], c)
    <3>1. Table(G)[c] = IF c = 0 THEN cand ELSE Go(G[c - 1], c)
      OBVIOUS
    <3>. HIDE DEF Table
    <3>. QED  BY <1>8, <3>1
  <2>2. 0 \in 0..N /\ \A c \in 1..N : c \in 0..N /\ c # 0
    BY <1>1
  <2>. QED  BY <2>1, <2>2
<1>. DEFINE T == {c \in Nat : G[c] \in [Keys -> Ellipses]}
<1>10. 0 \in T
  BY <1>1, <1>9
<1>11. ASSUME NEW c \in 0..(N - 1), c \in T PROVE c + 1 \in T
  <2>1. c + 1 \in 1..N /\ (c + 1) - 1 = c /\ c + 1 \in Nat
    BY <1>1
  <2>. QED  BY <1>1, <1>9, <1>11, <2>1
<1>12. 0..N \subseteq T
  <2>. HIDE DEF T
  <2>. QED  BY <1>1, <1>10, <1>11, BoundedInduction
<1>. QED  BY <1>1, <1>2, <1>12

\* Learning and optimizing keep what the limits need.
Learned ==
    /\ \A k \in Keys : Shape(hit[k]) /\ Within(k, hit[k])
    /\ DOMAIN stats = Keys /\ \A k \in Keys : Sampled(stats[k])

LEMMA OptimizedFits ==
    ASSUME Learned
    PROVE  \A k \in Keys : Shape(Optimized[k]) /\ Within(k, Optimized[k])
<1>. DEFINE first == [k \in Keys |-> Candidate(k)]
            cand == Competition(first)
<1>1. first \in [Keys -> Ellipses]
  BY CandidateTyped DEF Learned
<1>. HIDE DEF first
<1>2. cand \in [Keys -> Ellipses]
  BY <1>1, CompetitionTyped
<1>3. Optimized = [k \in Keys |-> Proposal(k, ClampTo(k, cand[k]))]
  BY DEF Optimized, first
<1>. HIDE DEF cand
<1>4. ASSUME NEW k \in Keys PROVE Shape(Optimized[k]) /\ Within(k, Optimized[k])
  <2>. DEFINE e == ClampTo(k, cand[k])
              between == Lerp(hit[k], e, MaxUpdate)
  <2>1. Shape(hit[k]) /\ Within(k, hit[k])
    BY DEF Learned
  <2>2. Shape(cand[k])
    BY <1>2, BothAxes DEF Shape, Ellipses
  <2>3. Shape(e) /\ Within(k, e)
    BY <2>1, <2>2, ClampFits
  <2>4. Optimized[k] = Proposal(k, e)
    BY <1>3
  <2>. HIDE DEF e
  <2>5. Shape(between)
    <3>1. \A f \in {"c", "r"}, a \in Axes :
             between[f][a] = hit[k][f][a] + ((e[f][a] - hit[k][f][a]) * MaxUpdate) \div Thousand
      BY DEF Lerp
    <3>2. ASSUME NEW a \in Int, NEW b \in Int PROVE a + ((b - a) * MaxUpdate) \div Thousand \in Int
      BY DEF MaxUpdate, Thousand
    <3>. HIDE DEF between
    <3>. QED  BY <2>1, <2>3, <3>1, <3>2, BothAxes DEF Shape
  <2>6. Proposal(k, e) \in {hit[k], ClampTo(k, e), ClampTo(k, between)}
    BY DEF Proposal
  <2>. HIDE DEF between
  <2>7. /\ Shape(ClampTo(k, e)) /\ Within(k, ClampTo(k, e))
        /\ Shape(ClampTo(k, between)) /\ Within(k, ClampTo(k, between))
    BY <2>1, <2>3, <2>5, ClampFits
  <2>. QED  BY <2>1, <2>4, <2>6, <2>7
<1>. QED  BY <1>4

\* One sample more.
LEMMA RecordKeeps ==
    ASSUME Learned, NEW k, NEW p, p.x \in Int, p.y \in Int, RecordHit(k, p)
    PROVE  DOMAIN stats' = Keys /\ \A i \in Keys : Sampled(stats'[i])
<1>. DEFINE d(a) == p[a] - Middle[k][a]
            old == stats[k]
            new == [n |-> old.n + 1, sum |-> [a \in Axes |-> old.sum[a] + d(a)],
                    sq |-> [a \in Axes |-> old.sq[a] + d(a) * d(a)]]
<1>1. stats' = [stats EXCEPT ![k] = new]
  BY DEF RecordHit
<1>2. DOMAIN stats' = Keys /\ \A i \in Keys : stats'[i] = IF i = k THEN new ELSE stats[i]
  <2>. HIDE DEF new
  <2>. QED  BY <1>1 DEF Learned
<1>3. k \in Keys => Sampled(new)
  <2>. SUFFICES ASSUME k \in Keys PROVE Sampled(new)
    OBVIOUS
  <2>1. Sampled(old)
    BY DEF Learned
  <2>2. ASSUME NEW a \in Axes
        PROVE  /\ new.sum[a] = old.sum[a] + d(a) /\ new.sq[a] = old.sq[a] + d(a) * d(a)
               /\ d(a) \in Int
    BY BothAxes, KeyShape
  <2>3. new.n = old.n + 1 /\ old.n \in Nat
    BY <2>1 DEF Sampled
  <2>. HIDE DEF new, old, d
  <2>4. ASSUME NEW a \in Axes
        PROVE  /\ new.sum[a] \in Int /\ new.sq[a] \in Int
               /\ new.n * new.sq[a] >= new.sum[a] * new.sum[a]
    <3>. DEFINE n == old.n
                s == old.sum[a]
                q == old.sq[a]
                z == d(a)
    <3>1. n \in Nat /\ s \in Int /\ q \in Int /\ n * q >= s * s /\ (n = 0 => s = 0 /\ q = 0) /\ z \in Int
      BY <2>1, <2>2 DEF Sampled
    <3>2. new.n = n + 1 /\ new.sum[a] = s + z /\ new.sq[a] = q + z * z
      BY <2>2, <2>3
    <3>. HIDE DEF n, s, q, z
    <3>3. (n + 1) * (q + z * z) >= (s + z) * (s + z)
      BY <3>1, SpreadGrows
    <3>. QED  BY <3>1, <3>2, <3>3
  <2>5. new.n \in Nat /\ new.n # 0
    BY <2>3
  <2>. QED  BY <2>4, <2>5 DEF Sampled
<1>. HIDE DEF new
<1>. QED  BY <1>2, <1>3 DEF Learned

LEMMA LearnedStep ==
    ASSUME HandsInv, Learned, [Next]_vars
    PROVE  Learned'
<1>1. ASSUME UNCHANGED <<hit, stats>> PROVE Learned'
  <2>1. \A k \in Keys : Within(k, hit'[k]) <=> Within(k, hit[k])
    BY <1>1
  <2>. QED  BY <1>1 DEF Learned, Within, Shape, Sampled
<1>2. ASSUME hit' = hit, DOMAIN stats' = Keys, \A k \in Keys : Sampled(stats'[k]) PROVE Learned'
  BY <1>2 DEF Learned, Within, Shape, Sampled
<1>3. CASE HandleTouchPress
  <2>. DEFINE p == Pt(Head(events).p)
  <2>1. Head(events) \in Events /\ Head(events).t = "touchPressed"
    BY <1>3 DEF HandleTouchPress, Handled, HandsInv, LoopTypes
  <2>2. Head(events).p \in Points \cup {<<0, 0>>}
    BY <2>1 DEF Events
  <2>3. p.x \in Int /\ p.y \in Int
    BY <2>2, NonePair DEF Pt
  <2>4. UNCHANGED <<hit, stats>> \/ Learn(p)
    BY <1>3 DEF HandleTouchPress, geometryVars
  <2>. HIDE DEF p
  <2>5. hit' = hit /\ (stats' = stats \/ RecordHit(HitTest(p), p))
    BY <2>4 DEF Learn
  <2>. QED  BY <1>1, <1>2, <2>3, <2>5, RecordKeeps
<1>4. CASE Tick
  <2>1. stats' = stats /\ (hit' = hit \/ hit' = Optimized)
    BY <1>4 DEF Tick, TickAdaptive
  <2>2. ASSUME hit' = Optimized PROVE Learned'
    <3>1. \A k \in Keys : Shape(hit'[k]) /\ Within(k, hit'[k])
      BY <2>2, OptimizedFits
    <3>. QED  BY <2>1, <3>1 DEF Learned, Within, Shape, Sampled
  <2>. QED  BY <1>1, <2>1, <2>2
<1>5. CASE Next /\ ~ HandleTouchPress /\ ~ Tick
  <2>1. UNCHANGED geometryVars
    <3>1. CASE loop = "top" /\ Hands
      BY <3>1 DEF Hands, FingerUp, FingerDown, FingerMove, TouchesCancelled, PointerGone, ButtonDown,
                  ButtonUp, PointerGoes, Elsewhere
    <3>2. CASE loop = "top" /\ (Configure \/ MapWindow \/ Uncovered \/ OutputMode)
      BY <3>2 DEF Configure, MapWindow, Uncovered, OutputMode, Elsewhere
    <3>3. CASE EventLoop
      BY <1>5, <3>3 DEF EventLoop, Poll, HandleTouchRelease, HandlePointerPress, HandlePointerRelease,
                        HandleOther, Render
    <3>4. CASE TrayToggle \/ EscapeHides \/ MoveWindow \/ ResizeWindow \/ SceneChanges
      BY <3>4 DEF TrayToggle, EscapeHides, MoveWindow, ResizeWindow, SceneChanges
    <3>. QED  BY <1>5, <3>1, <3>2, <3>3, <3>4 DEF Next
  <2>. QED  BY <1>1, <2>1 DEF geometryVars
<1>6. CASE UNCHANGED vars
  BY <1>1, <1>6 DEF vars, geometryVars
<1>. QED  BY <1>3, <1>4, <1>5, <1>6

LEMMA LearnedInit ==
    ASSUME Init
    PROVE  Learned
<1>1. /\ hit = [k \in Keys |-> Baseline(k)]
      /\ stats = [k \in Keys |-> [n |-> 0, sum |-> [a \in Axes |-> 0], sq |-> [a \in Axes |-> 0]]]
  BY DEF Init, GeometryInit
<1>2. \A k \in Keys : Shape(hit[k]) /\ Within(k, hit[k])
  BY <1>1, BaselineFits
<1>3. ASSUME NEW k \in Keys PROVE Sampled(stats[k])
  <2>1. stats[k].n = 0 /\ \A a \in Axes : stats[k].sum[a] = 0 /\ stats[k].sq[a] = 0
    BY <1>1
  <2>. QED  BY <2>1 DEF Sampled
<1>4. DOMAIN stats = Keys
  BY <1>1
<1>. QED  BY <1>2, <1>3, <1>4 DEF Learned

(* For every view, every sequence of touches and every setting of the         *)
(* adaptation: no optimizer pass takes a hit region beyond its limits, be the *)
(* candidate what it may, with the roundings of the scaled-up area and of the *)
(* pull half way back included (clamp_to_constraints, evaluate_and_propose).  *)
THEOREM RegionsKeepTheirLimits == Spec => []HitWithinLimits
<1>1. Init => Learned
  BY LearnedInit
<1>2. HandsInv /\ Learned /\ [Next]_vars => Learned'
  BY LearnedStep
<1>3. Spec => [](HandsInv /\ Learned)
  BY <1>1, <1>2, InitHolds, HandsStep, PTL DEF Spec
<1>4. Learned => HitWithinLimits
  BY DEF Learned, HitWithinLimits
<1>. QED  BY <1>3, <1>4, PTL

-----------------------------------------------------------------------------
(* Types.                                                                     *)

LEMMA DistanceTyped ==
    ASSUME NEW e, Shape(e), e.r["x"] > 0, e.r["y"] > 0, NEW p, p.x \in Int, p.y \in Int
    PROVE  Distance(e, p) \in Int
<1>. DEFINE part(a) == ((p[a] - e.c[a]) * (p[a] - e.c[a]) * Thousand) \div (e.r[a] * e.r[a])
<1>1. Distance(e, p) = part("x") + part("y")
  BY DEF Distance
<1>2. ASSUME NEW a \in Int, NEW r \in Nat, r # 0 PROVE (a * a * Thousand) \div (r * r) \in Int
  <2>1. a * a * Thousand \in Int
    BY DEF Thousand
  <2>2. r * r \in Nat /\ r * r # 0
    <3>1. 1 * 1 <= r * r
      BY <1>2, ProductGrows
    <3>2. r * r \in Nat
      OBVIOUS
    <3>. QED  BY <3>1, <3>2
  <2>3. ASSUME NEW y \in Int, NEW z \in Nat, z # 0 PROVE y \div z \in Int
    BY <2>3
  <2>. QED  BY <2>1, <2>2, <2>3
<1>3. part("x") \in Int
  <2>. DEFINE z == p.x - e.c["x"]
  <2>1. z \in Int /\ e.r["x"] \in Nat /\ e.r["x"] # 0 /\ part("x") = (z * z * Thousand) \div (e.r["x"] * e.r["x"])
    BY DEF Shape
  <2>. HIDE DEF z, part
  <2>. QED  BY <1>2, <2>1
<1>4. part("y") \in Int
  <2>. DEFINE z == p.y - e.c["y"]
  <2>1. z \in Int /\ e.r["y"] \in Nat /\ e.r["y"] # 0 /\ part("y") = (z * z * Thousand) \div (e.r["y"] * e.r["y"])
    BY DEF Shape
  <2>. HIDE DEF z, part
  <2>. QED  BY <1>2, <2>1
<1>. HIDE DEF part
<1>. QED  BY <1>1, <1>3, <1>4

\* A touch that reaches keys has a nearest one.
LEMMA HitTestTyped ==
    ASSUME Learned, NEW p, p.x \in Int, p.y \in Int
    PROVE  HitTest(p) \in Keys \cup {0}
<1>. DEFINE L == Len(Basis)
            D(k) == Distance(hit[k], p)
            T == {m \in Nat : \A R \in SUBSET (1..m) : R \subseteq Keys /\ R # {}
                     => \E k \in R : \A j \in R : Closer(p, k, j)}
<1>1. L \in Nat /\ Keys = 1..L
  BY BasisTyped DEF Keys
<1>2. ASSUME NEW k \in Keys PROVE D(k) \in Int /\ stats[k].n \in Int
  <2>1. Shape(hit[k]) /\ hit[k].r["x"] >= 40 /\ hit[k].r["y"] >= 48 /\ Sampled(stats[k])
    BY WithinIs DEF Learned
  <2>2. hit[k].r["x"] > 0 /\ hit[k].r["y"] > 0
    BY <2>1 DEF Shape
  <2>. QED  BY <2>1, <2>2, DistanceTyped DEF Sampled
<1>3. \A i, j : Closer(p, i, j) <=> \/ D(i) < D(j)
                                    \/ D(i) = D(j) /\ stats[i].n > stats[j].n
                                    \/ D(i) = D(j) /\ stats[i].n = stats[j].n /\ i <= j
  BY DEF Closer
<1>. HIDE DEF D, L
<1>4. /\ \A i, j \in Keys : Closer(p, i, j) \/ Closer(p, j, i)
      /\ \A i, j, k \in Keys : Closer(p, i, j) /\ Closer(p, j, k) => Closer(p, i, k)
  <2>1. \A k \in Keys : k \in Int
    BY <1>1
  <2>. QED  BY <1>2, <1>3, <2>1
<1>5. 0 \in T
  <2>1. 1..0 = {}
    OBVIOUS
  <2>2. \A R \in SUBSET (1..0) : R = {}
    BY <2>1
  <2>. QED  BY <2>2
<1>6. ASSUME NEW m \in Nat, m \in T PROVE m + 1 \in T
  <2>. SUFFICES ASSUME NEW R \in SUBSET (1..(m + 1)), R \subseteq Keys, R # {}
       PROVE  \E k \in R : \A j \in R : Closer(p, k, j)
    OBVIOUS
  <2>. DEFINE Q == R \ {m + 1}
  <2>1. Q \in SUBSET (1..m) /\ Q \subseteq Keys
    OBVIOUS
  <2>2. CASE Q = {}
    <3>1. R = {m + 1} /\ m + 1 \in R /\ m + 1 \in Keys
      BY <2>2
    <3>2. Closer(p, m + 1, m + 1)
      BY <1>4, <3>1
    <3>3. \A j \in R : Closer(p, m + 1, j)
      BY <3>1, <3>2
    <3>. QED  BY <3>1, <3>3
  <2>3. CASE Q # {}
    <3>1. PICK k \in Q : \A j \in Q : Closer(p, k, j)
      BY <1>6, <2>1, <2>3
    <3>2. CASE m + 1 \notin R \/ Closer(p, k, m + 1)
      BY <3>1, <3>2
    <3>3. CASE m + 1 \in R /\ ~ Closer(p, k, m + 1)
      <4>1. Closer(p, m + 1, k) /\ Closer(p, m + 1, m + 1)
        BY <1>4, <3>3
      <4>2. \A j \in R : Closer(p, m + 1, j)
        BY <1>4, <3>1, <3>3, <4>1
      <4>. QED  BY <3>3, <4>2
    <3>. QED  BY <3>2, <3>3
  <2>. QED  BY <2>2, <2>3
<1>7. L \in T
  <2>1. Nat \subseteq T
    <3>. HIDE DEF T
    <3>. QED  BY <1>5, <1>6, SetInduction
  <2>. QED  BY <1>1, <2>1
<1>8. CASE Reached(p) = {}
  BY <1>8 DEF HitTest
<1>9. CASE Reached(p) # {}
  <2>1. Reached(p) \subseteq Keys /\ Reached(p) \in SUBSET (1..L)
    BY <1>1 DEF Reached
  <2>2. \E k \in Reached(p) : \A j \in Reached(p) : Closer(p, k, j)
    BY <1>7, <1>9, <2>1
  <2>3. HitTest(p) = CHOOSE k \in Reached(p) : \A j \in Reached(p) : Closer(p, k, j)
    BY <1>9 DEF HitTest
  <2>. QED  BY <2>1, <2>2, <2>3
<1>. QED  BY <1>8, <1>9

LEMMA KeyAtTyped ==
    ASSUME NEW p
    PROVE  KeyAt(p) \in Keys \cup {0}
  BY DEF KeyAt

\* What the two other invariants leave of the types.
Flagged ==
    /\ {visible, fresh} \subseteq BOOLEAN
    /\ {touchDown, pointerDown} \subseteq Keys \cup {0} /\ down \subseteq Keys
    /\ since \in Nat /\ learning \in {"off", "frozen", "on"}

LEMMA FlaggedStep ==
    ASSUME HandsInv, Learned, Flagged, [Next]_vars
    PROVE  Flagged'
<1>. USE DEF Flagged
<1>1. CASE HandleTouchPress
  <2>. DEFINE p == Pt(Head(events).p)
              k == TouchKeyAt(p)
  <2>1. Head(events) \in Events /\ Head(events).t = "touchPressed"
    BY <1>1 DEF HandleTouchPress, Handled, HandsInv, LoopTypes
  <2>2. Head(events).p \in Points \cup {<<0, 0>>}
    BY <2>1 DEF Events
  <2>3. p.x \in Int /\ p.y \in Int
    BY <2>2, NonePair DEF Pt
  <2>4. visible' = visible /\ \/ UNCHANGED <<geometryVars, bridgeVars, fresh>>
                              \/ /\ Learn(p) /\ touchDown' = k /\ down' = down \cup ({k} \ {0})
                                 /\ fresh' = (fresh /\ ~ (k # 0)) /\ pointerDown' = pointerDown
    BY <1>1 DEF HandleTouchPress, Lights
  <2>. HIDE DEF p
  <2>5. k \in Keys \cup {0}
    BY <2>3, HitTestTyped, KeyAtTyped DEF TouchKeyAt
  <2>. HIDE DEF k
  <2>6. CASE UNCHANGED <<geometryVars, bridgeVars, fresh>>
    BY <2>4, <2>6 DEF geometryVars, bridgeVars
  <2>7. CASE /\ Learn(p) /\ touchDown' = k /\ down' = down \cup ({k} \ {0})
             /\ fresh' = (fresh /\ ~ (k # 0)) /\ pointerDown' = pointerDown
    <3>1. since' \in Nat /\ learning' = learning
      BY <2>7 DEF Learn, RecordHit
    <3>2. fresh' \in BOOLEAN
      BY <2>7
    <3>. QED  BY <2>4, <2>5, <2>7, <3>1, <3>2
  <2>. QED  BY <2>4, <2>6, <2>7
<1>2. CASE HandlePointerPress
  <2>. DEFINE k == KeyAt(Pt(Head(events).p))
  <2>1. /\ visible' = visible /\ pointerDown' = (IF k = 0 THEN pointerDown ELSE k)
        /\ touchDown' = touchDown /\ down' = down \cup ({k} \ {0})
        /\ fresh' = (fresh /\ ~ (k # 0)) /\ since' = since /\ learning' = learning
    BY <1>2 DEF HandlePointerPress, Lights, geometryVars
  <2>2. k \in Keys \cup {0}
    BY KeyAtTyped
  <2>. HIDE DEF k
  <2>3. fresh' \in BOOLEAN
    BY <2>1
  <2>. QED  BY <2>1, <2>2, <2>3
<1>3. CASE HandleTouchRelease \/ HandlePointerRelease
  <2>1. /\ visible' = visible /\ touchDown' \in {touchDown, 0} /\ pointerDown' \in {pointerDown, 0}
        /\ down' \subseteq down /\ since' = since /\ learning' = learning
    BY <1>3 DEF HandleTouchRelease, HandlePointerRelease, geometryVars
  <2>2. fresh' \in BOOLEAN
    BY <1>3 DEF HandleTouchRelease, HandlePointerRelease, Lights
  <2>. QED  BY <2>1, <2>2
<1>4. CASE Tick
  <2>1. /\ visible' = visible /\ fresh' = fresh /\ UNCHANGED bridgeVars
        /\ since' \in {since, 0} /\ learning' = learning
    BY <1>4 DEF Tick, TickAdaptive, surfaceVars
  <2>. QED  BY <2>1 DEF bridgeVars
<1>5. CASE Poll \/ Render
  <2>1. /\ visible' = visible /\ UNCHANGED bridgeVars /\ UNCHANGED geometryVars
    BY <1>5 DEF Poll, Render
  <2>2. fresh' \in BOOLEAN
    BY <1>5 DEF Poll, Render, RenderIfDirty
  <2>. QED  BY <2>1, <2>2 DEF bridgeVars, geometryVars
<1>6. CASE TrayToggle
  <2>1. /\ visible' = ~ visible /\ fresh' = fresh /\ UNCHANGED bridgeVars /\ UNCHANGED geometryVars
    BY <1>6 DEF TrayToggle
  <2>. QED  BY <2>1 DEF bridgeVars, geometryVars
<1>7. CASE \/ HandleOther \/ EscapeHides \/ MoveWindow \/ ResizeWindow \/ SceneChanges
           \/ Configure \/ MapWindow \/ Uncovered \/ OutputMode \/ Hands \/ UNCHANGED vars
  <2>1. visible' = visible /\ fresh' \in {fresh, FALSE} /\ UNCHANGED bridgeVars /\ UNCHANGED geometryVars
    <3>1. CASE HandleOther \/ EscapeHides \/ MoveWindow
      BY <3>1 DEF HandleOther, EscapeHides, MoveWindow
    <3>2. CASE ResizeWindow \/ SceneChanges
      BY <3>2 DEF ResizeWindow, SceneChanges
    <3>3. CASE Configure \/ MapWindow \/ Uncovered \/ OutputMode
      BY <3>3 DEF Configure, MapWindow, Uncovered, OutputMode, Deliver, Elsewhere
    <3>4. CASE Hands
      BY <3>4 DEF Hands, FingerUp, FingerDown, FingerMove, TouchesCancelled, PointerGone, ButtonDown,
                  ButtonUp, PointerGoes, Deliver, Elsewhere
    <3>5. CASE UNCHANGED vars
      BY <3>5 DEF vars, surfaceVars
    <3>. QED  BY <1>7, <3>1, <3>2, <3>3, <3>4, <3>5
  <2>. QED  BY <2>1 DEF bridgeVars, geometryVars
<1>. QED  BY <1>1, <1>2, <1>3, <1>4, <1>5, <1>6, <1>7 DEF Next, EventLoop

(* Everything keeps its type, the bridge holds keys of the view only, and of  *)
(* the ellipses a touch reaches one is the nearest: hit_test_confidence       *)
(* always has an answer.                                                      *)
THEOREM FrontEndTypes == Spec => []TypeOK
<1>1. HandsInv /\ Learned /\ Flagged => TypeOK
  <2>. SUFFICES ASSUME HandsInv, Learned, Flagged PROVE TypeOK
    OBVIOUS
  <2>1. /\ loop \in {"top", "events", "render"} /\ fingers \in [Touches -> Points \cup {None}]
        /\ mouse \in Points \cup {None} /\ button \in BOOLEAN
        /\ backend \in {"wayland", "x11", "null"}
        /\ plat.size \in Sizes \cup {Window} /\ plat.redraw \in BOOLEAN
    BY DEF HandsInv, LoopTypes, Platforms, Wins
  <2>2. ASSUME NEW k \in Keys
        PROVE  stats[k].n \in Nat /\ \A a \in Axes : hit[k].r[a] \in Nat \ {0}
    <3>1. Shape(hit[k]) /\ hit[k].r["x"] >= 40 /\ hit[k].r["y"] >= 48 /\ Sampled(stats[k])
      BY WithinIs DEF Learned
    <3>2. stats[k].n \in Nat
      BY <3>1 DEF Sampled
    <3>3. hit[k].r["x"] \in Nat \ {0} /\ hit[k].r["y"] \in Nat \ {0}
      BY <3>1 DEF Shape
    <3>. QED  BY <3>2, <3>3, BothAxes
  <2>. QED  BY <2>1, <2>2 DEF TypeOK, Flagged
<1>2. Init => Flagged
  <2>. SUFFICES ASSUME Init PROVE Flagged
    OBVIOUS
  <2>1. visible = TRUE /\ touchDown = 0 /\ pointerDown = 0 /\ down = {}
    BY DEF Init
  <2>2. fresh = FALSE
    BY DEF Init, SurfaceInit
  <2>3. since = 0
    BY DEF Init, GeometryInit
  <2>4. learning \in {"off", "frozen", "on"}
    BY FrontEndAssumption DEF Init
  <2>. QED  BY <2>1, <2>2, <2>3, <2>4 DEF Flagged
<1>3. Init => HandsInv /\ Learned
  BY InitHolds, LearnedInit
<1>4. HandsInv /\ Learned /\ Flagged /\ [Next]_vars => (HandsInv /\ Learned /\ Flagged)'
  BY HandsStep, LearnedStep, FlaggedStep
<1>. QED  BY <1>1, <1>2, <1>3, <1>4, PTL DEF Spec
=============================================================================

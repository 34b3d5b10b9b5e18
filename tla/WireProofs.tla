----------------------------- MODULE WireProofs -----------------------------
(***************************************************************************)
(* Proofs about module Wire, for every frame, string and rate limit and     *)
(* every stream: the decoder is exact, an honest client is understood, and  *)
(* the token bucket keeps its promise about every window of time.           *)
(***************************************************************************)
EXTENDS Wire, Induction

(* Whatever decodes: symbols of the socket are naturals. *)
Symbols == Seq(Nat)
Decoded == [op : Nat, args : Seq(Nat), text : Seq(Nat)]
DrainStates == [buf : Symbols, msgs : Seq(Decoded), bad : BOOLEAN]

-----------------------------------------------------------------------------
(* Sequences.                                                               *)

(* Cutting a sequence in two loses nothing. *)
LEMMA Cut ==
    ASSUME NEW S, NEW s \in Seq(S), NEW n \in 0..Len(s)
    PROVE  /\ SubSeq(s, 1, n) \in Seq(S) /\ Len(SubSeq(s, 1, n)) = n
           /\ SubSeq(s, n + 1, Len(s)) \in Seq(S)
           /\ Len(SubSeq(s, n + 1, Len(s))) = Len(s) - n
           /\ SubSeq(s, 1, n) \o SubSeq(s, n + 1, Len(s)) = s
<1>1. Len(s) \in Nat /\ \A i \in 1..Len(s) : s[i] \in S
  BY LenProperties, ElementOfSeq
<1>2. SubSeq(s, 1, n) \in Seq(S) /\ Len(SubSeq(s, 1, n)) = n
  <2>1. \A i \in 1..n : s[i] \in S
    BY <1>1
  <2> QED
    BY <1>1, <2>1, SubSeqProperties
<1>3. /\ SubSeq(s, n + 1, Len(s)) \in Seq(S)
      /\ Len(SubSeq(s, n + 1, Len(s))) = Len(s) - n
  <2>1. \A i \in (n + 1)..Len(s) : s[i] \in S
    BY <1>1
  <2> QED
    BY <1>1, <2>1, SubSeqProperties
<1>4. SubSeq(s, 1, n) \o SubSeq(s, n + 1, Len(s)) = SubSeq(s, 1, Len(s))
  <2>1. 1 \in 1..(Len(s) + 1) /\ n \in (1 - 1)..Len(s) /\ Len(s) \in n..Len(s)
    BY <1>1
  <2> QED
    BY ONLY <2>1, s \in Seq(S), ConcatAdjacentSubSeq
<1> QED
  BY <1>2, <1>3, <1>4, SubSeqFull

(* The same about symbols, in the form the steps below cite. *)
LEMMA CatTyped ==
    \A a, b \in Symbols : a \o b \in Symbols /\ Len(a \o b) = Len(a) + Len(b) /\ Len(a) \in Nat
BY ConcatProperties, LenProperties DEF Symbols

\* Concatenation of symbols is associative.
LEMMA CatAssoc == \A a, b, c \in Symbols : (a \o b) \o c = a \o (b \o c)
BY ConcatAssociative DEF Symbols

\* The empty buffer changes nothing it is joined to.
LEMMA CatEmpty == <<>> \in Symbols /\ \A a \in Symbols : a \o <<>> = a /\ <<>> \o a = a
BY ConcatEmptySeq DEF Symbols

\* Appending to a buffer leaves what was in it in place.
LEMMA CatFront == \A a, b \in Symbols : \A i \in 1..Len(a) : (a \o b)[i] = a[i]
<1> SUFFICES ASSUME NEW a \in Seq(Nat), NEW b \in Seq(Nat), NEW i \in 1..Len(a)
             PROVE  (a \o b)[i] = a[i]
  BY DEF Symbols
<1>1. i \in 1..(Len(a) + Len(b)) /\ i <= Len(a)
  OBVIOUS
<1> QED
  BY <1>1, ConcatProperties

\* The two symbols of a header are a sequence of two.
LEMMA CatPair == \A x, y \in Nat : <<x>> \o <<y>> = <<x, y>> /\ <<x, y>> \in Seq(Nat)
<1> SUFFICES ASSUME NEW x \in Nat, NEW y \in Nat
             PROVE  <<x>> \o <<y>> = <<x, y>> /\ <<x, y>> \in Seq(Nat)
  OBVIOUS
<1>1. <<x>> \in Seq(Nat) /\ <<x, y>> \in Seq(Nat)
  OBVIOUS
<1>2. <<x>> \o <<y>> = Append(<<x>>, y)
  BY <1>1, AppendIsConcat
<1>3. Append(<<x>>, y) = <<x, y>>
  <2> DEFINE s == <<x>>
             a == Append(s, y)
             b == <<x, y>>
  <2>1. s \in Seq(Nat) /\ Len(s) = 1 /\ s[1] = x
    OBVIOUS
  <2>2. b \in Seq(Nat) /\ Len(b) = 2 /\ b[1] = x /\ b[2] = y
    OBVIOUS
  <2> HIDE DEF s, b
  <2>3. a \in Seq(Nat) /\ Len(a) = 2 /\ a[1] = x /\ a[2] = y
    <3>1. /\ a \in Seq(Nat) /\ Len(a) = Len(s) + 1 /\ a[Len(s) + 1] = y
          /\ \A i \in 1..Len(s) : a[i] = s[i]
      BY <2>1, AppendProperties, ZenonT(40)
    <3> HIDE DEF a
    <3> QED
      BY <2>1, <3>1
  <2> HIDE DEF a
  <2>4. \A i \in 1..2 : a[i] = b[i]
    BY <2>2, <2>3
  <2>5. a = b
    BY <2>2, <2>3, <2>4, SeqEqual
  <2> QED
    BY <2>5 DEF a, b, s
<1> QED
  BY <1>1, <1>2, <1>3

\* Equal streams with equal beginnings have equal rests.
LEMMA CatCancel == \A a, b, c \in Symbols : a \o b = a \o c => b = c
BY ConcatSimplifications DEF Symbols

-----------------------------------------------------------------------------
(* Decoding a payload undoes encoding it, and the other way round.          *)

(* A payload that decodes gives one message, which encodes to it. *)
LEMMA DecodeEncode ==
    ASSUME NEW p \in Symbols, NEW m \in DecodePayload(p)
    PROVE  /\ m \in Decoded /\ DecodePayload(p) = {m}
           /\ EncodePayload(m) = p
<1> USE DEF OpHello, OpOpen, OpDown, OpUp, OpRepeat, OpReleaseAll, OpPing, OpPong, OpOk, OpError,
            Bare, OneArg, WithText
<1>1. p # <<>> /\ Len(p) \in Nat /\ Len(p) # 0 /\ \A i \in 1..Len(p) : p[i] \in Nat
  BY DEF DecodePayload, Symbols
<1>2. CASE p[1] \in Bare /\ Len(p) = 1
  <2>1. DecodePayload(p) = {Msg(p[1], <<>>, <<>>)} /\ m = Msg(p[1], <<>>, <<>>)
    BY <1>1, <1>2 DEF DecodePayload
  <2>2. p = <<p[1]>>
    BY <1>1, <1>2 DEF Symbols
  <2> QED
    BY <1>1, <1>2, <2>1, <2>2 DEF Decoded, Msg, EncodePayload
<1>3. CASE p[1] \in OneArg /\ Len(p) = 2
  <2>1. DecodePayload(p) = {Msg(p[1], <<p[2]>>, <<>>)} /\ m = Msg(p[1], <<p[2]>>, <<>>)
    BY <1>1, <1>3 DEF DecodePayload
  <2>2. p = <<p[1], p[2]>>
    BY <1>1, <1>3 DEF Symbols
  <2> QED
    BY <1>1, <1>3, <2>1, <2>2 DEF Decoded, Msg, EncodePayload
<1>4. CASE /\ p[1] \in WithText /\ Len(p) >= 2
           /\ p[1] = OpError => p[2] \in ErrorCodes
           /\ TextFits(p, 3)
  <2> DEFINE text == SubSeq(p, 4, Len(p))
  <2>1. DecodePayload(p) = {Msg(p[1], <<p[2]>>, text)} /\ m = Msg(p[1], <<p[2]>>, text)
    BY <1>1, <1>4 DEF DecodePayload
  <2>2. Len(p) >= 3 /\ p[3] = Len(p) - 3
    BY <1>1, <1>4 DEF TextFits
  <2>3. /\ text \in Seq(Nat) /\ Len(text) = Len(p) - 3
        /\ \A i \in 1..(Len(p) - 3) : text[i] = p[i + 3]
    <3>1. \A i \in 4..Len(p) : p[i] \in Nat
      BY <1>1
    <3>2. /\ text \in Seq(Nat) /\ Len(text) = IF 4 <= Len(p) THEN Len(p) - 4 + 1 ELSE 0
          /\ \A i \in 1..(Len(p) - 4 + 1) : text[i] = p[4 + i - 1]
      BY <1>1, <3>1, SubSeqProperties
    <3> HIDE DEF text
    <3>3. Len(text) = Len(p) - 3
      <4>1. CASE 4 <= Len(p)
        BY <1>1, <3>2, <4>1
      <4>2. CASE ~(4 <= Len(p))
        <5>1. Len(text) = 0
          BY <3>2, <4>2
        <5>2. Len(p) = 3
          <6>1. \A a \in Nat : a >= 3 /\ ~(4 <= a) => a = 3
            OBVIOUS
          <6> QED
            BY ONLY <6>1, <1>1, <2>2, <4>2, Zenon
        <5> QED
          BY <5>1, <5>2
      <4> QED
        BY <4>1, <4>2
    <3>4. ASSUME NEW i \in 1..(Len(p) - 3) PROVE text[i] = p[i + 3]
      <4>1. i \in 1..(Len(p) - 4 + 1) /\ 4 + i - 1 = i + 3
        BY <1>1
      <4> QED
        BY <3>2, <4>1
    <3> QED
      BY <3>2, <3>3, <3>4
  <2> HIDE DEF text
  <2>4. EncodePayload(m) = (<<p[1]>> \o <<p[2]>>) \o (<<Len(text)>> \o text)
    BY <1>4, <2>1 DEF EncodePayload, Msg
  <2>5. (<<p[1]>> \o <<p[2]>>) \o (<<Len(text)>> \o text) = p
    BY SMTT(30), <1>1, <2>2, <2>3 DEF Symbols
  <2>6. p[1] \in Nat /\ <<p[2]>> \in Seq(Nat)
    BY <1>1, <1>4
  <2>7. m \in Decoded
    BY <2>1, <2>3, <2>6 DEF Decoded, Msg
  <2> QED
    BY <2>1, <2>4, <2>5, <2>7
<1> QED
  BY <1>1, <1>2, <1>3, <1>4 DEF DecodePayload

-----------------------------------------------------------------------------
(* The encoding of a sequence of messages.                                  *)

(* A frame is its header and its payload. *)
LEMMA EncodeTyped ==
    ASSUME NEW m \in Decoded
    PROVE  /\ EncodePayload(m) \in Symbols /\ Encode(m) \in Symbols
           /\ Len(Encode(m)) = HeaderLen + Len(EncodePayload(m))
           /\ Len(EncodePayload(m)) \in Nat \ {0}
<1>1. /\ <<m.op>> \in Seq(Nat) /\ m.args \in Seq(Nat) /\ m.text \in Seq(Nat)
      /\ <<Len(m.text)>> \in Seq(Nat)
  BY DEF Decoded
<1>2. EncodePayload(m) \in Symbols /\ Len(EncodePayload(m)) \in Nat \ {0}
  <2>1. CASE m.op \in WithText
    <3>1. EncodePayload(m) = (<<m.op>> \o m.args) \o (<<Len(m.text)>> \o m.text)
      BY <2>1 DEF EncodePayload
    <3>2. <<m.op>> \o m.args \in Seq(Nat) /\ Len(<<m.op>> \o m.args) = 1 + Len(m.args)
      BY <1>1, ConcatProperties
    <3>3. /\ <<Len(m.text)>> \o m.text \in Seq(Nat)
          /\ Len(<<Len(m.text)>> \o m.text) = 1 + Len(m.text)
      BY <1>1, ConcatProperties
    <3> DEFINE a == <<m.op>> \o m.args
               b == <<Len(m.text)>> \o m.text
    <3>4. Len(a) \in Nat \ {0} /\ Len(b) \in Nat
      BY <1>1, <3>2, <3>3
    <3>5. EncodePayload(m) = a \o b
      BY <3>1
    <3> HIDE DEF a, b
    <3>6. a \o b \in Seq(Nat) /\ Len(a \o b) = Len(a) + Len(b)
      BY <3>2, <3>3, ConcatProperties DEF a, b
    <3> QED
      BY <3>4, <3>5, <3>6 DEF Symbols
  <2>2. CASE m.op \notin WithText
    <3>1. EncodePayload(m) = (<<m.op>> \o m.args) \o <<>>
      BY <2>2 DEF EncodePayload
    <3> QED
      BY <1>1, <3>1 DEF Symbols
  <2> QED
    BY <2>1, <2>2
<1>3. <<Magic, Len(EncodePayload(m))>> \in Seq(Nat)
  BY <1>2, WireAssumption DEF WireAssumption
<1> HIDE DEF EncodePayload
<1> QED
  BY <1>2, <1>3 DEF Encode, Symbols, HeaderLen

(* What the recursion of EncodeAll computes. *)
LEMMA EncodeAllTable ==
    ASSUME NEW ms \in Seq(Decoded)
    PROVE  \E g \in [0..Len(ms) -> Symbols] :
              /\ g[0] = <<>>
              /\ \A n \in 1..Len(ms) : g[n] = g[n - 1] \o Encode(ms[n])
              /\ EncodeAll(ms) = g[Len(ms)]
<1> DEFINE N == Len(ms)
           F == [a \in (1..N) \X Symbols |-> a[2] \o Encode(ms[a[1]])]
           Table(f) == [n \in 0..N |-> IF n = 0 THEN <<>> ELSE f[n - 1] \o Encode(ms[n])]
           G == CHOOSE f : f = Table(f)
<1>1. N \in Nat /\ <<>> \in Symbols
  BY DEF Symbols
<1>2. \A n \in 1..N : Encode(ms[n]) \in Symbols
  BY EncodeTyped, ElementOfSeq
<1>3. F \in [(1..N) \X Symbols -> Symbols]
  BY <1>2, ConcatProperties DEF Symbols
<1>4. PICK g \in [0..N -> Symbols] :
         g[0] = <<>> /\ \A n \in 1..N : g[n] = F[<<n, g[n - 1]>>]
  <2>1. IsStep(F, N, Symbols)
    BY <1>3 DEF IsStep
  <2> HIDE DEF N, F
  <2>2. \E g : IsTable(g, <<>>, F, N, Symbols)
    BY <1>1, <2>1, RecursionExists
  <2> QED
    BY <2>2 DEF IsTable
<1>5. ASSUME NEW n \in 1..N PROVE n - 1 \in 0..N /\ F[<<n, g[n - 1]>>] = g[n - 1] \o Encode(ms[n])
  <2>1. n - 1 \in 0..N
    BY <1>1
  <2>2. <<n, g[n - 1]>> \in (1..N) \X Symbols
    BY <2>1, <1>4
  <2> QED
    BY <2>1, <2>2
<1>6. \A n \in 1..N : g[n] = g[n - 1] \o Encode(ms[n])
  BY <1>4, <1>5
<1>7. g = Table(g)
  <2>1. ASSUME NEW n \in 0..N PROVE g[n] = IF n = 0 THEN <<>> ELSE g[n - 1] \o Encode(ms[n])
    BY <1>1, <1>4, <1>6
  <2> QED
    BY <1>4, <2>1
<1>8. G = Table(G)
  BY <1>7
<1>9. EncodeAll(ms) = G[N]
  BY DEF EncodeAll
<1>10. \A n \in 0..N : G[n] = g[n]
  <2>1. \A n \in 0..N : G[n] = IF n = 0 THEN <<>> ELSE G[n - 1] \o Encode(ms[n])
    BY <1>8
  <2> HIDE DEF G, N
  <2>2. G[0] = g[0]
    BY <1>1, <1>4, <2>1
  <2>3. ASSUME NEW n \in 0..(N - 1), G[n] = g[n] PROVE G[n + 1] = g[n + 1]
    <3>1. n + 1 \in 1..N /\ n + 1 \in 0..N /\ n + 1 # 0 /\ (n + 1) - 1 = n
      BY <1>1
    <3>2. G[n + 1] = G[n] \o Encode(ms[n + 1])
      BY <2>1, <3>1
    <3>3. g[n + 1] = g[n] \o Encode(ms[n + 1])
      BY <1>6, <3>1
    <3> QED
      BY <2>3, <3>2, <3>3
  <2> QED
    BY <1>1, <2>2, <2>3, RecursionUnique
<1>11. EncodeAll(ms) = g[N]
  BY SMTT(30), <1>1, <1>9, <1>10
<1> QED
  BY <1>4, <1>6, <1>11

(* EncodeAll, one message at a time. *)
LEMMA EncodeAllEmpty == EncodeAll(<<>>) = <<>>
<1>1. <<>> \in Seq(Decoded) /\ Len(<<>>) = 0
  OBVIOUS
<1>2. PICK g \in [0..0 -> Symbols] : g[0] = <<>> /\ EncodeAll(<<>>) = g[0]
  BY <1>1, EncodeAllTable
<1> QED
  BY <1>2

\* One more message adds its frame at the end.
LEMMA EncodeAllAppend ==
    ASSUME NEW ms \in Seq(Decoded), NEW m \in Decoded
    PROVE  /\ EncodeAll(ms) \in Symbols /\ EncodeAll(Append(ms, m)) \in Symbols
           /\ EncodeAll(Append(ms, m)) = EncodeAll(ms) \o Encode(m)
<1> DEFINE N == Len(ms)
           app == Append(ms, m)
<1>1. /\ N \in Nat /\ app \in Seq(Decoded) /\ Len(app) = N + 1
      /\ app[N + 1] = m /\ \A i \in 1..N : app[i] = ms[i]
  OBVIOUS
<1>2. PICK g \in [0..N -> Symbols] :
         /\ g[0] = <<>>
         /\ \A n \in 1..N : g[n] = g[n - 1] \o Encode(ms[n])
         /\ EncodeAll(ms) = g[N]
  BY EncodeAllTable
<1> HIDE DEF N, app
<1>3. PICK h \in [0..(N + 1) -> Symbols] :
         /\ h[0] = <<>>
         /\ \A n \in 1..(N + 1) : h[n] = h[n - 1] \o Encode(app[n])
         /\ EncodeAll(app) = h[N + 1]
  <2>1. \E h \in [0..Len(app) -> Symbols] :
         /\ h[0] = <<>>
         /\ \A n \in 1..Len(app) : h[n] = h[n - 1] \o Encode(app[n])
         /\ EncodeAll(app) = h[Len(app)]
    BY <1>1, EncodeAllTable
  <2> QED
    BY <1>1, <2>1
<1>4. \A n \in 0..N : g[n] = h[n]
  <2>1. g[0] = h[0]
    BY <1>2, <1>3
  <2>2. ASSUME NEW n \in 0..(N - 1), g[n] = h[n] PROVE g[n + 1] = h[n + 1]
    <3>1. n + 1 \in 1..N /\ n + 1 \in 1..(N + 1) /\ (n + 1) - 1 = n
      BY <1>1
    <3>2. g[n + 1] = g[n] \o Encode(ms[n + 1])
      BY <1>2, <3>1
    <3>3. h[n + 1] = h[n] \o Encode(app[n + 1])
      BY <1>3, <3>1
    <3> QED
      BY <1>1, <2>2, <3>1, <3>2, <3>3
  <2> QED
    BY <1>1, <2>1, <2>2, RecursionUnique, ZenonT(40)
<1>5. N \in 0..N /\ N + 1 \in 1..(N + 1) /\ N + 1 \in 0..(N + 1) /\ (N + 1) - 1 = N
  BY <1>1
<1>6. EncodeAll(app) = EncodeAll(ms) \o Encode(m)
  BY <1>1, <1>2, <1>3, <1>4, <1>5
<1> QED
  BY <1>2, <1>3, <1>5, <1>6 DEF app

\* One message is one frame.
LEMMA EncodeAllOne ==
    ASSUME NEW m \in Decoded
    PROVE  EncodeAll(<<m>>) = Encode(m)
<1>1. <<>> \in Seq(Decoded) /\ Append(<<>>, m) = <<m>>
  OBVIOUS
<1>2. <<>> \o Encode(m) = Encode(m)
  BY EncodeTyped, ConcatEmptySeq DEF Symbols
<1> QED
  BY <1>1, <1>2, EncodeAllAppend, EncodeAllEmpty

\* The frames of messages are symbols.
LEMMA EncodeAllTyped ==
    ASSUME NEW ms \in Seq(Decoded)
    PROVE  EncodeAll(ms) \in Symbols /\ Len(EncodeAll(ms)) \in Nat
<1>1. PICK g \in [0..Len(ms) -> Symbols] : EncodeAll(ms) = g[Len(ms)]
  BY EncodeAllTable
<1>2. Len(ms) \in 0..Len(ms)
  OBVIOUS
<1> QED
  BY <1>1, <1>2 DEF Symbols

(* Encoding is a homomorphism: a batch of messages is one stretch of bytes. *)
LEMMA EncodeAllConcat ==
    ASSUME NEW ms \in Seq(Decoded), NEW ns \in Seq(Decoded)
    PROVE  EncodeAll(ms \o ns) = EncodeAll(ms) \o EncodeAll(ns)
<1> DEFINE T == {s \in Seq(Decoded) : EncodeAll(ms \o s) = EncodeAll(ms) \o EncodeAll(s)}
<1>1. <<>> \in T
  <2>1. ms \o <<>> = ms
    OBVIOUS
  <2>2. EncodeAll(ms) \o <<>> = EncodeAll(ms)
    BY EncodeAllTyped, ConcatEmptySeq DEF Symbols
  <2>3. <<>> \in Seq(Decoded)
    OBVIOUS
  <2>4. EncodeAll(ms \o <<>>) = EncodeAll(ms) \o EncodeAll(<<>>)
    BY <2>1, <2>2, EncodeAllEmpty, Zenon
  <2> QED
    BY <2>3, <2>4, Zenon
<1>2. ASSUME NEW s \in Seq(Decoded), NEW e \in Decoded, s \in T PROVE Append(s, e) \in T
  <2>1. Append(s, e) \in Seq(Decoded) /\ ms \o s \in Seq(Decoded) /\ ms \o Append(s, e) = Append(ms \o s, e)
    OBVIOUS
  <2>2. EncodeAll(ms \o Append(s, e)) = EncodeAll(ms \o s) \o Encode(e)
    BY <2>1, EncodeAllAppend
  <2>3. EncodeAll(ms \o s) = EncodeAll(ms) \o EncodeAll(s)
    BY <1>2
  <2>4. (EncodeAll(ms) \o EncodeAll(s)) \o Encode(e) = EncodeAll(ms) \o (EncodeAll(s) \o Encode(e))
    BY EncodeAllTyped, EncodeTyped, CatAssoc, Zenon
  <2>5. EncodeAll(Append(s, e)) = EncodeAll(s) \o Encode(e)
    BY EncodeAllAppend
  <2> QED
    BY <2>1, <2>2, <2>3, <2>4, <2>5
<1>3. Seq(Decoded) \subseteq T
  <2> HIDE DEF T
  <2> QED
    BY <1>1, <1>2, SeqInduction
<1> QED
  BY <1>3

-----------------------------------------------------------------------------
(* The decoder's loop.                                                      *)

(* A sequence is its first two elements, the k after them, and the rest. *)
LEMMA HeaderCut ==
    \A b \in Seq(Nat) : \A k \in Nat : 2 + k <= Len(b) =>
      LET p == SubSeq(b, 3, 2 + k)
          rest == SubSeq(b, 2 + k + 1, Len(b))
      IN  /\ p \in Seq(Nat) /\ Len(p) = k
          /\ rest \in Seq(Nat) /\ Len(rest) = Len(b) - (2 + k)
          /\ b = (<<b[1], b[2]>> \o p) \o rest
<1> TAKE b \in Seq(Nat)
<1> TAKE k \in Nat
<1> HAVE 2 + k <= Len(b)
<1> DEFINE p == SubSeq(b, 3, 2 + k)
           rest == SubSeq(b, 2 + k + 1, Len(b))
<1>1. /\ Len(b) \in Nat /\ b[1] \in Nat /\ b[2] \in Nat /\ 2 + k \in 0..Len(b)
      /\ \A i \in 3..(2 + k) : b[i] \in Nat
      /\ \A i \in 1..2 : b[i] \in Nat
  OBVIOUS
<1>2. p \in Seq(Nat) /\ Len(p) = k
  <2>1. 3 \in Int /\ 2 + k \in Int
    OBVIOUS
  <2>2. SubSeq(b, 3, 2 + k) \in Seq(Nat) /\ Len(SubSeq(b, 3, 2 + k)) = IF 3 <= 2 + k THEN 2 + k - 3 + 1 ELSE 0
    BY <1>1, <2>1, SubSeqProperties
  <2>3. (IF 3 <= 2 + k THEN 2 + k - 3 + 1 ELSE 0) = k
    OBVIOUS
  <2> QED
    BY <2>2, <2>3
<1>3. /\ rest \in Seq(Nat) /\ Len(rest) = Len(b) - (2 + k)
      /\ SubSeq(b, 1, 2 + k) \o rest = b
  BY <1>1, Cut
<1>4. SubSeq(b, 1, 2) = <<b[1], b[2]>>
  <2>1. /\ SubSeq(b, 1, 2) \in Seq(Nat) /\ Len(SubSeq(b, 1, 2)) = 2
        /\ SubSeq(b, 1, 2)[1] = b[1] /\ SubSeq(b, 1, 2)[2] = b[2]
    BY <1>1, SubSeqProperties
  <2> DEFINE h == <<b[1], b[2]>>
             f == SubSeq(b, 1, 2)
  <2>2. h \in Seq(Nat) /\ Len(h) = 2 /\ h[1] = b[1] /\ h[2] = b[2]
    BY <1>1
  <2>3. \A i \in 1..2 : i = 1 \/ i = 2
    OBVIOUS
  <2>4. f \in Seq(Nat) /\ Len(f) = 2 /\ f[1] = b[1] /\ f[2] = b[2]
    BY <2>1
  <2> HIDE DEF h, f
  <2>5. f = h
    BY <2>2, <2>3, <2>4, SeqEqual
  <2> QED
    BY <2>5 DEF f, h
<1>5. SubSeq(b, 1, 2) \o p = SubSeq(b, 1, 2 + k)
  <2>1. 1 \in 1..(Len(b) + 1) /\ 2 \in (1 - 1)..Len(b) /\ 2 + k \in 2..Len(b) /\ 2 + 1 = 3
    BY <1>1
  <2>2. SubSeq(b, 1, 2) \o SubSeq(b, 2 + 1, 2 + k) = SubSeq(b, 1, 2 + k)
    BY ONLY <2>1, b \in Seq(Nat), ConcatAdjacentSubSeq
  <2> QED
    BY <2>1, <2>2
<1> QED
  BY <1>2, <1>3, <1>4, <1>5

(* A buffer that starts with a frame is that frame and the rest. *)
FramePayload(b) == SubSeq(b, HeaderLen + 1, HeaderLen + b[2])
FrameRest(b) == SubSeq(b, HeaderLen + b[2] + 1, Len(b))

\* A complete frame splits a buffer into header, payload and rest.
LEMMA FrameFront ==
    ASSUME NEW b \in Symbols, HasFrame(b)
    PROVE  /\ FramePayload(b) \in Symbols /\ Len(FramePayload(b)) = b[2] /\ b[2] \in Nat
           /\ FrameRest(b) \in Symbols /\ Len(FrameRest(b)) \in Nat /\ Len(FrameRest(b)) < Len(b)
           /\ b = (<<Magic, Len(FramePayload(b))>> \o FramePayload(b)) \o FrameRest(b)
<1>1. /\ b \in Seq(Nat) /\ Len(b) \in Nat /\ b[1] = Magic /\ b[2] \in Nat /\ 2 + b[2] <= Len(b)
  BY WireAssumption DEF HasFrame, BadHeader, HeaderLen, Symbols, WireAssumption
<1>2. FramePayload(b) = SubSeq(b, 3, 2 + b[2]) /\ FrameRest(b) = SubSeq(b, 2 + b[2] + 1, Len(b))
  BY DEF HeaderLen, FramePayload, FrameRest
<1>3. /\ FramePayload(b) \in Seq(Nat) /\ Len(FramePayload(b)) = b[2]
      /\ FrameRest(b) \in Seq(Nat) /\ Len(FrameRest(b)) = Len(b) - (2 + b[2])
      /\ b = (<<b[1], b[2]>> \o FramePayload(b)) \o FrameRest(b)
  BY <1>1, <1>2, HeaderCut, ZenonT(30)
<1>4. Len(FrameRest(b)) \in Nat /\ Len(FrameRest(b)) < Len(b)
  <2>1. \A x, y \in Nat : 2 + y <= x => x - (2 + y) \in Nat /\ x - (2 + y) < x
    OBVIOUS
  <2> QED
    BY <1>1, <1>3, <2>1, Zenon
<1> QED
  BY <1>1, <1>3, <1>4, Zenon DEF Symbols

(* One turn of the loop keeps the stream: what is decoded, encoded again,   *)
(* and what is left in the buffer.  It shortens the buffer or is the last.  *)
LEMMA TurnExact ==
    ASSUME NEW s \in DrainStates
    PROVE  /\ Turn(s) \in DrainStates
           /\ ~Turn(s).bad =>
                /\ ~s.bad
                /\ EncodeAll(Turn(s).msgs) \o Turn(s).buf = EncodeAll(s.msgs) \o s.buf
           /\ Turn(s) = s \/ Turn(s).bad \/ Len(Turn(s).buf) < Len(s.buf)
<1>0. s.buf \in Symbols /\ s.msgs \in Seq(Decoded) /\ s.bad \in BOOLEAN
  BY DEF DrainStates
<1>1. CASE s.bad
  BY <1>1 DEF Turn
<1>2. CASE ~s.bad /\ BadHeader(s.buf)
  <2>1. Turn(s) = [s EXCEPT !.bad = TRUE]
    BY <1>2 DEF Turn
  <2> QED
    BY <2>1, <1>0 DEF DrainStates
<1>3. CASE ~s.bad /\ ~BadHeader(s.buf) /\ HasFrame(s.buf)
  <2> DEFINE p == FramePayload(s.buf)
             rest == FrameRest(s.buf)
             got == DecodePayload(p)
             out == s.msgs \o (IF got = {} THEN <<>> ELSE <<CHOOSE m \in got : TRUE>>)
  <2>1. Turn(s) = [buf |-> rest, msgs |-> out, bad |-> got = {}]
    BY <1>3 DEF Turn, TakeFrame, FramePayload, FrameRest
  <2>2. /\ p \in Symbols /\ rest \in Symbols /\ Len(rest) < Len(s.buf)
        /\ s.buf = (<<Magic, Len(p)>> \o p) \o rest
    BY <1>0, <1>3, FrameFront
  <2> HIDE DEF p, rest
  <2>3. CASE got = {}
    <3>1. out = s.msgs
      BY <1>0, <2>3, ConcatEmptySeq
    <3> HIDE DEF out, got
    <3>2. Turn(s) = [buf |-> rest, msgs |-> s.msgs, bad |-> TRUE]
      BY <2>1, <2>3, <3>1
    <3> QED
      BY <1>0, <2>2, <3>2 DEF DrainStates
  <2>4. CASE got # {}
    <3>1. PICK m \in got : TRUE
      BY <2>4
    <3>2. m \in Decoded /\ got = {m} /\ EncodePayload(m) = p
      BY <2>2, <3>1, DecodeEncode
    <3>3. out = s.msgs \o <<m>>
      BY <3>2
    <3> HIDE DEF out, got
    <3>4. out = Append(s.msgs, m) /\ out \in Seq(Decoded)
      <4> DEFINE ms == s.msgs
      <4> HIDE DEF ms
      <4>1. ms \in Seq(Decoded) /\ m \in Decoded /\ out = ms \o <<m>>
        BY <1>0, <3>2, <3>3 DEF ms
      <4> QED
        BY <4>1, AppendIsConcat, AppendProperties DEF ms
    <3>5. EncodeAll(out) = EncodeAll(s.msgs) \o Encode(m)
      BY <1>0, <3>2, <3>4, EncodeAllAppend
    <3>6. Encode(m) = <<Magic, Len(p)>> \o p /\ Encode(m) \in Symbols
      BY <3>2, EncodeTyped DEF Encode
    <3>7. EncodeAll(out) \o rest = EncodeAll(s.msgs) \o s.buf
      <4>1. EncodeAll(s.msgs) \in Symbols
        BY <1>0, EncodeAllTyped
      <4>2. (EncodeAll(s.msgs) \o Encode(m)) \o rest = EncodeAll(s.msgs) \o (Encode(m) \o rest)
        BY <2>2, <3>6, <4>1, CatAssoc, Zenon
      <4>3. s.buf = Encode(m) \o rest
        BY <2>2, <3>6
      <4> QED
        BY <3>5, <4>2, <4>3
    <3>8. Turn(s) \in DrainStates
      BY <2>1, <2>2, <3>4 DEF DrainStates
    <3>9. Turn(s).msgs = out /\ Turn(s).buf = rest
      BY <2>1
    <3> QED
      BY <1>3, <2>2, <3>7, <3>8, <3>9
  <2> QED
    BY <2>3, <2>4
<1>4. CASE ~s.bad /\ ~BadHeader(s.buf) /\ ~HasFrame(s.buf)
  BY <1>4 DEF Turn
<1> QED
  BY <1>1, <1>2, <1>3, <1>4

(* The loop stops only where no complete frame and no bad header is left. *)
LEMMA TurnStops ==
    ASSUME NEW s \in DrainStates, ~s.bad, Turn(s) = s
    PROVE  ~BadHeader(s.buf) /\ ~HasFrame(s.buf)
<1>0. s.buf \in Symbols
  BY DEF DrainStates
<1>1. CASE BadHeader(s.buf)
  <2>1. Turn(s) = [s EXCEPT !.bad = TRUE]
    BY <1>1 DEF Turn
  <2>2. Turn(s).bad = TRUE
    BY <2>1 DEF DrainStates
  <2> QED
    BY <2>2
<1>2. CASE ~BadHeader(s.buf) /\ HasFrame(s.buf)
  <2> DEFINE got == DecodePayload(FramePayload(s.buf))
             out == s.msgs \o (IF got = {} THEN <<>> ELSE <<CHOOSE m \in got : TRUE>>)
  <2>1. Turn(s) = [buf |-> FrameRest(s.buf), msgs |-> out, bad |-> got = {}]
    BY <1>2 DEF Turn, TakeFrame, FramePayload, FrameRest
  <2> HIDE DEF got, out
  <2>2. Turn(s).buf = FrameRest(s.buf)
    BY <2>1
  <2>3. Len(FrameRest(s.buf)) \in Nat /\ Len(FrameRest(s.buf)) < Len(s.buf)
    BY <1>0, <1>2, FrameFront
  <2> QED
    BY <2>2, <2>3
<1> QED
  BY <1>1, <1>2

(* What the recursion of Drain computes. *)
LEMMA DrainTable ==
    ASSUME NEW all \in Symbols
    PROVE  \E g \in [0..Len(all) -> DrainStates] :
              /\ g[0] = [buf |-> all, msgs |-> <<>>, bad |-> FALSE]
              /\ \A n \in 0..(Len(all) - 1) : g[n + 1] = Turn(g[n])
              /\ Drain(all) = g[Len(all)]
<1> DEFINE N == Len(all)
           base == [buf |-> all, msgs |-> <<>>, bad |-> FALSE]
           F == [a \in (1..N) \X DrainStates |-> Turn(a[2])]
           Table(f) == [n \in 0..N |-> IF n = 0 THEN base ELSE Turn(f[n - 1])]
           G == CHOOSE f : f = Table(f)
<1>1. N \in Nat
  BY DEF Symbols
<1>2. base \in DrainStates
  BY DEF DrainStates
<1>3. IsStep(F, N, DrainStates)
  BY TurnExact DEF IsStep
<1>4. PICK g : IsTable(g, base, F, N, DrainStates)
  <2> HIDE DEF N, F, base
  <2> QED
    BY <1>1, <1>2, <1>3, RecursionExists
<1>5. g \in [0..N -> DrainStates] /\ g[0] = base
  BY <1>4 DEF IsTable
<1>6. ASSUME NEW n \in 1..N PROVE g[n] = Turn(g[n - 1])
  <2>1. n - 1 \in 0..N
    BY <1>1
  <2>2. <<n, g[n - 1]>> \in (1..N) \X DrainStates
    BY <1>5, <2>1
  <2>3. g[n] = F[<<n, g[n - 1]>>]
    BY <1>4 DEF IsTable
  <2> QED
    BY <2>2, <2>3
<1>7. g = Table(g)
  <2>1. ASSUME NEW n \in 0..N PROVE g[n] = IF n = 0 THEN base ELSE Turn(g[n - 1])
    BY <1>1, <1>5, <1>6
  <2> HIDE DEF base
  <2> QED
    BY <1>5, <2>1
<1>8. G = Table(G)
  BY <1>7
<1>9. Drain(all) = G[N]
  BY DEF Drain
<1> HIDE DEF G, base, N
<1>10. DOMAIN G = 0..N /\ G[0] = base
  BY <1>1, <1>8
<1>11. ASSUME NEW n \in 0..(N - 1) PROVE n \in 0..N /\ n + 1 \in 0..N /\ G[n + 1] = Turn(G[n])
  <2>1. n \in 0..N /\ n + 1 \in 0..N /\ n + 1 # 0 /\ (n + 1) - 1 = n
    BY <1>1
  <2>2. G[n + 1] = Table(G)[n + 1]
    BY <1>8
  <2> QED
    BY <2>1, <2>2
<1>12. \A n \in 0..N : G[n] \in DrainStates
  <2> DEFINE T == {n \in 0..N : G[n] \in DrainStates}
  <2>1. 0 \in T
    BY <1>1, <1>2, <1>10
  <2>2. ASSUME NEW n \in 0..(N - 1), n \in T PROVE n + 1 \in T
    BY <1>11, <2>2, TurnExact
  <2>3. 0..N \subseteq T
    <3> HIDE DEF T
    <3> QED
      BY <1>1, <2>1, <2>2, BoundedInduction
  <2> QED
    BY <2>3
<1>13. G \in [0..N -> DrainStates]
  <2>1. G = [n \in 0..N |-> G[n]]
    BY <1>8
  <2> QED
    BY <1>12, <2>1
<1> QED
  BY <1>9, <1>10, <1>11, <1>13 DEF N, base

(* Draining keeps the stream, and leaves no complete frame behind. *)
LEMMA DrainExact ==
    ASSUME NEW all \in Symbols
    PROVE  /\ Drain(all) \in DrainStates
           /\ ~Drain(all).bad =>
                /\ EncodeAll(Drain(all).msgs) \o Drain(all).buf = all
                /\ ~BadHeader(Drain(all).buf) /\ ~HasFrame(Drain(all).buf)
<1> DEFINE N == Len(all)
<1>1. N \in Nat
  BY DEF Symbols
<1>2. PICK g \in [0..N -> DrainStates] :
         /\ g[0] = [buf |-> all, msgs |-> <<>>, bad |-> FALSE]
         /\ \A n \in 0..(N - 1) : g[n + 1] = Turn(g[n])
         /\ Drain(all) = g[N]
  BY DrainTable
<1> DEFINE Kept(n) == ~g[n].bad =>
                        /\ EncodeAll(g[n].msgs) \o g[n].buf = all
                        /\ Turn(g[n]) = g[n] \/ Len(g[n].buf) + n <= N
           T == {n \in 0..N : Kept(n)}
<1>3. 0 \in T
  <2>1. g[0].msgs = <<>> /\ g[0].buf = all
    BY <1>2
  <2>2. EncodeAll(<<>>) \o all = all
    BY EncodeAllEmpty, CatEmpty, Zenon
  <2>3. Len(g[0].buf) + 0 <= N
    BY <1>1, <2>1
  <2>4. Kept(0)
    BY <2>1, <2>2, <2>3
  <2> HIDE DEF Kept
  <2> QED
    BY <1>1, <2>4
<1>4. ASSUME NEW n \in 0..(N - 1), n \in T PROVE n + 1 \in T
  <2> DEFINE s == g[n]
  <2>0. Kept(n) /\ n \in 0..N /\ n + 1 \in 0..N
    <3> HIDE DEF Kept
    <3> QED
      BY <1>1, <1>4
  <2>1. s \in DrainStates /\ g[n + 1] = Turn(s)
    BY <1>2, <2>0
  <2>2. SUFFICES ASSUME ~Turn(s).bad
                 PROVE  /\ EncodeAll(Turn(s).msgs) \o Turn(s).buf = all
                        /\ Turn(Turn(s)) = Turn(s) \/ Len(Turn(s).buf) + (n + 1) <= N
    <3>1. SUFFICES Kept(n + 1)
      <4> HIDE DEF Kept
      <4> QED
        BY <2>0
    <3> HIDE DEF s
    <3> QED
      BY <2>1
  <2> HIDE DEF s
  <2>3. /\ ~s.bad /\ EncodeAll(Turn(s).msgs) \o Turn(s).buf = EncodeAll(s.msgs) \o s.buf
        /\ Turn(s) = s \/ Len(Turn(s).buf) < Len(s.buf)
    BY <2>1, <2>2, TurnExact
  <2>4. EncodeAll(s.msgs) \o s.buf = all /\ (Turn(s) = s \/ Len(s.buf) + n <= N)
    BY <2>0, <2>3 DEF s
  <2>5. Turn(s) = s => Turn(Turn(s)) = Turn(s)
    OBVIOUS
  <2>6. ASSUME Turn(s) # s PROVE Len(Turn(s).buf) + (n + 1) <= N
    <3>1. Turn(s) \in DrainStates
      BY <2>1, TurnExact
    <3>2. Len(Turn(s).buf) \in Nat /\ Len(s.buf) \in Nat
      BY <2>1, <3>1 DEF DrainStates, Symbols
    <3>3. Len(Turn(s).buf) < Len(s.buf) /\ Len(s.buf) + n <= N
      BY <2>3, <2>4, <2>6
    <3>4. \A x, y, z, u \in Nat : x < y /\ y + z <= u => x + (z + 1) <= u
      OBVIOUS
    <3>5. n \in Nat
      OBVIOUS
    <3> QED
      BY <1>1, <3>2, <3>3, <3>4, <3>5, Zenon
  <2> QED
    BY <2>3, <2>4, <2>5, <2>6
<1>5. 0..N \subseteq T
  <2> HIDE DEF T, N
  <2> QED
    BY <1>1, <1>3, <1>4, BoundedInduction
<1>6. Kept(N) /\ g[N] \in DrainStates
  <2> HIDE DEF Kept
  <2> QED
    BY <1>1, <1>2, <1>5
<1> DEFINE d == g[N]
<1>7. ASSUME ~d.bad PROVE ~BadHeader(d.buf) /\ ~HasFrame(d.buf)
  <2>1. CASE Turn(d) = d
    BY <1>6, <1>7, <2>1, TurnStops
  <2>2. CASE Len(d.buf) + N <= N
    <3>1. Len(d.buf) \in Nat
      BY <1>6 DEF DrainStates, Symbols
    <3> HIDE DEF d
    <3>2. ~(Len(d.buf) >= 2)
      BY <1>1, <2>2, <3>1
    <3> QED
      BY <3>2 DEF BadHeader, HasFrame, HeaderLen
  <2> QED
    BY <1>6, <1>7, <2>1, <2>2
<1> QED
  BY <1>2, <1>6, <1>7

(* Decoder::push gives back exactly the stream it was given, or nothing. *)
LEMMA PushExact ==
    ASSUME NEW b \in Symbols, NEW x \in Symbols
    PROVE  /\ Push(b, x) \in DrainStates
           /\ Push(b, x).bad => Push(b, x).msgs = <<>> /\ Push(b, x).buf = <<>>
           /\ ~Push(b, x).bad => EncodeAll(Push(b, x).msgs) \o Push(b, x).buf = b \o x
<1>1. b \o x \in Symbols
  BY CatTyped
<1> DEFINE d == Drain(b \o x)
<1>2. d \in DrainStates /\ (~d.bad => EncodeAll(d.msgs) \o d.buf = b \o x)
  BY <1>1, DrainExact
<1> HIDE DEF d
<1>3. \/ Push(b, x) = [buf |-> <<>>, msgs |-> <<>>, bad |-> TRUE]
      \/ Push(b, x) = d /\ ~d.bad
  BY DEF Push, d
<1>4. CASE Push(b, x) = d /\ ~d.bad
  BY <1>2, <1>4
<1>5. CASE Push(b, x) = [buf |-> <<>>, msgs |-> <<>>, bad |-> TRUE]
  <2>1. <<>> \in Symbols /\ <<>> \in Seq(Decoded)
    BY CatEmpty
  <2> QED
    BY <1>5, <2>1 DEF DrainStates
<1> QED
  BY <1>3, <1>4, <1>5

-----------------------------------------------------------------------------
(* The token bucket.                                                        *)

Full == Burst * Second

\* The bucket's size and its rate are numbers.
LEMMA FullTyped == Full \in Nat /\ Second \in Nat \ {0} /\ PerSecond \in Nat
BY WireAssumption DEF WireAssumption, Full

(* What passes is paid for. *)
LEMMA AdmittedPaid ==
    ASSUME NEW k \in Nat, NEW t \in Nat
    PROVE  Admitted(k, t) \in 0..k /\ Admitted(k, t) * Second \in 0..t
<1>1. Second \in Nat \ {0}
  BY FullTyped
<1>2. CASE k * Second <= t
  BY <1>1, <1>2 DEF Admitted
<1>3. CASE ~(k * Second <= t)
  <2> DEFINE q == t \div Second
  <2>1. q \in Nat /\ q * Second <= t /\ q * Second \in Nat /\ k * Second \in Nat
    BY <1>1
  <2>2. Admitted(k, t) = q
    BY <1>3 DEF Admitted
  <2> HIDE DEF q
  <2>3. q * Second < k * Second
    BY <1>3, <2>1
  <2>4. q <= k
    <3>1. SUFFICES ASSUME q > k PROVE FALSE
      BY <2>1
    <3>2. k * Second <= q * Second
      BY <1>1, <2>1, <3>1
    <3> QED
      BY <2>1, <2>3, <3>2
  <2> QED
    BY <2>1, <2>2, <2>4
<1> QED
  BY <1>2, <1>3

(* Idle time refills the bucket at the rate, and never over the burst. *)
LEMMA RefilledAtRate ==
    ASSUME NEW t \in 0..Full, NEW e \in Nat
    PROVE  /\ Refilled(t, e) \in 0..Full /\ Refilled(t, 0) = t
           /\ Refilled(t, e + 1) \in 0..Full /\ Refilled(t, e + 1) <= Refilled(t, e) + PerSecond
<1> DEFINE R(x) == IF t + x < Full THEN t + x ELSE Full
<1>1. Full \in Nat /\ PerSecond \in Nat
  BY FullTyped
<1>2. /\ e * PerSecond \in Nat /\ (e + 1) * PerSecond = e * PerSecond + PerSecond
      /\ 0 * PerSecond = 0
  BY <1>1
<1>3. /\ Refilled(t, e) = R(e * PerSecond) /\ Refilled(t, 0) = R(0)
      /\ Refilled(t, e + 1) = R(e * PerSecond + PerSecond)
  BY <1>2 DEF Refilled, Full
<1>4. ASSUME NEW x \in Nat
      PROVE  /\ R(x) \in 0..Full /\ R(0) = t /\ R(x + PerSecond) \in 0..Full
             /\ R(x + PerSecond) <= R(x) + PerSecond
  BY <1>1
<1> HIDE DEF R
<1>5. /\ R(e * PerSecond) \in 0..Full /\ R(0) = t /\ R(e * PerSecond + PerSecond) \in 0..Full
      /\ R(e * PerSecond + PerSecond) <= R(e * PerSecond) + PerSecond
  BY <1>2, <1>4, Zenon
<1> QED
  BY <1>3, <1>5, Zenon

(* A window's admissions and what is in the bucket now came out of the      *)
(* burst at its start and the refill since.                                 *)
Account == window.admitted * Second + Refilled(tokens, now - last)
              <= Full + PerSecond * (now - window.start)

BucketInv == TypeOK /\ Account

(* What one call of service_client does to the bucket. *)
LEMMA BucketStep ==
    ASSUME TypeOK, NEW k \in Nat
    PROVE  LET t == Refilled(tokens, now - last)
               ok == Admitted(k, t)
           IN  /\ now - last \in Nat /\ tokens \in 0..Full
               /\ t \in 0..Full /\ ok \in 0..k /\ ok * Second \in 0..t
               /\ t - ok * Second \in 0..Full
<1> DEFINE t == Refilled(tokens, now - last)
           ok == Admitted(k, t)
<1>1. now - last \in Nat /\ tokens \in 0..Full
  BY DEF TypeOK, Full
<1>2. t \in 0..Full
  BY <1>1, RefilledAtRate
<1> HIDE DEF t
<1>3. t \in Nat
  BY <1>2, FullTyped
<1>4. ok \in 0..k /\ ok * Second \in 0..t
  BY <1>3, AdmittedPaid
<1> HIDE DEF ok
<1>5. t - ok * Second \in 0..Full
  <2> DEFINE c == ok * Second
  <2> HIDE DEF c
  <2>1. \A f \in Nat : \A u \in 0..f : \A v \in 0..u : u - v \in 0..f
    OBVIOUS
  <2> QED
    BY <1>2, <1>4, <2>1, FullTyped, Zenon
<1> QED
  BY <1>1, <1>2, <1>4, <1>5 DEF t, ok

(* The bucket's type and its account are invariant. *)
LEMMA BucketInitially == Init => BucketInv
<1> SUFFICES ASSUME Init PROVE BucketInv
  OBVIOUS
<1>1. /\ now = 0 /\ last = 0 /\ tokens = Full /\ window = [start |-> 0, admitted |-> 0]
  BY DEF Init, Full
<1>2. Full \in Nat /\ Full \in 0..Full /\ Second \in Nat /\ PerSecond \in Nat
  BY FullTyped
<1>3. TypeOK
  BY <1>1, <1>2 DEF TypeOK, Full
<1>4. Refilled(tokens, now - last) = Full
  BY <1>1, <1>2, RefilledAtRate
<1>5. window.admitted = 0 /\ window.start = 0
  BY <1>1
<1>6. Account
  BY <1>1, <1>2, <1>4, <1>5 DEF Account
<1> QED
  BY <1>3, <1>6 DEF BucketInv

\* Time passing keeps the bucket's account.
LEMMA TickKeepsAccount ==
    ASSUME BucketInv, Tick PROVE BucketInv'
<1>1. /\ now' = now + 1 /\ UNCHANGED <<last, tokens, window>>
      /\ now \in Nat /\ last \in 0..now /\ tokens \in 0..Full /\ now - last \in Nat
      /\ window \in [start : 0..now, admitted : Nat]
      /\ window.start \in 0..now /\ window.admitted \in Nat
  BY DEF BucketInv, TypeOK, Tick, Full
<1>2. TypeOK'
  <2>1. window \in [start : 0..(now + 1), admitted : Nat]
    BY <1>1
  <2> QED
    BY <1>1, <2>1 DEF TypeOK, Full
<1>3. now' - last' = (now - last) + 1
  BY <1>1
<1> DEFINE a == window.admitted * Second
           r == Refilled(tokens, now - last)
           q == Refilled(tokens, (now - last) + 1)
           c == PerSecond * (now - window.start)
<1>4. r \in 0..Full /\ q \in 0..Full /\ q <= r + PerSecond
  BY <1>1, RefilledAtRate
<1>5. a \in Nat /\ c \in Nat /\ PerSecond \in Nat /\ Full \in Nat
  BY <1>1, FullTyped
<1>6. a + r <= Full + c
  BY DEF BucketInv, Account
<1>7. PerSecond * (now' - window'.start) = c + PerSecond
  <2>1. now' - window'.start = (now - window.start) + 1 /\ now - window.start \in Nat
    BY <1>1
  <2>2. \A x \in Nat : PerSecond * (x + 1) = PerSecond * x + PerSecond
    BY FullTyped
  <2> QED
    BY <2>1, <2>2
<1>8. Account' <=> a + q <= Full + (c + PerSecond)
  <2>1. Account' <=> window'.admitted * Second + Refilled(tokens', now' - last')
                       <= Full + PerSecond * (now' - window'.start)
    BY DEF Account, Refilled, Full
  <2> QED
    BY <1>1, <1>3, <1>7, <2>1
<1> HIDE DEF a, r, q, c
<1>9. Account'
  BY <1>4, <1>5, <1>6, <1>8
<1> QED
  BY <1>2, <1>9 DEF BucketInv

\* Starting to count at any instant keeps the bucket's account.
LEMMA WindowKeepsAccount ==
    ASSUME BucketInv, OpenWindow PROVE BucketInv'
<1>1. /\ window' = [start |-> now, admitted |-> 0] /\ UNCHANGED <<now, last, tokens>>
      /\ now \in Nat /\ tokens \in 0..Full /\ now - last \in Nat
  BY DEF BucketInv, TypeOK, OpenWindow, Full
<1>2. TypeOK'
  BY <1>1 DEF TypeOK, BucketInv
<1>3. Refilled(tokens, now - last) \in 0..Full
  BY <1>1, RefilledAtRate
<1>4. Account' <=> 0 * Second + Refilled(tokens, now - last) <= Full + PerSecond * (now - now)
  BY <1>1 DEF Account, Refilled, Full
<1>5. 0 * Second = 0 /\ PerSecond * (now - now) = 0 /\ Full \in Nat
  BY <1>1, FullTyped
<1> QED
  BY <1>2, <1>3, <1>4, <1>5 DEF BucketInv

(* Admissions are paid out of the bucket. *)
LEMMA ServiceKeepsAccount ==
    ASSUME BucketInv, NEW n \in Nat, Service(n),
           Push(buf, SubSeq(pipe, 1, n)).msgs \in Seq(Decoded)
    PROVE  BucketInv'
<1> DEFINE ms == Push(buf, SubSeq(pipe, 1, n)).msgs
           k == Len(ms)
           t == Refilled(tokens, now - last)
           ok == Admitted(k, t)
           paid == ok * Second
<1>1. /\ IF ms = <<>> THEN UNCHANGED <<last, tokens>>
         ELSE last' = now /\ tokens' = t - paid
      /\ window' = [window EXCEPT !.admitted = @ + ok] /\ UNCHANGED now
  BY DEF Service
<1>2. k \in Nat /\ (ms = <<>> => k = 0)
  OBVIOUS
<1> HIDE DEF ms, k
<1>3. /\ now - last \in Nat /\ tokens \in 0..Full /\ t \in 0..Full
      /\ ok \in 0..k /\ paid \in 0..t /\ t - paid \in 0..Full
  BY <1>2, BucketStep DEF BucketInv
<1>4. /\ now \in Nat /\ last \in 0..now /\ window \in [start : 0..now, admitted : Nat]
      /\ window.start \in 0..now /\ window.admitted \in Nat
  BY DEF BucketInv, TypeOK
<1>5. Full \in Nat /\ Second \in Nat /\ PerSecond \in Nat
  BY FullTyped
<1>6. Account' <=> window'.admitted * Second + Refilled(tokens', now' - last')
                     <= Full + PerSecond * (now' - window'.start)
  BY DEF Account, Refilled, Full
<1>7. window.admitted * Second + t <= Full + PerSecond * (now - window.start)
  BY DEF BucketInv, Account
<1>8. /\ window' \in [start : 0..now, admitted : Nat]
      /\ window'.admitted = window.admitted + ok /\ window'.start = window.start
  BY SMTT(30), <1>1, <1>2, <1>3, <1>4
<1>9. (window.admitted + ok) * Second = window.admitted * Second + paid
  BY <1>2, <1>3, <1>4, <1>5
<1> HIDE DEF t, ok, paid
<1>10. TypeOK'
  BY <1>1, <1>3, <1>4, <1>8 DEF TypeOK, Full
<1>11. CASE ms = <<>>
  <2>1. paid = 0 /\ Refilled(tokens', now' - last') = t
    BY <1>1, <1>2, <1>3, <1>5, <1>11 DEF t, paid
  <2>2. window.admitted * Second \in Nat
    BY <1>4, <1>5
  <2>3. Account'
    BY <1>1, <1>6, <1>7, <1>8, <1>9, <2>1, <2>2
  <2> QED
    BY <1>10, <2>3 DEF BucketInv
<1>12. CASE ms # <<>>
  <2>1. now' - last' = 0 /\ tokens' = t - paid
    BY <1>1, <1>4, <1>12
  <2>2. Refilled(tokens', now' - last') = t - paid
    BY <1>3, <2>1, RefilledAtRate
  <2> DEFINE a == window.admitted * Second
             c == PerSecond * (now - window.start)
  <2>3. a \in Nat /\ c \in Nat /\ a + t <= Full + c
    BY <1>4, <1>5, <1>7
  <2>4. Account' <=> (a + paid) + (t - paid) <= Full + c
    BY <1>1, <1>6, <1>8, <1>9, <2>2
  <2> HIDE DEF a, c
  <2>5. (a + paid) + (t - paid) = a + t
    BY <1>3, <1>5, <2>3
  <2> QED
    BY <1>10, <2>3, <2>4, <2>5 DEF BucketInv
<1> QED
  BY <1>11, <1>12

-----------------------------------------------------------------------------
(* The stream.                                                              *)

\* What the client may send is among what the decoder can return.
LEMMA MessagesDecoded == Messages \subseteq Decoded
<1> SUFFICES ASSUME NEW m \in Messages PROVE m \in Decoded
  OBVIOUS
<1>1. Codes \subseteq Nat /\ ErrorCodes \subseteq Nat
  BY WireAssumption DEF WireAssumption
<1>2. \A c \in Nat : <<c>> \in Seq(Nat)
  OBVIOUS
<1>3. <<>> \in Seq(Nat)
  OBVIOUS
<1>4. ASSUME NEW s \in Seq(Codes) PROVE s \in Seq(Nat)
  BY <1>1, SeqMonotonic
<1>5. Bare \subseteq Nat /\ OneArg \subseteq Nat /\ OpHello \in Nat /\ OpError \in Nat
  BY DEF OpHello, OpOpen, OpDown, OpUp, OpRepeat, OpReleaseAll, OpPing, OpPong, OpOk, OpError,
         Bare, OneArg
<1> DEFINE One(C) == {<<c>> : c \in C}
<1>6. One(Codes) \subseteq Seq(Nat) /\ One(ErrorCodes) \subseteq Seq(Nat)
  BY <1>1, <1>2
<1>7. \E O, A, T : /\ O \subseteq Nat /\ A \subseteq Seq(Nat) /\ T \subseteq Seq(Nat)
                   /\ m \in [op : O, args : A, text : T]
  <2> HIDE DEF One
  <2>1. \/ m \in [op : Bare, args : {<<>>}, text : {<<>>}]
        \/ m \in [op : OneArg, args : One(Codes), text : {<<>>}]
        \/ m \in [op : {OpHello}, args : One(Codes), text : Seq(Codes)]
        \/ m \in [op : {OpError}, args : One(ErrorCodes), text : Seq(Codes)]
    BY DEF Messages, One
  <2>2. {<<>>} \subseteq Seq(Nat) /\ Seq(Codes) \subseteq Seq(Nat)
    BY <1>3, <1>4
  <2>3. {OpHello} \subseteq Nat /\ {OpError} \subseteq Nat
    BY <1>5
  <2> QED
    BY <1>5, <1>6, <2>1, <2>2, <2>3, Zenon
<1>8. PICK O, A, T : /\ O \subseteq Nat /\ A \subseteq Seq(Nat) /\ T \subseteq Seq(Nat)
                     /\ m \in [op : O, args : A, text : T]
  BY <1>7
<1> QED
  BY <1>8 DEF Decoded

(* Everything on the wire is a sequence of symbols. *)
StreamTyped ==
    /\ pipe \in Symbols /\ received \in Symbols /\ buf \in Symbols
    /\ delivered \in Seq(Decoded)

StreamInv == BucketInv /\ StreamTyped /\ DecodesExactly

(* What one call of service_client takes off the socket and makes of it. *)
LEMMA ServiceReads ==
    ASSUME StreamTyped, NEW n \in 1..MaxRead, Service(n)
    PROVE  LET x == SubSeq(pipe, 1, n)
               d == Push(buf, x)
           IN  /\ x \in Symbols /\ SubSeq(pipe, n + 1, Len(pipe)) \in Symbols
               /\ x \o SubSeq(pipe, n + 1, Len(pipe)) = pipe
               /\ d \in DrainStates /\ d.msgs \in Seq(Decoded) /\ d.buf \in Symbols
               /\ d.bad => d.msgs = <<>> /\ d.buf = <<>>
               /\ ~d.bad => EncodeAll(d.msgs) \o d.buf = buf \o x
<1> DEFINE x == SubSeq(pipe, 1, n)
<1>1. pipe \in Seq(Nat) /\ buf \in Symbols /\ n \in 0..Len(pipe)
  <2>1. n <= Len(pipe) /\ pipe \in Seq(Nat)
    BY DEF Service, StreamTyped, Symbols
  <2> QED
    BY <2>1 DEF StreamTyped
<1>2. /\ x \in Symbols /\ SubSeq(pipe, n + 1, Len(pipe)) \in Symbols
      /\ x \o SubSeq(pipe, n + 1, Len(pipe)) = pipe
  BY <1>1, Cut DEF Symbols
<1> HIDE DEF x
<1>3. /\ Push(buf, x) \in DrainStates
      /\ Push(buf, x).bad => Push(buf, x).msgs = <<>> /\ Push(buf, x).buf = <<>>
      /\ ~Push(buf, x).bad => EncodeAll(Push(buf, x).msgs) \o Push(buf, x).buf = buf \o x
  BY <1>1, <1>2, PushExact
<1>4. Push(buf, x).msgs \in Seq(Decoded) /\ Push(buf, x).buf \in Symbols
  BY <1>3 DEF DrainStates
<1> QED
  BY <1>2, <1>3, <1>4 DEF x

(* A prefix of a concatenation. *)
LEMMA CatPrefix ==
    ASSUME NEW S, NEW a \in Seq(S), NEW b \in Seq(S)
    PROVE  a = SubSeq(a \o b, 1, Len(a)) /\ Len(a) <= Len(a \o b)
<1>1. /\ Len(a) \in Nat /\ Len(b) \in Nat /\ a \o b \in Seq(S) /\ Len(a \o b) = Len(a) + Len(b)
      /\ \A i \in 1..(Len(a) + Len(b)) : (a \o b)[i] = IF i <= Len(a) THEN a[i] ELSE b[i - Len(a)]
  BY ConcatProperties, LenProperties
<1>2. Len(a) <= Len(a \o b) /\ Len(a) \in 0..Len(a \o b)
  BY <1>1
<1> DEFINE s == SubSeq(a \o b, 1, Len(a))
<1>3. s \in Seq(S) /\ Len(s) = Len(a)
  BY <1>1, <1>2, Cut
<1>4. ASSUME NEW i \in 1..Len(a) PROVE a[i] = s[i]
  <2>1. i \in 1..(Len(a) + Len(b)) /\ i \in 1..(Len(a) - 1 + 1) /\ 1 + i - 1 = i
    BY <1>1
  <2>2. \A j \in 1..Len(a) : (a \o b)[j] \in S
    BY <1>1, <1>2
  <2>3. s[i] = (a \o b)[1 + i - 1]
    BY <1>1, <2>1, <2>2, SubSeqProperties
  <2> QED
    BY <1>1, <2>1, <2>3
<1> HIDE DEF s
<1>5. a = s
  BY <1>3, <1>4, SeqEqual
<1> QED
  BY <1>2, <1>5 DEF s

(* Any state whose received bytes start with what was delivered is one      *)
(* DecodesExactly accepts once the connection is over.                      *)
LEMMA ClosedExact ==
    ASSUME NEW bytes \in Symbols, NEW rest \in Symbols, NEW all, all = bytes \o rest
    PROVE  bytes = SubSeq(all, 1, Len(bytes)) /\ Len(bytes) <= Len(all)
BY CatPrefix DEF Symbols

\* One read, with everything it decodes and admits, keeps the account.
LEMMA ServiceExact ==
    ASSUME BucketInv, StreamTyped, DecodesExactly, NEW n \in 1..MaxRead, Service(n)
    PROVE  BucketInv' /\ StreamTyped' /\ DecodesExactly'
<1> DEFINE x == SubSeq(pipe, 1, n)
           d == Push(buf, x)
           ok == Admitted(Len(d.msgs), Refilled(tokens, now - last))
           B == EncodeAll(delivered)
<1>1. /\ x \in Symbols /\ SubSeq(pipe, n + 1, Len(pipe)) \in Symbols
      /\ d \in DrainStates /\ d.msgs \in Seq(Decoded) /\ d.buf \in Symbols
      /\ d.bad => d.msgs = <<>> /\ d.buf = <<>>
      /\ ~d.bad => EncodeAll(d.msgs) \o d.buf = buf \o x
  BY ServiceReads
<1>2. Len(d.msgs) \in Nat
  BY <1>1
<1>3. ok \in 0..Len(d.msgs)
  BY <1>2, BucketStep DEF BucketInv
<1>4. BucketInv'
  BY <1>1, ServiceKeepsAccount
<1>5. /\ conn = "open"
      /\ pipe' = SubSeq(pipe, n + 1, Len(pipe)) /\ received' = received \o x /\ buf' = d.buf
      /\ delivered' = delivered \o SubSeq(d.msgs, 1, ok)
      /\ conn' = IF d.bad THEN "malformed" ELSE IF ok < Len(d.msgs) THEN "limited" ELSE "open"
  BY DEF Service
<1>6. /\ pipe \in Symbols /\ received \in Symbols /\ buf \in Symbols /\ delivered \in Seq(Decoded)
      /\ B \in Symbols /\ B \o buf = received
  BY <1>5, EncodeAllTyped DEF StreamTyped, DecodesExactly
<1> DEFINE first == SubSeq(d.msgs, 1, ok)
           later == SubSeq(d.msgs, ok + 1, Len(d.msgs))
<1>7. /\ first \in Seq(Decoded) /\ later \in Seq(Decoded) /\ first \o later = d.msgs
      /\ Len(first) = ok /\ Len(later) = Len(d.msgs) - ok
  <2> DEFINE ms == d.msgs
  <2>1. ms \in Seq(Decoded) /\ ok \in 0..Len(ms)
    BY <1>1, <1>3
  <2> HIDE DEF ms, d, ok
  <2>2. /\ SubSeq(ms, 1, ok) \in Seq(Decoded) /\ SubSeq(ms, ok + 1, Len(ms)) \in Seq(Decoded)
        /\ SubSeq(ms, 1, ok) \o SubSeq(ms, ok + 1, Len(ms)) = ms
        /\ Len(SubSeq(ms, 1, ok)) = ok /\ Len(SubSeq(ms, ok + 1, Len(ms))) = Len(ms) - ok
    BY <2>1, Cut
  <2> QED
    BY <2>2 DEF ms
<1> HIDE DEF x, d, ok, B, first, later
<1>8. delivered' = delivered \o first /\ delivered' \in Seq(Decoded)
  BY <1>5, <1>6, <1>7, ConcatProperties DEF first
<1>9. received' = B \o (buf \o x) /\ received' \in Symbols
  <2>1. received' = (B \o buf) \o x
    BY <1>5, <1>6
  <2>2. (B \o buf) \o x = B \o (buf \o x)
    BY <1>1, <1>6, CatAssoc, ZenonT(30)
  <2>3. received \o x \in Symbols
    BY <1>1, <1>6, CatTyped, Zenon
  <2> QED
    BY <1>5, <2>1, <2>2, <2>3
<1>10. StreamTyped'
  BY <1>1, <1>5, <1>8, <1>9 DEF StreamTyped
<1> DEFINE F == EncodeAll(first)
           L == EncodeAll(later)
<1>11. F \in Symbols /\ L \in Symbols
  BY <1>7, EncodeAllTyped
<1>12. EncodeAll(delivered') = B \o F
  BY <1>6, <1>7, <1>8, EncodeAllConcat DEF B
<1>13. EncodeAll(d.msgs) = F \o L
  BY <1>7, EncodeAllConcat
<1> HIDE DEF F, L
<1>14. B \o F \in Symbols
  BY <1>6, <1>11, CatTyped, Zenon
<1>15. CASE d.bad
  <2>1. first = <<>>
    BY <1>1, <1>2, <1>3, <1>7, <1>15
  <2>2. B \o F = B
    BY <1>6, <2>1, EncodeAllEmpty, CatEmpty, Zenon DEF F
  <2>3. buf \o x \in Symbols
    BY <1>1, <1>6, CatTyped, Zenon
  <2>4. B = SubSeq(received', 1, Len(B)) /\ Len(B) <= Len(received')
    BY <1>6, <1>9, <2>3, ClosedExact
  <2>5. conn' = "malformed" /\ EncodeAll(delivered') = B
    BY <1>5, <1>12, <1>15, <2>2
  <2> QED
    BY <1>4, <1>10, <2>4, <2>5 DEF DecodesExactly, EncodeAll, Encode, EncodePayload
<1>16. CASE ~d.bad
  <2>1. L \o d.buf \in Symbols
    BY <1>1, <1>11, CatTyped, Zenon
  <2>2. (F \o L) \o d.buf = F \o (L \o d.buf)
    BY <1>1, <1>11, CatAssoc, Zenon
  <2>3. B \o (F \o (L \o d.buf)) = (B \o F) \o (L \o d.buf)
    BY <1>6, <1>11, <2>1, CatAssoc, ZenonT(40)
  <2>4. received' = (B \o F) \o (L \o d.buf)
    BY <1>1, <1>9, <1>13, <1>16, <2>2, <2>3
  <2>5. CASE ok < Len(d.msgs)
    <3>1. conn' = "limited"
      BY <1>5, <1>16, <2>5
    <3> DEFINE P == B \o F
    <3>2. P \in Symbols /\ EncodeAll(delivered') = P /\ received' = P \o (L \o d.buf)
      BY <1>12, <1>14, <2>4
    <3> HIDE DEF P
    <3>3. P = SubSeq(received', 1, Len(P)) /\ Len(P) <= Len(received')
      BY <2>1, <3>2, ClosedExact
    <3> QED
      BY <1>4, <1>10, <3>1, <3>2, <3>3 DEF DecodesExactly, EncodeAll, Encode, EncodePayload
  <2>6. CASE ~(ok < Len(d.msgs))
    <3>1. conn' = "open"
      BY <1>5, <1>16, <2>6
    <3>2. Len(later) = 0
      BY <1>2, <1>3, <1>7, <2>6
    <3>3. later = <<>>
      BY <1>7, <3>2, EmptySeq
    <3>4. L \o d.buf = d.buf
      BY <1>1, <3>3, EncodeAllEmpty, CatEmpty, Zenon DEF L
    <3>5. EncodeAll(delivered') \o buf' = received'
      BY <1>5, <1>12, <2>4, <3>4
    <3> QED
      BY <1>4, <1>10, <3>1, <3>5 DEF DecodesExactly, EncodeAll, Encode, EncodePayload
  <2> QED
    BY <2>5, <2>6
<1> QED
  BY <1>15, <1>16

\* The invariant about the stream holds throughout.
LEMMA StreamInvariant == Spec => []StreamInv
<1>1. Init => StreamInv
  <2> SUFFICES ASSUME Init PROVE StreamInv
    OBVIOUS
  <2>1. /\ pipe = <<>> /\ received = <<>> /\ buf = <<>> /\ delivered = <<>> /\ conn = "open"
    BY DEF Init
  <2>2. StreamTyped
    BY <2>1, CatEmpty DEF StreamTyped
  <2>3. EncodeAll(delivered) \o buf = received
    BY <2>1, EncodeAllEmpty, CatEmpty, Zenon
  <2> QED
    BY <2>1, <2>2, <2>3, BucketInitially DEF StreamInv, DecodesExactly
<1>2. StreamInv /\ [Next]_vars => StreamInv'
  <2> SUFFICES ASSUME StreamInv, [Next]_vars PROVE StreamInv'
    OBVIOUS
  <2>0. BucketInv /\ StreamTyped /\ DecodesExactly
    BY DEF StreamInv
  <2>1. ASSUME NEW m \in Outbox, Send(m) PROVE StreamInv'
    <3>1. UNCHANGED <<received, buf, delivered, conn, now, last, tokens, window>>
      BY <2>1 DEF Send
    <3>2. m \in Decoded
      BY MessagesDecoded, WireAssumption DEF WireAssumption
    <3>3. Encode(m) \in Symbols
      BY <3>2, EncodeTyped
    <3>4. pipe' \in Symbols
      <4>1. CASE pipe' = pipe \o Encode(m)
        BY <2>0, <3>3, <4>1, CatTyped DEF StreamTyped
      <4>2. ASSUME NEW n \in 0..(Len(Encode(m)) - 1), pipe' = pipe \o SubSeq(Encode(m), 1, n)
            PROVE  pipe' \in Symbols
        <5> DEFINE e == Encode(m)
        <5> HIDE DEF e
        <5>1. e \in Seq(Nat) /\ n \in 0..(Len(e) - 1)
          BY <3>3 DEF e, Symbols
        <5>2. n \in 0..Len(e)
          BY <5>1
        <5>3. SubSeq(e, 1, n) \in Symbols
          BY <5>1, <5>2, Cut DEF Symbols
        <5> QED
          BY <2>0, <4>2, <5>3, CatTyped DEF StreamTyped, e
      <4> QED
        BY <2>1, <4>1, <4>2 DEF Send
    <3> QED
      BY <2>0, <3>1, <3>4 DEF StreamInv, StreamTyped, BucketInv, TypeOK, Account, Refilled, DecodesExactly
  <2>2. ASSUME NEW b \in Noise, Write(b) PROVE StreamInv'
    <3>1. UNCHANGED <<received, buf, delivered, conn, now, last, tokens, window>> /\ pipe' = Append(pipe, b)
      BY <2>2 DEF Write
    <3>2. pipe' \in Symbols
      <4>1. b \in Nat /\ pipe \in Seq(Nat)
        BY <2>0, WireAssumption DEF WireAssumption, StreamTyped, Symbols
      <4> QED
        BY <3>1, <4>1, AppendProperties DEF Symbols
    <3> QED
      BY <2>0, <3>1, <3>2 DEF StreamInv, StreamTyped, BucketInv, TypeOK, Account, Refilled, DecodesExactly
  <2>3. CASE Drop
    BY <2>0, <2>3 DEF Drop, StreamInv, StreamTyped, BucketInv, TypeOK, Account, Refilled, DecodesExactly
  <2>4. ASSUME NEW n \in 1..MaxRead, Service(n) PROVE StreamInv'
    BY <2>0, <2>4, ServiceExact DEF StreamInv
  <2>5. CASE Eof
    BY <2>0, <2>5 DEF Eof, StreamInv, StreamTyped, BucketInv, TypeOK, Account, Refilled, DecodesExactly
  <2>6. CASE Tick
    <3>1. BucketInv'
      BY <2>0, <2>6, TickKeepsAccount
    <3> QED
      BY <2>0, <2>6, <3>1 DEF Tick, StreamInv, StreamTyped, DecodesExactly
  <2>7. CASE OpenWindow
    <3>1. BucketInv'
      BY <2>0, <2>7, WindowKeepsAccount
    <3> QED
      BY <2>0, <2>7, <3>1 DEF OpenWindow, StreamInv, StreamTyped, DecodesExactly
  <2>8. CASE UNCHANGED vars
    BY <2>0, <2>8 DEF vars, StreamInv, StreamTyped, BucketInv, TypeOK, Account, Refilled, DecodesExactly
  <2> QED
    BY <2>1, <2>2, <2>3, <2>4, <2>5, <2>6, <2>7, <2>8 DEF Next
<1> QED
  BY <1>1, <1>2, PTL DEF Spec

(* THEOREM: the bucket never holds more than the burst and its clock never  *)
(* runs ahead, whatever the peer sends.                                     *)
THEOREM BucketTyped == Spec => []TypeOK
<1>1. StreamInv => TypeOK
  BY DEF StreamInv, BucketInv
<1> QED
  BY <1>1, StreamInvariant, PTL

(* THEOREM: TokenBucket::allow admits, in any window of time, at most the   *)
(* burst plus what the rate refills in it: for every burst and rate, and    *)
(* however the messages are batched.                                        *)
THEOREM RateLimited == Spec => []WindowBound
<1>1. StreamInv => WindowBound
  <2> SUFFICES ASSUME StreamInv PROVE WindowBound
    OBVIOUS
  <2>1. /\ now - last \in Nat /\ tokens \in 0..Full /\ Account
        /\ window.admitted \in Nat /\ window.start \in 0..now /\ now \in Nat
    BY DEF StreamInv, BucketInv, TypeOK, Full
  <2>2. Refilled(tokens, now - last) \in 0..Full
    BY <2>1, RefilledAtRate
  <2> DEFINE a == window.admitted * Second
             c == PerSecond * (now - window.start)
             r == Refilled(tokens, now - last)
  <2>3. a \in Nat /\ c \in Nat /\ Full \in Nat /\ a + r <= Full + c
    BY <2>1, FullTyped DEF Account
  <2> HIDE DEF a, c, r
  <2>4. a <= Full + c
    BY <2>2, <2>3 DEF r
  <2> QED
    BY <2>4 DEF WindowBound, a, c, Full
<1> QED
  BY <1>1, StreamInvariant, PTL

(* THEOREM: Decoder::push loses, invents and reorders nothing, wherever the *)
(* socket cuts the stream, whatever the peer writes, and for every limit on *)
(* frames and strings.                                                      *)
THEOREM DecoderExact == Spec => []DecodesExactly
<1>1. StreamInv => DecodesExactly
  BY DEF StreamInv
<1> QED
  BY <1>1, StreamInvariant, PTL

-----------------------------------------------------------------------------
(* An honest client.                                                        *)

(* What Client::send puts on the wire: push_string refuses the rest. *)
Sendable == {m \in Messages : Encodable(m)}

(* What is sent decodes to itself, and fits a frame. *)
LEMMA EncodeDecode ==
    ASSUME NEW m \in Sendable
    PROVE  DecodePayload(EncodePayload(m)) = {m} /\ Len(EncodePayload(m)) <= MaxFrameLen
<1> USE DEF OpHello, OpOpen, OpDown, OpUp, OpRepeat, OpReleaseAll, OpPing, OpPong, OpOk, OpError,
            Bare, OneArg, WithText
<1>1. /\ MaxFrameLen \in Nat /\ MaxStringLen \in Nat /\ MaxStringLen + 3 <= MaxFrameLen
      /\ Codes \subseteq Nat /\ ErrorCodes \subseteq Nat /\ Codes \cap NotUtf8 = {}
  BY WireAssumption DEF WireAssumption
<1>2. m \in Messages /\ Len(m.text) <= MaxStringLen
  BY DEF Sendable, Encodable
<1>3. CASE m \in [op : Bare, args : {<<>>}, text : {<<>>}]
  <2>1. m = Msg(m.op, <<>>, <<>>) /\ m.op \in Bare
    BY <1>3 DEF Msg
  <2>2. EncodePayload(m) = <<m.op>>
    <3>1. m.args = <<>> /\ m.op \notin WithText
      BY <1>3
    <3>2. EncodePayload(m) = (<<m.op>> \o <<>>) \o <<>>
      BY <3>1 DEF EncodePayload
    <3>3. <<m.op>> \in Seq(Nat)
      BY <1>3
    <3> QED
      BY <3>2, <3>3, ConcatEmptySeq
  <2>3. DecodePayload(<<m.op>>) = {Msg(m.op, <<>>, <<>>)}
    BY <2>1 DEF DecodePayload
  <2> QED
    BY <1>1, <2>1, <2>2, <2>3
<1>4. CASE m \in [op : OneArg, args : {<<c>> : c \in Codes}, text : {<<>>}]
  <2>1. PICK c \in Codes : m.args = <<c>>
    BY <1>4
  <2>2. m = Msg(m.op, <<c>>, <<>>) /\ m.op \in OneArg
    BY <1>4, <2>1 DEF Msg
  <2>3. EncodePayload(m) = <<m.op, c>>
    <3>1. EncodePayload(m) = (<<m.op>> \o <<c>>) \o <<>>
      BY <2>1, <2>2 DEF EncodePayload
    <3>2. <<m.op>> \o <<c>> = <<m.op, c>> /\ <<m.op, c>> \in Seq(Nat)
      <4>1. m.op \in Nat /\ c \in Nat
        BY <1>1, <1>4
      <4> QED
        BY <4>1, CatPair, Zenon
    <3> QED
      BY <3>1, <3>2, ConcatEmptySeq
  <2>4. DecodePayload(<<m.op, c>>) = {Msg(m.op, <<c>>, <<>>)}
    BY <2>2 DEF DecodePayload
  <2> QED
    BY <1>1, <2>2, <2>3, <2>4
<1>5. CASE \/ m \in [op : {OpHello}, args : {<<c>> : c \in Codes}, text : Seq(Codes)]
           \/ m \in [op : {OpError}, args : {<<c>> : c \in ErrorCodes}, text : Seq(Codes)]
  <2>1. PICK c \in Nat : m.args = <<c>> /\ (m.op = OpError => c \in ErrorCodes)
    BY <1>1, <1>5
  <2>2. m = Msg(m.op, <<c>>, m.text) /\ m.op \in WithText /\ m.op \in Nat /\ m.text \in Seq(Codes)
    BY <1>5, <2>1 DEF Msg
  <2> DEFINE t == m.text
             p == <<m.op, c, Len(t)>> \o t
  <2>3. /\ t \in Seq(Nat) /\ Len(t) \in Nat
        /\ \A i \in 1..Len(t) : t[i] \notin NotUtf8
    <3>1. t \in Seq(Codes)
      BY <2>2
    <3> HIDE DEF t
    <3>2. t \in Seq(Nat)
      BY <1>1, <3>1, SeqMonotonic
    <3>3. \A i \in 1..Len(t) : t[i] \in Codes
      BY <3>1
    <3> QED
      BY <1>1, <3>2, <3>3
  <2> HIDE DEF t
  <2>4. EncodePayload(m) = p
    <3>1. EncodePayload(m) = (<<m.op>> \o <<c>>) \o (<<Len(t)>> \o t)
      BY <2>1, <2>2 DEF EncodePayload, t
    <3> QED
      BY <2>2, <2>3, <3>1
  <2>5. /\ p \in Seq(Nat) /\ Len(p) = 3 + Len(t) /\ p[1] = m.op /\ p[2] = c /\ p[3] = Len(t)
        /\ \A i \in 1..Len(t) : p[i + 3] = t[i]
    BY <2>2, <2>3, SMTT(40)
  <2> HIDE DEF p
  <2>6. SubSeq(p, 4, Len(p)) = t
    BY <2>3, <2>5
  <2>7. Len(t) <= MaxStringLen
    BY <1>2 DEF t
  <2>8. Len(p) <= MaxFrameLen
    BY <1>1, <2>3, <2>5, <2>7
  <2>9. p # <<>> /\ Len(p) >= 3 /\ Len(p) >= 2
    BY <2>3, <2>5
  <2>10. DecodePayload(p) = {Msg(m.op, <<c>>, t)}
    <3>1. TextFits(p, 3)
      <4>1. ASSUME NEW i \in 4..Len(p) PROVE p[i] \notin NotUtf8
        <5>1. i - 3 \in 1..Len(t) /\ (i - 3) + 3 = i
          BY <2>3, <2>5
        <5>2. p[i] = t[i - 3]
          BY <2>5, <5>1
        <5> QED
          BY <2>3, <5>1, <5>2
      <4> QED
        BY <2>3, <2>5, <2>7, <2>9, <4>1 DEF TextFits
    <3>2. /\ p[1] \notin Bare /\ p[1] \notin OneArg /\ p[1] \in WithText
          /\ p[1] = OpError => p[2] \in ErrorCodes
      BY <2>1, <2>2, <2>5
    <3> DEFINE arm == {Msg(p[1], <<p[2]>>, SubSeq(p, 4, Len(p)))}
    <3>3. DecodePayload(p) = arm
      BY <2>9, <3>1, <3>2 DEF DecodePayload
    <3> QED
      BY <2>5, <2>6, <3>3
  <2> QED
    BY <2>2, <2>4, <2>8, <2>10 DEF t
<1> QED
  BY <1>2, <1>3, <1>4, <1>5 DEF Messages

(* Equal streams cut at the same place are equal on both sides of the cut. *)
LEMMA CatSplit ==
    ASSUME NEW a \in Symbols, NEW b \in Symbols, NEW c \in Symbols, NEW d \in Symbols,
           a \o b = c \o d, Len(a) = Len(c)
    PROVE  a = c /\ b = d
<1>1. a = SubSeq(a \o b, 1, Len(a)) /\ c = SubSeq(c \o d, 1, Len(c))
  BY CatPrefix DEF Symbols
<1>2. a = c
  BY <1>1
<1> QED
  BY <1>2, CatCancel

\* An honest client's messages are among what the decoder can return.
LEMMA SendableDecoded == Sendable \subseteq Decoded
BY MessagesDecoded DEF Sendable

(* A buffer that starts an honest frame, the rest still in the socket, is   *)
(* not malformed, and what is taken off it is that frame.                   *)
StartsWith(b, y, m, rest) == b \o y = Encode(m) \o rest

\* A buffer that starts with an honest frame is no error, and the frame
\* that is taken out of it is that one.
LEMMA FrameStep ==
    ASSUME NEW b \in Symbols, NEW y \in Symbols, NEW m \in Sendable, NEW rest \in Symbols,
           StartsWith(b, y, m, rest)
    PROVE  /\ ~BadHeader(b)
           /\ HasFrame(b) =>
                /\ FramePayload(b) = EncodePayload(m) /\ FrameRest(b) \o y = rest
                /\ Len(b) >= Len(Encode(m))
<1> DEFINE e == EncodePayload(m)
           h == <<Magic, Len(e)>>
<1>1. /\ m \in Decoded /\ e \in Symbols /\ Len(e) \in Nat /\ Encode(m) \in Symbols
      /\ Len(Encode(m)) = 2 + Len(e) /\ Len(e) <= MaxFrameLen /\ Magic \in Nat
  BY SendableDecoded, EncodeTyped, EncodeDecode, WireAssumption DEF HeaderLen, WireAssumption
<1>2. h \in Symbols /\ Len(h) = 2 /\ h[1] = Magic /\ h[2] = Len(e)
  BY <1>1 DEF Symbols
<1>3. Encode(m) = h \o e
  BY DEF Encode
<1> HIDE DEF h, e
<1>4. e \o rest \in Symbols /\ b \o y = h \o (e \o rest)
  <2>1. (h \o e) \o rest = h \o (e \o rest)
    BY <1>1, <1>2, CatAssoc, Zenon
  <2>2. e \o rest \in Symbols
    BY <1>1, CatTyped, Zenon
  <2> QED
    BY <1>3, <2>1, <2>2 DEF StartsWith
<1>5. ASSUME Len(b) >= 2 PROVE b[1] = Magic /\ b[2] = Len(e)
  <2>1. Len(b) \in Nat
    BY DEF Symbols
  <2>2. 1 \in 1..Len(b) /\ 2 \in 1..Len(b) /\ 1 \in 1..Len(h) /\ 2 \in 1..Len(h)
    BY <1>2, <1>5, <2>1
  <2>3. (b \o y)[1] = b[1] /\ (b \o y)[2] = b[2]
    BY <2>2, CatFront, Zenon
  <2>4. (h \o (e \o rest))[1] = h[1] /\ (h \o (e \o rest))[2] = h[2]
    BY <1>2, <1>4, <2>2, CatFront, Zenon
  <2> QED
    BY <1>2, <1>4, <2>3, <2>4
<1>6. ~BadHeader(b)
  <2>1. ~(Len(e) > MaxFrameLen)
    BY <1>1, WireAssumption DEF WireAssumption
  <2> QED
    BY <1>5, <2>1 DEF BadHeader, HeaderLen
<1>7. ASSUME HasFrame(b)
      PROVE  /\ FramePayload(b) = e /\ FrameRest(b) \o y = rest
             /\ Len(b) >= Len(Encode(m))
  <2> DEFINE p == FramePayload(b)
             r == FrameRest(b)
  <2>0. Len(b) >= 2 /\ Len(b) >= 2 + b[2]
    BY <1>7 DEF HasFrame, HeaderLen
  <2>1. b[1] = Magic /\ b[2] = Len(e)
    BY <1>5, <2>0
  <2>2. /\ p \in Symbols /\ r \in Symbols /\ Len(p) = Len(e)
        /\ b = (<<Magic, Len(p)>> \o p) \o r
    BY <1>7, <2>1, FrameFront
  <2>3. b = (h \o p) \o r
    BY <2>2 DEF h
  <2> HIDE DEF p, r
  <2>4. b \o y = h \o (p \o (r \o y)) /\ r \o y \in Symbols /\ p \o (r \o y) \in Symbols
    <3>1. h \o p \in Symbols /\ r \o y \in Symbols
      BY <1>2, <2>2, CatTyped, Zenon
    <3>2. p \o (r \o y) \in Symbols
      BY <2>2, <3>1, CatTyped, Zenon
    <3>3. ((h \o p) \o r) \o y = (h \o p) \o (r \o y)
      <4> DEFINE hp == h \o p
      <4> HIDE DEF hp
      <4>1. hp \in Symbols
        BY <3>1 DEF hp
      <4>2. (hp \o r) \o y = hp \o (r \o y)
        BY <2>2, <4>1, CatAssoc, ZenonT(30)
      <4> QED
        BY <4>2 DEF hp
    <3>4. (h \o p) \o (r \o y) = h \o (p \o (r \o y))
      BY <1>2, <2>2, <3>1, CatAssoc, ZenonT(30)
    <3> QED
      BY <2>3, <3>1, <3>2, <3>3, <3>4
  <2>5. p \o (r \o y) = e \o rest
    <3>1. h \o (p \o (r \o y)) = h \o (e \o rest)
      BY <1>4, <2>4
    <3> QED
      BY <1>2, <1>4, <2>4, <3>1, CatCancel, Zenon
  <2>6. p = e /\ r \o y = rest
    <3> DEFINE ry == r \o y
    <3>1. p \in Symbols /\ ry \in Symbols /\ e \in Symbols /\ p \o ry = e \o rest /\ Len(p) = Len(e)
      BY <1>1, <2>2, <2>4, <2>5
    <3> HIDE DEF ry
    <3>2. p = e /\ ry = rest
      BY <3>1, CatSplit
    <3> QED
      BY <3>2 DEF ry
  <2> QED
    BY <1>1, <2>0, <2>1, <2>6 DEF p, r
<1> QED
  BY <1>6, <1>7 DEF e

(* A frame the client could not write in full is never taken for one. *)
LEMMA PartialStep ==
    ASSUME NEW b \in Symbols, NEW y \in Symbols, NEW m \in Sendable,
           NEW n \in 0..(Len(Encode(m)) - 1), b \o y = SubSeq(Encode(m), 1, n)
    PROVE  ~BadHeader(b) /\ ~HasFrame(b)
<1> DEFINE e == Encode(m)
           z == SubSeq(e, n + 1, Len(e))
<1>1. e \in Symbols /\ Len(e) \in Nat
  BY SendableDecoded, EncodeTyped DEF Symbols
<1>2. n \in 0..(Len(e) - 1) /\ b \o y = SubSeq(e, 1, n)
  OBVIOUS
<1> HIDE DEF e
<1>3. n \in 0..Len(e) /\ e \in Seq(Nat)
  BY <1>1, <1>2 DEF Symbols
<1>4. z \in Symbols /\ (b \o y) \o z = e /\ Len(b \o y) = n
  <2>1. /\ Len(SubSeq(e, 1, n)) = n /\ SubSeq(e, n + 1, Len(e)) \in Seq(Nat)
        /\ SubSeq(e, 1, n) \o SubSeq(e, n + 1, Len(e)) = e
    BY <1>3, Cut, ZenonT(40)
  <2> QED
    BY <1>2, <2>1, Zenon DEF Symbols
<1> HIDE DEF z
<1>5. y \o z \in Symbols /\ b \o (y \o z) = e \o <<>> /\ <<>> \in Symbols
  <2>1. b \o (y \o z) = (b \o y) \o z
    BY <1>4, CatAssoc, Zenon
  <2>2. e \o <<>> = e /\ <<>> \in Symbols
    BY <1>1, CatEmpty, Zenon
  <2>3. y \o z \in Symbols
    BY <1>4, CatTyped, Zenon
  <2> QED
    BY <1>4, <2>1, <2>2, <2>3
<1>6. ~BadHeader(b) /\ (HasFrame(b) => Len(b) >= Len(e))
  <2> DEFINE yz == y \o z
             none == <<>>
  <2>1. yz \in Symbols /\ none \in Symbols /\ StartsWith(b, yz, m, none)
    BY <1>5 DEF StartsWith, e
  <2> HIDE DEF yz, none
  <2> QED
    BY <2>1, FrameStep DEF e
<1>7. Len(b) + Len(y) = n /\ Len(b) \in Nat /\ Len(y) \in Nat
  BY <1>4, CatTyped
<1> QED
  BY <1>1, <1>2, <1>6, <1>7

(* The client may leave a cut frame behind, and then nothing after it. *)
CutFrame(z) ==
    \E m \in Sendable : \E n \in 0..(Len(Encode(m)) - 1) : z = SubSeq(Encode(m), 1, n)

(* The decoder is on the way through the honest messages ms, ending in z,   *)
(* with y still in the socket.                                              *)
Ahead(s, y, ms, z) ==
    /\ ~s.bad /\ s.msgs \in Seq(Sendable)
    /\ \E r \in Seq(Sendable) : ms = s.msgs \o r /\ s.buf \o y = EncodeAll(r) \o z

\* One turn of the decoder's loop takes the next honest message, or none.
LEMMA HonestTurn ==
    ASSUME NEW s \in DrainStates, NEW y \in Symbols, NEW ms \in Seq(Sendable), NEW z \in Symbols,
           z = <<>> \/ CutFrame(z), Ahead(s, y, ms, z)
    PROVE  Ahead(Turn(s), y, ms, z)
<1>0. s.buf \in Symbols /\ s.msgs \in Seq(Sendable) /\ ~s.bad
  BY DEF DrainStates, Ahead
<1>1. PICK r \in Seq(Sendable) : ms = s.msgs \o r /\ s.buf \o y = EncodeAll(r) \o z
  BY DEF Ahead
<1>2. ASSUME ~BadHeader(s.buf), ~HasFrame(s.buf) PROVE Ahead(Turn(s), y, ms, z)
  <2>1. Turn(s) = s
    BY <1>0, <1>2 DEF Turn
  <2> QED
    BY <2>1
<1>3. CASE r = <<>>
  <2>1. s.buf \o y = z
    BY <1>1, <1>3, EncodeAllEmpty, CatEmpty
  <2>2. CASE z = <<>>
    <3>1. Len(s.buf) = 0
      <4>1. Len(s.buf) + Len(y) = 0 /\ Len(s.buf) \in Nat /\ Len(y) \in Nat
        <5>1. Len(s.buf \o y) = Len(s.buf) + Len(y)
          BY <1>0, CatTyped, Zenon
        <5>2. Len(<<>>) = 0
          OBVIOUS
        <5> QED
          BY <1>0, <2>1, <2>2, <5>1, <5>2, CatTyped
      <4> QED
        BY <4>1
    <3> QED
      BY <1>2, <3>1 DEF BadHeader, HasFrame, HeaderLen
  <2>3. CASE CutFrame(z)
    <3>1. PICK m \in Sendable : \E n \in 0..(Len(Encode(m)) - 1) : z = SubSeq(Encode(m), 1, n)
      BY <2>3 DEF CutFrame
    <3>2. PICK n \in 0..(Len(Encode(m)) - 1) : z = SubSeq(Encode(m), 1, n)
      BY <3>1
    <3>3. s.buf \o y = SubSeq(Encode(m), 1, n)
      BY <2>1, <3>2
    <3>4. ~BadHeader(s.buf) /\ ~HasFrame(s.buf)
      BY <1>0, <3>3, PartialStep
    <3> QED
      BY <1>2, <3>4
  <2> QED
    BY <2>2, <2>3
<1>4. CASE r # <<>>
  <2> DEFINE h == Head(r)
             t == Tail(r)
  <2>1. h \in Sendable /\ t \in Seq(Sendable) /\ r = <<h>> \o t
    BY <1>4
  <2> HIDE DEF h, t
  <2>2. <<h>> \in Seq(Decoded) /\ t \in Seq(Decoded) /\ h \in Decoded
    BY <2>1, SendableDecoded, SeqMonotonic
  <2>3. EncodeAll(r) = Encode(h) \o EncodeAll(t)
    BY <2>1, <2>2, EncodeAllConcat, EncodeAllOne
  <2>4. Encode(h) \in Symbols /\ EncodeAll(t) \in Symbols
    BY <2>2, EncodeTyped, EncodeAllTyped
  <2>5. EncodeAll(t) \o z \in Symbols /\ s.buf \o y = Encode(h) \o (EncodeAll(t) \o z)
    <3>1. (Encode(h) \o EncodeAll(t)) \o z = Encode(h) \o (EncodeAll(t) \o z)
      BY <2>4, CatAssoc, Zenon
    <3>2. EncodeAll(t) \o z \in Symbols
      BY <2>4, CatTyped, Zenon
    <3> QED
      BY <1>1, <2>3, <3>1, <3>2
  <2>6. /\ ~BadHeader(s.buf)
        /\ HasFrame(s.buf) =>
             /\ FramePayload(s.buf) = EncodePayload(h)
             /\ FrameRest(s.buf) \o y = EncodeAll(t) \o z
    <3> DEFINE b == s.buf
               u == EncodeAll(t) \o z
    <3>1. b \in Symbols /\ u \in Symbols /\ h \in Sendable /\ StartsWith(b, y, h, u)
      BY <1>0, <2>1, <2>5 DEF StartsWith
    <3> HIDE DEF b, u
    <3>2. /\ ~BadHeader(b)
          /\ HasFrame(b) => FramePayload(b) = EncodePayload(h) /\ FrameRest(b) \o y = u
      BY <3>1, FrameStep
    <3> QED
      BY <3>2 DEF b, u
  <2>7. CASE HasFrame(s.buf)
    <3>1. DecodePayload(FramePayload(s.buf)) = {h}
      BY <2>1, <2>6, <2>7, EncodeDecode
    <3> DEFINE got == DecodePayload(FramePayload(s.buf))
               out == s.msgs \o (IF got = {} THEN <<>> ELSE <<CHOOSE m \in got : TRUE>>)
    <3>2. Turn(s) = [buf |-> FrameRest(s.buf), msgs |-> out, bad |-> got = {}]
      BY <1>0, <2>6, <2>7 DEF Turn, TakeFrame, FramePayload, FrameRest
    <3>3. out = s.msgs \o <<h>> /\ got # {}
      BY <3>1
    <3> DEFINE no == got = {}
    <3>4. Turn(s) = [buf |-> FrameRest(s.buf), msgs |-> out, bad |-> no] /\ ~no
      BY <3>2, <3>3
    <3> HIDE DEF got, out, no
    <3>5. /\ Turn(s).buf = FrameRest(s.buf) /\ Turn(s).msgs = s.msgs \o <<h>> /\ ~Turn(s).bad
      BY <3>4, <3>3
    <3>6. <<h>> \in Seq(Sendable)
      BY <2>1
    <3>7. s.msgs \o <<h>> \in Seq(Sendable)
      BY <1>0, <3>6, ConcatProperties
    <3>8. ms = (s.msgs \o <<h>>) \o t
      <4> DEFINE a == s.msgs
                 b == <<h>>
      <4>1. a \in Seq(Sendable) /\ b \in Seq(Sendable) /\ ms = a \o (b \o t)
        BY <1>0, <1>1, <2>1, <3>6
      <4> HIDE DEF a, b
      <4>2. \A u, v, w \in Seq(Sendable) : (u \o v) \o w = u \o (v \o w)
        BY SMTT(30), ConcatAssociative
      <4>3. t \in Seq(Sendable)
        BY <2>1
      <4>4. (a \o b) \o t = a \o (b \o t)
        BY <4>1, <4>2, <4>3, ZenonT(30)
      <4> QED
        BY <4>1, <4>4 DEF a, b
    <3> QED
      BY <2>1, <2>6, <2>7, <3>5, <3>7, <3>8 DEF Ahead
  <2>8. CASE ~HasFrame(s.buf)
    BY <1>2, <2>6, <2>8
  <2> QED
    BY <2>7, <2>8
<1> QED
  BY <1>3, <1>4

(* An honest stream is never refused, wherever it is cut. *)
LEMMA HonestPush ==
    ASSUME NEW b \in Symbols, NEW x \in Symbols, NEW y \in Symbols,
           NEW ms \in Seq(Sendable), NEW z \in Symbols,
           z = <<>> \/ CutFrame(z), (b \o x) \o y = EncodeAll(ms) \o z
    PROVE  Ahead(Push(b, x), y, ms, z)
<1> DEFINE all == b \o x
           N == Len(all)
<1>1. all \in Symbols /\ N \in Nat
  BY CatTyped
<1>2. PICK g \in [0..N -> DrainStates] :
         /\ g[0] = [buf |-> all, msgs |-> <<>>, bad |-> FALSE]
         /\ \A n \in 0..(N - 1) : g[n + 1] = Turn(g[n])
         /\ Drain(all) = g[N]
  BY <1>1, DrainTable
<1> HIDE DEF all, N
<1> DEFINE T == {n \in 0..N : Ahead(g[n], y, ms, z)}
<1>3. 0 \in T
  <2>1. <<>> \in Seq(Sendable) /\ <<>> \o ms = ms
    BY ConcatEmptySeq
  <2> DEFINE s == g[0]
  <2>2. s.msgs = <<>> /\ s.buf = all /\ ~s.bad
    BY <1>2
  <2> HIDE DEF s
  <2>3. s.msgs \in Seq(Sendable) /\ ms = s.msgs \o ms /\ s.buf \o y = EncodeAll(ms) \o z
    BY <2>1, <2>2 DEF all
  <2>4. \E r \in Seq(Sendable) : ms = s.msgs \o r /\ s.buf \o y = EncodeAll(r) \o z
    BY <2>3, Zenon
  <2>5. Ahead(s, y, ms, z)
    BY <2>2, <2>3, <2>4 DEF Ahead
  <2>6. Ahead(g[0], y, ms, z)
    BY <2>5 DEF s
  <2> QED
    BY <1>1, <2>6
<1>4. ASSUME NEW n \in 0..(N - 1), n \in T PROVE n + 1 \in T
  <2>1. n \in 0..N /\ n + 1 \in 0..N
    BY <1>1
  <2>2. g[n] \in DrainStates /\ Ahead(g[n], y, ms, z) /\ g[n + 1] = Turn(g[n])
    BY <1>2, <1>4, <2>1
  <2>3. Ahead(Turn(g[n]), y, ms, z)
    BY <2>2, HonestTurn
  <2> QED
    BY <2>1, <2>2, <2>3
<1>5. 0..N \subseteq T
  <2> HIDE DEF T
  <2> QED
    BY <1>1, <1>3, <1>4, BoundedInduction
<1> DEFINE d == Drain(all)
<1>6. Ahead(d, y, ms, z)
  BY <1>1, <1>2, <1>5
<1>7. d \in DrainStates /\ ~d.bad /\ ~BadHeader(d.buf) /\ ~HasFrame(d.buf)
  BY <1>1, <1>6, DrainExact DEF Ahead
<1> HIDE DEF d
<1>8. ~(Len(d.buf) > HeaderLen + MaxFrameLen)
  <2>1. d.buf \in Seq(Nat) /\ Len(d.buf) \in Nat /\ MaxFrameLen \in Nat
    BY <1>7, WireAssumption DEF DrainStates, Symbols, WireAssumption
  <2>2. CASE Len(d.buf) >= 2
    <3>1. d.buf[2] \in Nat
      BY <2>1, <2>2
    <3>2. d.buf[2] <= MaxFrameLen /\ Len(d.buf) < 2 + d.buf[2]
      BY <1>7, <2>1, <2>2, <3>1 DEF BadHeader, HasFrame, HeaderLen
    <3> QED
      BY <2>1, <3>1, <3>2 DEF HeaderLen
  <2>3. CASE ~(Len(d.buf) >= 2)
    BY <2>1, <2>3 DEF HeaderLen
  <2> QED
    BY <2>2, <2>3
<1>9. Push(b, x) = d
  BY <1>7, <1>8 DEF Push, d, all
<1> QED
  BY <1>6, <1>9

(* While the connection is open, what the broker has not decoded yet is     *)
(* exactly the frames of the messages not yet delivered, and a cut frame    *)
(* only after the client has dropped the link.                              *)
Pending ==
    \E rest \in Seq(Sendable) : \E z \in Symbols :
       /\ sent = delivered \o rest /\ buf \o pipe = EncodeAll(rest) \o z
       /\ z = <<>> \/ (client # "open" /\ CutFrame(z))

HonestInv ==
    honest =>
      /\ conn # "malformed" /\ delivered \in Seq(Sendable)
      /\ \E rest \in Seq(Sendable) : sent = delivered \o rest
      /\ conn = "open" => Pending

\* A sequence of honest messages is one of decodable messages.
LEMMA SendableSeq == \A s \in Seq(Sendable) : s \in Seq(Decoded)
BY SendableDecoded, SeqMonotonic

\* Joining sequences of honest messages is associative.
LEMMA SendableAssoc ==
    \A a, b, c \in Seq(Sendable) : (a \o b) \o c = a \o (b \o c)
BY ConcatAssociative

\* Joined sequences of honest messages are one of honest messages.
LEMMA SendableCat == \A a, b \in Seq(Sendable) : a \o b \in Seq(Sendable)
BY ConcatProperties

(* Client::send writes one whole frame, or a cut one and then drops. *)
LEMMA SendHonest ==
    ASSUME StreamTyped, HonestInv, NEW m \in Outbox, Send(m)
    PROVE  HonestInv'
<1>1. /\ honest /\ client = "open" /\ UNCHANGED <<honest, received, buf, delivered, conn>>
      /\ \/ pipe' = pipe \o Encode(m) /\ sent' = Append(sent, m) /\ client' = client
         \/ /\ \E n \in 0..(Len(Encode(m)) - 1) : pipe' = pipe \o SubSeq(Encode(m), 1, n)
            /\ client' = "dropped" /\ sent' = sent
  BY DEF Send
<1>2. m \in Sendable
  BY WireAssumption DEF Send, Sendable, WireAssumption
<1>3. /\ conn # "malformed" /\ delivered \in Seq(Sendable)
      /\ \E rest \in Seq(Sendable) : sent = delivered \o rest
      /\ conn = "open" => Pending
  BY <1>1 DEF HonestInv
<1>4. m \in Decoded /\ Encode(m) \in Symbols /\ <<m>> \in Seq(Sendable)
  BY <1>2, SendableDecoded, EncodeTyped
<1>5. ASSUME NEW rest \in Seq(Sendable), sent = delivered \o rest
      PROVE  Append(rest, m) \in Seq(Sendable) /\ Append(sent, m) = delivered \o Append(rest, m)
  <2>1. sent \in Seq(Sendable)
    BY <1>3, <1>5, SendableCat
  <2>2. Append(sent, m) = sent \o <<m>> /\ Append(rest, m) = rest \o <<m>>
    BY <1>2, <2>1, AppendIsConcat
  <2>3. (delivered \o rest) \o <<m>> = delivered \o (rest \o <<m>>)
    BY <1>3, <1>4, SendableAssoc, Zenon
  <2>4. rest \o <<m>> \in Seq(Sendable)
    BY <1>4, SendableCat, Zenon
  <2> QED
    BY <1>5, <2>2, <2>3, <2>4
<1>6. CASE pipe' = pipe \o Encode(m) /\ sent' = Append(sent, m) /\ client' = client
  <2>1. \E rest \in Seq(Sendable) : sent' = delivered' \o rest
    <3>1. PICK rest \in Seq(Sendable) : sent = delivered \o rest
      BY <1>3
    <3>2. Append(rest, m) \in Seq(Sendable) /\ sent' = delivered' \o Append(rest, m)
      BY <1>1, <1>5, <1>6, <3>1
    <3> QED
      BY <3>2, Zenon
  <2>2. ASSUME conn' = "open" PROVE Pending'
    <3>1. Pending
      BY <1>1, <1>3, <2>2
    <3>2. PICK rest \in Seq(Sendable) :
             sent = delivered \o rest /\ \E z \in Symbols :
               /\ buf \o pipe = EncodeAll(rest) \o z
               /\ z = <<>> \/ (client # "open" /\ CutFrame(z))
      BY <3>1 DEF Pending
    <3>3. buf \o pipe = EncodeAll(rest)
      <4>1. buf \o pipe = EncodeAll(rest) \o <<>>
        BY <1>1, <3>2
      <4>2. EncodeAll(rest) \in Symbols
        BY SendableSeq, EncodeAllTyped
      <4> QED
        BY <4>1, <4>2, CatEmpty, Zenon
    <3> DEFINE more == Append(rest, m)
    <3>4. more \in Seq(Sendable) /\ sent' = delivered' \o more
      BY <1>1, <1>5, <1>6, <3>2
    <3>5. EncodeAll(more) = EncodeAll(rest) \o Encode(m) /\ EncodeAll(more) \in Symbols
      BY <1>4, SendableSeq, EncodeAllAppend
    <3> HIDE DEF more
    <3>6. buf' \o pipe' = EncodeAll(more)
      <4>1. (buf \o pipe) \o Encode(m) = buf \o (pipe \o Encode(m))
        BY <1>4, CatAssoc, Zenon DEF StreamTyped
      <4> QED
        BY <1>1, <1>6, <3>3, <3>5, <4>1
    <3>7. buf' \o pipe' = EncodeAll(more) \o <<>> /\ <<>> \in Symbols
      BY <3>5, <3>6, CatEmpty, Zenon
    <3>8. \E z \in Symbols : /\ buf' \o pipe' = EncodeAll(more) \o z
                             /\ z = <<>> \/ (client' # "open" /\ CutFrame(z))
      BY <3>7, Zenon
    <3>9. \E r \in Seq(Sendable) : \E z \in Symbols :
             /\ sent' = delivered' \o r /\ buf' \o pipe' = EncodeAll(r) \o z
             /\ z = <<>> \/ (client' # "open" /\ CutFrame(z))
      BY <3>4, <3>8, Zenon
    <3> QED
      BY <3>9 DEF Pending, EncodeAll, Encode, EncodePayload, CutFrame, Sendable, Encodable
  <2> QED
    BY <1>1, <1>3, <2>1, <2>2 DEF HonestInv
<1>7. ASSUME NEW n \in 0..(Len(Encode(m)) - 1), pipe' = pipe \o SubSeq(Encode(m), 1, n),
             client' = "dropped", sent' = sent
      PROVE  HonestInv'
  <2> DEFINE z == SubSeq(Encode(m), 1, n)
  <2>1. CutFrame(z)
    BY <1>2 DEF CutFrame
  <2>2. z \in Symbols
    <3> DEFINE e == Encode(m)
    <3>1. e \in Seq(Nat) /\ n \in 0..(Len(e) - 1)
      BY <1>4 DEF Symbols
    <3> HIDE DEF e
    <3>2. n \in 0..Len(e)
      BY <3>1
    <3>3. SubSeq(e, 1, n) \in Seq(Nat)
      BY <3>1, <3>2, Cut
    <3> QED
      BY <3>3 DEF e, Symbols
  <2>3. ASSUME conn' = "open" PROVE Pending'
    <3>1. Pending
      BY <1>1, <1>3, <2>3
    <3>2. PICK rest \in Seq(Sendable) :
             sent = delivered \o rest /\ \E u \in Symbols :
               /\ buf \o pipe = EncodeAll(rest) \o u
               /\ u = <<>> \/ (client # "open" /\ CutFrame(u))
      BY <3>1 DEF Pending
    <3>3. buf \o pipe = EncodeAll(rest)
      <4>1. buf \o pipe = EncodeAll(rest) \o <<>>
        BY <1>1, <3>2
      <4>2. EncodeAll(rest) \in Symbols
        BY SendableSeq, EncodeAllTyped
      <4> QED
        BY <4>1, <4>2, CatEmpty, Zenon
    <3>4. buf' \o pipe' = EncodeAll(rest) \o z
      <4> HIDE DEF z
      <4>1. (buf \o pipe) \o z = buf \o (pipe \o z)
        BY <2>2, CatAssoc, Zenon DEF StreamTyped
      <4> QED
        BY <1>1, <1>7, <3>3, <4>1 DEF z
    <3> HIDE DEF z
    <3>5. sent' = delivered' \o rest /\ client' # "open"
      BY <1>1, <1>7, <3>2
    <3>6. \E r \in Seq(Sendable) : \E u \in Symbols :
             /\ sent' = delivered' \o r /\ buf' \o pipe' = EncodeAll(r) \o u
             /\ u = <<>> \/ (client' # "open" /\ CutFrame(u))
      BY <2>1, <2>2, <3>4, <3>5, Zenon
    <3> QED
      BY <3>6 DEF Pending, EncodeAll, Encode, EncodePayload, CutFrame, Sendable, Encodable
  <2> QED
    BY <1>1, <1>3, <1>7, <2>3 DEF HonestInv
<1> QED
  BY <1>1, <1>6, <1>7

(* service_client understands an honest stream. *)
LEMMA ServiceHonest ==
    ASSUME BucketInv, StreamTyped, HonestInv, NEW n \in 1..MaxRead, Service(n)
    PROVE  HonestInv'
<1> SUFFICES ASSUME honest PROVE HonestInv'
  BY DEF Service, HonestInv
<1> DEFINE x == SubSeq(pipe, 1, n)
           y == SubSeq(pipe, n + 1, Len(pipe))
           d == Push(buf, x)
           ok == Admitted(Len(d.msgs), Refilled(tokens, now - last))
<1>1. x \in Symbols /\ y \in Symbols /\ x \o y = pipe /\ d.msgs \in Seq(Decoded)
  BY ServiceReads
<1>2. ok \in 0..Len(d.msgs)
  <2>1. Len(d.msgs) \in Nat
    BY <1>1
  <2> QED
    BY <2>1, BucketStep DEF BucketInv
<1>3. /\ conn = "open" /\ pipe' = y /\ buf' = d.buf /\ UNCHANGED <<honest, sent, client>>
      /\ delivered' = delivered \o SubSeq(d.msgs, 1, ok)
      /\ conn' = IF d.bad THEN "malformed" ELSE IF ok < Len(d.msgs) THEN "limited" ELSE "open"
  BY DEF Service
<1>4. delivered \in Seq(Sendable) /\ Pending
  BY <1>3 DEF HonestInv
<1>5. PICK ms \in Seq(Sendable), z \in Symbols :
         /\ sent = delivered \o ms /\ buf \o pipe = EncodeAll(ms) \o z
         /\ z = <<>> \/ (client # "open" /\ CutFrame(z))
  BY <1>4 DEF Pending
<1>6. Ahead(d, y, ms, z)
  <2> HIDE DEF x, y
  <2>1. (buf \o x) \o y = buf \o (x \o y) /\ buf \in Symbols
    BY <1>1, CatAssoc, ZenonT(30) DEF StreamTyped
  <2>2. (buf \o x) \o y = EncodeAll(ms) \o z
    BY <1>1, <1>5, <2>1
  <2> QED
    BY <1>1, <1>5, <2>1, <2>2, HonestPush
<1> HIDE DEF x, y, d, ok
<1>7. PICK r \in Seq(Sendable) : ms = d.msgs \o r /\ d.buf \o y = EncodeAll(r) \o z
  BY <1>6 DEF Ahead
<1>8. ~d.bad /\ d.msgs \in Seq(Sendable)
  BY <1>6 DEF Ahead
<1> DEFINE dm == d.msgs
           first == SubSeq(dm, 1, ok)
           later == SubSeq(dm, ok + 1, Len(dm))
<1>9. /\ first \in Seq(Sendable) /\ later \in Seq(Sendable) /\ first \o later = dm
      /\ Len(first) = ok /\ Len(later) = Len(dm) - ok
  <2>1. dm \in Seq(Sendable) /\ ok \in 0..Len(dm)
    BY <1>2, <1>8
  <2> HIDE DEF dm
  <2> QED
    BY <2>1, Cut
<1>10. delivered' = delivered \o first
  BY <1>3
<1>11. ms = dm \o r
  BY <1>7
<1> HIDE DEF first, later
<1>12. delivered' \in Seq(Sendable) /\ later \o r \in Seq(Sendable)
  BY <1>4, <1>9, <1>10, SendableCat
<1>13. sent' = delivered' \o (later \o r)
  <2>0. first \in Seq(Sendable) /\ later \in Seq(Sendable) /\ r \in Seq(Sendable)
    BY <1>9
  <2>1. (first \o later) \o r = first \o (later \o r)
    BY ONLY <2>0, SendableAssoc, Zenon
  <2>2. (delivered \o first) \o (later \o r) = delivered \o (first \o (later \o r))
    <3> DEFINE lr == later \o r
    <3>1. delivered \in Seq(Sendable) /\ lr \in Seq(Sendable)
      BY <1>4, <1>12
    <3> HIDE DEF lr
    <3>2. (delivered \o first) \o lr = delivered \o (first \o lr)
      BY ONLY <2>0, <3>1, SendableAssoc, ZenonT(30)
    <3> QED
      BY <3>2 DEF lr
  <2> QED
    BY <1>3, <1>5, <1>9, <1>10, <1>11, <2>1, <2>2
<1>14. \E rest \in Seq(Sendable) : sent' = delivered' \o rest
  BY <1>12, <1>13, Zenon
<1>15. conn' # "malformed"
  BY <1>3, <1>8
<1>16. ASSUME conn' = "open" PROVE Pending'
  <2>1. ~(ok < Len(dm))
    BY <1>3, <1>8, <1>16
  <2>2. Len(later) = 0
    <3>1. Len(dm) \in Nat /\ ok \in 0..Len(dm)
      BY <1>1, <1>2
    <3> HIDE DEF dm
    <3> QED
      BY <1>9, <2>1, <3>1
  <2>3. later \o r = r
    BY <1>9, <2>2, EmptySeq, ConcatEmptySeq
  <2>4. sent' = delivered' \o r /\ buf' \o pipe' = EncodeAll(r) \o z
    BY <1>3, <1>7, <1>13, <2>3
  <2>5. z = <<>> \/ (client' # "open" /\ CutFrame(z))
    BY <1>3, <1>5
  <2>6. \E q \in Seq(Sendable) : \E u \in Symbols :
             /\ sent' = delivered' \o q /\ buf' \o pipe' = EncodeAll(q) \o u
             /\ u = <<>> \/ (client' # "open" /\ CutFrame(u))
    BY <2>4, <2>5, Zenon
  <2> QED
    BY <2>6 DEF Pending, EncodeAll, Encode, EncodePayload, CutFrame, Sendable, Encodable
<1> QED
  BY <1>12, <1>14, <1>15, <1>16 DEF HonestInv

\* The invariant about an honest client's stream holds throughout.
LEMMA HonestInvariant == Spec => []HonestInv
<1>1. Init => HonestInv
  <2> SUFFICES ASSUME Init PROVE HonestInv
    OBVIOUS
  <2>1. /\ sent = <<>> /\ pipe = <<>> /\ buf = <<>> /\ delivered = <<>> /\ conn = "open"
    BY DEF Init
  <2>2. <<>> \in Seq(Sendable) /\ sent = delivered \o <<>>
    BY <2>1
  <2>3. buf \o pipe = EncodeAll(<<>>) \o <<>> /\ <<>> \in Symbols
    BY <2>1, EncodeAllEmpty, CatEmpty, Zenon
  <2>4. Pending
    BY <2>2, <2>3, Zenon DEF Pending
  <2> QED
    BY <2>1, <2>2, <2>4 DEF HonestInv
<1>2. StreamInv /\ HonestInv /\ [Next]_vars => HonestInv'
  <2> SUFFICES ASSUME StreamInv, HonestInv, [Next]_vars PROVE HonestInv'
    OBVIOUS
  <2>0. BucketInv /\ StreamTyped
    BY DEF StreamInv
  <2>1. ASSUME NEW m \in Outbox, Send(m) PROVE HonestInv'
    BY <2>0, <2>1, SendHonest
  <2>2. ASSUME NEW b \in Noise, Write(b) PROVE HonestInv'
    BY <2>2 DEF Write, HonestInv
  <2>3. ASSUME UNCHANGED <<honest, sent, pipe, buf, delivered>>, conn' = conn \/ conn' = "eof",
               client' = client \/ client' = "dropped"
        PROVE  HonestInv'
    <3> SUFFICES ASSUME honest PROVE HonestInv'
      BY <2>3 DEF HonestInv
    <3>1. /\ conn # "malformed" /\ delivered \in Seq(Sendable)
          /\ \E rest \in Seq(Sendable) : sent = delivered \o rest
          /\ conn = "open" => Pending
      BY DEF HonestInv
    <3>2. Pending => Pending'
      BY <2>3 DEF Pending
    <3>3. conn' # "malformed" /\ (conn' = "open" => conn = "open")
      BY <2>3, <3>1
    <3> QED
      BY <2>3, <3>1, <3>2, <3>3 DEF HonestInv
  <2>4. ASSUME NEW n \in 1..MaxRead, Service(n) PROVE HonestInv'
    BY <2>0, <2>4, ServiceHonest
  <2>5. CASE Drop \/ Eof \/ Tick \/ OpenWindow \/ UNCHANGED vars
    BY <2>3, <2>5 DEF Drop, Eof, Tick, OpenWindow, vars
  <2> QED
    BY <2>1, <2>2, <2>4, <2>5 DEF Next
<1> QED
  BY <1>1, <1>2, StreamInvariant, PTL DEF Spec

(* THEOREM: the UI's own client is never taken for a malformed peer, and    *)
(* what reaches the session is a prefix of what it sent: for every set of   *)
(* messages, every cut of the stream and every frame it could not finish.   *)
THEOREM ClientUnderstood == Spec => []HonestUnderstood
<1>1. HonestInv => HonestUnderstood
  <2> SUFFICES ASSUME HonestInv, honest PROVE HonestUnderstood
    BY DEF HonestUnderstood
  <2>1. conn # "malformed" /\ delivered \in Seq(Sendable)
    BY DEF HonestInv
  <2>2. PICK rest \in Seq(Sendable) : sent = delivered \o rest
    BY DEF HonestInv
  <2>3. delivered = SubSeq(sent, 1, Len(delivered)) /\ Len(delivered) <= Len(sent)
    BY <2>1, <2>2, CatPrefix
  <2> QED
    BY <2>1, <2>3 DEF HonestUnderstood
<1> QED
  BY <1>1, HonestInvariant, PTL
=============================================================================

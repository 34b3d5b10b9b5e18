---------------------------- MODULE BrokerProofs ----------------------------
(***************************************************************************)
(* Proofs about Broker, for any sets of connections and keys and any       *)
(* limits: its types, key ownership, the handshake, shutdown, the limits,  *)
(* the absence of panics with one connection, that it implements           *)
(* KeyOwnership, that a closing session is inert, and, with at most two    *)
(* connections, that the slots removed are the ones marked.  The inductive *)
(* invariants are KeyInv, PassMarks and MarksMean, all beside TypeOK.      *)
(***************************************************************************)
EXTENDS Broker, SequenceTheorems, FiniteSetTheorems, TLAPS

\* Vec::remove: the result is one shorter and the slots behind the removed one
\* move up by one.
LEMMA RemoveAtProperties ==
    ASSUME NEW S, NEW s \in Seq(S), NEW i \in 1..Len(s)
    PROVE  /\ RemoveAt(s, i) \in Seq(S)
           /\ Len(RemoveAt(s, i)) = Len(s) - 1
           /\ \A m \in 1..(Len(s) - 1) :
                 RemoveAt(s, i)[m] = IF m < i THEN s[m] ELSE s[m + 1]
<1> DEFINE a == SubSeq(s, 1, i - 1)
           b == SubSeq(s, i + 1, Len(s))
<1>1. /\ a \in Seq(S)
      /\ Len(a) = i - 1
      /\ \A m \in 1..(i - 1) : a[m] = s[m]
  OBVIOUS
<1>2. /\ b \in Seq(S)
      /\ Len(b) = Len(s) - i
      /\ \A m \in 1..(Len(s) - i) : b[m] = s[m + i]
  OBVIOUS
<1>3. RemoveAt(s, i) = a \o b
  BY DEF RemoveAt
<1> HIDE DEF a, b
<1>4. /\ a \o b \in Seq(S)
      /\ Len(a \o b) = Len(s) - 1
      /\ \A m \in 1..(Len(s) - 1) : (a \o b)[m] = IF m < i THEN a[m] ELSE b[m - (i - 1)]
  <2>1. Len(a) + Len(b) = Len(s) - 1
    BY <1>1, <1>2
  <2>2. QED
    BY <1>1, <1>2, <2>1
<1>5. ASSUME NEW m \in 1..(Len(s) - 1)
      PROVE  (a \o b)[m] = IF m < i THEN s[m] ELSE s[m + 1]
  <2>1. CASE m < i
    BY <1>1, <1>4, <2>1
  <2>2. CASE ~(m < i)
    <3>1. m - (i - 1) \in 1..(Len(s) - i)
      BY <2>2
    <3>2. (a \o b)[m] = b[m - (i - 1)]
      BY <1>4, <2>2
    <3>3. b[m - (i - 1)] = s[(m - (i - 1)) + i]
      BY <1>2, <3>1
    <3>4. (m - (i - 1)) + i = m + 1
      OBVIOUS
    <3>5. QED
      BY <2>2, <3>2, <3>3, <3>4
  <2>3. QED
    BY <2>1, <2>2
<1>6. QED
  BY <1>3, <1>4, <1>5

\* The broker starts in a well-typed state.
LEMMA TypeInit == Init => TypeOK
<1> SUFFICES ASSUME Init PROVE TypeOK
  OBVIOUS
<1>0. ConnTypeOK
  <2>1. stop \in BOOLEAN
    BY DEF Init
  <2>2. backlog \subseteq Conns /\ sessions \in Seq(Conns)
    BY DEF Init
  <2>3. peer \in [Conns -> {"idle", "connected", "gone"}]
    BY DEF Init
  <2>4. QED
    BY <2>1, <2>2, <2>3 DEF ConnTypeOK
<1>1. LoopTypeOK
  BY BrokerAssumption DEF Init, LoopTypeOK, Phases, Places
<1>2. SlotTypeOK
  BY DEF Init, SlotTypeOK, Frames, Reasons
<1>3. DeviceTypeOK
  BY DEF Init, DeviceTypeOK
<1>4. QED
  BY <1>0, <1>1, <1>2, <1>3 DEF TypeOK

-----------------------------------------------------------------------------
(* Type preservation, from the pieces the actions are built of.            *)

\* Marking a slot for removal keeps the list and the reasons well typed.
LEMMA MarkType ==
    ASSUME TypeOK, NEW c \in Conns, NEW i \in Nat \ {0}, NEW why \in Reasons,
           Mark(c, i, why)
    PROVE  toClose' \in Seq(Nat \ {0}) /\ reason' \in [Conns -> Reasons]
<1>1. toClose' \in {toClose, Append(toClose, i)}
  BY DEF Mark
<1>2. toClose' \in Seq(Nat \ {0})
  BY <1>1, AppendProperties DEF TypeOK, LoopTypeOK
<1>3. reason' \in [Conns -> Reasons]
  BY DEF TypeOK, SlotTypeOK, Mark
<1>4. QED
  BY <1>2, <1>3

OutcomeTypeOK ==
    /\ pc \in Places /\ cursor \in Nat \ {0} /\ batch \in 0..MaxBatch
    /\ toClose \in Seq(Nat \ {0}) /\ reason \in [Conns -> Reasons]
    /\ out \in [Conns -> Seq(Frames)] /\ closing \in [Conns -> BOOLEAN]

\* Going on to the next message of a batch.
LEMMA NextMessageType ==
    ASSUME TypeOK, batch > 0, NextMessage
    PROVE  pc' \in Places /\ cursor' \in Nat \ {0} /\ batch' \in 0..MaxBatch
BY BrokerAssumption DEF TypeOK, LoopTypeOK, NextMessage, Places

\* Dropping the rest of a batch.
LEMMA AbandonBatchType ==
    ASSUME TypeOK, AbandonBatch
    PROVE  pc' \in Places /\ cursor' \in Nat \ {0} /\ batch' \in 0..MaxBatch
BY BrokerAssumption DEF TypeOK, LoopTypeOK, AbandonBatch, Places

\* Outcome::Keep.
LEMMA KeepType == ASSUME TypeOK, batch > 0, Keep PROVE OutcomeTypeOK'
BY NextMessageType DEF TypeOK, LoopTypeOK, SlotTypeOK, Keep, OutcomeTypeOK

\* ServiceResult::Closed from within a batch.
LEMMA CloseNowType ==
    ASSUME TypeOK, NEW c \in Conns, NEW why \in Reasons, CloseNow(c, why)
    PROVE  OutcomeTypeOK'
<1>1. cursor \in Nat \ {0}
  BY DEF TypeOK, LoopTypeOK
<1>2. toClose' \in Seq(Nat \ {0}) /\ reason' \in [Conns -> Reasons]
  BY <1>1, MarkType DEF CloseNow
<1>3. QED
  BY <1>2, AbandonBatchType DEF TypeOK, SlotTypeOK, CloseNow, OutcomeTypeOK

\* Outcome::Reply.
LEMMA ReplyType ==
    ASSUME TypeOK, batch > 0, NEW c \in Conns, NEW frame \in Frames, Reply(c, frame)
    PROVE  OutcomeTypeOK'
<1>1. CASE QueueFits(c) /\ out' = [out EXCEPT ![c] = Append(@, frame)]
           /\ NextMessage /\ UNCHANGED <<closing, reason, toClose>>
  BY <1>1, NextMessageType DEF TypeOK, LoopTypeOK, SlotTypeOK, OutcomeTypeOK
<1>2. CASE CloseNow(c, "overflow")
  BY <1>2, CloseNowType DEF Reasons
<1>3. QED
  BY <1>1, <1>2 DEF Reply

\* Outcome::ReplyAndClose.
LEMMA ReplyAndCloseType ==
    ASSUME TypeOK, NEW c \in Conns, NEW frame \in Frames, ReplyAndClose(c, frame)
    PROVE  OutcomeTypeOK'
<1>1. CASE QueueFits(c) /\ out' = [out EXCEPT ![c] = Append(@, frame)]
           /\ closing' = [closing EXCEPT ![c] = TRUE]
           /\ AbandonBatch /\ UNCHANGED <<reason, toClose>>
  BY <1>1, AbandonBatchType DEF TypeOK, LoopTypeOK, SlotTypeOK, OutcomeTypeOK
<1>2. CASE CloseNow(c, "overflow")
  BY <1>2, CloseNowType DEF Reasons
<1>3. QED
  BY <1>1, <1>2 DEF ReplyAndClose

\* release_keys of keys of the capability set.
LEMMA ReleaseKeysType ==
    ASSUME TypeOK, NEW S \in SUBSET Keys, NEW bad \in SUBSET S, ReleaseKeys(S, bad)
    PROVE  DeviceTypeOK'
BY DEF TypeOK, DeviceTypeOK, ReleaseKeys

\* A message is handled by one of the outcomes, touching the session's flags,
\* its held set and the device within their types.
LEMMA MessageType ==
    ASSUME TypeOK, NEW c \in Conns, ProcessMessage(c)
    PROVE  TypeOK'
<1> USE DEF Processing
<1>0. \A f \in {"Reply", "Refused", "Internal"} : f \in Frames
  BY DEF Frames
<1>1. /\ UNCHANGED <<worldVars, pollVars>>
      /\ OutcomeTypeOK' /\ DeviceTypeOK'
      /\ hello' \in [Conns -> BOOLEAN] /\ open' \in [Conns -> BOOLEAN]
      /\ held' \in [Conns -> SUBSET Keys]
      => TypeOK'
  BY DEF TypeOK, LoopTypeOK, ConnTypeOK, SlotTypeOK, OutcomeTypeOK, worldVars, pollVars
<1>2. /\ hello \in [Conns -> BOOLEAN] /\ open \in [Conns -> BOOLEAN]
      /\ held \in [Conns -> SUBSET Keys]
      /\ DeviceTypeOK
      /\ UNCHANGED deviceVars => DeviceTypeOK'
  BY DEF TypeOK, SlotTypeOK, DeviceTypeOK, deviceVars
<1>3. ASSUME RateLimited(c) \/ ServerOnlyMessage(c) PROVE TypeOK'
  BY <1>0, <1>1, <1>2, <1>3, ReplyAndCloseType, CloseNowType DEF RateLimited, ServerOnlyMessage, sessVars, Reasons
<1>4. ASSUME NEW v \in BOOLEAN, Hello(c, v) PROVE TypeOK'
  <2>1. OutcomeTypeOK'
    BY <1>0, <1>4, KeepType, ReplyAndCloseType DEF Hello
  <2>2. hello' \in [Conns -> BOOLEAN]
    BY <1>2, <1>4 DEF Hello
  <2>3. QED
    BY <1>1, <1>2, <1>4, <2>1, <2>2 DEF Hello
<1>5. ASSUME OpenSession(c) PROVE TypeOK'
  <2>1. OutcomeTypeOK'
    BY <1>0, <1>5, ReplyType, ReplyAndCloseType DEF OpenSession
  <2>2. open' \in [Conns -> BOOLEAN]
    BY <1>2, <1>5 DEF OpenSession
  <2>3. QED
    BY <1>1, <1>2, <1>5, <2>1, <2>2 DEF OpenSession
<1>6. ASSUME NEW k \in Keys \cup ForeignKeys, KeyDown(c, k) PROVE TypeOK'
  <2>1. KeyDownError(c, k) # "none" => KeyDownError(c, k) \in Frames
    BY <1>0 DEF KeyDownError, LedgerErrorCode
  <2>2. OutcomeTypeOK'
    BY <1>0, <1>6, <2>1, KeepType, CloseNowType, ReplyAndCloseType DEF KeyDown, Reasons
  <2>3. KeyDownError(c, k) = "none" => k \in Keys
    BY DEF KeyDownError
  <2>4. DeviceTypeOK'
    BY <1>2, <1>6, <2>3 DEF KeyDown, WriteDown, WriteDownFails, DeviceTypeOK
  <2>5. held' \in [Conns -> SUBSET Keys]
    BY <1>2, <1>6, <2>3 DEF KeyDown
  <2>6. QED
    BY <1>1, <1>2, <1>6, <2>2, <2>4, <2>5 DEF KeyDown
<1>7. ASSUME NEW k \in Keys \cup ForeignKeys, KeyUp(c, k) PROVE TypeOK'
  <2>1. KeyUpError(c, k) # "none" => KeyUpError(c, k) \in Frames
    BY <1>0 DEF KeyUpError, LedgerErrorCode
  <2>2. OutcomeTypeOK'
    BY <1>0, <1>7, <2>1, KeepType, CloseNowType, ReplyAndCloseType DEF KeyUp, Reasons
  <2>3. KeyUpError(c, k) = "none" => {k} \in SUBSET Keys
    BY DEF KeyUpError
  <2>4. DeviceTypeOK'
    BY <1>2, <1>7, <2>3, ReleaseKeysType DEF KeyUp
  <2>5. held' \in [Conns -> SUBSET Keys]
    BY <1>2, <1>7 DEF KeyUp
  <2>6. QED
    BY <1>1, <1>2, <1>7, <2>2, <2>4, <2>5 DEF KeyUp
<1>8. ASSUME NEW k \in Keys \cup ForeignKeys, KeyRepeat(c, k) PROVE TypeOK'
  <2>1. KeyRepeatError(c, k) # "none" => KeyRepeatError(c, k) \in Frames
    BY <1>0 DEF KeyRepeatError
  <2>2. OutcomeTypeOK'
    BY <1>0, <1>8, <2>1, KeepType, CloseNowType, ReplyAndCloseType DEF KeyRepeat, Reasons
  <2>3. QED
    BY <1>1, <1>2, <1>8, <2>2 DEF KeyRepeat, sessVars
<1>9. ASSUME ReleaseAll(c) PROVE TypeOK'
  <2>1. OutcomeTypeOK'
    BY <1>0, <1>9, ReplyType, CloseNowType DEF ReleaseAll, Reasons
  <2>2. held[c] \in SUBSET Keys
    BY <1>2
  <2>3. DeviceTypeOK'
    BY <1>2, <1>9, <2>2, ReleaseKeysType DEF ReleaseAll
  <2>4. held' \in [Conns -> SUBSET Keys]
    BY <1>2, <1>9 DEF ReleaseAll
  <2>5. QED
    BY <1>1, <1>2, <1>9, <2>1, <2>3, <2>4 DEF ReleaseAll
<1>10. ASSUME Ping(c) PROVE TypeOK'
  BY <1>0, <1>1, <1>2, <1>10, ReplyType DEF Ping, sessVars
<1>11. QED
  BY <1>3, <1>4, <1>5, <1>6, <1>7, <1>8, <1>9, <1>10 DEF ProcessMessage

\* Every step keeps the types: one step of the proof per action of Next.
LEMMA TypeNext == TypeOK /\ [Next]_vars => TypeOK'
<1> SUFFICES ASSUME TypeOK, [Next]_vars PROVE TypeOK'
  OBVIOUS
<1> USE DEF TypeOK, worldVars, pollVars, loopVars, sessVars, slotVars, deviceVars
<1>a. LoopTypeOK /\ UNCHANGED <<phase, loopVars>> => LoopTypeOK'
  BY DEF LoopTypeOK
<1>b. ConnTypeOK /\ UNCHANGED <<stop, backlog, peer, sessions>> => ConnTypeOK'
  BY DEF ConnTypeOK
<1>c. SlotTypeOK /\ UNCHANGED slotVars => SlotTypeOK'
  BY DEF SlotTypeOK
<1>d. DeviceTypeOK /\ UNCHANGED deviceVars => DeviceTypeOK'
  BY DEF DeviceTypeOK
<1>1. ASSUME Environment PROVE TypeOK'
  <2>1. ConnTypeOK'
    BY <1>1 DEF Environment, Signal, PeerConnects, PeerCloses, ConnTypeOK
  <2>2. UNCHANGED <<phase, loopVars, slotVars, deviceVars>>
    BY <1>1 DEF Environment, Signal, PeerConnects, PeerCloses
  <2>3. QED
    BY <1>a, <1>c, <1>d, <2>1, <2>2
<1>2. ASSUME Poll PROVE TypeOK'
  <2>1. pollout' \subseteq Conns
    BY <1>2 DEF Poll, Live, ConnTypeOK
  <2>2. Len(sessions) \in Nat
    BY DEF ConnTypeOK
  <2>3. LoopTypeOK'
    BY <1>2, <2>1, <2>2 DEF Poll, LoopTypeOK, Places
  <2>4. QED
    BY <1>2, <1>b, <1>c, <1>d, <2>3 DEF Poll
<1>3. ASSUME StopServing \/ PollFails PROVE TypeOK'
  BY <1>3, <1>b, <1>c, <1>d DEF StopServing, PollFails, LoopTypeOK, Phases
<1>4. ASSUME AcceptDone \/ ServiceDone \/ FlushDone \/ RemoveDone PROVE TypeOK'
  <2>1. LoopTypeOK'
    BY <1>4 DEF AcceptDone, ServiceDone, FlushDone, RemoveDone, LoopTypeOK, Places
  <2>2. UNCHANGED <<stop, backlog, peer, sessions, deviceVars>>
    BY <1>4 DEF AcceptDone, ServiceDone, FlushDone, RemoveDone
  <2>3. SlotTypeOK'
    <3>1. CASE UNCHANGED slotVars
      BY <1>c, <3>1
    <3>2. CASE RemoveDone
      BY <3>2 DEF RemoveDone, SlotTypeOK, Reasons
    <3>3. QED
      BY <1>4, <3>1, <3>2 DEF AcceptDone, ServiceDone, FlushDone
  <2>4. QED
    BY <1>b, <1>d, <2>1, <2>2, <2>3
<1>5. ASSUME NEW c \in Conns, Accept(c) PROVE TypeOK'
  BY <1>5, <1>a, <1>c, <1>d DEF Accept, ConnTypeOK
<1>6. ASSUME NEW c \in Conns, Service(c) PROVE TypeOK'
  <2>1. CASE SkipClosing(c) \/ ReadNothing(c) \/ ReadBatch(c)
    <3>1. LoopTypeOK'
      BY <2>1 DEF SkipClosing, ReadNothing, ReadBatch, LoopTypeOK, Places
    <3>2. QED
      BY <2>1, <1>b, <1>c, <1>d, <3>1 DEF SkipClosing, ReadNothing, ReadBatch
  <2>2. CASE ReadEof(c) \/ ReadMalformed(c)
    <3>1. PICK why \in Reasons : Mark(c, cursor, why)
      BY <2>2 DEF ReadEof, ReadMalformed, Reasons
    <3>2. toClose' \in Seq(Nat \ {0}) /\ reason' \in [Conns -> Reasons]
      BY <3>1, MarkType DEF LoopTypeOK
    <3>3. LoopTypeOK'
      BY <2>2, <3>2 DEF ReadEof, ReadMalformed, LoopTypeOK
    <3>4. SlotTypeOK'
      BY <2>2, <3>2 DEF ReadEof, ReadMalformed, SlotTypeOK
    <3>5. QED
      BY <2>2, <1>b, <1>d, <3>3, <3>4 DEF ReadEof, ReadMalformed
  <2>3. QED
    BY <1>6, <2>1, <2>2 DEF Service
<1>7. ASSUME NEW c \in Conns, Flush(c) PROVE TypeOK'
  <2>1. CASE FlushSkip(c)
    BY <2>1, <1>b, <1>c, <1>d DEF FlushSkip, LoopTypeOK
  <2>2. CASE FlushPart(c)
    <3>1. \A n \in 0..(Len(out[c]) - 1) : SubSeq(out[c], n + 1, Len(out[c])) \in Seq(Frames)
      BY DEF SlotTypeOK
    <3>2. SlotTypeOK'
      BY <2>2, <3>1 DEF FlushPart, SlotTypeOK
    <3>3. QED
      BY <2>2, <1>b, <1>d, <3>2 DEF FlushPart, LoopTypeOK
  <2>3. CASE FlushAll(c) \/ FlushFails(c)
    <3>1. toClose' \in Seq(Nat \ {0}) /\ reason' \in [Conns -> Reasons]
      <4>1. CASE \E why \in Reasons : Mark(c, cursor, why)
        BY <4>1, MarkType DEF LoopTypeOK
      <4>2. CASE UNCHANGED <<toClose, reason>>
        BY <4>2 DEF LoopTypeOK, SlotTypeOK
      <4>3. QED
        BY <2>3, <4>1, <4>2 DEF FlushAll, FlushFails, Reasons
    <3>2. LoopTypeOK'
      BY <2>3, <3>1 DEF FlushAll, FlushFails, LoopTypeOK
    <3>3. out' \in [Conns -> Seq(Frames)]
      <4>1. CASE FlushAll(c)
        BY <4>1, EmptySeq DEF FlushAll, SlotTypeOK
      <4>2. CASE FlushFails(c)
        BY <4>2 DEF FlushFails, SlotTypeOK
      <4>3. QED
        BY <2>3, <4>1, <4>2
    <3>4. SlotTypeOK'
      BY <2>3, <3>1, <3>3 DEF FlushAll, FlushFails, SlotTypeOK
    <3>5. QED
      BY <2>3, <1>b, <1>d, <3>2, <3>4 DEF FlushAll, FlushFails
  <2>4. QED
    BY <1>7, <2>1, <2>2, <2>3 DEF Flush
<1>8. ASSUME NEW c \in Conns, RemoveSlot(c) PROVE TypeOK'
  <2>1. toClose \in Seq(Nat \ {0}) /\ Len(toClose) \in Nat \ {0}
    BY <1>8, EmptySeq DEF RemoveSlot, LoopTypeOK
  <2>2. ToRemove \in 1..Len(sessions)
    BY <1>8, <2>1 DEF RemoveSlot, ToRemove, ConnTypeOK
  <2>3. sessions' \in Seq(Conns)
    BY <1>8, <2>2, RemoveAtProperties DEF RemoveSlot, ConnTypeOK
  <2>4. toClose' \in Seq(Nat \ {0})
    BY <1>8, <2>1 DEF RemoveSlot
  <2>5. DeviceTypeOK'
    BY <1>8, ReleaseKeysType DEF RemoveSlot, SlotTypeOK
  <2>6. SlotTypeOK'
    BY <1>8 DEF RemoveSlot, DropSlot, SlotTypeOK, Reasons
  <2>7. LoopTypeOK' /\ ConnTypeOK'
    BY <1>8, <2>3, <2>4 DEF RemoveSlot, LoopTypeOK, ConnTypeOK
  <2>8. QED
    BY <2>5, <2>6, <2>7
<1>9. ASSUME RemovePanics \/ Exit PROVE TypeOK'
  <2>1. ProcessEnds /\ phase' \in Phases
    BY <1>9 DEF RemovePanics, Exit, Phases
  <2>2. SlotTypeOK'
    BY <2>1 DEF ProcessEnds, SlotTypeOK, Reasons
  <2>3. LoopTypeOK' /\ DeviceTypeOK'
    BY <2>1 DEF ProcessEnds, LoopTypeOK, DeviceTypeOK
  <2>4. ConnTypeOK'
    BY <2>1 DEF ProcessEnds, ConnTypeOK
  <2>5. QED
    BY <2>2, <2>3, <2>4
<1>10. ASSUME Shutdown PROVE TypeOK'
  <2>1. HeldBySessions \in SUBSET Keys
    BY DEF HeldBySessions, Live, ConnTypeOK, SlotTypeOK
  <2>2. DeviceTypeOK'
    BY <1>10, <2>1, ReleaseKeysType DEF Shutdown
  <2>3. SlotTypeOK'
    BY <1>10 DEF Shutdown, SlotTypeOK
  <2>4. QED
    BY <1>10, <1>b, <2>2, <2>3 DEF Shutdown, LoopTypeOK, Phases
<1>11. ASSUME Ended \/ UNCHANGED vars PROVE TypeOK'
  BY <1>11, <1>a, <1>b, <1>c, <1>d DEF Ended, vars
<1>12. QED
  BY <1>1, <1>2, <1>3, <1>4, <1>5, <1>6, <1>7, <1>8, <1>9, <1>10, <1>11, MessageType
     DEF Next, Broker, ServeLoop

\* Every variable of the broker keeps its type, for any number of clients and
\* keys: in particular no key outside the capability set is ever pressed.
THEOREM TypeCorrect == Spec => []TypeOK
BY TypeInit, TypeNext, PTL DEF Spec

-----------------------------------------------------------------------------
(* The set of live slots under the three ways the slot vector changes.     *)

\* The slots belong to known connections.
LEMMA LiveType == TypeOK => Live \subseteq Conns
BY DEF TypeOK, ConnTypeOK, Live

\* accept_pending only adds a slot, and only for an authorized peer.
LEMMA AcceptLive ==
    ASSUME TypeOK, NEW c \in Conns, Accept(c)
    PROVE  /\ Live \subseteq Live'
           /\ Live' \subseteq Live \cup ({c} \cap Authorized)
           /\ Len(sessions') >= Len(sessions)
<1>1. sessions \in Seq(Conns)
  BY DEF TypeOK, ConnTypeOK
<1>2. CASE sessions' = sessions
  BY <1>1, <1>2 DEF Live
<1>3. CASE sessions' = Append(sessions, c) /\ c \in Authorized
  <2>1. /\ Len(sessions') = Len(sessions) + 1
        /\ \A i \in 1..Len(sessions) : sessions'[i] = sessions[i]
        /\ sessions'[Len(sessions) + 1] = c
    BY <1>1, <1>3
  <2>2. QED
    BY <1>1, <1>3, <2>1 DEF Live
<1>4. QED
  BY <1>2, <1>3 DEF Accept

\* Removing a slot removes at most the connection in it.
LEMMA RemoveLive ==
    ASSUME TypeOK, NEW c \in Conns, RemoveSlot(c)
    PROVE  /\ Live' \subseteq Live
           /\ Live \subseteq Live' \cup {c}
           /\ Len(sessions') = Len(sessions) - 1
<1>1. sessions \in Seq(Conns) /\ toClose \in Seq(Nat \ {0}) /\ Len(sessions) \in Nat
  BY DEF TypeOK, ConnTypeOK, LoopTypeOK
<1>2. ToRemove \in 1..Len(sessions)
  <2>1. Len(toClose) \in Nat \ {0}
    BY <1>1, EmptySeq DEF RemoveSlot
  <2>2. QED
    BY <1>1, <2>1 DEF RemoveSlot, ToRemove
<1> DEFINE r == ToRemove
<1>3. /\ Len(sessions') = Len(sessions) - 1
      /\ \A m \in 1..(Len(sessions) - 1) :
            sessions'[m] = IF m < r THEN sessions[m] ELSE sessions[m + 1]
  BY <1>1, <1>2, RemoveAtProperties DEF RemoveSlot
<1>4. c = sessions[r]
  BY DEF RemoveSlot
<1> HIDE DEF r
<1>5. Live' \subseteq Live
  <2>1. Live' = {sessions'[i] : i \in 1..(Len(sessions) - 1)}
    BY <1>3 DEF Live
  <2>2. \A m \in 1..(Len(sessions) - 1) : sessions'[m] \in Live
    BY SMTT(30), <1>1, <1>3 DEF Live
  <2>3. QED
    BY <2>1, <2>2
<1>6. ASSUME NEW d \in Live, d # c PROVE d \in Live'
  <2>1. PICK i \in 1..Len(sessions) : d = sessions[i]
    BY DEF Live
  <2>2. i # r
    BY <1>4, <1>6, <2>1
  <2>3. r \in 1..Len(sessions)
    BY <1>2 DEF r
  <2>4. CASE i < r
    <3>1. i \in 1..(Len(sessions) - 1) /\ sessions'[i] = d
      BY <1>1, <1>3, <2>1, <2>3, <2>4
    <3>2. QED
      BY <1>3, <3>1 DEF Live
  <2>5. CASE i > r
    <3>1. i - 1 \in 1..(Len(sessions) - 1) /\ ~(i - 1 < r) /\ (i - 1) + 1 = i
      BY <1>1, <2>1, <2>3, <2>5
    <3>2. sessions'[i - 1] = d
      BY <1>3, <2>1, <3>1
    <3>3. QED
      BY <1>3, <3>1, <3>2 DEF Live
  <2>6. QED
    BY <1>1, <2>1, <2>2, <2>3, <2>4, <2>5
<1>7. QED
  BY <1>3, <1>5, <1>6

-----------------------------------------------------------------------------
(* PassShape: the poll set stays a prefix of the slot vector.              *)

\* No message changes the slot vector or moves the cursor past the poll set.
LEMMA MessagePass ==
    ASSUME TypeOK, PassShape, NEW c \in Conns, ProcessMessage(c)
    PROVE  PassShape'
<1>1. /\ phase = "Serving" /\ pc = "message"
      /\ UNCHANGED <<phase, sessions, polled>>
      /\ NextMessage \/ AbandonBatch
  BY DEF ProcessMessage, RateLimited, Hello, OpenSession, KeyDown, KeyUp, KeyRepeat,
         ReleaseAll, Ping, ServerOnlyMessage, Processing, Keep, Reply, ReplyAndClose,
         CloseNow, worldVars, pollVars
<1>2. QED
  BY <1>1 DEF PassShape, NextMessage, AbandonBatch

\* Slots are only removed after the pass is over.
LEMMA PassNext == TypeOK /\ PassShape /\ [Next]_vars => PassShape'
<1> SUFFICES ASSUME TypeOK, PassShape, [Next]_vars PROVE PassShape'
  OBVIOUS
<1> USE DEF PassShape, worldVars, pollVars, loopVars
<1>0. Len(sessions) \in Nat /\ polled \in Nat /\ cursor \in Nat
  BY DEF TypeOK, ConnTypeOK, LoopTypeOK
<1>1. ASSUME Environment \/ Ended \/ UNCHANGED vars PROVE PassShape'
  BY <1>1 DEF Environment, Signal, PeerConnects, PeerCloses, Ended, vars
<1>2. ASSUME Poll PROVE PassShape'
  BY <1>0, <1>2 DEF Poll
<1>3. ASSUME StopServing \/ PollFails \/ Shutdown \/ Exit \/ RemovePanics PROVE PassShape'
  BY <1>3 DEF StopServing, PollFails, Shutdown, Exit, RemovePanics
<1>4. ASSUME AcceptDone \/ ServiceDone \/ FlushDone \/ RemoveDone PROVE PassShape'
  BY <1>4 DEF AcceptDone, ServiceDone, FlushDone, RemoveDone
<1>5. ASSUME NEW c \in Conns, Accept(c) PROVE PassShape'
  <2>1. Len(sessions') >= Len(sessions) /\ Len(sessions') \in Nat
    BY <1>5, AcceptLive, TypeNext DEF TypeOK, ConnTypeOK, Next, Broker, ServeLoop
  <2>2. QED
    BY <1>0, <1>5, <2>1 DEF Accept
<1>6. ASSUME NEW c \in Conns, Service(c) \/ Flush(c) PROVE PassShape'
  BY <1>6 DEF Service, SkipClosing, ReadNothing, ReadEof, ReadMalformed, ReadBatch,
              Servicing, Flush, FlushSkip, FlushAll, FlushPart, FlushFails, Flushing
<1>7. ASSUME NEW c \in Conns, RemoveSlot(c) PROVE PassShape'
  BY <1>7 DEF RemoveSlot
<1>8. QED
  BY <1>1, <1>2, <1>3, <1>4, <1>5, <1>6, <1>7, MessagePass DEF Next, Broker, ServeLoop

\* The connection whose message is processed has a slot.
LEMMA ServedIsLive ==
    ASSUME TypeOK, PassShape, NEW c, Processing(c)
    PROVE  c \in Live
BY DEF TypeOK, LoopTypeOK, ConnTypeOK, PassShape, Processing, Live

-----------------------------------------------------------------------------
(* Ownership, stated over all connections instead of the live ones.        *)

KeyOwned(k) ==
    /\ k \in kernel <=> k \in ledger
    /\ k \in ledger <=> \E c \in Conns : k \in held[c]
    /\ \A c, d \in Conns : k \in held[c] /\ k \in held[d] => c = d

AllOwned == \A k \in Keys \ failed : KeyOwned(k)

KeyInv == PassShape /\ HandshakeOrder /\ KeysOnlyAfterHandshake /\ AllOwned

\* The inductive invariant implies Ownership.
LEMMA OwnershipFromKeyInv == TypeOK /\ KeyInv => Ownership
BY LiveType DEF KeyInv, KeysOnlyAfterHandshake, AllOwned, KeyOwned, Ownership

\* Releasing some keys of one session, whatever writes fail.
LEMMA ReleasePreservesOwned ==
    ASSUME TypeOK, AllOwned, NEW c \in Conns, NEW S \in SUBSET held[c],
           NEW bad \in SUBSET S, ReleaseKeys(S, bad),
           held' = [held EXCEPT ![c] = @ \ S] \/ (held' = held /\ bad = S)
    PROVE  AllOwned'
<1> SUFFICES ASSUME NEW k \in Keys \ failed' PROVE KeyOwned(k)'
  BY DEF AllOwned
<1>1. k \in Keys \ failed /\ k \notin bad /\ KeyOwned(k)
  BY DEF AllOwned, ReleaseKeys
<1>2. held \in [Conns -> SUBSET Keys]
  BY DEF TypeOK, SlotTypeOK
<1>3. CASE k \in S
  <2>1. held' = [held EXCEPT ![c] = @ \ S]
    BY <1>1, <1>3
  <2>2. \A d \in Conns : k \notin held'[d]
    BY <1>1, <1>2, <1>3, <2>1 DEF KeyOwned
  <2>3. k \notin ledger' /\ k \notin kernel'
    BY <1>1, <1>3 DEF KeyOwned, ReleaseKeys
  <2>4. QED
    BY <2>2, <2>3 DEF KeyOwned
<1>4. CASE k \notin S
  <2>1. \A d \in Conns : k \in held'[d] <=> k \in held[d]
    BY <1>2, <1>4
  <2>2. (k \in ledger' <=> k \in ledger) /\ (k \in kernel' <=> k \in kernel)
    BY <1>4 DEF ReleaseKeys
  <2>3. QED
    BY <1>1, <2>1, <2>2 DEF KeyOwned
<1>5. QED
  BY <1>3, <1>4

\* Steps that touch neither held sets nor device.
LEMMA UnchangedOwned ==
    ASSUME AllOwned, UNCHANGED <<held, deviceVars>> PROVE AllOwned'
BY DEF AllOwned, KeyOwned, deviceVars

\* A key down takes a key nobody owns, or its write fails and the key is
\* excluded from then on.
LEMMA KeyDownOwned ==
    ASSUME TypeOK, AllOwned, NEW c \in Conns, NEW k \in Keys \cup ForeignKeys, KeyDown(c, k)
    PROVE  AllOwned'
<1>0. held \in [Conns -> SUBSET Keys]
  BY DEF TypeOK, SlotTypeOK
<1>1. CASE UNCHANGED <<held, deviceVars>>
  BY <1>1, UnchangedOwned
<1>2. CASE KeyDownError(c, k) = "none" /\ WriteDown(k) /\ held' = [held EXCEPT ![c] = @ \cup {k}]
  <2>1. k \notin ledger
    BY <1>2 DEF KeyDownError, LedgerAdmits, LedgerErrorCode
  <2> SUFFICES ASSUME NEW j \in Keys \ failed' PROVE KeyOwned(j)'
    BY DEF AllOwned
  <2>2. KeyOwned(j)
    BY <1>2 DEF AllOwned, WriteDown
  <2>3. CASE j = k
    <3>1. \A d \in Conns : k \notin held[d]
      BY <2>1, <2>2, <2>3 DEF KeyOwned
    <3>2. \A d \in Conns : k \in held'[d] <=> d = c
      BY <1>0, <1>2, <3>1
    <3>3. k \in ledger' /\ k \in kernel'
      BY <1>2 DEF WriteDown
    <3>4. QED
      BY <2>3, <3>2, <3>3 DEF KeyOwned
  <2>4. CASE j # k
    <3>1. \A d \in Conns : j \in held'[d] <=> j \in held[d]
      BY <1>0, <1>2, <2>4
    <3>2. (j \in ledger' <=> j \in ledger) /\ (j \in kernel' <=> j \in kernel)
      BY <1>2, <2>4 DEF WriteDown
    <3>3. QED
      BY <2>2, <3>1, <3>2 DEF KeyOwned
  <2>5. QED
    BY <2>3, <2>4
<1>3. CASE WriteDownFails(k) /\ UNCHANGED held
  <2> SUFFICES ASSUME NEW j \in Keys \ failed' PROVE KeyOwned(j)'
    BY DEF AllOwned
  <2>1. j # k /\ KeyOwned(j)
    BY <1>3 DEF AllOwned, WriteDownFails
  <2>2. (j \in ledger' <=> j \in ledger) /\ (j \in kernel' <=> j \in kernel)
    BY <1>3, <2>1 DEF WriteDownFails
  <2>3. QED
    BY <1>3, <2>1, <2>2 DEF KeyOwned
<1>4. QED
  BY <1>1, <1>2, <1>3 DEF KeyDown

\* A key up by the owner.
LEMMA KeyUpOwned ==
    ASSUME TypeOK, AllOwned, NEW c \in Conns, NEW k \in Keys \cup ForeignKeys, KeyUp(c, k)
    PROVE  AllOwned'
<1>1. CASE UNCHANGED <<held, deviceVars>>
  BY <1>1, UnchangedOwned
<1>2. CASE /\ KeyUpError(c, k) = "none"
           /\ \/ ReleaseKeys({k}, {}) /\ held' = [held EXCEPT ![c] = @ \ {k}]
              \/ ReleaseKeys({k}, {k}) /\ UNCHANGED held
  <2>1. {k} \in SUBSET held[c]
    BY <1>2 DEF KeyUpError
  <2>2. QED
    BY <1>2, <2>1, ReleasePreservesOwned
<1>3. QED
  BY <1>1, <1>2 DEF KeyUp

\* RELEASE_ALL gives up everything the session owns.
LEMMA ReleaseAllOwned ==
    ASSUME TypeOK, AllOwned, NEW c \in Conns, ReleaseAll(c)
    PROVE  AllOwned'
<1>1. CASE UNCHANGED <<held, deviceVars>>
  BY <1>1, UnchangedOwned
<1>2. CASE /\ held' = [held EXCEPT ![c] = {}]
           /\ \E bad \in SUBSET held[c] : ReleaseKeys(held[c], bad)
  <2>1. held' = [held EXCEPT ![c] = @ \ held[c]]
    BY <1>2 DEF TypeOK, SlotTypeOK
  <2>2. QED
    BY <1>2, <2>1, ReleasePreservesOwned
<1>3. QED
  BY <1>1, <1>2 DEF ReleaseAll

\* The removal of a slot gives up everything its session owned.
LEMMA RemoveOwned ==
    ASSUME TypeOK, AllOwned, NEW c \in Conns, RemoveSlot(c)
    PROVE  AllOwned'
<1>1. held' = [held EXCEPT ![c] = @ \ held[c]]
  BY DEF RemoveSlot, DropSlot, TypeOK, SlotTypeOK
<1>2. QED
  BY <1>1, ReleasePreservesOwned DEF RemoveSlot

\* The end of run() gives up every session's keys; what remains down is failed.
LEMMA ShutdownReleases ==
    ASSUME TypeOK, KeysOnlyAfterHandshake, AllOwned, Shutdown
    PROVE  /\ AllOwned'
           /\ kernel' \subseteq failed'
           /\ held' = [c \in Conns |-> {}]
<1>1. held' = [c \in Conns |-> {}]
  BY DEF Shutdown, KeysOnlyAfterHandshake
<1>2. PICK bad \in SUBSET HeldBySessions : ReleaseKeys(HeldBySessions, bad)
  BY DEF Shutdown
<1>3. ASSUME NEW k \in Keys \ failed' PROVE k \notin ledger' /\ k \notin kernel'
  <2>1. k \in Keys \ failed /\ k \notin bad
    BY <1>2, <1>3 DEF ReleaseKeys
  <2>2. k \in ledger => k \in HeldBySessions
    BY <2>1 DEF AllOwned, KeyOwned, KeysOnlyAfterHandshake, HeldBySessions
  <2>3. k \notin ledger'
    BY <1>2, <2>2 DEF ReleaseKeys
  <2>4. k \in kernel => k \in HeldBySessions \cap ledger
    BY <2>1, <2>2 DEF AllOwned, KeyOwned
  <2>5. k \notin kernel'
    BY <1>2, <2>1, <2>4 DEF ReleaseKeys
  <2>6. QED
    BY <2>3, <2>5
<1>4. AllOwned'
  BY <1>1, <1>3 DEF AllOwned, KeyOwned
<1>5. kernel' \subseteq Keys
  BY <1>2 DEF ReleaseKeys, TypeOK, DeviceTypeOK
<1>6. QED
  BY <1>1, <1>3, <1>4, <1>5

\* The steps that touch no session flag, no held set and no device state.
QuietStep ==
    \/ Environment \/ Poll \/ StopServing \/ PollFails
    \/ AcceptDone \/ ServiceDone \/ FlushDone \/ RemoveDone \/ Ended
    \/ \E c \in Conns :
          \/ Service(c) \/ Flush(c)
          \/ RateLimited(c) \/ Ping(c) \/ ServerOnlyMessage(c)
          \/ \E k \in Keys \cup ForeignKeys : KeyRepeat(c, k)

\* What quiet steps leave alone.
LEMMA QuietStepFrame ==
    ASSUME QuietStep \/ UNCHANGED vars
    PROVE  UNCHANGED <<sessions, hello, open, held, deviceVars>>
<1> USE DEF worldVars, sessVars, slotVars, deviceVars
<1>1. CASE Environment \/ Poll \/ StopServing \/ PollFails
  BY <1>1 DEF Environment, Signal, PeerConnects, PeerCloses, Poll, StopServing, PollFails
<1>2. CASE AcceptDone \/ ServiceDone \/ FlushDone \/ RemoveDone \/ Ended \/ UNCHANGED vars
  BY <1>2 DEF AcceptDone, ServiceDone, FlushDone, RemoveDone, Ended, vars
<1>3. CASE \E c \in Conns : Service(c) \/ Flush(c)
  BY <1>3 DEF Service, SkipClosing, ReadNothing, ReadEof, ReadMalformed, ReadBatch,
              Flush, FlushSkip, FlushAll, FlushPart, FlushFails
<1>4. CASE \E c \in Conns : RateLimited(c) \/ Ping(c) \/ ServerOnlyMessage(c)
  BY <1>4 DEF RateLimited, Ping, ServerOnlyMessage
<1>5. CASE \E c \in Conns : \E k \in Keys \cup ForeignKeys : KeyRepeat(c, k)
  BY <1>5 DEF KeyRepeat
<1>6. QED
  BY <1>1, <1>2, <1>3, <1>4, <1>5 DEF QuietStep

\* The steps of Next, sorted by what they may do to the keys.
LEMMA StepCases ==
    ASSUME [Next]_vars
    PROVE  \/ QuietStep \/ UNCHANGED vars
           \/ \E c \in Conns : \E v \in BOOLEAN : Hello(c, v)
           \/ \E c \in Conns : OpenSession(c)
           \/ \E c \in Conns : \E k \in Keys \cup ForeignKeys : KeyDown(c, k)
           \/ \E c \in Conns : \E k \in Keys \cup ForeignKeys : KeyUp(c, k)
           \/ \E c \in Conns : ReleaseAll(c)
           \/ \E c \in Conns : Accept(c)
           \/ \E c \in Conns : RemoveSlot(c)
           \/ Shutdown
           \/ RemovePanics \/ Exit
<1>1. CASE \E c \in Conns : ProcessMessage(c)
  BY <1>1 DEF ProcessMessage, QuietStep
<1>2. CASE ~\E c \in Conns : ProcessMessage(c)
  BY <1>2 DEF Next, Broker, ServeLoop, QuietStep
<1>3. QED
  BY <1>1, <1>2

\* Every step preserves ownership.
LEMMA OwnedNext ==
    ASSUME TypeOK, KeyInv, [Next]_vars PROVE AllOwned'
<1>0. AllOwned /\ KeysOnlyAfterHandshake
  BY DEF KeyInv
<1>1. CASE QuietStep \/ UNCHANGED vars
  BY <1>0, <1>1, QuietStepFrame, UnchangedOwned
<1>2. CASE \E c \in Conns : OpenSession(c) \/ Accept(c) \/ \E v \in BOOLEAN : Hello(c, v)
  BY <1>0, <1>2, UnchangedOwned DEF OpenSession, Accept, Hello, slotVars, sessVars
<1>3. CASE \E c \in Conns : \E k \in Keys \cup ForeignKeys : KeyDown(c, k) \/ KeyUp(c, k)
  BY <1>0, <1>3, KeyDownOwned, KeyUpOwned
<1>4. CASE \E c \in Conns : ReleaseAll(c) \/ RemoveSlot(c)
  BY <1>0, <1>4, ReleaseAllOwned, RemoveOwned
<1>5. CASE Shutdown
  BY <1>0, <1>5, ShutdownReleases
<1>6. CASE RemovePanics \/ Exit
  BY <1>6 DEF RemovePanics, Exit, ProcessEnds, AllOwned, KeyOwned
<1>7. QED
  BY <1>1, <1>2, <1>3, <1>4, <1>5, <1>6, StepCases

\* Every step preserves the handshake order and that only opened sessions own keys.
LEMMA HandshakeNext ==
    ASSUME TypeOK, KeyInv, [Next]_vars
    PROVE  HandshakeOrder' /\ KeysOnlyAfterHandshake'
<1>0. HandshakeOrder /\ KeysOnlyAfterHandshake /\ PassShape
  BY DEF KeyInv
<1>1. /\ held \in [Conns -> SUBSET Keys]
      /\ hello \in [Conns -> BOOLEAN] /\ open \in [Conns -> BOOLEAN]
  BY DEF TypeOK, SlotTypeOK
<1>2. CASE QuietStep \/ UNCHANGED vars
  <2>1. UNCHANGED <<sessions, hello, open, held>>
    BY <1>2, QuietStepFrame
  <2>2. QED
    BY <1>0, <2>1 DEF HandshakeOrder, KeysOnlyAfterHandshake, Live
<1>3. CASE \E c \in Conns : \E v \in BOOLEAN : Hello(c, v)
  <2>1. PICK c \in Conns : \E v \in BOOLEAN : Hello(c, v)
    BY <1>3
  <2>2. /\ UNCHANGED <<sessions, open, held>>
        /\ \A d \in Conns : hello[d] => hello'[d]
    BY <1>1, <2>1 DEF Hello, worldVars
  <2>3. QED
    BY <1>0, <2>2 DEF HandshakeOrder, KeysOnlyAfterHandshake, Live
<1>4. CASE \E c \in Conns : OpenSession(c)
  <2>1. PICK c \in Conns : OpenSession(c)
    BY <1>4
  <2>2. UNCHANGED <<sessions, hello, held>>
    BY <2>1 DEF OpenSession, worldVars
  <2>3. \A d \in Conns : (open[d] => open'[d]) /\ (open'[d] => open[d] \/ hello[d])
    BY <1>1, <2>1 DEF OpenSession
  <2>4. QED
    BY <1>0, <2>2, <2>3 DEF HandshakeOrder, KeysOnlyAfterHandshake, Live
<1>5. ASSUME NEW c \in Conns, NEW k, KeyDown(c, k) \/ KeyUp(c, k) \/ ReleaseAll(c)
      PROVE  HandshakeOrder' /\ KeysOnlyAfterHandshake'
  <2>2. UNCHANGED <<sessions, hello, open>>
    BY <1>5 DEF KeyDown, KeyUp, ReleaseAll, worldVars
  <2>3. c \in Live
    BY <1>0, <1>5, ServedIsLive DEF KeyDown, KeyUp, ReleaseAll
  <2>4. \A d \in Conns : held'[d] # {} => held[d] # {} \/ (d = c /\ open[c])
    BY <1>1, <1>5 DEF KeyDown, KeyUp, ReleaseAll
  <2>5. QED
    BY <1>0, <2>2, <2>3, <2>4 DEF HandshakeOrder, KeysOnlyAfterHandshake, Live
<1>6. CASE \E c \in Conns : Accept(c)
  <2>1. PICK c \in Conns : Accept(c)
    BY <1>6
  <2>2. UNCHANGED <<hello, open, held>>
    BY <2>1 DEF Accept, slotVars, sessVars
  <2>3. QED
    BY <1>0, <2>1, <2>2, AcceptLive DEF HandshakeOrder, KeysOnlyAfterHandshake
<1>7. CASE \E c \in Conns : RemoveSlot(c)
  <2>1. PICK c \in Conns : RemoveSlot(c)
    BY <1>7
  <2>2. /\ held'[c] = {} /\ ~open'[c]
        /\ \A d \in Conns \ {c} : held'[d] = held[d] /\ open'[d] = open[d] /\ hello'[d] = hello[d]
    BY <1>1, <2>1 DEF RemoveSlot, DropSlot
  <2>3. QED
    BY <1>0, <2>1, <2>2, RemoveLive DEF HandshakeOrder, KeysOnlyAfterHandshake
<1>8. CASE Shutdown
  <2>1. held' = [c \in Conns |-> {}]
    BY <1>0, <1>8, ShutdownReleases DEF KeyInv
  <2>2. QED
    BY <1>0, <1>8, <2>1 DEF HandshakeOrder, KeysOnlyAfterHandshake, Shutdown, Live
<1>9. CASE RemovePanics \/ Exit
  <2>1. ProcessEnds
    BY <1>9 DEF RemovePanics, Exit
  <2>2. Live' = {}
    BY <2>1 DEF ProcessEnds, Live
  <2>3. QED
    BY <2>1, <2>2 DEF HandshakeOrder, KeysOnlyAfterHandshake, ProcessEnds
<1>10. QED
  BY <1>2, <1>3, <1>4, <1>5, <1>6, <1>7, <1>8, <1>9, StepCases

\* The inductive invariant holds initially.
LEMMA KeyInvInit == Init => KeyInv
BY DEF Init, KeyInv, PassShape, HandshakeOrder, KeysOnlyAfterHandshake, AllOwned,
       KeyOwned, Live

\* The inductive invariant is preserved.
LEMMA KeyInvNext == TypeOK /\ KeyInv /\ [Next]_vars => KeyInv'
BY PassNext, OwnedNext, HandshakeNext DEF KeyInv

\* The inductive invariant holds always.
LEMMA KeyInvCorrect == Spec => []KeyInv
BY KeyInvInit, KeyInvNext, TypeCorrect, PTL DEF Spec

\* For any number of clients and keys, whatever the peers send and whichever
\* writes fail: a key with no failed write is down exactly when the ledger
\* holds it, exactly when one live session owns it.
THEOREM OwnershipCorrect == Spec => []Ownership
BY KeyInvCorrect, TypeCorrect, OwnershipFromKeyInv, PTL

\* Only authorized peers past HELLO and OPEN_SESSION ever own keys.
THEOREM HandshakeCorrect == Spec => []KeysOnlyAfterHandshake
<1>1. KeyInv => KeysOnlyAfterHandshake
  BY DEF KeyInv
<1>2. QED
  BY <1>1, KeyInvCorrect, PTL

-----------------------------------------------------------------------------
(* Shutdown.                                                               *)

\* The flushing phase is entered only by Shutdown and the device is not used in it.
LEMMA CleanShutdownNext ==
    ASSUME TypeOK, KeyInv, CleanShutdown, [Next]_vars PROVE CleanShutdown'
<1>1. CASE Shutdown
  BY <1>1, ShutdownReleases DEF KeyInv, CleanShutdown
<1>2. CASE RemovePanics \/ Exit
  BY <1>2 DEF RemovePanics, Exit, ProcessEnds, CleanShutdown
<1>3. CASE QuietStep \/ UNCHANGED vars
  <2>1. UNCHANGED deviceVars
    BY <1>3, QuietStepFrame
  <2>2. phase' = "Flushing" => phase = "Flushing"
    BY <1>3 DEF QuietStep, Environment, Signal, PeerConnects, PeerCloses, Poll, StopServing, PollFails,
       AcceptDone, ServiceDone, FlushDone, RemoveDone, Ended, vars, Service, SkipClosing,
       ReadNothing, ReadEof, ReadMalformed, ReadBatch, Flush, FlushSkip, FlushAll, FlushPart,
       FlushFails, RateLimited, Ping, ServerOnlyMessage, KeyRepeat, worldVars
  <2>3. QED
    BY <2>1, <2>2 DEF CleanShutdown, deviceVars
<1>4. CASE \E c \in Conns :
              \/ \E v \in BOOLEAN : Hello(c, v)
              \/ \E k \in Keys \cup ForeignKeys : KeyDown(c, k) \/ KeyUp(c, k)
              \/ OpenSession(c) \/ ReleaseAll(c) \/ Accept(c) \/ RemoveSlot(c)
  <2>1. phase' = "Serving"
    BY <1>4 DEF Hello, KeyDown, KeyUp, OpenSession, ReleaseAll, Accept, RemoveSlot,
                Processing, worldVars
  <2>2. QED
    BY <2>1 DEF CleanShutdown
<1>5. QED
  BY <1>1, <1>2, <1>3, <1>4, StepCases

\* Once run() has released its sessions' keys nothing is left down except keys
\* a failed write left behind.
THEOREM ShutdownCorrect == Spec => []CleanShutdown
<1>1. Init => CleanShutdown
  BY DEF Init, CleanShutdown
<1>2. TypeOK /\ KeyInv /\ CleanShutdown /\ [Next]_vars => CleanShutdown'
  BY CleanShutdownNext
<1>3. QED
  BY <1>1, <1>2, TypeCorrect, KeyInvCorrect, PTL DEF Spec

-----------------------------------------------------------------------------
(* The limits.                                                             *)

\* Only an admitted key down makes the ledger grow.
LEMMA LedgerLimit ==
    ASSUME TypeOK, KeyInv, Cardinality(ledger) <= MaxHeldKeys, [Next]_vars
    PROVE  Cardinality(ledger') <= MaxHeldKeys
<1>0. IsFiniteSet(ledger) /\ Cardinality(ledger) \in Nat
  BY BrokerAssumption, FS_Subset, FS_CardinalityType DEF TypeOK, DeviceTypeOK
<1>1. ASSUME ledger' \subseteq ledger PROVE Cardinality(ledger') <= MaxHeldKeys
  <2>1. Cardinality(ledger') <= Cardinality(ledger) /\ Cardinality(ledger') \in Nat
    BY <1>0, <1>1, FS_Subset, FS_CardinalityType
  <2>2. QED
    BY <1>0, <2>1, BrokerAssumption
<1>2. CASE \E c \in Conns : \E k \in Keys \cup ForeignKeys : KeyDown(c, k)
  <2>1. PICK c \in Conns : \E k \in Keys \cup ForeignKeys : KeyDown(c, k)
    BY <1>2
  <2>2. PICK k \in Keys \cup ForeignKeys : KeyDown(c, k)
    BY <2>1
  <2>3. CASE UNCHANGED deviceVars
    BY <1>1, <2>3 DEF deviceVars
  <2>4. CASE ledger' = ledger \cup {k} /\ KeyDownError(c, k) = "none"
    <3>1. k \notin ledger /\ Cardinality(ledger) < MaxHeldKeys
      BY <2>4 DEF KeyDownError, LedgerAdmits, LedgerErrorCode
    <3>2. Cardinality(ledger') = Cardinality(ledger) + 1
      BY <1>0, <2>4, <3>1, FS_AddElement
    <3>3. QED
      BY <1>0, <3>1, <3>2, BrokerAssumption
  <2>5. QED
    BY <2>2, <2>3, <2>4 DEF KeyDown, WriteDown, WriteDownFails
<1>3. CASE QuietStep \/ UNCHANGED vars
  BY <1>1, <1>3, QuietStepFrame DEF deviceVars
<1>4. CASE \E c \in Conns :
              \/ \E v \in BOOLEAN : Hello(c, v)
              \/ \E k \in Keys \cup ForeignKeys : KeyUp(c, k)
              \/ OpenSession(c) \/ ReleaseAll(c) \/ Accept(c) \/ RemoveSlot(c)
  BY <1>1, <1>4 DEF Hello, KeyUp, OpenSession, ReleaseAll, Accept, RemoveSlot,
                    ReleaseKeys, deviceVars
<1>5. CASE Shutdown \/ RemovePanics \/ Exit
  BY <1>1, <1>5 DEF Shutdown, RemovePanics, Exit, ProcessEnds, ReleaseKeys
<1>6. QED
  BY <1>2, <1>3, <1>4, <1>5, StepCases

\* Only accept_pending adds slots, and only below the limit.
LEMMA SessionLimit ==
    ASSUME TypeOK, Len(sessions) <= MaxConnections, [Next]_vars
    PROVE  Len(sessions') <= MaxConnections
<1>0. sessions \in Seq(Conns) /\ Len(sessions) \in Nat
  BY DEF TypeOK, ConnTypeOK
<1>1. CASE QuietStep \/ UNCHANGED vars
  BY <1>1, QuietStepFrame
<1>2. CASE \E c \in Conns : Accept(c)
  <2>1. PICK c \in Conns : Accept(c)
    BY <1>2
  <2>2. CASE sessions' = sessions
    BY <2>2
  <2>3. CASE Len(sessions) < MaxConnections /\ sessions' = Append(sessions, c)
    <3>1. Len(sessions') = Len(sessions) + 1
      BY <1>0, <2>3
    <3>2. QED
      BY <1>0, <2>3, <3>1, BrokerAssumption
  <2>4. QED
    BY <2>1, <2>2, <2>3 DEF Accept, HasRoom
<1>3. CASE \E c \in Conns : RemoveSlot(c)
  BY <1>0, <1>3, RemoveLive, BrokerAssumption
<1>4. CASE RemovePanics \/ Exit
  <2>1. Len(sessions') = 0
    BY <1>4 DEF RemovePanics, Exit, ProcessEnds
  <2>2. QED
    BY <2>1, BrokerAssumption
<1>5. CASE \/ \E c \in Conns :
                \/ \E v \in BOOLEAN : Hello(c, v)
                \/ \E k \in Keys \cup ForeignKeys : KeyDown(c, k) \/ KeyUp(c, k)
                \/ OpenSession(c) \/ ReleaseAll(c)
           \/ Shutdown
  BY <1>5 DEF Hello, KeyDown, KeyUp, OpenSession, ReleaseAll, Shutdown, worldVars
<1>6. QED
  BY <1>1, <1>2, <1>3, <1>4, <1>5, StepCases

OutLimit == \A c \in Conns : Len(out[c]) <= MaxPendingOut

\* Only queue_reply adds frames, and only below the cap.
LEMMA QueueLimit ==
    ASSUME TypeOK, OutLimit, [Next]_vars PROVE OutLimit'
<1>0. out \in [Conns -> Seq(Frames)]
  BY DEF TypeOK, SlotTypeOK
<1>1. ASSUME UNCHANGED out PROVE OutLimit'
  BY <1>1 DEF OutLimit
<1>2. ASSUME NEW c \in Conns, NEW q \in Seq(Frames), Len(q) <= MaxPendingOut,
             out' = [out EXCEPT ![c] = q]
      PROVE  OutLimit'
  BY <1>0, <1>2 DEF OutLimit
<1>3. ASSUME NEW c \in Conns, NEW frame \in Frames, QueueFits(c),
             out' = [out EXCEPT ![c] = Append(@, frame)]
      PROVE  OutLimit'
  <2>1. /\ Append(out[c], frame) \in Seq(Frames)
        /\ Len(Append(out[c], frame)) = Len(out[c]) + 1
        /\ Len(out[c]) \in Nat
    BY <1>0
  <2>2. Len(Append(out[c], frame)) <= MaxPendingOut
    BY <1>3, <2>1, BrokerAssumption DEF QueueFits
  <2>3. QED
    BY <1>2, <1>3, <2>1, <2>2
<1>4. ASSUME NEW c \in Conns, ProcessMessage(c) PROVE OutLimit'
  <2>1. \/ UNCHANGED out
        \/ \E frame : /\ QueueFits(c)
                      /\ out' = [out EXCEPT ![c] = Append(@, frame)]
    BY <1>4 DEF ProcessMessage, RateLimited, Hello, OpenSession, KeyDown, KeyUp, KeyRepeat,
                ReleaseAll, Ping, ServerOnlyMessage, Keep, Reply, ReplyAndClose, CloseNow
  <2>2. ASSUME NEW frame, QueueFits(c), out' = [out EXCEPT ![c] = Append(@, frame)]
        PROVE  OutLimit'
    <3>1. out'[c] = Append(out[c], frame) /\ out'[c] \in Seq(Frames)
      BY <1>0, <1>4, <2>2, MessageType DEF TypeOK, SlotTypeOK
    <3>2. Len(out'[c]) = Len(out[c]) + 1 /\ Len(out[c]) \in Nat
      BY <1>0, <3>1
    <3>3. QED
      BY <1>0, <2>2, <3>1, <3>2, BrokerAssumption DEF OutLimit, QueueFits
  <2>3. QED
    BY <1>1, <2>1, <2>2
<1>5. ASSUME NEW c \in Conns, Flush(c) PROVE OutLimit'
  <2>1. CASE FlushSkip(c) \/ FlushFails(c)
    BY <1>1, <2>1 DEF FlushSkip, FlushFails, slotVars
  <2>2. CASE FlushAll(c)
    <3>1. << >> \in Seq(Frames) /\ Len(<< >>) <= MaxPendingOut
      BY BrokerAssumption
    <3>2. QED
      BY <1>2, <2>2, <3>1 DEF FlushAll
  <2>3. CASE FlushPart(c)
    <3>1. PICK n \in 0..(Len(out[c]) - 1) :
             out' = [out EXCEPT ![c] = SubSeq(@, n + 1, Len(@))]
      BY <2>3 DEF FlushPart
    <3>2. /\ SubSeq(out[c], n + 1, Len(out[c])) \in Seq(Frames)
          /\ Len(SubSeq(out[c], n + 1, Len(out[c]))) <= Len(out[c])
          /\ Len(SubSeq(out[c], n + 1, Len(out[c]))) \in Nat
          /\ Len(out[c]) \in Nat
      BY <1>0, <3>1
    <3>3. Len(SubSeq(out[c], n + 1, Len(out[c]))) <= MaxPendingOut
      BY <3>2, BrokerAssumption DEF OutLimit
    <3>4. QED
      BY <1>2, <3>1, <3>2, <3>3
  <2>4. QED
    BY <1>5, <2>1, <2>2, <2>3 DEF Flush
<1>6. ASSUME NEW c \in Conns, RemoveSlot(c) PROVE OutLimit'
  <2>1. << >> \in Seq(Frames) /\ Len(<< >>) <= MaxPendingOut
    BY BrokerAssumption
  <2>2. QED
    BY <1>2, <1>6, <2>1 DEF RemoveSlot, DropSlot
<1>7. ASSUME RemovePanics \/ Exit PROVE OutLimit'
  <2>1. out' = [c \in Conns |-> << >>]
    BY <1>7 DEF RemovePanics, Exit, ProcessEnds
  <2>2. QED
    BY <2>1, BrokerAssumption DEF OutLimit
<1>8. ASSUME Environment \/ Poll \/ StopServing \/ PollFails \/ AcceptDone \/ ServiceDone \/ FlushDone
             \/ RemoveDone \/ Ended \/ Shutdown \/ UNCHANGED vars
             \/ \E c \in Conns : Accept(c) \/ Service(c)
      PROVE  OutLimit'
  BY <1>1, <1>8 DEF Environment, Signal, PeerConnects, PeerCloses, Poll, StopServing, PollFails,
     AcceptDone, ServiceDone, FlushDone, RemoveDone, Ended, Shutdown, Accept, Service,
     SkipClosing, ReadNothing, ReadEof, ReadMalformed, ReadBatch, vars, slotVars
<1>9. QED
  BY <1>4, <1>5, <1>6, <1>7, <1>8 DEF Next, Broker, ServeLoop

\* The connection limit, the reply-queue cap and the ledger's cap hold together
\* for every value of the limits.
THEOREM LimitsCorrect == Spec => []Limits
<1>1. Init => Limits
  BY BrokerAssumption, FS_EmptySet DEF Init, Limits
<1>2. TypeOK /\ KeyInv /\ Limits /\ [Next]_vars => Limits'
  BY LedgerLimit, SessionLimit, QueueLimit DEF Limits, OutLimit
<1>3. QED
  BY <1>1, <1>2, TypeCorrect, KeyInvCorrect, PTL DEF Spec
-----------------------------------------------------------------------------
(* With the default limit of one connection the removal loop is safe.      *)

\* During a pass the only slot that can be marked is the first one.
CloseShape == phase = "Serving" => toClose = <<>> \/ (toClose = <<1>> /\ Len(sessions) >= 1)

\* Marking the slot being served or flushed, when there is one slot.
LEMMA MarkFirst ==
    ASSUME TypeOK, MaxConnections = 1, Limits, CloseShape, phase = "Serving",
           cursor <= polled, polled <= Len(sessions),
           NEW c \in Conns, NEW why, Mark(c, cursor, why), UNCHANGED sessions
    PROVE  CloseShape'
<1>1. cursor = 1 /\ Len(sessions) >= 1
  BY DEF TypeOK, LoopTypeOK, ConnTypeOK, Limits
<1>2. CASE toClose = <<>>
  <2>1. toClose' = Append(<<>>, 1)
    BY <1>1, <1>2 DEF Mark, Range
  <2>2. QED
    BY <1>1, <2>1 DEF CloseShape
<1>3. CASE toClose = <<1>>
  <2>1. 1 \in Range(<<1>>)
    BY DEF Range
  <2>2. toClose' = toClose
    BY <1>1, <1>3, <2>1 DEF Mark
  <2>3. QED
    BY <1>1, <1>3, <2>2 DEF CloseShape
<1>4. QED
  BY <1>2, <1>3 DEF CloseShape

\* Every step keeps CloseShape, and no step panics in a state that has it.
LEMMA CloseNext ==
    ASSUME TypeOK, PassShape, MaxConnections = 1, Limits, CloseShape, NeverPanics, [Next]_vars
    PROVE  CloseShape' /\ NeverPanics'
<1> USE DEF worldVars, pollVars, loopVars
<1>0. sessions \in Seq(Conns) /\ Len(sessions) \in Nat
  BY DEF TypeOK, ConnTypeOK
<1>1. ASSUME Environment \/ Ended \/ UNCHANGED vars PROVE CloseShape' /\ NeverPanics'
  BY <1>1 DEF Environment, Signal, PeerConnects, PeerCloses, Ended, vars, CloseShape, NeverPanics
<1>2. ASSUME Poll \/ AcceptDone \/ ServiceDone \/ FlushDone \/ RemoveDone
      PROVE  CloseShape' /\ NeverPanics'
  BY <1>2 DEF Poll, AcceptDone, ServiceDone, FlushDone, RemoveDone, CloseShape, NeverPanics
<1>3. ASSUME StopServing \/ PollFails \/ Shutdown \/ Exit PROVE CloseShape' /\ NeverPanics'
  BY <1>3 DEF StopServing, PollFails, Shutdown, Exit, CloseShape, NeverPanics
<1>4. ASSUME NEW c \in Conns, Accept(c) PROVE CloseShape' /\ NeverPanics'
  <2>1. Len(sessions') >= Len(sessions) /\ Len(sessions') \in Nat
    BY <1>4, AcceptLive, TypeNext DEF TypeOK, ConnTypeOK, Next, Broker, ServeLoop
  <2>2. QED
    BY <1>0, <1>4, <2>1 DEF Accept, CloseShape, NeverPanics
<1>5. ASSUME NEW c \in Conns, Service(c) \/ Flush(c) PROVE CloseShape' /\ NeverPanics'
  <2>1. /\ phase = "Serving" /\ cursor <= polled /\ polled <= Len(sessions)
        /\ UNCHANGED <<phase, sessions>>
        /\ UNCHANGED toClose \/ \E why : Mark(c, cursor, why)
    BY <1>5 DEF Service, SkipClosing, ReadNothing, ReadEof, ReadMalformed, ReadBatch,
                Servicing, Flush, FlushSkip, FlushAll, FlushPart, FlushFails, Flushing, PassShape
  <2>2. CloseShape'
    BY <2>1, MarkFirst DEF CloseShape
  <2>3. QED
    BY <2>1, <2>2 DEF NeverPanics
<1>6. ASSUME NEW c \in Conns, ProcessMessage(c) PROVE CloseShape' /\ NeverPanics'
  <2>1. /\ phase = "Serving" /\ pc = "message"
        /\ UNCHANGED <<phase, sessions>>
        /\ UNCHANGED toClose \/ \E why : Mark(c, cursor, why)
    BY <1>6 DEF ProcessMessage, RateLimited, Hello, OpenSession, KeyDown, KeyUp, KeyRepeat,
                ReleaseAll, Ping, ServerOnlyMessage, Processing, Keep, Reply, ReplyAndClose, CloseNow
  <2>2. cursor <= polled /\ polled <= Len(sessions)
    BY <2>1 DEF PassShape
  <2>3. CloseShape'
    BY <2>1, <2>2, MarkFirst DEF CloseShape
  <2>4. QED
    BY <2>1, <2>3 DEF NeverPanics
<1>7. ASSUME NEW c \in Conns, RemoveSlot(c) PROVE CloseShape' /\ NeverPanics'
  <2>1. toClose = <<1>> /\ phase' = "Serving" /\ toClose' = SubSeq(toClose, 1, Len(toClose) - 1)
    BY <1>7 DEF RemoveSlot, CloseShape
  <2>2. Len(toClose') = 0 /\ toClose' \in Seq(Nat)
    BY <2>1
  <2>3. QED
    BY <2>1, <2>2, EmptySeq DEF CloseShape, NeverPanics
<1>8. ~RemovePanics
  <2> SUFFICES ASSUME RemovePanics PROVE FALSE
    OBVIOUS
  <2>1. toClose = <<1>> /\ Len(sessions) >= 1
    BY DEF RemovePanics, CloseShape
  <2>2. QED
    BY <1>0, <2>1 DEF RemovePanics, ToRemove
<1>9. QED
  BY <1>1, <1>2, <1>3, <1>4, <1>5, <1>6, <1>7, <1>8 DEF Next, Broker, ServeLoop

\* With max_connections = 1, the default of the configuration, the removal loop
\* never indexes past the end of the slot vector (with 2 it does).
THEOREM DefaultNeverPanics == MaxConnections = 1 => (Spec => []NeverPanics)
<1> SUFFICES ASSUME MaxConnections = 1 PROVE Spec => []NeverPanics
  OBVIOUS
<1>1. Init => CloseShape /\ NeverPanics
  BY DEF Init, CloseShape, NeverPanics
<1>2. TypeOK /\ KeyInv /\ Limits /\ CloseShape /\ NeverPanics /\ [Next]_vars
        => CloseShape' /\ NeverPanics'
  BY CloseNext DEF KeyInv
<1>3. QED
  BY <1>1, <1>2, TypeCorrect, KeyInvCorrect, LimitsCorrect, PTL DEF Spec

-----------------------------------------------------------------------------
(* Without write faults the broker implements KeyOwnership.                *)

NoFailure == failed = {}

\* No key is ever marked failed when no write can fail.
LEMMA NothingFails == ~WriteFaults => (Spec => []NoFailure)
<1> SUFFICES ASSUME ~WriteFaults PROVE Spec => []NoFailure
  OBVIOUS
<1>1. Init => NoFailure
  BY DEF Init, NoFailure
<1>2. NoFailure /\ [Next]_vars => NoFailure'
  <2> SUFFICES ASSUME failed = {}, [Next]_vars PROVE failed' = {}
    BY DEF NoFailure
  <2>1. CASE QuietStep \/ UNCHANGED vars
    BY <2>1, QuietStepFrame DEF deviceVars
  <2>2. CASE \E c \in Conns :
                \/ \E v \in BOOLEAN : Hello(c, v)
                \/ \E k \in Keys \cup ForeignKeys : KeyDown(c, k) \/ KeyUp(c, k)
                \/ OpenSession(c) \/ ReleaseAll(c) \/ Accept(c) \/ RemoveSlot(c)
    BY <2>2 DEF Hello, KeyDown, KeyUp, OpenSession, ReleaseAll, Accept, RemoveSlot,
                      ReleaseKeys, WriteDown, WriteDownFails, deviceVars
  <2>3. CASE Shutdown \/ RemovePanics \/ Exit
    BY <2>3 DEF Shutdown, RemovePanics, Exit, ProcessEnds, ReleaseKeys
  <2>4. QED
    BY <2>1, <2>2, <2>3, StepCases
<1>3. QED
  BY <1>1, <1>2, PTL DEF Spec

\* Releasing keys one session owns, with no failing write, is a Release step.
LEMMA ReleaseIsRelease ==
    ASSUME TypeOK, AllOwned, failed = {}, ~WriteFaults, NEW c \in Conns,
           NEW S \in SUBSET held[c], NEW bad, ReleaseKeys(S, bad),
           held' = [held EXCEPT ![c] = @ \ S]
    PROVE  Promise!Next
<1>1. S \subseteq Keys /\ S \subseteq ledger
  BY DEF TypeOK, SlotTypeOK, AllOwned, KeyOwned
<1>2. kernel' = kernel \ S
  BY <1>1 DEF ReleaseKeys
<1>3. Promise!Release(c, S)
  BY <1>2 DEF Promise!Release
<1>4. QED
  BY <1>1, <1>3 DEF Promise!Next

\* Every step of the broker is a step of KeyOwnership or leaves it unchanged.
LEMMA OwnershipStep ==
    ASSUME TypeOK, KeyInv, failed = {}, ~WriteFaults, [Next]_vars
    PROVE  [Promise!Next]_(Promise!vars)
<1>0. AllOwned /\ KeysOnlyAfterHandshake /\ held \in [Conns -> SUBSET Keys]
  BY DEF KeyInv, TypeOK, SlotTypeOK
<1>1. ASSUME UNCHANGED <<held, kernel>> PROVE [Promise!Next]_(Promise!vars)
  BY <1>1 DEF Promise!vars
<1>2. CASE QuietStep \/ UNCHANGED vars
  BY <1>1, <1>2, QuietStepFrame DEF deviceVars
<1>3. CASE \E c \in Conns : OpenSession(c) \/ Accept(c) \/ \E v \in BOOLEAN : Hello(c, v)
  BY <1>1, <1>3 DEF OpenSession, Accept, Hello, slotVars, sessVars, deviceVars
<1>4. ASSUME NEW c \in Conns, NEW k \in Keys \cup ForeignKeys, KeyDown(c, k)
      PROVE  [Promise!Next]_(Promise!vars)
  <2>1. CASE UNCHANGED <<held, deviceVars>>
    BY <1>1, <2>1 DEF deviceVars
  <2>2. CASE KeyDownError(c, k) = "none" /\ WriteDown(k) /\ held' = [held EXCEPT ![c] = @ \cup {k}]
    <3>1. k \in Keys /\ k \notin ledger
      BY <2>2 DEF KeyDownError, LedgerAdmits, LedgerErrorCode
    <3>2. \A d \in Conns : k \notin held[d]
      BY <1>0, <3>1 DEF AllOwned, KeyOwned
    <3>3. Promise!Press(c, k)
      BY <2>2, <3>2 DEF Promise!Press, WriteDown
    <3>4. QED
      BY <3>1, <3>3 DEF Promise!Next
  <2>3. QED
    BY <1>4, <2>1, <2>2 DEF KeyDown, WriteDownFails
<1>5. ASSUME NEW c \in Conns, NEW k \in Keys \cup ForeignKeys, KeyUp(c, k)
      PROVE  [Promise!Next]_(Promise!vars)
  <2>1. CASE UNCHANGED <<held, deviceVars>>
    BY <1>1, <2>1 DEF deviceVars
  <2>2. CASE KeyUpError(c, k) = "none" /\ ReleaseKeys({k}, {}) /\ held' = [held EXCEPT ![c] = @ \ {k}]
    <3>1. {k} \in SUBSET held[c]
      BY <2>2 DEF KeyUpError
    <3>2. QED
      BY <1>0, <2>2, <3>1, ReleaseIsRelease
  <2>3. ~ReleaseKeys({k}, {k})
    BY DEF ReleaseKeys
  <2>4. QED
    BY <1>5, <2>1, <2>2, <2>3 DEF KeyUp
<1>6. ASSUME NEW c \in Conns, ReleaseAll(c) \/ RemoveSlot(c)
      PROVE  [Promise!Next]_(Promise!vars)
  <2>1. CASE UNCHANGED <<held, deviceVars>>
    BY <1>1, <2>1 DEF deviceVars
  <2>2. ASSUME NEW bad \in SUBSET held[c], ReleaseKeys(held[c], bad), held' = [held EXCEPT ![c] = {}]
        PROVE  [Promise!Next]_(Promise!vars)
    <3>1. held' = [held EXCEPT ![c] = @ \ held[c]]
      BY <1>0, <2>2
    <3>2. QED
      BY <1>0, <2>2, <3>1, ReleaseIsRelease
  <2>3. QED
    BY <1>6, <2>1, <2>2 DEF ReleaseAll, RemoveSlot, DropSlot
<1>7. CASE Shutdown \/ RemovePanics \/ Exit
  <2>1. held' = [c \in Conns |-> {}] /\ kernel' = {}
    <3>1. CASE Shutdown
      <4>1. failed' = {}
        BY <3>1 DEF Shutdown, ReleaseKeys
      <4>2. QED
        BY <1>0, <3>1, <4>1, ShutdownReleases
    <3>2. CASE RemovePanics \/ Exit
      BY <3>2 DEF RemovePanics, Exit, ProcessEnds
    <3>3. QED
      BY <1>7, <3>1, <3>2
  <2>2. QED
    BY <2>1 DEF Promise!Next, Promise!ReleaseEverything
<1>8. QED
  BY <1>2, <1>3, <1>4, <1>5, <1>6, <1>7, StepCases

\* Without write faults, for any number of clients and keys, the broker keeps
\* the promise of KeyOwnership: a key goes down only while no session owns it,
\* and comes up only with its owner's release, its owner's removal, or the end.
THEOREM BrokerKeepsPromise == ~WriteFaults => (Spec => ImplementsKeyOwnership)
<1> SUFFICES ASSUME ~WriteFaults PROVE Spec => ImplementsKeyOwnership
  OBVIOUS
<1>1. Init => Promise!Init
  BY DEF Init, Promise!Init
<1>2. TypeOK /\ KeyInv /\ NoFailure /\ [Next]_vars => [Promise!Next]_(Promise!vars)
  BY OwnershipStep DEF NoFailure
<1>3. Spec => []NoFailure
  BY NothingFails
<1>4. QED
  BY <1>1, <1>2, <1>3, TypeCorrect, KeyInvCorrect, PTL DEF Spec, ImplementsKeyOwnership, Promise!Spec
-----------------------------------------------------------------------------
(* Slots and marks: what a closing session may still do, and which slots   *)
(* the removal loop takes.                                                 *)

\* A connection has at most one slot, and none while it waits in the backlog.
SlotsDistinct ==
    /\ \A m, n \in 1..Len(sessions) : sessions[m] = sessions[n] => m = n
    /\ backlog \cap Live = {}
    /\ \A c \in backlog \cup Live : peer[c] # "idle"

\* A slot that is removed leaves no second slot of its connection behind.
LEMMA RemoveDistinct ==
    ASSUME TypeOK, SlotsDistinct, NEW c \in Conns, RemoveSlot(c)
    PROVE  /\ ToRemove \in 1..Len(sessions)
           /\ Len(sessions') = Len(sessions) - 1
           /\ \A m \in 1..(Len(sessions) - 1) :
                 sessions'[m] = IF m < ToRemove THEN sessions[m] ELSE sessions[m + 1]
           /\ \A m, n \in 1..Len(sessions') : sessions'[m] = sessions'[n] => m = n
           /\ c \notin Live'
<1>1. sessions \in Seq(Conns) /\ toClose \in Seq(Nat \ {0}) /\ Len(sessions) \in Nat
  BY DEF TypeOK, ConnTypeOK, LoopTypeOK
<1>2. ToRemove \in 1..Len(sessions)
  <2>1. Len(toClose) \in Nat \ {0}
    BY <1>1, EmptySeq DEF RemoveSlot
  <2>2. QED
    BY <1>1, <2>1 DEF RemoveSlot, ToRemove
<1> DEFINE r == ToRemove
<1>3. /\ Len(sessions') = Len(sessions) - 1
      /\ \A m \in 1..(Len(sessions) - 1) :
            sessions'[m] = IF m < r THEN sessions[m] ELSE sessions[m + 1]
  BY <1>1, <1>2, RemoveAtProperties DEF RemoveSlot
<1>4. c = sessions[r] /\ r \in 1..Len(sessions)
  BY <1>2 DEF RemoveSlot
<1> HIDE DEF r
<1> DEFINE old(m) == IF m < r THEN m ELSE m + 1
<1>5. \A m \in 1..(Len(sessions) - 1) :
         old(m) \in 1..Len(sessions) /\ old(m) # r /\ sessions'[m] = sessions[old(m)]
  BY <1>1, <1>3, <1>4
<1>6. \A m, n \in 1..(Len(sessions) - 1) : old(m) = old(n) => m = n
  BY <1>1, <1>4
<1> HIDE DEF old
<1>7. \A m, n \in 1..(Len(sessions) - 1) : sessions'[m] = sessions'[n] => m = n
  BY <1>5, <1>6 DEF SlotsDistinct
<1>8. \A m \in 1..(Len(sessions) - 1) : sessions'[m] # c
  BY <1>4, <1>5 DEF SlotsDistinct
<1>9. c \notin Live'
  BY <1>3, <1>8 DEF Live
<1>10. QED
  BY <1>2, <1>3, <1>7, <1>9 DEF r

\* Every step keeps the slots distinct: a connection is accepted once.
LEMMA SlotsNext == TypeOK /\ SlotsDistinct /\ [Next]_vars => SlotsDistinct'
<1> SUFFICES ASSUME TypeOK, SlotsDistinct, [Next]_vars PROVE SlotsDistinct'
  OBVIOUS
<1>0. sessions \in Seq(Conns) /\ Len(sessions) \in Nat /\ backlog \subseteq Conns
      /\ peer \in [Conns -> {"idle", "connected", "gone"}]
  BY DEF TypeOK, ConnTypeOK
<1>00. Live \subseteq Conns
  BY LiveType
<1>1. CASE UNCHANGED <<sessions, backlog, peer>>
  BY <1>1 DEF SlotsDistinct, Live
<1>2. ASSUME NEW c \in Conns, PeerConnects(c) PROVE SlotsDistinct'
  <2>1. UNCHANGED sessions /\ Live' = Live /\ c \notin Live
    BY <1>2 DEF PeerConnects, Live, SlotsDistinct
  <2>2. QED
    BY <1>0, <1>00, <1>2, <2>1 DEF PeerConnects, SlotsDistinct
<1>3. ASSUME NEW c \in Conns, PeerCloses(c) PROVE SlotsDistinct'
  <2>1. UNCHANGED sessions /\ Live' = Live
    BY <1>3 DEF PeerCloses, Live
  <2>2. QED
    BY <1>0, <1>00, <1>3, <2>1 DEF PeerCloses, SlotsDistinct
<1>4. ASSUME NEW c \in Conns, Accept(c) PROVE SlotsDistinct'
  <2>1. Live' \subseteq Live \cup {c} /\ c \notin Live /\ c \in backlog
    BY <1>4, AcceptLive DEF Accept, SlotsDistinct
  <2>2. backlog' = backlog \ {c} /\ \A d \in Conns : peer[d] # "idle" => peer'[d] # "idle"
    BY <1>0, <1>4 DEF Accept
  <2>3. \A m, n \in 1..Len(sessions') : sessions'[m] = sessions'[n] => m = n
    <3>1. CASE sessions' = sessions
      BY <3>1 DEF SlotsDistinct
    <3>2. CASE sessions' = Append(sessions, c)
      <4>1. /\ Len(sessions') = Len(sessions) + 1
            /\ \A i \in 1..Len(sessions) : sessions'[i] = sessions[i]
            /\ sessions'[Len(sessions) + 1] = c
        BY <1>0, <3>2
      <4>2. \A i \in 1..Len(sessions) : sessions[i] # c
        BY <2>1 DEF Live
      <4>3. QED
        BY <1>0, <4>1, <4>2 DEF SlotsDistinct
    <3>3. QED
      BY <1>4, <3>1, <3>2 DEF Accept
  <2>4. QED
    BY <1>0, <1>00, <2>1, <2>2, <2>3 DEF SlotsDistinct
<1>5. ASSUME NEW c \in Conns, RemoveSlot(c) PROVE SlotsDistinct'
  <2>1. /\ Live' \subseteq Live /\ UNCHANGED backlog
        /\ \A d \in Conns : peer[d] # "idle" => peer'[d] # "idle"
    BY <1>0, <1>5, RemoveLive DEF RemoveSlot
  <2>2. \A m, n \in 1..Len(sessions') : sessions'[m] = sessions'[n] => m = n
    BY <1>5, RemoveDistinct
  <2>3. QED
    BY <1>0, <1>00, <2>1, <2>2 DEF SlotsDistinct
<1>6. ASSUME RemovePanics \/ Exit PROVE SlotsDistinct'
  <2>1. sessions' = <<>> /\ backlog' = {}
    BY <1>6 DEF RemovePanics, Exit, ProcessEnds
  <2>2. Live' = {} /\ Len(sessions') = 0
    BY <2>1 DEF Live
  <2>3. QED
    BY <2>1, <2>2 DEF SlotsDistinct
<1>7. CASE \/ Signal \/ Poll \/ StopServing \/ PollFails \/ AcceptDone \/ ServiceDone
           \/ FlushDone \/ RemoveDone \/ Shutdown \/ Ended \/ UNCHANGED vars
  <2>1. UNCHANGED <<sessions, backlog, peer>>
    BY <1>7 DEF Signal, Poll, StopServing, PollFails, AcceptDone, ServiceDone, FlushDone,
                RemoveDone, Shutdown, Ended, vars, worldVars
  <2>2. QED
    BY <1>1, <2>1
<1>8. ASSUME NEW c \in Conns, Service(c) \/ ProcessMessage(c) \/ Flush(c) PROVE SlotsDistinct'
  <2>1. UNCHANGED worldVars
    BY <1>8 DEF Service, SkipClosing, ReadNothing, ReadEof, ReadMalformed, ReadBatch,
                Flush, FlushSkip, FlushAll, FlushPart, FlushFails,
                ProcessMessage, RateLimited, Hello, OpenSession, KeyDown, KeyUp, KeyRepeat,
                ReleaseAll, Ping, ServerOnlyMessage
  <2>2. QED
    BY <1>1, <2>1 DEF worldVars
<1>9. QED
  BY <1>2, <1>3, <1>4, <1>5, <1>6, <1>7, <1>8 DEF Next, Environment, Broker, ServeLoop
\* The outcomes of a message: the session stays, it is answered and closed after
\* the flush, or it is marked.
Stays(c) ==
    /\ NextMessage
    /\ UNCHANGED <<closing, reason, toClose>>
    /\ \A d \in Conns \ {c} : out'[d] = out[d]

Answered(c) ==
    /\ AbandonBatch
    /\ UNCHANGED <<reason, toClose>>
    /\ closing' = [closing EXCEPT ![c] = TRUE]
    /\ \A d \in Conns \ {c} : out'[d] = out[d]

Marked(c) ==
    /\ AbandonBatch
    /\ \E why \in {"overflow", "gate"} : Mark(c, cursor, why)
    /\ UNCHANGED <<out, closing>>

\* Reply and ReplyAndClose have these outcomes.
LEMMA ReplyOutcomes ==
    ASSUME TypeOK, NEW c \in Conns, NEW frame
    PROVE  /\ Reply(c, frame) => Stays(c) \/ Marked(c)
           /\ ReplyAndClose(c, frame) => Answered(c) \/ Marked(c)
           /\ Keep => Stays(c)
           /\ CloseNow(c, "gate") => Marked(c)
           /\ CloseNow(c, "overflow") => Marked(c)
<1>1. out \in [Conns -> Seq(Frames)]
  BY DEF TypeOK, SlotTypeOK
<1>2. Keep => Stays(c)
  BY DEF Keep, Stays
<1>3. CloseNow(c, "gate") => Marked(c)
  BY DEF CloseNow, Marked
<1>4. CloseNow(c, "overflow") => Marked(c)
  BY DEF CloseNow, Marked
<1>5. Reply(c, frame) => Stays(c) \/ Marked(c)
  BY <1>1, <1>4 DEF Reply, Stays
<1>6. ReplyAndClose(c, frame) => Answered(c) \/ Marked(c)
  BY <1>1, <1>4 DEF ReplyAndClose, Answered
<1>7. QED
  BY <1>2, <1>3, <1>4, <1>5, <1>6

\* A message is about the slot at the cursor: it has one of these outcomes, and no
\* other connection's flags, keys or replies change.
LEMMA MessageOutcome ==
    ASSUME TypeOK, NEW c \in Conns, ProcessMessage(c)
    PROVE  /\ Processing(c) /\ UNCHANGED <<worldVars, pollVars>>
           /\ Stays(c) \/ Answered(c) \/ Marked(c)
           /\ \A d \in Conns \ {c} : held'[d] = held[d] /\ open'[d] = open[d] /\ hello'[d] = hello[d]
<1>1. Processing(c) /\ UNCHANGED <<worldVars, pollVars>>
  BY DEF ProcessMessage, RateLimited, Hello, OpenSession, KeyDown, KeyUp, KeyRepeat,
         ReleaseAll, Ping, ServerOnlyMessage
<1>2. hello \in [Conns -> BOOLEAN] /\ open \in [Conns -> BOOLEAN] /\ held \in [Conns -> SUBSET Keys]
  BY DEF TypeOK, SlotTypeOK
<1>3. \A d \in Conns \ {c} : held'[d] = held[d] /\ open'[d] = open[d] /\ hello'[d] = hello[d]
  <2>1. /\ UNCHANGED hello \/ hello' = [hello EXCEPT ![c] = TRUE]
        /\ UNCHANGED open \/ open' = [open EXCEPT ![c] = TRUE]
        /\ UNCHANGED held \/ \E s : held' = [held EXCEPT ![c] = s]
    BY DEF ProcessMessage, RateLimited, Hello, OpenSession, KeyDown, KeyUp, KeyRepeat,
           ReleaseAll, Ping, ServerOnlyMessage, sessVars
  <2>2. QED
    BY <1>2, <2>1
<1>4. Stays(c) \/ Answered(c) \/ Marked(c)
  <2>1. CASE RateLimited(c) \/ Ping(c) \/ ServerOnlyMessage(c)
    BY <2>1, ReplyOutcomes DEF RateLimited, Ping, ServerOnlyMessage
  <2>2. ASSUME NEW v \in BOOLEAN, Hello(c, v) PROVE Stays(c) \/ Answered(c) \/ Marked(c)
    BY <2>2, ReplyOutcomes DEF Hello
  <2>3. CASE OpenSession(c)
    BY <2>3, ReplyOutcomes DEF OpenSession
  <2>4. ASSUME NEW k, KeyDown(c, k) PROVE Stays(c) \/ Answered(c) \/ Marked(c)
    BY <2>4, ReplyOutcomes DEF KeyDown
  <2>5. ASSUME NEW k, KeyUp(c, k) PROVE Stays(c) \/ Answered(c) \/ Marked(c)
    BY <2>5, ReplyOutcomes DEF KeyUp
  <2>6. ASSUME NEW k, KeyRepeat(c, k) PROVE Stays(c) \/ Answered(c) \/ Marked(c)
    BY <2>6, ReplyOutcomes DEF KeyRepeat
  <2>7. CASE ReleaseAll(c)
    BY <2>7, ReplyOutcomes DEF ReleaseAll
  <2>8. QED
    BY <2>1, <2>2, <2>3, <2>4, <2>5, <2>6, <2>7 DEF ProcessMessage
<1>5. QED
  BY <1>1, <1>3, <1>4
\* During a pass: nothing is marked before the service pass, the slots at and behind
\* the cursor are not marked in it, and the slot whose message is processed is not
\* closing; a closing session that is marked, but not for a failed write, has been
\* given all its replies.
PassMarks ==
    /\ phase = "Serving" =>
          /\ pc \in {"poll", "accept"} => toClose = <<>> /\ \A c \in Conns : reason[c] = "none"
          /\ pc \in {"service", "message"} =>
                \A i \in 1..Len(sessions) : i >= cursor => reason[sessions[i]] = "none"
          /\ pc = "message" => ~closing[sessions[cursor]]
    /\ \A c \in Conns : closing[c] /\ reason[c] \notin {"none", "write"} => out[c] = <<>>

\* A mark concerns the slot it is for.
LEMMA MarkReason ==
    ASSUME TypeOK, NEW c \in Conns, NEW i, NEW why, Mark(c, i, why)
    PROVE  /\ \A d \in Conns \ {c} : reason'[d] = reason[d]
           /\ reason'[c] \in {reason[c], why}
           /\ i \notin Range(toClose) => reason'[c] = why
  BY DEF Mark, TypeOK, SlotTypeOK

\* The slot at the cursor is another one than those behind it.
LEMMA BehindCursor ==
    ASSUME TypeOK, SlotsDistinct, NEW c, cursor <= Len(sessions), c = sessions[cursor]
    PROVE  /\ c \in Conns
           /\ \A i \in 1..Len(sessions) : i >= cursor + 1 => sessions[i] \in Conns \ {c}
<1>1. sessions \in Seq(Conns) /\ cursor \in Nat \ {0} /\ Len(sessions) \in Nat
  BY DEF TypeOK, ConnTypeOK, LoopTypeOK
<1>2. cursor \in 1..Len(sessions)
  BY <1>1
<1>3. QED
  BY <1>1, <1>2 DEF SlotsDistinct

\* The service of a slot keeps it.
LEMMA PassMarksService ==
    ASSUME TypeOK, PassShape, SlotsDistinct, PassMarks, NEW c \in Conns, Service(c)
    PROVE  PassMarks'
<1>1. Servicing(c) /\ UNCHANGED <<worldVars, pollVars, out, closing>>
  BY DEF Service, SkipClosing, ReadNothing, ReadEof, ReadMalformed, ReadBatch, slotVars
<1>2. /\ phase = "Serving" /\ pc = "service" /\ phase' = "Serving" /\ sessions' = sessions
      /\ cursor <= Len(sessions) /\ c = sessions[cursor] /\ cursor \in Nat /\ Len(sessions) \in Nat
  BY <1>1 DEF Servicing, PassShape, worldVars, TypeOK, LoopTypeOK, ConnTypeOK
<1>3. \A i \in 1..Len(sessions) : i >= cursor + 1 => sessions[i] \in Conns \ {c}
  BY <1>2, BehindCursor
<1>4. CASE SkipClosing(c) \/ ReadNothing(c)
  <2>1. pc' = pc /\ cursor' = cursor + 1 /\ UNCHANGED <<reason, toClose>>
    BY <1>4 DEF SkipClosing, ReadNothing, slotVars
  <2>2. QED
    BY <1>1, <1>2, <2>1 DEF PassMarks
<1>5. CASE ReadEof(c) \/ ReadMalformed(c)
  <2>1. /\ pc' = pc /\ cursor' = cursor + 1 /\ ~closing[c]
        /\ \E why : Mark(c, cursor, why)
    BY <1>5 DEF ReadEof, ReadMalformed
  <2>2. \A d \in Conns \ {c} : reason'[d] = reason[d]
    BY <2>1, MarkReason
  <2>3. \A i \in 1..Len(sessions') : i >= cursor' => reason'[sessions'[i]] = "none"
    BY <1>2, <1>3, <2>1, <2>2 DEF PassMarks
  <2>4. \A d \in Conns : closing'[d] /\ reason'[d] \notin {"none", "write"} => out'[d] = <<>>
    BY <1>1, <2>1, <2>2 DEF PassMarks
  <2>5. QED
    BY <1>2, <2>1, <2>3, <2>4 DEF PassMarks
<1>6. CASE ReadBatch(c)
  <2>1. pc' = "message" /\ UNCHANGED <<cursor, reason, toClose>> /\ ~closing[c]
    BY <1>6 DEF ReadBatch, slotVars
  <2>2. QED
    BY <1>1, <1>2, <2>1 DEF PassMarks
<1>7. QED
  BY <1>4, <1>5, <1>6 DEF Service

\* A message keeps it.
LEMMA PassMarksMessage ==
    ASSUME TypeOK, PassShape, SlotsDistinct, PassMarks, NEW c \in Conns, ProcessMessage(c)
    PROVE  PassMarks'
<1>1. Processing(c) /\ UNCHANGED <<worldVars, pollVars>> /\ (Stays(c) \/ Answered(c) \/ Marked(c))
  BY MessageOutcome
<1>2. /\ phase = "Serving" /\ pc = "message" /\ phase' = "Serving" /\ sessions' = sessions
      /\ cursor <= Len(sessions) /\ c = sessions[cursor] /\ cursor \in Nat \ {0} /\ Len(sessions) \in Nat
  BY <1>1 DEF Processing, PassShape, worldVars, TypeOK, LoopTypeOK, ConnTypeOK
<1>3. \A i \in 1..Len(sessions) : i >= cursor + 1 => sessions[i] \in Conns \ {c}
  BY <1>2, BehindCursor
<1>4. ~closing[c] /\ reason[c] = "none"
  <2>1. cursor \in 1..Len(sessions)
    BY <1>2
  <2>2. QED
    BY <1>2, <2>1 DEF PassMarks
<1>5. CASE Stays(c)
  <2>1. pc' \in {"service", "message"} /\ cursor' \in {cursor, cursor + 1}
        /\ (pc' = "message" => cursor' = cursor) /\ UNCHANGED <<reason, toClose, closing>>
    BY <1>5 DEF Stays, NextMessage
  <2>2. \A d \in Conns : closing'[d] /\ reason'[d] \notin {"none", "write"} => out'[d] = <<>>
    BY <1>4, <1>5 DEF Stays, PassMarks
  <2>3. \A i \in 1..Len(sessions') : i >= cursor' => reason'[sessions'[i]] = "none"
    BY <1>2, <2>1 DEF PassMarks
  <2>4. pc' = "message" => ~closing'[sessions'[cursor']]
    BY <1>2, <1>4, <2>1
  <2>5. QED
    BY <1>2, <2>1, <2>2, <2>3, <2>4 DEF PassMarks
<1>6. CASE Answered(c)
  <2>1. pc' = "service" /\ cursor' = cursor + 1 /\ UNCHANGED <<reason, toClose>>
        /\ closing' = [closing EXCEPT ![c] = TRUE]
    BY <1>6 DEF Answered, AbandonBatch
  <2>2. \A d \in Conns : closing'[d] /\ reason'[d] \notin {"none", "write"} => out'[d] = <<>>
    <3> SUFFICES ASSUME NEW d \in Conns, closing'[d], reason'[d] \notin {"none", "write"}
                 PROVE  out'[d] = <<>>
      OBVIOUS
    <3>1. d # c
      BY <1>4, <2>1
    <3>2. closing'[d] = closing[d]
      BY <2>1, <3>1 DEF TypeOK, SlotTypeOK
    <3>3. QED
      BY <1>6, <2>1, <3>1, <3>2 DEF Answered, PassMarks
  <2>3. \A i \in 1..Len(sessions') : i >= cursor' => reason'[sessions'[i]] = "none"
    BY <1>2, <2>1 DEF PassMarks
  <2>4. QED
    BY <1>2, <2>1, <2>2, <2>3 DEF PassMarks
<1>7. CASE Marked(c)
  <2>1. pc' = "service" /\ cursor' = cursor + 1 /\ UNCHANGED <<out, closing>>
        /\ \E why : Mark(c, cursor, why)
    BY <1>7 DEF Marked, AbandonBatch
  <2>2. \A d \in Conns \ {c} : reason'[d] = reason[d]
    BY <2>1, MarkReason
  <2>3. \A i \in 1..Len(sessions') : i >= cursor' => reason'[sessions'[i]] = "none"
    BY <1>2, <1>3, <2>1, <2>2 DEF PassMarks
  <2>4. \A d \in Conns : closing'[d] /\ reason'[d] \notin {"none", "write"} => out'[d] = <<>>
    BY <1>4, <2>1, <2>2 DEF PassMarks
  <2>5. QED
    BY <1>2, <2>1, <2>3, <2>4 DEF PassMarks
<1>8. QED
  BY <1>1, <1>5, <1>6, <1>7

\* The flush of a slot keeps it.
LEMMA PassMarksFlush ==
    ASSUME TypeOK, PassMarks, NEW c \in Conns, Flush(c)
    PROVE  PassMarks'
<1>1. Flushing(c) /\ UNCHANGED <<worldVars, pc, closing>>
  BY DEF Flush, FlushSkip, FlushAll, FlushPart, FlushFails, slotVars
<1>2. phase = "Serving" /\ pc' = "flush"
  BY <1>1 DEF Flushing
<1>3. out \in [Conns -> Seq(Frames)]
  BY DEF TypeOK, SlotTypeOK
<1>4. SUFFICES \A d \in Conns : closing'[d] /\ reason'[d] \notin {"none", "write"} => out'[d] = <<>>
  BY <1>2 DEF PassMarks
<1>5. CASE FlushSkip(c)
  BY <1>1, <1>5 DEF FlushSkip, slotVars, PassMarks
<1>6. CASE FlushAll(c)
  <2>1. \A d \in Conns \ {c} : reason'[d] = reason[d] /\ out'[d] = out[d]
    BY <1>3, <1>6, MarkReason DEF FlushAll
  <2>2. out'[c] = <<>>
    BY <1>3, <1>6 DEF FlushAll
  <2>3. QED
    BY <1>1, <2>1, <2>2 DEF PassMarks
<1>7. CASE FlushPart(c)
  <2>1. out[c] # <<>> /\ reason' = reason /\ \A d \in Conns \ {c} : out'[d] = out[d]
    BY <1>3, <1>7 DEF FlushPart
  <2>2. QED
    BY <1>1, <2>1 DEF PassMarks
<1>8. CASE FlushFails(c)
  <2>1. out[c] # <<>> /\ out' = out /\ Mark(c, cursor, "write")
    BY <1>8 DEF FlushFails
  <2>2. /\ \A d \in Conns \ {c} : reason'[d] = reason[d]
        /\ reason'[c] \in {reason[c], "write"}
    BY <2>1, MarkReason
  <2>3. QED
    BY <1>1, <2>1, <2>2 DEF PassMarks
<1>9. QED
  BY <1>5, <1>6, <1>7, <1>8 DEF Flush

\* Every step keeps it.
LEMMA PassMarksNext ==
    ASSUME TypeOK, PassShape, SlotsDistinct, PassMarks, [Next]_vars PROVE PassMarks'
<1> USE DEF worldVars, pollVars, loopVars, slotVars
<1>0. sessions \in Seq(Conns) /\ Len(sessions) \in Nat /\ cursor \in Nat
  BY DEF TypeOK, ConnTypeOK, LoopTypeOK
<1>1. CASE Environment \/ Ended \/ UNCHANGED vars
  <2>1. UNCHANGED <<phase, pc, sessions, cursor, toClose, reason, closing, out>>
    BY <1>1 DEF Environment, Signal, PeerConnects, PeerCloses, Ended, vars
  <2>2. QED
    BY <2>1 DEF PassMarks
<1>2. CASE Poll \/ AcceptDone
  <2>1. /\ phase = "Serving" /\ pc \in {"poll", "accept"} /\ pc' \in {"accept", "service"}
        /\ UNCHANGED <<phase, sessions, toClose, reason, closing, out>>
    BY <1>2 DEF Poll, AcceptDone
  <2>2. \A i \in 1..Len(sessions) : sessions[i] \in Conns
    BY <1>0
  <2>3. QED
    BY <2>1, <2>2 DEF PassMarks
<1>3. CASE StopServing \/ PollFails \/ Shutdown
  BY <1>3 DEF StopServing, PollFails, Shutdown, PassMarks
<1>4. CASE ServiceDone \/ FlushDone
  BY <1>4 DEF ServiceDone, FlushDone, PassMarks
<1>5. CASE RemoveDone
  BY <1>5 DEF RemoveDone, PassMarks
<1>6. CASE RemovePanics \/ Exit
  BY <1>6 DEF RemovePanics, Exit, ProcessEnds, PassMarks
<1>7. ASSUME NEW c \in Conns, Accept(c) PROVE PassMarks'
  BY <1>7 DEF Accept, PassMarks
<1>8. ASSUME NEW c \in Conns, RemoveSlot(c) PROVE PassMarks'
  <2>1. closing' = [closing EXCEPT ![c] = FALSE] /\ reason' = [reason EXCEPT ![c] = "none"]
        /\ out' = [out EXCEPT ![c] = <<>>] /\ pc' = "remove"
    BY <1>8 DEF RemoveSlot, DropSlot
  <2>2. \A d \in Conns : closing'[d] /\ reason'[d] \notin {"none", "write"} => out'[d] = <<>>
    BY <2>1 DEF PassMarks, TypeOK, SlotTypeOK
  <2>3. QED
    BY <2>1, <2>2 DEF PassMarks
<1>9. QED
  BY <1>1, <1>2, <1>3, <1>4, <1>5, <1>6, <1>7, <1>8,
     PassMarksService, PassMarksMessage, PassMarksFlush DEF Next, Broker, ServeLoop

\* Slots and marks hold in every reachable state.
LEMMA MarksCorrect == Spec => [](SlotsDistinct /\ PassMarks)
<1>1. Init => SlotsDistinct /\ PassMarks
  BY DEF Init, SlotsDistinct, PassMarks, Live
<1>2. TypeOK /\ KeyInv /\ (SlotsDistinct /\ PassMarks) /\ [Next]_vars => (SlotsDistinct /\ PassMarks)'
  BY SlotsNext, PassMarksNext DEF KeyInv
<1>3. QED
  BY <1>1, <1>2, TypeCorrect, KeyInvCorrect, PTL DEF Spec
\* From the moment its ERROR frame is queued a session is inert, for any number of
\* connections: the slot being read is never a closing one (service_client).
THEOREM ClosingInert == Spec => ClosingIsInert
<1> DEFINE Inert(c) == held'[c] = held[c] /\ open'[c] = open[c] /\ hello'[c] = hello[c]
           Step == \A c \in Conns : closing[c] /\ phase = "Serving" /\ c \in Live' => Inert(c)
<1>1. TypeOK /\ KeyInv /\ SlotsDistinct /\ PassMarks /\ [Next]_vars => Step
  <2> SUFFICES ASSUME TypeOK, KeyInv, SlotsDistinct, PassMarks, [Next]_vars,
                      NEW c \in Conns, closing[c], phase = "Serving", c \in Live'
               PROVE  Inert(c)
    OBVIOUS
  <2>0. /\ hello \in [Conns -> BOOLEAN] /\ open \in [Conns -> BOOLEAN]
        /\ held \in [Conns -> SUBSET Keys]
    BY DEF TypeOK, SlotTypeOK
  <2>1. CASE QuietStep \/ UNCHANGED vars
    BY <2>1, QuietStepFrame
  <2>2. ASSUME NEW d \in Conns, ProcessMessage(d) PROVE Inert(c)
    <3>1. Processing(d) /\ \A e \in Conns \ {d} : Inert(e)
      BY <2>2, MessageOutcome
    <3>2. c # d
      BY <3>1 DEF Processing, PassMarks
    <3>3. QED
      BY <3>1, <3>2
  <2>3. ASSUME NEW d \in Conns, Accept(d) PROVE Inert(c)
    BY <2>3 DEF Accept, slotVars, sessVars
  <2>4. ASSUME NEW d \in Conns, RemoveSlot(d) PROVE Inert(c)
    <3>1. c # d
      BY <2>4, RemoveDistinct
    <3>2. QED
      BY <2>0, <2>4, <3>1 DEF RemoveSlot, DropSlot
  <2>5. CASE RemovePanics \/ Exit
    <3>1. sessions' = <<>>
      BY <2>5 DEF RemovePanics, Exit, ProcessEnds
    <3>2. QED
      BY <3>1 DEF Live
  <2>6. CASE Shutdown
    BY <2>6 DEF Shutdown
  <2>7. QED
    <3>1. CASE \E d \in Conns : ProcessMessage(d)
      BY <2>2, <3>1
    <3>2. CASE ~\E d \in Conns : ProcessMessage(d)
      <4>1. \/ QuietStep \/ UNCHANGED vars \/ Shutdown \/ RemovePanics \/ Exit
            \/ \E d \in Conns : Accept(d) \/ RemoveSlot(d)
        BY <3>2 DEF Next, Broker, ServeLoop, QuietStep
      <4>2. QED
        BY <2>1, <2>3, <2>4, <2>5, <2>6, <4>1
    <3>3. QED
      BY <3>1, <3>2
<1>2. Step => [Step]_vars
  OBVIOUS
<1>3. QED
  BY <1>1, TypeCorrect, KeyInvCorrect, MarksCorrect, PTL DEF Spec, ClosingIsInert

-----------------------------------------------------------------------------
(* With at most two connections the removal loop takes the marked slots.   *)

\* No slot is marked twice, and as long as a marked index is an index of the slot
\* vector, the slot there is one this pass decided to close.
MarksMean ==
    /\ \A m, n \in 1..Len(toClose) : toClose[m] = toClose[n] => m = n
    /\ phase = "Serving" =>
          \A n \in 1..Len(toClose) :
             toClose[n] <= Len(sessions) => reason[sessions[toClose[n]]] # "none"

\* Marking the slot at the cursor keeps it.
LEMMA MarkMeans ==
    ASSUME TypeOK, MarksMean, phase = "Serving", UNCHANGED sessions,
           NEW c \in Conns, c = sessions[cursor], NEW why, why # "none", Mark(c, cursor, why)
    PROVE  MarksMean'
<1>1. /\ toClose \in Seq(Nat \ {0}) /\ cursor \in Nat \ {0} /\ reason \in [Conns -> Reasons]
      /\ sessions \in Seq(Conns) /\ Len(sessions) \in Nat
  BY DEF TypeOK, LoopTypeOK, SlotTypeOK, ConnTypeOK
<1>2. CASE cursor \in Range(toClose)
  BY <1>1, <1>2 DEF Mark, MarksMean
<1>3. CASE cursor \notin Range(toClose)
  <2>1. toClose' = Append(toClose, cursor) /\ reason' = [reason EXCEPT ![c] = why]
    BY <1>3 DEF Mark
  <2>2. /\ Len(toClose') = Len(toClose) + 1 /\ Len(toClose) \in Nat
        /\ toClose'[Len(toClose) + 1] = cursor
        /\ \A n \in 1..Len(toClose) : toClose'[n] = toClose[n] /\ toClose[n] \in Nat \ {0}
    BY <1>1, <2>1
  <2>3. \A n \in 1..Len(toClose) : toClose[n] # cursor
    BY <1>1, <1>3 DEF Range
  <2>4. \A m, n \in 1..Len(toClose') : toClose'[m] = toClose'[n] => m = n
    BY <2>2, <2>3 DEF MarksMean
  <2>5. ASSUME NEW n \in 1..Len(toClose'), toClose'[n] <= Len(sessions')
        PROVE  reason'[sessions'[toClose'[n]]] # "none"
    <3>1. CASE n \in 1..Len(toClose)
      <4>1. toClose'[n] = toClose[n] /\ toClose[n] \in 1..Len(sessions)
        BY <1>1, <2>2, <2>5, <3>1
      <4>2. reason[sessions[toClose[n]]] # "none" /\ sessions[toClose[n]] \in Conns
        BY <1>1, <2>5, <3>1, <4>1 DEF MarksMean
      <4>3. QED
        BY <1>1, <2>1, <4>1, <4>2
    <3>2. CASE n = Len(toClose) + 1
      BY <1>1, <2>1, <2>2, <3>2
    <3>3. QED
      BY <2>2, <3>1, <3>2
  <2>6. QED
    BY <2>4, <2>5 DEF MarksMean
<1>4. QED
  BY <1>2, <1>3

\* All but the last of the marks.
LEMMA AllButLast ==
    ASSUME NEW S, NEW q \in Seq(S), Len(q) \in Nat \ {0}
    PROVE  /\ Len(SubSeq(q, 1, Len(q) - 1)) = Len(q) - 1
           /\ \A n \in 1..(Len(q) - 1) : SubSeq(q, 1, Len(q) - 1)[n] = q[n]
<1> DEFINE l == Len(q) - 1
<1>1. l \in Nat /\ l <= Len(q) /\ Len(q) \in Nat
  OBVIOUS
<1> HIDE DEF l
<1>2. Len(SubSeq(q, 1, l)) = l /\ \A n \in 1..l : SubSeq(q, 1, l)[n] = q[n]
  BY <1>1
<1>3. QED
  BY <1>2 DEF l

\* Every step keeps it: with two slots, removing one leaves at most the first.
LEMMA MarksMeanNext ==
    ASSUME TypeOK, MaxConnections <= 2, Limits, PassShape, SlotsDistinct, PassMarks, MarksMean,
           [Next]_vars
    PROVE  MarksMean'
<1> USE DEF worldVars, pollVars, loopVars, slotVars
<1>0. /\ toClose \in Seq(Nat \ {0}) /\ cursor \in Nat \ {0} /\ reason \in [Conns -> Reasons]
      /\ sessions \in Seq(Conns) /\ Len(sessions) \in Nat /\ Len(sessions) <= 2
  BY BrokerAssumption DEF TypeOK, LoopTypeOK, SlotTypeOK, ConnTypeOK, Limits
<1>1. CASE UNCHANGED <<phase, sessions, toClose, reason>>
  BY <1>1 DEF MarksMean
<1>2. CASE \/ Environment \/ Ended \/ UNCHANGED vars \/ Poll \/ AcceptDone \/ ServiceDone \/ FlushDone
  <2>1. UNCHANGED <<phase, sessions, toClose, reason>>
    BY <1>2 DEF Environment, Signal, PeerConnects, PeerCloses, Ended, vars, Poll, AcceptDone,
                ServiceDone, FlushDone
  <2>2. QED
    BY <1>1, <2>1
<1>3. CASE StopServing \/ PollFails \/ Shutdown
  BY <1>3 DEF StopServing, PollFails, Shutdown, MarksMean
<1>4. CASE RemovePanics \/ Exit
  BY <1>4 DEF RemovePanics, Exit, ProcessEnds, MarksMean
<1>5. CASE RemoveDone
  BY <1>0, <1>5 DEF RemoveDone, MarksMean
<1>6. ASSUME NEW c \in Conns, Accept(c) PROVE MarksMean'
  <2>1. toClose = <<>> /\ toClose' = toClose
    BY <1>6 DEF Accept, PassMarks
  <2>2. QED
    BY <2>1 DEF MarksMean
<1>7. ASSUME NEW c \in Conns, Service(c) \/ Flush(c) PROVE MarksMean'
  <2>1. /\ phase = "Serving" /\ c = sessions[cursor] /\ UNCHANGED <<phase, sessions>>
        /\ \/ UNCHANGED <<toClose, reason>>
           \/ \E why \in {"eof", "protocol", "flushed", "write"} : Mark(c, cursor, why)
    BY <1>7 DEF Service, SkipClosing, ReadNothing, ReadEof, ReadMalformed, ReadBatch, Servicing,
                Flush, FlushSkip, FlushAll, FlushPart, FlushFails, Flushing
  <2>2. QED
    BY <1>1, <2>1, MarkMeans
<1>8. ASSUME NEW c \in Conns, ProcessMessage(c) PROVE MarksMean'
  <2>1. /\ phase = "Serving" /\ c = sessions[cursor] /\ UNCHANGED <<phase, sessions>>
        /\ \/ UNCHANGED <<toClose, reason>>
           \/ \E why \in {"overflow", "gate"} : Mark(c, cursor, why)
    BY <1>8, MessageOutcome DEF Processing, Stays, Answered, Marked
  <2>2. QED
    BY <1>1, <2>1, MarkMeans
<1>9. ASSUME NEW c \in Conns, RemoveSlot(c) PROVE MarksMean'
  <2>1. /\ ToRemove \in 1..Len(sessions)
        /\ Len(sessions') = Len(sessions) - 1
        /\ \A m \in 1..(Len(sessions) - 1) :
              sessions'[m] = IF m < ToRemove THEN sessions[m] ELSE sessions[m + 1]
    BY <1>9, RemoveDistinct
  <2>2. /\ toClose' = SubSeq(toClose, 1, Len(toClose) - 1) /\ toClose # <<>>
        /\ reason' = [reason EXCEPT ![c] = "none"] /\ c = sessions[ToRemove]
        /\ phase = "Serving"
    BY <1>9 DEF RemoveSlot, DropSlot
  <2>3. /\ Len(toClose) \in Nat \ {0} /\ Len(toClose') = Len(toClose) - 1
        /\ \A n \in 1..Len(toClose') : toClose'[n] = toClose[n] /\ n \in 1..Len(toClose)
                                        /\ n # Len(toClose)
    <3>1. Len(toClose) \in Nat \ {0}
      BY <1>0, <2>2, EmptySeq
    <3>2. /\ Len(toClose') = Len(toClose) - 1
          /\ \A n \in 1..(Len(toClose) - 1) : toClose'[n] = toClose[n]
      BY <1>0, <2>2, <3>1, AllButLast
    <3>3. QED
      BY <3>1, <3>2
  <2>4. \A m, n \in 1..Len(toClose') : toClose'[m] = toClose'[n] => m = n
    BY <2>3 DEF MarksMean
  <2>5. ASSUME NEW n \in 1..Len(toClose'), toClose'[n] <= Len(sessions')
        PROVE  reason'[sessions'[toClose'[n]]] # "none"
    <3>1. toClose[n] # ToRemove /\ toClose[n] \in Nat \ {0} /\ Len(toClose) \in 1..Len(toClose)
      BY <1>0, <2>3 DEF MarksMean, ToRemove
    <3>2. toClose[n] = 1 /\ ToRemove = 2 /\ Len(sessions) = 2 /\ toClose'[n] = 1
      <4> DEFINE t == toClose[n]
                 r == ToRemove
                 l == Len(sessions)
      <4>1. t # r /\ t \in Nat \ {0} /\ toClose'[n] = t /\ t <= l - 1
            /\ r \in 1..l /\ l \in Nat /\ l <= 2
        BY <1>0, <2>1, <2>3, <2>5, <3>1
      <4> HIDE DEF t, r, l
      <4>2. t = 1 /\ r = 2 /\ l = 2
        BY <4>1
      <4>3. QED
        BY <4>1, <4>2 DEF t, r, l
    <3>3. sessions'[1] = sessions[1]
      BY <2>1, <3>2
    <3>4. sessions[1] # c /\ sessions[1] \in Conns
      <4>1. 1 \in 1..Len(sessions) /\ 2 \in 1..Len(sessions) /\ c = sessions[2]
        BY <2>2, <3>2
      <4>2. QED
        BY <1>0, <4>1 DEF SlotsDistinct
    <3>5. reason[sessions[1]] # "none"
      BY <2>2, <2>3, <3>2 DEF MarksMean
    <3>6. QED
      BY <1>0, <2>2, <3>2, <3>3, <3>4, <3>5
  <2>6. QED
    BY <2>4, <2>5 DEF MarksMean
<1>10. QED
  BY <1>2, <1>3, <1>4, <1>5, <1>6, <1>7, <1>8, <1>9 DEF Next, Broker, ServeLoop

\* A step that removes a slot while serving is RemoveSlot, and the slot was marked.
LEMMA RemovedWasMarked ==
    ASSUME TypeOK, MarksMean, NEW c \in Conns, Removed(c), [Next]_vars
    PROVE  reason[c] # "none"
<1>1. \E d \in Conns : RemoveSlot(d)
  <2>1. CASE UNCHANGED sessions
    BY <2>1 DEF Removed, Live
  <2>2. ASSUME NEW d \in Conns, Accept(d) PROVE FALSE
    BY <2>2, AcceptLive DEF Removed
  <2>3. CASE RemovePanics \/ Exit
    BY <2>3 DEF RemovePanics, Exit, Removed
  <2>4. CASE QuietStep \/ UNCHANGED vars
    BY <2>1, <2>4, QuietStepFrame
  <2>5. ASSUME NEW d \in Conns, ProcessMessage(d) PROVE UNCHANGED sessions
    BY <2>5, MessageOutcome DEF worldVars
  <2>6. CASE Shutdown
    BY <2>1, <2>6 DEF Shutdown
  <2>7. QED
    <3>1. CASE \E d \in Conns : ProcessMessage(d)
      BY <2>1, <2>5, <3>1
    <3>2. CASE ~\E d \in Conns : ProcessMessage(d)
      <4>1. \/ QuietStep \/ UNCHANGED vars \/ Shutdown \/ RemovePanics \/ Exit
            \/ \E d \in Conns : Accept(d) \/ RemoveSlot(d)
        BY <3>2 DEF Next, Broker, ServeLoop, QuietStep
      <4>2. QED
        BY <2>2, <2>3, <2>4, <2>6, <4>1
    <3>3. QED
      BY <3>1, <3>2
<1>2. PICK d \in Conns : RemoveSlot(d)
  BY <1>1
<1>3. c = d
  BY <1>2, RemoveLive DEF Removed
<1>4. Len(toClose) \in 1..Len(toClose)
  BY <1>2, EmptySeq DEF RemoveSlot, TypeOK, LoopTypeOK
<1>5. QED
  BY <1>2, <1>3, <1>4 DEF RemoveSlot, ToRemove, MarksMean

\* It holds in every reachable state, with at most two connections.
LEMMA MarksMeanCorrect == MaxConnections <= 2 => (Spec => []MarksMean)
<1> SUFFICES ASSUME MaxConnections <= 2 PROVE Spec => []MarksMean
  OBVIOUS
<1>1. Init => MarksMean
  BY DEF Init, MarksMean
<1>2. TypeOK /\ KeyInv /\ Limits /\ (SlotsDistinct /\ PassMarks) /\ MarksMean /\ [Next]_vars
        => MarksMean'
  BY MarksMeanNext DEF KeyInv
<1>3. QED
  BY <1>1, <1>2, TypeCorrect, KeyInvCorrect, LimitsCorrect, MarksCorrect, PTL DEF Spec

\* With at most two connections only slots this pass decided to close are removed;
\* the bound is sharp, with three the removal takes the wrong slot.
THEOREM RemovesMarked == MaxConnections <= 2 => (Spec => OnlyMarkedRemoved)
<1> SUFFICES ASSUME MaxConnections <= 2 PROVE Spec => OnlyMarkedRemoved
  OBVIOUS
<1>1. TypeOK /\ MarksMean /\ [Next]_vars => \A c \in Conns : Removed(c) => reason[c] # "none"
  BY RemovedWasMarked
<1>2. Spec => []MarksMean
  BY MarksMeanCorrect
<1>3. QED
  BY <1>1, <1>2, TypeCorrect, PTL DEF Spec, OnlyMarkedRemoved

\* With at most two connections a session that is sent an ERROR frame is removed only
\* when the peer was given the whole queue, or cannot be written to.
THEOREM FrameBeforeFin == MaxConnections <= 2 => (Spec => ErrorFrameBeforeClose)
<1> SUFFICES ASSUME MaxConnections <= 2 PROVE Spec => ErrorFrameBeforeClose
  OBVIOUS
<1>1. TypeOK /\ MarksMean /\ (SlotsDistinct /\ PassMarks) /\ [Next]_vars
        => \A c \in Conns : Removed(c) /\ closing[c] /\ reason[c] # "write" => out[c] = <<>>
  BY RemovedWasMarked DEF PassMarks
<1>2. Spec => []MarksMean
  BY MarksMeanCorrect
<1>3. QED
  BY <1>1, <1>2, TypeCorrect, MarksCorrect, PTL DEF Spec, ErrorFrameBeforeClose
=============================================================================

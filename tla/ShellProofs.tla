---------------------------- MODULE ShellProofs ----------------------------
(***************************************************************************)
(* The shell behind the terminal, and the bytes it prints.                 *)
(*                                                                         *)
(* What holds of the shell session (Spec) for any number of sessions, any  *)
(* sizes of the buffers and of the kernel's queues: its types, that no     *)
(* child is left behind (NoStray), and that no accepted input is delivered *)
(* twice (EachTokenOnce).                                                  *)
(*                                                                         *)
(* What holds of the escape-sequence parser (ParserSpec) for any stream of *)
(* bytes and any limits: its storage bounds (ParserTypeOK), that two       *)
(* cancel bytes bring it back to the ground state from anywhere            *)
(* (CancelRecovers), and that a control sequence is dispatched as its      *)
(* bytes read (CsiMeansItsBytes).                                          *)
(***************************************************************************)
EXTENDS TermSession, VtParser, Induction, FiniteSetTheorems, SequenceTheorems, TLAPS

\* A session that is not used yet has a number within the bound.
LEMMA NextSession ==
    ASSUME Used # Sessions
    PROVE  Cardinality(Used) + 1 \in Sessions
<1>1. IsFiniteSet(Sessions) /\ Cardinality(Sessions) = MaxSessions
  BY FS_Interval, SessionAssumption DEF Sessions
<1>2. Used \in SUBSET Sessions /\ Used # Sessions
  BY DEF Used
<1>3. IsFiniteSet(Used) /\ Cardinality(Used) <= Cardinality(Sessions)
      /\ (Cardinality(Used) = Cardinality(Sessions) => Used = Sessions)
  BY <1>1, <1>2, FS_Subset
<1>4. Cardinality(Used) \in Nat
  BY <1>3, FS_CardinalityType
<1>. QED  BY <1>1, <1>2, <1>3, <1>4, SessionAssumption DEF Sessions

\* What remains of a budget after a read is a machine word.
LEMMA BudgetWord ==
    ASSUME NEW b \in Nat, NEW n \in Nat
    PROVE  (b + Word - n) % Word \in 0..Word - 1
  BY SessionAssumption

\* The parts of a buffer are buffers.
LEMMA BufferParts ==
    ASSUME NEW q \in Seq(Tokens), NEW r \in Seq(Tokens), NEW n \in 0..Len(q)
    PROVE  /\ SubSeq(q, 1, n) \in Seq(Tokens) /\ Len(SubSeq(q, 1, n)) = n
           /\ SubSeq(q, n + 1, Len(q)) \in Seq(Tokens)
           /\ Len(SubSeq(q, n + 1, Len(q))) = Len(q) - n
           /\ r \o q \in Seq(Tokens) /\ Len(r \o q) = Len(r) + Len(q)
  OBVIOUS

\* A record of the UI thread has its type when its fields have theirs.
LEMMA UiAtType ==
    ASSUME NEW call \in Calls
    PROVE  UiAt(call) \in [at : Calls, then : Calls, rest : Seq(Tokens), budget : 0..Word - 1]
  BY SessionAssumption DEF UiAt, Calls

\* Returning from write_all, and one more field, keep the record typed.
LEMMA UiReturnType ==
    ASSUME ui \in [at : Calls, then : Calls, rest : Seq(Tokens), budget : 0..Word - 1]
    PROVE  WriteReturns \in [at : Calls, then : Calls, rest : Seq(Tokens), budget : 0..Word - 1]
<1>. <<>> \in Seq(Tokens) /\ "idle" \in Calls
  BY DEF Calls
<1>. QED  BY DEF WriteReturns

\* A token is added to a buffer that is not full.
LEMMA NextToken ==
    ASSUME TypeOK, tokens < MaxTokens, NEW q \in Seq(Tokens)
    PROVE  /\ Append(q, tokens + 1) \in Seq(Tokens)
           /\ Len(Append(q, tokens + 1)) = Len(q) + 1
           /\ tokens + 1 \in 0..MaxTokens
  BY SessionAssumption DEF TypeOK, Tokens

\* The types hold at the start.
LEMMA TypeInit == Init => TypeOK
<1>. SUFFICES ASSUME Init PROVE TypeOK
  OBVIOUS
<1>1. ui \in [at : Calls, then : Calls, rest : Seq(Tokens), budget : 0..Word - 1]
  BY UiAtType DEF Init, Calls
<1>2. childExit \in BOOLEAN /\ pasted \in BOOLEAN
  BY Zenon DEF Init
<1>3. <<>> \in Seq(Tokens) /\ Len(<<>>) = 0
  OBVIOUS
<1>4. source \in Seq(Tokens) /\ Len(source) <= MaxPending
  BY <1>3, SessionAssumption DEF Init
<1>5. response \in Seq(Tokens) /\ Len(response) <= MaxResponse
  BY <1>3, SessionAssumption DEF Init
<1>6. queue \in Seq(Tokens) /\ Len(queue) <= InputQueue /\ writeBuf \in Seq(Tokens)
  BY <1>3, SessionAssumption DEF Init
<1>7. proc \in [Sessions -> {"none", "zombie", "reaped"} \cup Alive] /\ events \in [Sessions -> Nat]
      /\ got \in [Sessions -> Seq(Tokens)]
  BY <1>3 DEF Init
<1>8. pty \in 0..MaxSessions /\ child \in 0..MaxSessions /\ output \in 0..OutputQueue
      /\ tokens \in 0..MaxTokens
  BY SessionAssumption DEF Init
<1>. QED  BY <1>1, <1>2, <1>4, <1>5, <1>6, <1>7, <1>8 DEF TypeOK

\* A buffer handed over to the write loop leaves the caller well typed.
LEMMA HandOverType ==
    ASSUME NEW buf \in Seq(Tokens), NEW then \in Calls, HandOver(buf, then)
    PROVE  ui' \in [at : Calls, then : Calls, rest : Seq(Tokens), budget : 0..Word - 1]
<1>1. CASE buf = <<>>
  BY <1>1, UiAtType DEF HandOver
<1>2. CASE buf # <<>>
  <2>1. 0 \in 0..Word - 1
    BY SessionAssumption
  <2>2. ui' = [at |-> "write", then |-> then, rest |-> buf, budget |-> 0]
    BY <1>2 DEF HandOver, UiAt
  <2>. QED  BY <2>1, <2>2 DEF Calls
<1>. QED  BY <1>1, <1>2

\* Every step keeps the types: the bounded buffers stay within their bounds.
LEMMA TypeStep == TypeOK /\ [Next]_vars => TypeOK'
<1>. SUFFICES ASSUME TypeOK, [Next]_vars PROVE TypeOK'
  OBVIOUS
<1>u. /\ pty \in 0..MaxSessions
      /\ child \in 0..MaxSessions
      /\ ui \in [at : Calls, then : Calls, rest : Seq(Tokens), budget : 0..Word - 1]
      /\ MaxSessions \in Nat
  BY SessionAssumption DEF TypeOK
<1>e. /\ <<>> \in Seq(Tokens) /\ Len(<<>>) = 0
      /\ InputQueue \in Nat /\ OutputQueue \in Nat /\ MaxPending \in Nat /\ MaxResponse \in Nat
      /\ Chunk \in Nat /\ Word \in Nat /\ ReadBudget \in 0..Word - 1 /\ 0 \in 0..Word - 1
  BY SessionAssumption
<1>1. CASE UNCHANGED vars
  BY <1>1 DEF TypeOK, vars, procVars, bufVars
<1>2. CASE StartSession
  <2>1. Cardinality(Used) + 1 \in Sessions
    BY <1>2, NextSession DEF StartSession
  <2>2. ui' \in [at : Calls, then : Calls, rest : Seq(Tokens), budget : 0..Word - 1]
    BY <1>2, UiAtType DEF StartSession, Calls
  <2>3. pty' \in 0..MaxSessions /\ child' \in 0..MaxSessions
    BY <1>2, <2>1, <1>u DEF StartSession, Sessions
  <2>4. proc' \in [Sessions -> {"none", "zombie", "reaped"} \cup Alive]
    BY <1>2 DEF StartSession, TypeOK, Alive, Starting
  <2>5. queue' \in Seq(Tokens) /\ Len(queue') <= InputQueue /\ output' \in 0..OutputQueue
    BY <1>2, <1>e DEF StartSession
  <2>. QED  BY <1>2, <2>2, <2>3, <2>4, <2>5 DEF TypeOK, StartSession
<1>3. CASE StartFails \/ Poll \/ ReadEnds
  <2>1. ui' \in [at : Calls, then : Calls, rest : Seq(Tokens), budget : 0..Word - 1]
    <3>1. PICK call \in Calls : ui' = UiAt(call)
      BY <1>3 DEF StartFails, Poll, ReadEnds, Calls
    <3>. QED  BY <3>1, UiAtType
  <2>. QED  BY <1>3, <2>1 DEF TypeOK, StartFails, Poll, ReadEnds, procVars, bufVars
<1>4. CASE FlushPending
  <2>1. ui' \in [at : Calls, then : Calls, rest : Seq(Tokens), budget : 0..Word - 1]
    <3>1. writeBuf \in Seq(Tokens)
      BY DEF TypeOK
    <3>. QED  BY <1>4, <3>1, HandOverType DEF FlushPending, Calls
  <2>. QED  BY <1>4, <2>1 DEF TypeOK, FlushPending, procVars
<1>5. CASE FlushSource
  <2>1. ui' \in [at : Calls, then : Calls, rest : Seq(Tokens), budget : 0..Word - 1]
    <3>1. source \in Seq(Tokens)
      BY DEF TypeOK
    <3>. QED  BY <1>5, <3>1, HandOverType DEF FlushSource, Calls
  <2>. QED  BY <1>5, <2>1, SessionAssumption DEF TypeOK, FlushSource, procVars
<1>6. CASE FlushResponse
  <2>1. ui' \in [at : Calls, then : Calls, rest : Seq(Tokens), budget : 0..Word - 1]
    <3>1. CASE response = <<>>
      BY <1>6, <3>1, <1>e, SessionAssumption DEF FlushResponse, UiAt, Calls
    <3>2. CASE response # <<>>
      BY <1>6, <3>2, <1>e, SessionAssumption DEF TypeOK, FlushResponse, UiAt, Calls
    <3>. QED  BY <3>1, <3>2
  <2>. QED  BY SMTT(30), <1>6, <2>1, SessionAssumption DEF TypeOK, FlushResponse, procVars
<1>7. CASE WriteSome
  <2>1. PICK n \in 1..Len(ui.rest) :
          /\ Len(queue) + n <= InputQueue
          /\ queue' = queue \o SubSeq(ui.rest, 1, n)
          /\ ui' = IF n = Len(ui.rest) THEN WriteReturns
                   ELSE [ui EXCEPT !.rest = SubSeq(@, n + 1, Len(@))]
    BY <1>7 DEF WriteSome
  <2>2. /\ ui.rest \in Seq(Tokens) /\ queue \in Seq(Tokens) /\ n \in 0..Len(ui.rest)
    BY <2>1 DEF TypeOK
  <2>3. queue' \in Seq(Tokens) /\ Len(queue') <= InputQueue
    <3>. DEFINE part == SubSeq(ui.rest, 1, n)
    <3>1. part \in Seq(Tokens) /\ Len(part) = n
      BY <2>2, BufferParts
    <3>. HIDE DEF part
    <3>. QED  BY <2>1, <2>2, <3>1 DEF part
  <2>4. ui' \in [at : Calls, then : Calls, rest : Seq(Tokens), budget : 0..Word - 1]
    <3>1. SubSeq(ui.rest, n + 1, Len(ui.rest)) \in Seq(Tokens)
      BY <2>2, BufferParts
    <3>2. [ui EXCEPT !.rest = SubSeq(@, n + 1, Len(@))] \in [at : Calls, then : Calls, rest : Seq(Tokens), budget : 0..Word - 1]
      BY <1>u, <3>1
    <3>. QED  BY <1>u, <2>1, <3>2, UiReturnType
  <2>. QED  BY <1>7, <2>3, <2>4 DEF TypeOK, WriteSome, procVars
<1>8. CASE WriteBlocks
  <2>1. ui' \in [at : Calls, then : Calls, rest : Seq(Tokens), budget : 0..Word - 1]
    BY <1>8, <1>u, UiReturnType DEF WriteBlocks
  <2>2. writeBuf' \in Seq(Tokens)
    BY <1>8, <1>u DEF WriteBlocks, TypeOK
  <2>. QED  BY <1>8, <2>1, <2>2 DEF TypeOK, WriteBlocks, procVars
<1>9. CASE WriteFails
  <2>1. ui' \in [at : Calls, then : Calls, rest : Seq(Tokens), budget : 0..Word - 1]
    BY <1>9, <1>u, UiReturnType DEF WriteFails
  <2>. QED  BY <1>9, <2>1 DEF TypeOK, WriteFails, procVars, bufVars
<1>10. CASE ReadChunk
  <2>1. PICK n \in 1..Chunk :
          /\ n <= output
          /\ output' = output - n
          /\ ui' = [ui EXCEPT !.budget = (@ + Word - n) % Word]
    BY <1>10 DEF ReadChunk
  <2>2. ui.budget \in Nat /\ n \in Nat
    BY <2>1, SessionAssumption, <1>u
  <2>3. (ui.budget + Word - n) % Word \in 0..Word - 1
    BY <2>2, BudgetWord
  <2>4. ui' \in [at : Calls, then : Calls, rest : Seq(Tokens), budget : 0..Word - 1]
    BY <1>u, <2>1, <2>3
  <2>5. response' \in Seq(Tokens) /\ Len(response') <= MaxResponse /\ tokens' \in 0..MaxTokens
    <3>0. response \in Seq(Tokens) /\ Len(response) <= MaxResponse /\ tokens \in 0..MaxTokens
      BY DEF TypeOK
    <3>1. CASE UNCHANGED <<response, tokens>>
      BY <3>0, <3>1
    <3>2. CASE /\ tokens < MaxTokens /\ Len(response) < MaxResponse
               /\ response' = Append(response, tokens + 1)
               /\ tokens' = tokens + 1
      BY <3>0, <3>2, <1>e, NextToken
    <3>. QED  BY <1>10, <3>1, <3>2 DEF ReadChunk, Answer
  <2>6. output' \in 0..OutputQueue
    <3>1. output \in 0..OutputQueue
      BY DEF TypeOK
    <3>2. output \in Nat /\ n \in Nat /\ output <= OutputQueue /\ n <= output /\ output' = output - n
      BY <2>1, <1>e, <3>1
    <3>. QED  BY <3>2, <1>e
  <2>. QED  BY <1>10, <2>4, <2>5, <2>6 DEF TypeOK, ReadChunk, procVars
<1>11. CASE Reap
  <2>1. ui' \in [at : Calls, then : Calls, rest : Seq(Tokens), budget : 0..Word - 1]
    BY <1>11, UiAtType DEF Reap, Calls
  <2>2. proc' \in [Sessions -> {"none", "zombie", "reaped"} \cup Alive]
    BY <1>11 DEF Reap, Becomes, TypeOK
  <2>3. events' \in [Sessions -> Nat]
    <3>1. CASE events' = events
      BY <3>1 DEF TypeOK
    <3>2. CASE events' = [events EXCEPT ![child] = @ + 1]
      <4>1. events \in [Sessions -> Nat]
        BY DEF TypeOK
      <4>2. CASE child \in Sessions
        <5>1. events[child] + 1 \in Nat
          BY <4>1, <4>2
        <5>. QED  BY <3>2, <4>1, <5>1
      <4>3. CASE child \notin Sessions
        BY <3>2, <4>1, <4>3
      <4>. QED  BY <4>2, <4>3
    <3>. QED  BY <1>11, <3>1, <3>2 DEF Reap
  <2>4. childExit' \in BOOLEAN
    <3>1. childExit' = TRUE \/ childExit' = childExit
      BY <1>11, Zenon DEF Reap
    <3>. QED  BY <3>1, Zenon DEF TypeOK
  <2>. QED  BY <1>11, <2>1, <2>2, <2>3, <2>4 DEF TypeOK, Reap, bufVars
<1>12. CASE HangupGroup
  <2>1. ui' \in [at : Calls, then : Calls, rest : Seq(Tokens), budget : 0..Word - 1]
    BY <1>12, <1>u DEF HangupGroup, Calls
  <2>. QED  BY <1>12, <2>1 DEF TypeOK, HangupGroup, Becomes, bufVars
<1>13. CASE WaitReaps
  <2>1. ui' \in [at : Calls, then : Calls, rest : Seq(Tokens), budget : 0..Word - 1]
    BY <1>13, <1>u, UiAtType DEF WaitReaps
  <2>2. proc' \in [Sessions -> {"none", "zombie", "reaped"} \cup Alive]
    BY <1>13 DEF WaitReaps, Becomes, TypeOK
  <2>3. childExit' \in BOOLEAN
    BY <1>13, Zenon DEF WaitReaps, NoSession
  <2>4. pty' \in 0..MaxSessions /\ child' \in 0..MaxSessions
    BY <1>13, <1>u DEF WaitReaps, NoSession
  <2>5. queue' \in Seq(Tokens) /\ Len(queue') <= InputQueue /\ output' \in 0..OutputQueue
    BY <1>13, <1>e DEF WaitReaps, NoSession
  <2>. QED  BY <1>13, <2>1, <2>2, <2>3, <2>4, <2>5 DEF TypeOK, WaitReaps
<1>14. CASE WaitExpires
  <2>1. ui' \in [at : Calls, then : Calls, rest : Seq(Tokens), budget : 0..Word - 1]
    BY <1>14, <1>u DEF WaitExpires, Calls
  <2>. QED  BY <1>14, <2>1 DEF TypeOK, WaitExpires, procVars, bufVars
<1>15. CASE KillGroup
  <2>1. ui' \in [at : Calls, then : Calls, rest : Seq(Tokens), budget : 0..Word - 1]
    BY <1>15, <1>u DEF KillGroup, Calls
  <2>. QED  BY <1>15, <2>1 DEF TypeOK, KillGroup, Becomes, bufVars
<1>16. CASE TypeKey
  <2>1. source' \in Seq(Tokens) /\ Len(source') <= MaxPending /\ tokens' \in 0..MaxTokens
    BY <1>16, NextToken, SessionAssumption DEF TypeKey, TypeOK
  <2>. QED  BY <1>16, <2>1 DEF TypeOK, TypeKey, procVars
<1>17. CASE Paste \/ ConfirmPaste
  <2>1. writeBuf' \in Seq(Tokens) /\ tokens' \in 0..MaxTokens
    BY <1>17, NextToken DEF Paste, ConfirmPaste, SendInput, TypeOK
  <2>. QED  BY <1>17, <2>1 DEF TypeOK, Paste, ConfirmPaste, procVars
<1>18. CASE PasteLines \/ CancelPaste
  BY <1>18 DEF TypeOK, PasteLines, CancelPaste, procVars
<1>19. CASE Restart \/ Shutdown
  <2>1. ui' \in [at : Calls, then : Calls, rest : Seq(Tokens), budget : 0..Word - 1]
    BY <1>19, <1>e DEF Restart, Shutdown, TearDown, UiAt, Calls
  <2>2. CASE NoSession
    <3>1. childExit' \in BOOLEAN
      BY <2>2, Zenon DEF NoSession
    <3>2. pty' \in 0..MaxSessions /\ child' \in 0..MaxSessions
      BY <2>2, <1>u DEF NoSession
    <3>3. queue' \in Seq(Tokens) /\ Len(queue') <= InputQueue /\ output' \in 0..OutputQueue
      BY <2>2, <1>e DEF NoSession
    <3>. QED  BY <1>19, <2>1, <3>1, <3>2, <3>3 DEF TypeOK, Restart, Shutdown
  <2>3. CASE UNCHANGED <<pty, child, childExit, queue, output>>
    BY <1>19, <2>1, <2>3 DEF TypeOK, Restart, Shutdown
  <2>4. NoSession \/ UNCHANGED <<pty, child, childExit, queue, output>>
    BY <1>19, Zenon DEF Restart, Shutdown
  <2>. QED  BY <2>2, <2>3, <2>4
<1>20. ASSUME NEW s \in Sessions, ChildStep(s) PROVE TypeOK'
  <2>1. CASE ShellReads(s)
    <3>1. PICK n \in 1..Len(queue) :
            /\ got' = [got EXCEPT ![s] = @ \o SubSeq(queue, 1, n)]
            /\ queue' = SubSeq(queue, n + 1, Len(queue))
      BY <2>1 DEF ShellReads
    <3>2. queue \in Seq(Tokens) /\ got[s] \in Seq(Tokens) /\ n \in 0..Len(queue)
      BY <3>1 DEF TypeOK
    <3>3. SubSeq(queue, 1, n) \in Seq(Tokens)
      BY <3>2, BufferParts
    <3>4. got[s] \o SubSeq(queue, 1, n) \in Seq(Tokens)
      BY <3>2, <3>3
    <3>5. got' \in [Sessions -> Seq(Tokens)]
      BY <3>1, <3>4 DEF TypeOK
    <3>6. queue' \in Seq(Tokens) /\ Len(queue') = Len(queue) - n
      BY <3>1, <3>2, BufferParts
    <3>7. Len(queue') <= InputQueue
      <4>1. Len(queue) \in Nat /\ Len(queue) <= InputQueue
        BY <3>2 DEF TypeOK
      <4>. QED  BY <3>2, <3>6, <4>1, <1>e
    <3>. QED  BY <2>1, <3>5, <3>6, <3>7 DEF TypeOK, ShellReads, procVars
  <2>2. CASE ShellPrints(s)
    BY <2>2, SessionAssumption DEF TypeOK, ShellPrints, procVars, bufVars
  <2>3. CASE ChildSetsid(s) \/ ChildClosesSlave(s) \/ ChildOpensSlave(s)
             \/ ChildExecs(s) \/ ChildExits(s)
    BY <2>3 DEF TypeOK, ChildSetsid, ChildClosesSlave, ChildOpensSlave, ChildExecs,
                ChildExits, Becomes, bufVars, Alive, Starting
  <2>. QED  BY <1>20, <2>1, <2>2, <2>3 DEF ChildStep
<1>. QED
  BY <1>1, <1>2, <1>3, <1>4, <1>5, <1>6, <1>7, <1>8, <1>9, <1>10, <1>11, <1>12, <1>13,
     <1>14, <1>15, <1>16, <1>17, <1>18, <1>19, <1>20 DEF Next, UiStep, Request

\* The session's state keeps its types, and the buffers of PtySink, of the
\* terminal's answers and of the kernel their bounds.
THEOREM SessionTyped == Spec => []TypeOK
  BY TypeInit, TypeStep, PTL DEF Spec

-----------------------------------------------------------------------------
(* No child is left behind.                                                *)

TearingDown == {"hangup", "wait", "kill", "waitKilled"}

\* The terminal has a PTY exactly when it has a handle, while it tears a session down
\* the handle is there, and write_all returns into poll.
HandleInv ==
    /\ pty = child
    /\ ui.at \in TearingDown => child # 0 /\ ui.then \in {"start", "ended"}
    /\ ui.at = "write" => ui.then \in {"source", "response", "read"}
    /\ NoStray

\* It holds at the start.
LEMMA HandleInit == Init => HandleInv
  BY DEF Init, HandleInv, NoStray, UiAt, TearingDown

\* Every step keeps it: a new child is started only when the last one was reaped.
LEMMA HandleStep == TypeOK /\ HandleInv /\ [Next]_vars => HandleInv'
<1>. SUFFICES ASSUME TypeOK, HandleInv, [Next]_vars PROVE HandleInv'
  OBVIOUS
<1>. USE DEF HandleInv, NoStray, TearingDown
<1>u. /\ ui \in [at : Calls, then : Calls, rest : Seq(Tokens), budget : 0..Word - 1]
      /\ proc \in [Sessions -> {"none", "zombie", "reaped"} \cup Alive]
  BY DEF TypeOK
<1>1. CASE UNCHANGED vars
  BY <1>1 DEF vars, procVars, bufVars
<1>2. CASE StartSession
  <2>. DEFINE s == Cardinality(Used) + 1
  <2>1. pty' = s /\ child' = s /\ proc' = [proc EXCEPT ![s] = "forked"] /\ child = 0
    BY <1>2 DEF StartSession
  <2>2. \A t \in Sessions : proc[t] \in {"none", "reaped"}
    BY <2>1, SessionAssumption DEF Sessions
  <2>3. ui'.at = "idle"
    BY <1>2 DEF StartSession, UiAt
  <2>. HIDE DEF s
  <2>. QED  BY <1>u, <2>1, <2>2, <2>3
<1>3. CASE StartFails \/ Poll \/ ReadEnds
  BY <1>3 DEF StartFails, Poll, ReadEnds, procVars, UiAt
<1>4. CASE FlushPending \/ FlushSource \/ FlushResponse
  <2>1. \/ ui'.at \in {"source", "response", "read"}
        \/ ui'.at = "write" /\ ui'.then \in {"source", "response", "read"}
    <3>1. CASE FlushPending
      BY <3>1 DEF FlushPending, HandOver, UiAt
    <3>2. CASE FlushSource
      BY <3>2 DEF FlushSource, HandOver, UiAt
    <3>3. CASE FlushResponse
      BY <3>3 DEF FlushResponse, UiAt
    <3>. QED  BY <1>4, <3>1, <3>2, <3>3
  <2>. QED  BY <1>4, <2>1 DEF FlushPending, FlushSource, FlushResponse, procVars
<1>5. CASE WriteSome \/ WriteBlocks \/ WriteFails
  <2>1. \/ ui'.at = ui.then
        \/ ui'.at = "write" /\ ui'.then = ui.then
    BY <1>5, <1>u DEF WriteSome, WriteBlocks, WriteFails, WriteReturns
  <2>2. ui.at = "write"
    BY <1>5 DEF WriteSome, WriteBlocks, WriteFails
  <2>. QED  BY <1>5, <2>1, <2>2 DEF WriteSome, WriteBlocks, WriteFails, procVars
<1>6. CASE ReadChunk
  BY <1>6, <1>u DEF ReadChunk, procVars
<1>7. CASE Reap
  <2>1. ui'.at = "idle" /\ UNCHANGED <<pty, child>>
    BY <1>7 DEF Reap, UiAt
  <2>2. CASE UNCHANGED proc
    BY <2>1, <2>2
  <2>3. CASE Becomes(child, "reaped")
    BY <1>u, <2>1, <2>3 DEF Becomes
  <2>. QED  BY <1>7, <2>2, <2>3, Zenon DEF Reap
<1>8. CASE HangupGroup \/ KillGroup
  <2>1. ui'.at \in TearingDown /\ ui'.then = ui.then /\ ui.at \in TearingDown
    BY <1>8, <1>u DEF HangupGroup, KillGroup
  <2>2. UNCHANGED <<pty, child>> /\ (UNCHANGED proc \/ Becomes(child, "zombie"))
    BY <1>8 DEF HangupGroup, KillGroup
  <2>. QED  BY <1>u, <2>1, <2>2 DEF Becomes
<1>9. CASE WaitReaps
  <2>1. ui'.at \in {"start", "ended"}
    BY <1>9 DEF WaitReaps, UiAt
  <2>. QED  BY <1>9, <1>u, <2>1 DEF WaitReaps, NoSession, Becomes
<1>10. CASE WaitExpires
  BY <1>10, <1>u DEF WaitExpires, procVars
<1>11. CASE TypeKey \/ Paste \/ PasteLines \/ ConfirmPaste \/ CancelPaste
  BY <1>11 DEF TypeKey, Paste, PasteLines, ConfirmPaste, CancelPaste, procVars
<1>12. CASE Restart \/ Shutdown
  <2>1. CASE child = 0
    BY <1>12, <2>1 DEF Restart, Shutdown, TearDown, NoSession, UiAt
  <2>2. CASE child # 0
    BY <1>12, <2>2 DEF Restart, Shutdown, TearDown, UiAt
  <2>. QED  BY <2>1, <2>2
<1>13. ASSUME NEW s \in Sessions, ChildStep(s) PROVE HandleInv'
  <2>1. CASE ShellReads(s) \/ ShellPrints(s)
    BY <2>1 DEF ShellReads, ShellPrints, procVars
  <2>2. CASE \/ ChildSetsid(s) \/ ChildClosesSlave(s) \/ ChildOpensSlave(s)
             \/ ChildExecs(s) \/ ChildExits(s)
    <3>1. UNCHANGED <<ui, pty, child>> /\ proc[s] \notin {"none", "reaped"}
      BY <2>2 DEF ChildSetsid, ChildClosesSlave, ChildOpensSlave, ChildExecs, ChildExits,
                  Alive, Starting
    <3>2. \A t \in Sessions : t # s => proc'[t] = proc[t]
      BY <2>2, <1>u DEF ChildSetsid, ChildClosesSlave, ChildOpensSlave, ChildExecs, ChildExits,
                  Becomes
    <3>. QED  BY <3>1, <3>2
  <2>. QED  BY <1>13, <2>1, <2>2 DEF ChildStep
<1>. QED
  BY <1>1, <1>2, <1>3, <1>4, <1>5, <1>6, <1>7, <1>8, <1>9, <1>10, <1>11, <1>12, <1>13
  DEF Next, UiStep, Request

\* No stray process, however many shells are started: restart and shutdown reap the
\* child they hold before another one is spawned (ChildHandle::shutdown).
THEOREM NoneLeftBehind == Spec => []NoStray
<1>1. Init => TypeOK /\ HandleInv
  BY TypeInit, HandleInit
<1>2. (TypeOK /\ HandleInv) /\ [Next]_vars => (TypeOK /\ HandleInv)'
  BY TypeStep, HandleStep
<1>3. HandleInv => NoStray
  BY DEF HandleInv
<1>. QED  BY <1>1, <1>2, <1>3, PTL DEF Spec
-----------------------------------------------------------------------------
(* Nothing is delivered twice.                                             *)

\* No token beyond t was handed out.
UpTo(places, t) ==
    \A p \in DOMAIN places : \A m \in DOMAIN places[p] : places[p][m] <= t

\* Dropping whole buffers leaves every other token where it was.
LEMMA Dropped ==
    ASSUME NEW P, NEW h \in [P -> Seq(Tokens)], NEW k \in [P -> Seq(Tokens)], NEW t \in Nat,
           Once(h), UpTo(h, t),
           \A p \in P : k[p] = h[p] \/ k[p] = <<>>
    PROVE  Once(k) /\ UpTo(k, t)
<1>1. \A p \in P : \A m \in DOMAIN k[p] : m \in DOMAIN h[p] /\ k[p][m] = h[p][m]
  OBVIOUS
<1>2. DOMAIN h = P /\ DOMAIN k = P
  OBVIOUS
<1>. QED  BY <1>1, <1>2 DEF Once, UpTo

\* Every place but a and b is as it was.
Elsewhere(P, h, k, a, b) == \A p \in P : p = a \/ p = b \/ k[p] = h[p]

\* b is what a was, and a is empty.
Hands(P, h, k, a, b) == k[b] = h[a] /\ k[a] = <<>> /\ Elsewhere(P, h, k, a, b)

\* A first part of a stands at the end of b.
Moves(P, h, k, a, b) ==
    /\ \E n \in 0..Len(h[a]) : /\ k[b] = h[b] \o SubSeq(h[a], 1, n)
                               /\ k[a] = SubSeq(h[a], n + 1, Len(h[a]))
    /\ Elsewhere(P, h, k, a, b)

\* One buffer becomes the other, which is given up (HandOver).
LEMMA Handed ==
    ASSUME NEW P, NEW h \in [P -> Seq(Tokens)], NEW k \in [P -> Seq(Tokens)], NEW t \in Nat,
           Once(h), UpTo(h, t),
           NEW a \in P, NEW b \in P, a # b, Hands(P, h, k, a, b)
    PROVE  Once(k) /\ UpTo(k, t)
<1>1. DOMAIN h = P /\ DOMAIN k = P
  OBVIOUS
<1>2. \A p \in P : \A m \in DOMAIN k[p] :
        /\ p # a
        /\ p = b => m \in DOMAIN h[a] /\ k[p][m] = h[a][m]
        /\ p # b => m \in DOMAIN h[p] /\ k[p][m] = h[p][m]
  BY DEF Hands, Elsewhere
<1>3. \A p \in P : \A m \in DOMAIN k[p] : \E x \in P :
        /\ m \in DOMAIN h[x] /\ k[p][m] = h[x][m]
        /\ (x = a /\ p = b) \/ (x = p /\ p \notin {a, b})
  <2>. SUFFICES ASSUME NEW p \in P, NEW m \in DOMAIN k[p]
                PROVE  \E x \in P : /\ m \in DOMAIN h[x] /\ k[p][m] = h[x][m]
                                    /\ (x = a /\ p = b) \/ (x = p /\ p \notin {a, b})
    OBVIOUS
  <2>1. CASE p = b
    BY <1>2, <2>1, Zenon
  <2>2. CASE p # b
    BY <1>2, <2>2, Zenon
  <2>. QED  BY <2>1, <2>2
<1>4. UpTo(k, t)
  BY <1>1, <1>3 DEF UpTo
<1>5. Once(k)
  <2>. SUFFICES ASSUME NEW p \in P, NEW q \in P, NEW m \in DOMAIN k[p], NEW j \in DOMAIN k[q],
                       k[p][m] = k[q][j]
                PROVE  p = q /\ m = j
    BY <1>1 DEF Once
  <2>1. PICK x \in P : /\ m \in DOMAIN h[x] /\ k[p][m] = h[x][m]
                       /\ (x = a /\ p = b) \/ (x = p /\ p \notin {a, b})
    BY <1>3
  <2>2. PICK y \in P : /\ j \in DOMAIN h[y] /\ k[q][j] = h[y][j]
                       /\ (y = a /\ q = b) \/ (y = q /\ q \notin {a, b})
    BY <1>3
  <2>3. x = y /\ m = j
    <3>1. h[x][m] = h[y][j]
      BY <2>1, <2>2
    <3>. QED  BY <1>1, <2>1, <2>2, <3>1 DEF Once
  <2>. QED  BY <2>1, <2>2, <2>3
<1>. QED  BY <1>4, <1>5

\* Where the tokens of a concatenation and of a part of a buffer come from.
LEMMA Positions ==
    ASSUME NEW q \in Seq(Tokens), NEW r \in Seq(Tokens), NEW n \in 0..Len(q)
    PROVE  /\ \A m \in DOMAIN (r \o SubSeq(q, 1, n)) :
                 \/ m \in DOMAIN r /\ (r \o SubSeq(q, 1, n))[m] = r[m]
                 \/ /\ m - Len(r) \in DOMAIN q /\ m - Len(r) <= n
                    /\ (r \o SubSeq(q, 1, n))[m] = q[m - Len(r)]
           /\ \A m \in DOMAIN SubSeq(q, n + 1, Len(q)) :
                 /\ m + n \in DOMAIN q /\ m + n > n
                 /\ SubSeq(q, n + 1, Len(q))[m] = q[m + n]
<1>. DEFINE u == SubSeq(q, 1, n)
<1>1. u \in Seq(Tokens) /\ Len(u) = n /\ \A m \in 1..n : u[m] = q[m]
  OBVIOUS
<1>2. /\ DOMAIN r = 1..Len(r) /\ DOMAIN q = 1..Len(q) /\ Len(r) \in Nat /\ Len(q) \in Nat
      /\ n \in Nat /\ n <= Len(q)
  OBVIOUS
<1>3. \A m \in DOMAIN SubSeq(q, n + 1, Len(q)) :
         /\ m + n \in DOMAIN q /\ m + n > n
         /\ SubSeq(q, n + 1, Len(q))[m] = q[m + n]
  <2>. DEFINE v == SubSeq(q, n + 1, Len(q))
  <2>1. /\ v \in Seq(Tokens)
        /\ Len(v) = IF n + 1 <= Len(q) THEN Len(q) - (n + 1) + 1 ELSE 0
        /\ \A i \in 1..(Len(q) - (n + 1) + 1) : v[i] = q[(n + 1) + i - 1]
    <3>1. n + 1 \in Int /\ Len(q) \in Int /\ \A i \in (n + 1)..Len(q) : q[i] \in Tokens
      BY <1>2
    <3>. QED  BY <3>1, SubSeqProperties
  <2>. HIDE DEF v
  <2>2. DOMAIN v = 1..Len(v)
    BY <2>1
  <2>3. Len(v) = Len(q) - n
    <3>1. Len(v) = IF n + 1 <= Len(q) THEN Len(q) - (n + 1) + 1 ELSE 0
      BY <2>1
    <3>2. n \in Int /\ Len(q) \in Int /\ n <= Len(q)
      BY <1>2
    <3>3. CASE n + 1 <= Len(q)
      BY ONLY <3>1, <3>2, <3>3
    <3>4. CASE ~(n + 1 <= Len(q))
      BY ONLY <3>1, <3>2, <3>4
    <3>. QED  BY <3>3, <3>4
  <2>4. ASSUME NEW m \in DOMAIN v
        PROVE  m + n \in DOMAIN q /\ m + n > n /\ v[m] = q[m + n]
    <3>1. m \in 1..(Len(q) - (n + 1) + 1) /\ (n + 1) + m - 1 = m + n
      BY <1>2, <2>2, <2>3
    <3>2. v[m] = q[(n + 1) + m - 1]
      BY <2>1, <3>1
    <3>3. m + n \in 1..Len(q) /\ m + n > n
      BY <1>2, <3>1
    <3>. QED  BY <1>2, <3>1, <3>2, <3>3
  <2>. QED  BY <2>4 DEF v
<1>. HIDE DEF u
<1>4. /\ DOMAIN (r \o u) = 1..(Len(r) + n)
      /\ \A m \in 1..Len(r) : (r \o u)[m] = r[m]
      /\ \A m \in (Len(r) + 1)..(Len(r) + n) : (r \o u)[m] = u[m - Len(r)]
  BY <1>1, <1>2, SMTT(30)
<1>5. \A m \in DOMAIN (r \o u) : \/ m \in DOMAIN r /\ (r \o u)[m] = r[m]
                               \/ /\ m - Len(r) \in DOMAIN q /\ m - Len(r) <= n
                                  /\ (r \o u)[m] = q[m - Len(r)]
  <2>. SUFFICES ASSUME NEW m \in 1..(Len(r) + n)
                PROVE  \/ m \in DOMAIN r /\ (r \o u)[m] = r[m]
                       \/ /\ m - Len(r) \in DOMAIN q /\ m - Len(r) <= n
                          /\ (r \o u)[m] = q[m - Len(r)]
    BY <1>4
  <2>1. CASE m <= Len(r)
    BY <1>2, <1>4, <2>1
  <2>2. CASE m > Len(r)
    <3>1. m - Len(r) \in 1..n /\ m \in (Len(r) + 1)..(Len(r) + n)
      BY <1>2, <2>2
    <3>. QED  BY <1>1, <1>2, <1>4, <3>1
  <2>3. m <= Len(r) \/ m > Len(r)
    BY <1>2
  <2>. QED  BY <2>1, <2>2, <2>3, Zenon
<1>. QED  BY <1>3, <1>5 DEF u

\* A first part of one buffer moves to the end of another (write, read).
LEMMA Moved ==
    ASSUME NEW P, NEW h \in [P -> Seq(Tokens)], NEW k \in [P -> Seq(Tokens)], NEW t \in Nat,
           Once(h), UpTo(h, t),
           NEW a \in P, NEW b \in P, a # b, Moves(P, h, k, a, b)
    PROVE  Once(k) /\ UpTo(k, t)
<1>0. PICK n \in 0..Len(h[a]) : /\ k[b] = h[b] \o SubSeq(h[a], 1, n)
                                /\ k[a] = SubSeq(h[a], n + 1, Len(h[a]))
  BY DEF Moves
<1>1. DOMAIN h = P /\ DOMAIN k = P
  OBVIOUS
<1>. DEFINE l == Len(h[b])
<1>2. l \in Nat
  OBVIOUS
<1>3. \A m \in DOMAIN k[b] : \/ m \in DOMAIN h[b] /\ k[b][m] = h[b][m]
                             \/ m - l \in DOMAIN h[a] /\ m - l <= n /\ k[b][m] = h[a][m - l]
  BY <1>0, Positions
<1>4. \A m \in DOMAIN k[a] : m + n \in DOMAIN h[a] /\ m + n > n /\ k[a][m] = h[a][m + n]
  BY <1>0, Positions
<1>5. \A p \in P \ {a, b} : \A m \in DOMAIN k[p] : m \in DOMAIN h[p] /\ k[p][m] = h[p][m]
  BY DEF Moves, Elsewhere
<1>6. \A p \in P : \A m \in DOMAIN k[p], q \in DOMAIN h[p] : m \in Nat /\ q \in Nat
  OBVIOUS
<1>. HIDE DEF l
<1>7. UpTo(k, t)
  <2>. SUFFICES ASSUME NEW p \in P, NEW m \in DOMAIN k[p] PROVE k[p][m] <= t
    BY <1>1 DEF UpTo
  <2>1. \A q \in P : \A j \in DOMAIN h[q] : h[q][j] <= t
    BY <1>1 DEF UpTo
  <2>2. CASE p = a
    <3>1. m + n \in DOMAIN h[a] /\ k[p][m] = h[a][m + n]
      BY <1>4, <2>2
    <3>. QED  BY <2>1, <3>1
  <2>3. CASE p = b
    <3>1. CASE m \in DOMAIN h[b] /\ k[b][m] = h[b][m]
      BY <2>1, <2>3, <3>1
    <3>2. CASE m - l \in DOMAIN h[a] /\ k[b][m] = h[a][m - l]
      BY <2>1, <2>3, <3>2
    <3>. QED  BY <1>3, <2>3, <3>1, <3>2
  <2>4. CASE p # a /\ p # b
    BY <1>5, <2>1, <2>4
  <2>. QED  BY <2>2, <2>3, <2>4
<1>8. Once(k)
  <2>. SUFFICES ASSUME NEW p \in P, NEW q \in P, NEW m \in DOMAIN k[p], NEW j \in DOMAIN k[q],
                       k[p][m] = k[q][j]
                PROVE  p = q /\ m = j
    BY <1>1 DEF Once
  <2>1. \A x, y \in P : \A i \in DOMAIN h[x], z \in DOMAIN h[y] :
           h[x][i] = h[y][z] => x = y /\ i = z
    BY <1>1 DEF Once
  <2>2. m \in Nat /\ j \in Nat /\ n \in Nat
    BY <1>6
  <2>. DEFINE From(p0, m0, x, i) == \/ p0 = a /\ x = a /\ i = m0 + n /\ i > n
                                    \/ p0 = b /\ x = b /\ i = m0
                                    \/ p0 = b /\ x = a /\ i = m0 - l /\ i <= n
                                    \/ p0 \notin {a, b} /\ x = p0 /\ i = m0
  <2>3. \A p0 \in P : \A m0 \in DOMAIN k[p0] :
          \E x \in P : \E i \in DOMAIN h[x] : k[p0][m0] = h[x][i] /\ From(p0, m0, x, i)
    <3>. SUFFICES ASSUME NEW p0 \in P, NEW m0 \in DOMAIN k[p0]
                  PROVE  \E x \in P : \E i \in DOMAIN h[x] : k[p0][m0] = h[x][i] /\ From(p0, m0, x, i)
      OBVIOUS
    <3>1. CASE p0 = a
      <4>1. m0 + n \in DOMAIN h[a] /\ k[p0][m0] = h[a][m0 + n] /\ From(p0, m0, a, m0 + n)
        BY <1>4, <3>1
      <4>. QED  BY <4>1
    <3>2. CASE p0 = b /\ m0 \in DOMAIN h[b] /\ k[b][m0] = h[b][m0]
      <4>1. From(p0, m0, b, m0)
        BY <3>2
      <4>. QED  BY <3>2, <4>1
    <3>3. CASE p0 = b /\ m0 - l \in DOMAIN h[a] /\ m0 - l <= n /\ k[b][m0] = h[a][m0 - l]
      <4>1. From(p0, m0, a, m0 - l)
        BY <3>3
      <4>. QED  BY <3>3, <4>1
    <3>4. CASE p0 \notin {a, b}
      <4>1. From(p0, m0, p0, m0)
        BY <3>4
      <4>. QED  BY <1>5, <3>4, <4>1
    <3>. QED  BY <1>3, <3>1, <3>2, <3>3, <3>4
  <2>. HIDE DEF From
  <2>4. PICK x \in P : \E i \in DOMAIN h[x] : k[p][m] = h[x][i] /\ From(p, m, x, i)
    BY <2>3
  <2>5. PICK i \in DOMAIN h[x] : k[p][m] = h[x][i] /\ From(p, m, x, i)
    BY <2>4
  <2>6. PICK y \in P : \E z \in DOMAIN h[y] : k[q][j] = h[y][z] /\ From(q, j, y, z)
    BY <2>3
  <2>7. PICK z \in DOMAIN h[y] : k[q][j] = h[y][z] /\ From(q, j, y, z)
    BY <2>6
  <2>8. x = y /\ i = z
    <3>1. h[x][i] = h[y][z]
      BY <2>5, <2>7
    <3>. QED  BY <2>1, <3>1
  <2>9. i \in Nat
    BY <1>6, <2>5
  <2>. QED  BY <1>2, <2>2, <2>5, <2>7, <2>8, <2>9, SMTT(30) DEF From
<1>. QED  BY <1>7, <1>8

\* A new token stands behind the others (send, send_input, queue_response).
LEMMA Added ==
    ASSUME NEW P, NEW h \in [P -> Seq(Tokens)], NEW k \in [P -> Seq(Tokens)], NEW t \in Nat,
           Once(h), UpTo(h, t),
           NEW a \in P, k[a] = Append(h[a], t + 1),
           \A p \in P \ {a} : k[p] = h[p]
    PROVE  Once(k) /\ UpTo(k, t + 1)
<1>1. DOMAIN h = P /\ DOMAIN k = P
  OBVIOUS
<1>. DEFINE l == Len(h[a]) + 1
<1>2. \A m \in DOMAIN k[a] : \/ m \in DOMAIN h[a] /\ k[a][m] = h[a][m]
                             \/ m = l /\ k[a][m] = t + 1
  OBVIOUS
<1>3. \A p \in P \ {a} : \A m \in DOMAIN k[p] : m \in DOMAIN h[p] /\ k[p][m] = h[p][m]
  OBVIOUS
<1>4. \A p \in P : \A m \in DOMAIN h[p] : h[p][m] \in Nat /\ h[p][m] <= t
  BY <1>1, SessionAssumption DEF UpTo, Tokens
<1>. HIDE DEF l
<1>5. UpTo(k, t + 1)
  <2>. SUFFICES ASSUME NEW p \in P, NEW m \in DOMAIN k[p] PROVE k[p][m] <= t + 1
    BY <1>1 DEF UpTo
  <2>1. CASE p = a
    BY <1>2, <1>4, <2>1
  <2>2. CASE p # a
    <3>1. m \in DOMAIN h[p] /\ k[p][m] = h[p][m]
      BY <1>3, <2>2
    <3>2. h[p][m] \in Nat /\ h[p][m] <= t
      BY <1>4, <3>1
    <3>. QED  BY <3>1, <3>2
  <2>. QED  BY <2>1, <2>2
<1>6. Once(k)
  <2>. SUFFICES ASSUME NEW p \in P, NEW q \in P, NEW m \in DOMAIN k[p], NEW j \in DOMAIN k[q],
                       k[p][m] = k[q][j]
                PROVE  p = q /\ m = j
    BY <1>1 DEF Once
  <2>1. \A x, y \in P : \A i \in DOMAIN h[x], z \in DOMAIN h[y] :
           h[x][i] = h[y][z] => x = y /\ i = z
    BY <1>1 DEF Once
  <2>2. \A p0 \in P : \A m0 \in DOMAIN k[p0] :
          \/ m0 \in DOMAIN h[p0] /\ k[p0][m0] = h[p0][m0]
          \/ p0 = a /\ m0 = l /\ k[p0][m0] = t + 1
    BY <1>2, <1>3
  <2>3. CASE m \in DOMAIN h[p] /\ k[p][m] = h[p][m]
    <3>1. k[p][m] # t + 1
      <4>1. h[p][m] \in Nat /\ h[p][m] <= t
        BY <1>4, <2>3
      <4>. QED  BY <2>3, <4>1
    <3>2. j \in DOMAIN h[q] /\ k[q][j] = h[q][j]
      BY <2>2, <3>1
    <3>3. h[p][m] = h[q][j]
      BY <2>3, <3>2
    <3>. QED  BY <2>1, <2>3, <3>2, <3>3
  <2>4. CASE p = a /\ m = l /\ k[p][m] = t + 1
    <3>1. ~(j \in DOMAIN h[q] /\ k[q][j] = h[q][j])
      <4>1. SUFFICES ASSUME j \in DOMAIN h[q], k[q][j] = h[q][j] PROVE FALSE
        OBVIOUS
      <4>2. h[q][j] \in Nat /\ h[q][j] <= t
        BY <1>4, <4>1
      <4>. QED  BY <2>4, <4>1, <4>2
    <3>. QED  BY <2>2, <2>4, <3>1
  <2>. QED  BY <2>2, <2>3, <2>4
<1>. QED  BY <1>5, <1>6

PlaceSet == 1..5 + MaxSessions

\* What stands where.
Laid(h, a, b, c, d, e, g) ==
    /\ h \in [PlaceSet -> Seq(Tokens)]
    /\ h[1] = a /\ h[2] = b /\ h[3] = c /\ h[4] = d /\ h[5] = e
    /\ \A s \in Sessions : 5 + s \in PlaceSet /\ h[5 + s] = g[s]
    /\ \A p \in PlaceSet : p \in 1..5 \/ (p - 5 \in Sessions /\ p = 5 + (p - 5))

\* The places, one by one.
LEMMA PlacesOf ==
    ASSUME NEW a \in Seq(Tokens), NEW b \in Seq(Tokens), NEW c \in Seq(Tokens),
           NEW d \in Seq(Tokens), NEW e \in Seq(Tokens), NEW g \in [Sessions -> Seq(Tokens)],
           NEW h, h = <<a, b, c, d, e>> \o g
    PROVE  Laid(h, a, b, c, d, e, g)
<1>1. MaxSessions \in Nat
  BY SessionAssumption
<1>2. g \in Seq(Seq(Tokens)) /\ Len(g) = MaxSessions
  BY <1>1 DEF Sessions
<1>. DEFINE f == <<a, b, c, d, e>>
<1>3. f \in Seq(Seq(Tokens)) /\ Len(f) = 5 /\ f[1] = a /\ f[2] = b /\ f[3] = c /\ f[4] = d /\ f[5] = e
  OBVIOUS
<1>. HIDE DEF f
<1>4. h = f \o g
  BY DEF f
<1>5. h \in Seq(Seq(Tokens)) /\ Len(h) = 5 + MaxSessions
  BY <1>1, <1>2, <1>3, <1>4
<1>6. h \in [PlaceSet -> Seq(Tokens)]
  <2>1. h \in [1..Len(h) -> Seq(Tokens)]
    BY <1>5, LenProperties
  <2>. QED  BY <1>5, <2>1 DEF PlaceSet
<1>7. h[1] = a /\ h[2] = b /\ h[3] = c /\ h[4] = d /\ h[5] = e
  BY <1>1, <1>2, <1>3, <1>4
<1>8. \A s \in Sessions : 5 + s \in PlaceSet /\ h[5 + s] = g[s]
  BY <1>1, <1>2, <1>3, <1>4 DEF Sessions, PlaceSet
<1>9. \A p \in PlaceSet : p \in 1..5 \/ (p - 5 \in Sessions /\ p = 5 + (p - 5))
  BY <1>1 DEF Sessions, PlaceSet
<1>. QED  BY <1>6, <1>7, <1>8, <1>9 DEF Laid
\* Every token was handed out, and none stands in two places.
OnceInv == EachTokenOnce /\ UpTo(Places, tokens)

\* It holds at the start: every place is empty.
LEMMA OnceInit == Init => OnceInv
<1>. SUFFICES ASSUME Init PROVE OnceInv
  OBVIOUS
<1>. DEFINE h == Places
<1>1. ui.rest = <<>>
  BY DEF Init, UiAt
<1>2. /\ source \in Seq(Tokens) /\ writeBuf \in Seq(Tokens) /\ response \in Seq(Tokens)
      /\ ui.rest \in Seq(Tokens) /\ queue \in Seq(Tokens) /\ got \in [Sessions -> Seq(Tokens)]
  BY TypeInit DEF TypeOK
<1>3. /\ h \in [PlaceSet -> Seq(Tokens)]
      /\ h[1] = source /\ h[2] = writeBuf /\ h[3] = response /\ h[4] = ui.rest /\ h[5] = queue
      /\ \A s \in Sessions : h[5 + s] = got[s]
      /\ \A p \in PlaceSet : p \in 1..5 \/ (p - 5 \in Sessions /\ p = 5 + (p - 5))
  <2>1. h = <<source, writeBuf, response, ui.rest, queue>> \o got
    BY DEF Places
  <2>. HIDE DEF h
  <2>2. Laid(h, source, writeBuf, response, ui.rest, queue, got)
    BY <1>2, <2>1, PlacesOf, Zenon
  <2>. QED  BY <2>2 DEF Laid
<1>. HIDE DEF h
<1>4. \A p \in PlaceSet : h[p] = <<>>
  <2>. SUFFICES ASSUME NEW p \in PlaceSet PROVE h[p] = <<>>
    OBVIOUS
  <2>1. CASE p \in 1..5
    BY <1>1, <1>3, <2>1 DEF Init
  <2>2. CASE p - 5 \in Sessions /\ p = 5 + (p - 5)
    BY <1>3, <2>2 DEF Init
  <2>. QED  BY <1>3, <2>1, <2>2
<1>5. Once(h) /\ UpTo(h, tokens)
  BY <1>3, <1>4 DEF Once, UpTo
<1>. QED  BY <1>5 DEF h, OnceInv, EachTokenOnce

\* Every step keeps it: a step adds a new token, drops a buffer, or moves a first
\* part of one to the end of another.
LEMMA OnceStep == TypeOK /\ TypeOK' /\ OnceInv /\ [Next]_vars => OnceInv'
<1>. SUFFICES ASSUME TypeOK, TypeOK', OnceInv, [Next]_vars PROVE OnceInv'
  OBVIOUS
<1>. DEFINE h == Places
            k == Places'
<1>1. /\ h \in [PlaceSet -> Seq(Tokens)]
      /\ h[1] = source /\ h[2] = writeBuf /\ h[3] = response /\ h[4] = ui.rest /\ h[5] = queue
      /\ \A s \in Sessions : 5 + s \in PlaceSet /\ h[5 + s] = got[s]
      /\ \A p \in PlaceSet : p \in 1..5 \/ (p - 5 \in Sessions /\ p = 5 + (p - 5))
  <2>1. /\ source \in Seq(Tokens) /\ writeBuf \in Seq(Tokens) /\ response \in Seq(Tokens)
        /\ ui.rest \in Seq(Tokens) /\ queue \in Seq(Tokens) /\ got \in [Sessions -> Seq(Tokens)]
    BY DEF TypeOK
  <2>2. h = <<source, writeBuf, response, ui.rest, queue>> \o got
    BY DEF Places
  <2>. HIDE DEF h
  <2>3. Laid(h, source, writeBuf, response, ui.rest, queue, got)
    BY <2>1, <2>2, PlacesOf, Zenon
  <2>. QED  BY <2>3 DEF Laid
<1>2. /\ k \in [PlaceSet -> Seq(Tokens)]
      /\ k[1] = source' /\ k[2] = writeBuf' /\ k[3] = response' /\ k[4] = ui'.rest /\ k[5] = queue'
      /\ \A s \in Sessions : k[5 + s] = got'[s]
  <2>1. /\ source' \in Seq(Tokens) /\ writeBuf' \in Seq(Tokens) /\ response' \in Seq(Tokens)
        /\ ui'.rest \in Seq(Tokens) /\ queue' \in Seq(Tokens) /\ got' \in [Sessions -> Seq(Tokens)]
    BY DEF TypeOK
  <2>2. k = <<source', writeBuf', response', ui'.rest, queue'>> \o got'
    BY DEF Places
  <2>. HIDE DEF k
  <2>3. Laid(k, source', writeBuf', response', ui'.rest, queue', got')
    BY <2>1, <2>2, PlacesOf, Zenon
  <2>. QED  BY <2>3 DEF Laid
<1>3. Once(h) /\ UpTo(h, tokens)
  BY DEF OnceInv, EachTokenOnce
<1>. HIDE DEF h, k
<1>4. SUFFICES Once(k) /\ UpTo(k, tokens')
  BY DEF k, OnceInv, EachTokenOnce
<1>5. /\ tokens \in Nat /\ 1..5 \subseteq PlaceSet
      /\ ui \in [at : Calls, then : Calls, rest : Seq(Tokens), budget : 0..Word - 1]
  BY SessionAssumption DEF TypeOK, PlaceSet
<1>t. h \in [PlaceSet -> Seq(Tokens)] /\ k \in [PlaceSet -> Seq(Tokens)] /\ tokens \in Nat
  BY <1>1, <1>2, <1>5
<1>s. ASSUME got' = got PROVE \A p \in PlaceSet : p \in {1, 2, 3, 4, 5} \/ k[p] = h[p]
  <2>. SUFFICES ASSUME NEW p \in PlaceSet PROVE p \in {1, 2, 3, 4, 5} \/ k[p] = h[p]
    OBVIOUS
  <2>1. CASE p \in 1..5
    BY <2>1
  <2>2. CASE p - 5 \in Sessions /\ p = 5 + (p - 5)
    <3>. DEFINE s == p - 5
    <3>1. s \in Sessions /\ p = 5 + s
      BY <2>2
    <3>. HIDE DEF s
    <3>. QED  BY <1>1, <1>2, <1>s, <3>1
  <2>. QED  BY <1>1, <2>1, <2>2
<1>6. ASSUME tokens' = tokens, got' = got,
             source' \in {source, <<>>}, writeBuf' \in {writeBuf, <<>>},
             response' \in {response, <<>>}, ui'.rest \in {ui.rest, <<>>},
             queue' \in {queue, <<>>}
      PROVE  Once(k) /\ UpTo(k, tokens')
  <2>1. \A p \in PlaceSet : k[p] = h[p] \/ k[p] = <<>>
    BY <1>1, <1>2, <1>6, <1>s
  <2>2. Once(k) /\ UpTo(k, tokens)
    BY <1>t, <1>3, <2>1, Dropped, Zenon
  <2>. QED  BY <1>6, <2>2
<1>7. ASSUME NEW a \in {1, 2, 3}, tokens' = tokens + 1, k[a] = Append(h[a], tokens + 1),
             \A p \in {1, 2, 3, 4, 5} \ {a} : k[p] = h[p], got' = got
      PROVE  Once(k) /\ UpTo(k, tokens')
  <2>1. \A p \in PlaceSet \ {a} : k[p] = h[p]
    BY <1>7, <1>s
  <2>2. a \in PlaceSet
    BY <1>5
  <2>3. Once(k) /\ UpTo(k, tokens + 1)
    BY <1>t, <1>3, <1>7, <2>1, <2>2, Added, Zenon
  <2>. QED  BY <1>7, <2>3
<1>8. ASSUME NEW a \in {1, 2, 3}, tokens' = tokens, k[4] = h[a], k[a] = <<>>,
             \A p \in {1, 2, 3, 4, 5} \ {a, 4} : k[p] = h[p], got' = got
      PROVE  Once(k) /\ UpTo(k, tokens')
  <2>1. Hands(PlaceSet, h, k, a, 4)
    BY <1>8, <1>s DEF Hands, Elsewhere
  <2>2. a \in PlaceSet /\ 4 \in PlaceSet /\ a # 4
    BY <1>5
  <2>3. Once(k) /\ UpTo(k, tokens)
    BY <1>t, <1>3, <1>8, <2>1, <2>2, Handed, Zenon
  <2>. QED  BY <1>8, <2>3
<1>11. CASE UNCHANGED vars
  BY <1>6, <1>11 DEF vars, procVars, bufVars
<1>12. CASE StartSession
  BY <1>6, <1>12 DEF StartSession, UiAt
<1>13. CASE StartFails \/ Poll \/ ReadEnds
  BY <1>6, <1>13 DEF StartFails, Poll, ReadEnds, bufVars, UiAt
<1>14. CASE FlushPending
  <2>1. k[4] = h[2] /\ k[2] = <<>> /\ tokens' = tokens /\ got' = got
    BY <1>1, <1>2, <1>14 DEF FlushPending, HandOver, UiAt
  <2>2. \A p \in {1, 2, 3, 4, 5} \ {2, 4} : k[p] = h[p]
    BY <1>1, <1>2, <1>14 DEF FlushPending
  <2>. QED  BY <1>8, <2>1, <2>2
<1>15. CASE FlushSource
  <2>1. k[4] = h[1] /\ k[1] = <<>> /\ tokens' = tokens /\ got' = got
    BY <1>1, <1>2, <1>15 DEF FlushSource, HandOver, UiAt
  <2>2. \A p \in {1, 2, 3, 4, 5} \ {1, 4} : k[p] = h[p]
    BY <1>1, <1>2, <1>15 DEF FlushSource
  <2>. QED  BY <1>8, <2>1, <2>2
<1>16. CASE FlushResponse
  <2>1. k[4] = h[3] /\ k[3] = <<>> /\ tokens' = tokens /\ got' = got
    BY <1>1, <1>2, <1>16 DEF FlushResponse, UiAt
  <2>2. \A p \in {1, 2, 3, 4, 5} \ {3, 4} : k[p] = h[p]
    BY <1>1, <1>2, <1>16 DEF FlushResponse
  <2>. QED  BY <1>8, <2>1, <2>2
<1>17. CASE WriteSome
  <2>1. PICK n \in 1..Len(ui.rest) :
          /\ queue' = queue \o SubSeq(ui.rest, 1, n)
          /\ ui' = IF n = Len(ui.rest) THEN WriteReturns
                   ELSE [ui EXCEPT !.rest = SubSeq(@, n + 1, Len(@))]
    BY <1>17 DEF WriteSome
  <2>2. ui'.rest = SubSeq(ui.rest, n + 1, Len(ui.rest))
    <3>1. CASE n = Len(ui.rest)
      <4>1. ui'.rest = <<>>
        BY <1>5, <2>1, <3>1 DEF WriteReturns
      <4>2. SubSeq(ui.rest, n + 1, Len(ui.rest)) = <<>>
        BY <1>5, <3>1
      <4>. QED  BY <4>1, <4>2
    <3>2. CASE n # Len(ui.rest)
      BY <1>5, <2>1, <3>2
    <3>. QED  BY <3>1, <3>2
  <2>3. h[4] = ui.rest /\ h[5] = queue /\ k[4] = ui'.rest /\ k[5] = queue' /\ n \in 0..Len(ui.rest)
    BY <1>1, <1>2, <1>5, <2>1
  <2>4. Moves(PlaceSet, h, k, 4, 5)
    <3>1. Elsewhere(PlaceSet, h, k, 4, 5)
      BY <1>1, <1>2, <1>s, <1>17 DEF WriteSome, Elsewhere
    <3>2. n \in 0..Len(h[4]) /\ k[5] = h[5] \o SubSeq(h[4], 1, n) /\ k[4] = SubSeq(h[4], n + 1, Len(h[4]))
      BY <2>1, <2>2, <2>3, Zenon
    <3>. QED  BY <3>1, <3>2, Zenon DEF Moves
  <2>5. tokens' = tokens /\ 4 \in PlaceSet /\ 5 \in PlaceSet /\ 4 # 5
    BY <1>5, <1>17 DEF WriteSome
  <2>6. Once(k) /\ UpTo(k, tokens)
    BY <1>t, <1>3, <2>4, <2>5, Moved, Zenon
  <2>. QED  BY <2>5, <2>6
<1>18. CASE WriteBlocks
  <2>. DEFINE n == Len(ui.rest)
  <2>1. writeBuf' = writeBuf \o ui.rest /\ ui'.rest = <<>> /\ ui.rest \in Seq(Tokens)
    BY <1>5, <1>18 DEF WriteBlocks, WriteReturns
  <2>2. SubSeq(ui.rest, 1, Len(ui.rest)) = ui.rest
        /\ SubSeq(ui.rest, Len(ui.rest) + 1, Len(ui.rest)) = <<>>
    BY <2>1
  <2>3. h[4] = ui.rest /\ h[2] = writeBuf /\ k[4] = ui'.rest /\ k[2] = writeBuf' /\ n \in 0..Len(ui.rest)
    BY <1>1, <1>2, <2>1
  <2>4. Moves(PlaceSet, h, k, 4, 2)
    <3>1. Elsewhere(PlaceSet, h, k, 4, 2)
      BY <1>1, <1>2, <1>s, <1>18 DEF WriteBlocks, Elsewhere
    <3>2. k[2] = h[2] \o SubSeq(h[4], 1, n) /\ k[4] = SubSeq(h[4], n + 1, Len(h[4]))
      <4>1. SubSeq(ui.rest, 1, n) = ui.rest /\ SubSeq(ui.rest, n + 1, Len(ui.rest)) = <<>>
        BY <2>2
      <4>. HIDE DEF n
      <4>. QED  BY <2>1, <2>3, <4>1, Zenon
    <3>3. n \in 0..Len(h[4])
      BY <2>3
    <3>. HIDE DEF n
    <3>. QED  BY <3>1, <3>2, <3>3, Zenon DEF Moves
  <2>5. tokens' = tokens /\ 4 \in PlaceSet /\ 2 \in PlaceSet /\ 4 # 2
    BY <1>5, <1>18 DEF WriteBlocks
  <2>. HIDE DEF n
  <2>6. Once(k) /\ UpTo(k, tokens)
    BY <1>t, <1>3, <2>4, <2>5, Moved, Zenon
  <2>. QED  BY <2>5, <2>6
<1>19. CASE WriteFails
  BY <1>5, <1>6, <1>19 DEF WriteFails, WriteReturns, bufVars
<1>20. CASE ReadChunk
  <2>1. ui'.rest = ui.rest /\ UNCHANGED <<source, writeBuf, queue, got>>
    BY <1>5, <1>20 DEF ReadChunk
  <2>2. CASE UNCHANGED <<response, tokens>>
    BY <1>6, <2>1, <2>2
  <2>3. CASE response' = Append(response, tokens + 1) /\ tokens' = tokens + 1
    <3>1. \A p \in {1, 2, 3, 4, 5} \ {3} : k[p] = h[p]
      BY <1>1, <1>2, <2>1
    <3>2. k[3] = Append(h[3], tokens + 1)
      BY <1>1, <1>2, <2>3
    <3>. QED  BY <1>7, <2>1, <2>3, <3>1, <3>2
  <2>. QED  BY <1>20, <2>2, <2>3 DEF ReadChunk, Answer
<1>21. CASE Reap
  BY <1>6, <1>21 DEF Reap, UiAt, bufVars
<1>22. CASE HangupGroup \/ KillGroup \/ WaitExpires
  BY <1>5, <1>6, <1>22 DEF HangupGroup, KillGroup, WaitExpires, bufVars
<1>23. CASE WaitReaps
  BY <1>6, <1>23 DEF WaitReaps, NoSession, UiAt
<1>24. CASE TypeKey
  <2>1. \A p \in {1, 2, 3, 4, 5} \ {1} : k[p] = h[p]
    BY <1>1, <1>2, <1>24 DEF TypeKey
  <2>2. k[1] = Append(h[1], tokens + 1) /\ tokens' = tokens + 1 /\ got' = got
    BY <1>1, <1>2, <1>24 DEF TypeKey
  <2>. QED  BY <1>7, <2>1, <2>2
<1>25. CASE Paste \/ ConfirmPaste
  <2>1. UNCHANGED <<ui, source, response, queue, got>>
    BY <1>25 DEF Paste, ConfirmPaste
  <2>2. CASE UNCHANGED <<writeBuf, tokens>>
    BY <1>6, <2>1, <2>2
  <2>3. CASE writeBuf' = Append(writeBuf, tokens + 1) /\ tokens' = tokens + 1
    <3>1. \A p \in {1, 2, 3, 4, 5} \ {2} : k[p] = h[p]
      BY <1>1, <1>2, <2>1
    <3>2. k[2] = Append(h[2], tokens + 1)
      BY <1>1, <1>2, <2>3
    <3>. QED  BY <1>7, <2>1, <2>3, <3>1, <3>2
  <2>. QED  BY <1>25, <2>2, <2>3, Zenon DEF Paste, ConfirmPaste, SendInput
<1>26. CASE PasteLines \/ CancelPaste
  BY <1>6, <1>26 DEF PasteLines, CancelPaste
<1>27. CASE Restart \/ Shutdown
  <2>1. ui'.rest = <<>>
    BY <1>27 DEF Restart, Shutdown, TearDown, UiAt
  <2>2. queue' \in {queue, <<>>}
    BY <1>27 DEF Restart, Shutdown, NoSession
  <2>. QED  BY <1>6, <1>27, <2>1, <2>2 DEF Restart, Shutdown
<1>28. ASSUME NEW s \in Sessions, ChildStep(s) PROVE Once(k) /\ UpTo(k, tokens')
  <2>1. CASE ShellReads(s)
    <3>1. PICK n \in 1..Len(queue) :
            /\ got' = [got EXCEPT ![s] = @ \o SubSeq(queue, 1, n)]
            /\ queue' = SubSeq(queue, n + 1, Len(queue))
      BY <2>1 DEF ShellReads
    <3>. DEFINE b == 5 + s
    <3>2. b \in PlaceSet /\ 5 \in PlaceSet /\ 5 # b /\ tokens' = tokens
      <4>1. s \in Nat /\ s # 0
        BY SessionAssumption DEF Sessions
      <4>2. b \in PlaceSet /\ 5 \in PlaceSet
        BY <1>1, <1>5
      <4>. QED  BY <2>1, <4>1, <4>2 DEF ShellReads
    <3>3. got'[s] = got[s] \o SubSeq(queue, 1, n) /\ \A t \in Sessions \ {s} : got'[t] = got[t]
      BY <3>1 DEF TypeOK
    <3>4. h[5] = queue /\ h[b] = got[s] /\ k[5] = queue' /\ k[b] = got'[s] /\ n \in 0..Len(queue)
      <4>1. n \in 0..Len(queue)
        BY <3>1 DEF TypeOK
      <4>. QED  BY <1>1, <1>2, <4>1
    <3>6. \E m \in 0..Len(h[5]) : k[b] = h[b] \o SubSeq(h[5], 1, m) /\ k[5] = SubSeq(h[5], m + 1, Len(h[5]))
      <4>. HIDE DEF b
      <4>1. n \in 0..Len(h[5]) /\ k[b] = h[b] \o SubSeq(h[5], 1, n) /\ k[5] = SubSeq(h[5], n + 1, Len(h[5]))
        BY <3>1, <3>3, <3>4, Zenon
      <4>. QED  BY <4>1, Zenon
    <3>5. \A p \in PlaceSet : p = 5 \/ p = b \/ k[p] = h[p]
      <4>. SUFFICES ASSUME NEW p \in PlaceSet, p # 5, p # b PROVE k[p] = h[p]
        OBVIOUS
      <4>1. CASE p \in 1..5
        BY <1>1, <1>2, <2>1, <4>1 DEF ShellReads
      <4>2. CASE p - 5 \in Sessions /\ p = 5 + (p - 5)
        <5>. DEFINE t == p - 5
        <5>1. t \in Sessions /\ p = 5 + t
          BY <4>2
        <5>. HIDE DEF t
        <5>2. t # s
          BY <5>1
        <5>. QED  BY <1>1, <1>2, <3>3, <5>1, <5>2
      <4>. QED  BY <1>1, <4>1, <4>2
    <3>. HIDE DEF b
    <3>7. Moves(PlaceSet, h, k, 5, b)
      BY <3>5, <3>6, Zenon DEF Moves, Elsewhere
    <3>8. Once(k) /\ UpTo(k, tokens)
      BY <1>t, <1>3, <3>2, <3>7, Moved, Zenon
    <3>. QED  BY <3>2, <3>8
  <2>2. CASE ShellPrints(s) \/ ChildSetsid(s) \/ ChildClosesSlave(s) \/ ChildOpensSlave(s)
             \/ ChildExecs(s) \/ ChildExits(s)
    BY <1>6, <2>2 DEF ShellPrints, ChildSetsid, ChildClosesSlave, ChildOpensSlave, ChildExecs,
                      ChildExits, bufVars
  <2>. QED  BY <1>28, <2>1, <2>2 DEF ChildStep
<1>. QED
  BY <1>11, <1>12, <1>13, <1>14, <1>15, <1>16, <1>17, <1>18, <1>19, <1>20, <1>21, <1>22, <1>23,
     <1>24, <1>25, <1>26, <1>27, <1>28 DEF Next, UiStep, Request

\* No input is delivered twice, whatever the sizes of the buffers and of the kernel's
\* queue are and however writes are cut short (write_all, flush_pending).
THEOREM DeliveredOnce == Spec => []EachTokenOnce
<1>1. Init => TypeOK /\ OnceInv
  BY TypeInit, OnceInit
<1>2. (TypeOK /\ OnceInv) /\ [Next]_vars => (TypeOK /\ OnceInv)'
  BY TypeStep, OnceStep
<1>3. OnceInv => EachTokenOnce
  BY DEF OnceInv
<1>. QED  BY <1>1, <1>2, <1>3, PTL DEF Spec

-----------------------------------------------------------------------------
(* The parser.                                                              *)

Sequence == [private : PrivateMarks \cup {B("none")}, params : Seq(0..MaxParam),
             cur_param : 0..MaxParam, cur_param_overflow : BOOLEAN, inter_count : 0..2]

ParserSet == [state : States, utf8_len : 0..3, utf8_expected : {0, 2, 3, 4}, seq : Sequence,
              osc : 0..MaxOscLen, osc_truncated : BOOLEAN, osc_pending_esc : BOOLEAN,
              passthrough_len : Nat]

\* A parser that keeps to its storage: the UTF-8 buffer is in use only in the ground
\* state, and only an escape can be waiting to end an OSC string.
Typed(p) ==
    /\ p \in ParserSet
    /\ p.utf8_len > 0 => p.utf8_len < p.utf8_expected /\ p.state = "Ground"
    /\ p.osc_pending_esc => p.state = "Escape"
    /\ Len(p.seq.params) <= MaxCsiParams

\* Where the parser is not in the middle of a character or of an OSC string.
Quiet(p) == Typed(p) /\ p.utf8_len = 0 /\ ~p.osc_pending_esc

\* A parser outside a character goes to another state.
LEMMA GoesTo ==
    ASSUME NEW p, Quiet(p), NEW s \in States
    PROVE  /\ Quiet([p EXCEPT !.state = s])
           /\ [p EXCEPT !.state = s].state = s
  BY DEF Quiet, Typed, ParserSet

\* A parser's fields, one by one.
LEMMA Fields ==
    ASSUME NEW p \in ParserSet
    PROVE  /\ p.state \in States /\ p.utf8_len \in 0..3 /\ p.utf8_expected \in {0, 2, 3, 4}
           /\ p.seq \in Sequence /\ p.osc \in 0..MaxOscLen /\ p.osc_truncated \in BOOLEAN
           /\ p.osc_pending_esc \in BOOLEAN /\ p.passthrough_len \in Nat
  BY Zenon DEF ParserSet

\* The start of an OSC string.
LEMMA BeginOscTyped ==
    ASSUME NEW p, Quiet(p)
    PROVE  Quiet(BeginOsc(p).p)
<1>. DEFINE q == BeginOsc(p).p
<1>1. q = [p EXCEPT !.osc = 0, !.osc_truncated = FALSE, !.state = "OscString"]
  BY DEF BeginOsc, Stay, Step
<1>0. 0 \in 0..MaxOscLen /\ "OscString" \in States
  BY ParserAssumption DEF States
<1>2. p \in ParserSet
  BY DEF Quiet, Typed
<1>3. /\ q \in ParserSet /\ q.utf8_len = p.utf8_len
      /\ q.osc_pending_esc = p.osc_pending_esc /\ q.seq = p.seq
  BY <1>1, <1>2, <1>0, Zenon DEF ParserSet
<1>. QED  BY <1>3 DEF Quiet, Typed

\* The end of an OSC string.
LEMMA EndOscTyped ==
    ASSUME NEW p, Typed(p), p.utf8_len = 0
    PROVE  Quiet(EndOsc(p).p) /\ EndOsc(p).p.state = "Ground"
<1>. DEFINE q == EndOsc(p).p
<1>1. q = [p EXCEPT !.osc = 0, !.state = "Ground", !.osc_pending_esc = FALSE]
  BY DEF EndOsc, Step
<1>2. p \in ParserSet /\ 0 \in 0..MaxOscLen /\ "Ground" \in States
  BY ParserAssumption DEF Typed, States
<1>3. /\ q \in ParserSet /\ q.utf8_len = p.utf8_len /\ q.osc_pending_esc = FALSE
      /\ q.seq = p.seq /\ q.state = "Ground"
  BY <1>1, <1>2, Zenon DEF ParserSet
<1>. QED  BY <1>3 DEF Quiet, Typed

\* A skipped string starts at no bytes, wherever the parser goes for it.
LEMMA BeginStringTyped ==
    ASSUME NEW p, Quiet(p), NEW s \in States
    PROVE  Quiet([p EXCEPT !.passthrough_len = 0, !.state = s])
<1>. DEFINE q == [p EXCEPT !.passthrough_len = 0, !.state = s]
<1>2. p \in ParserSet /\ 0 \in Nat
  BY DEF Quiet, Typed
<1>3. /\ q \in ParserSet /\ q.utf8_len = p.utf8_len
      /\ q.osc_pending_esc = p.osc_pending_esc /\ q.seq = p.seq
  BY <1>2, Zenon DEF ParserSet
<1>. QED  BY <1>3 DEF Quiet, Typed

\* A skipped string is only counted.
LEMMA CountByteTyped ==
    ASSUME NEW p, Quiet(p)
    PROVE  Quiet(CountByte(p).p)
<1>. DEFINE n == IF p.passthrough_len > MaxDcsLen THEN p.passthrough_len ELSE p.passthrough_len + 1
            q == [p EXCEPT !.passthrough_len = n]
<1>1. CountByte(p).p = q
  BY DEF CountByte, Stay, Step
<1>2. p \in ParserSet /\ p.passthrough_len \in Nat
  BY Fields DEF Quiet, Typed
<1>3. n \in Nat
  BY <1>2
<1>. HIDE DEF n
<1>4. /\ q \in ParserSet /\ q.utf8_len = p.utf8_len /\ q.state = p.state
      /\ q.osc_pending_esc = p.osc_pending_esc /\ q.seq = p.seq
  BY <1>2, <1>3, Zenon DEF ParserSet
<1>5. Quiet(q)
  BY <1>4 DEF Quiet, Typed
<1>. QED  BY <1>1, <1>5

\* A byte in the ground state, outside a character.
LEMMA GroundByteTyped ==
    ASSUME NEW p, Quiet(p), p.state = "Ground", NEW b
    PROVE  Typed(GroundByte(p, b).p)
<1>1. Typed(p) /\ Typed([p EXCEPT !.state = "Escape"]) /\ Typed([p EXCEPT !.state = "CsiEntry"])
      /\ Typed([p EXCEPT !.state = "DcsEntry"])
  BY GoesTo DEF Quiet, States
<1>2. Typed(BeginOsc(p).p)
  BY BeginOscTyped DEF Quiet
<1>3. Typed([p EXCEPT !.passthrough_len = 0, !.state = "SosPmApc"])
  BY BeginStringTyped DEF Quiet, States
<1>4. ASSUME b \in Leads
      PROVE  Typed([p EXCEPT !.utf8_len = 1, !.utf8_expected = LeadLength[b[1]]])
  <2>. DEFINE e == LeadLength[b[1]]
              q == [p EXCEPT !.utf8_len = 1, !.utf8_expected = e]
  <2>1. e \in {2, 3, 4}
    BY <1>4 DEF Leads, LeadLength, B
  <2>2. e \in {0, 2, 3, 4} /\ 1 \in 0..3 /\ p \in ParserSet
    BY <2>1 DEF Quiet, Typed
  <2>. HIDE DEF e
  <2>3. /\ q \in ParserSet /\ q.utf8_len = 1 /\ q.utf8_expected = e /\ q.state = p.state
        /\ q.osc_pending_esc = p.osc_pending_esc /\ q.seq = p.seq
    BY <2>2, Zenon DEF ParserSet
  <2>4. Typed(q)
    BY <2>1, <2>3 DEF Quiet, Typed
  <2>. QED  BY <2>4 DEF e
<1>. QED  BY <1>1, <1>2, <1>3, <1>4 DEF GroundByte, To, Stay, Step, BeginString

\* A byte in the ground state.
LEMMA GroundTyped ==
    ASSUME NEW p, Typed(p), p.state = "Ground", NEW b
    PROVE  Typed(Ground(p, b).p)
<1>. DEFINE done == [p EXCEPT !.utf8_len = 0]
<1>1. Quiet(done) /\ done.state = "Ground"
  BY DEF Quiet, Typed, ParserSet
<1>2. Typed(done) /\ Typed(GroundByte(done, b).p)
  BY <1>1, GroundByteTyped DEF Quiet
<1>3. ASSUME p.utf8_len > 0, p.utf8_len + 1 # p.utf8_expected
      PROVE  Typed([p EXCEPT !.utf8_len = @ + 1])
  BY <1>3 DEF Typed, ParserSet
<1>4. CASE p.utf8_len > 0
  BY <1>2, <1>3, <1>4 DEF Ground, Utf8Byte, Stay, Step
<1>5. CASE ~(p.utf8_len > 0)
  <2>1. Quiet(p)
    BY <1>5 DEF Quiet, Typed, ParserSet
  <2>. QED  BY <1>5, <2>1, GroundByteTyped DEF Ground
<1>. QED  BY <1>4, <1>5

\* A byte that ends a sequence outside the ground state and is looked at there.
LEMMA ReprocessTyped ==
    ASSUME NEW p, Quiet(p), NEW b
    PROVE  Typed(Reprocess(p, b).p)
<1>1. Typed([p EXCEPT !.state = "Ground"]) /\ [p EXCEPT !.state = "Ground"].state = "Ground"
  BY GoesTo DEF Quiet, States
<1>. QED  BY <1>1, GroundTyped DEF Reprocess

\* New fields of the sequence in progress, and a new state.
LEMMA NewSequence ==
    ASSUME NEW p, Quiet(p), NEW s \in States,
           NEW f \in Sequence, Len(f.params) <= MaxCsiParams
    PROVE  /\ Quiet([p EXCEPT !.seq = f, !.state = s])
           /\ Quiet([p EXCEPT !.state = s, !.seq = f])
           /\ Quiet([p EXCEPT !.seq = f])
           /\ [p EXCEPT !.seq = f].seq = f /\ [p EXCEPT !.seq = f].state = p.state
<1>1. p \in ParserSet
  BY DEF Quiet, Typed
<1>2. ASSUME NEW q, q \in {[p EXCEPT !.seq = f, !.state = s], [p EXCEPT !.state = s, !.seq = f],
                           [p EXCEPT !.seq = f]}
      PROVE  /\ q \in ParserSet /\ q.utf8_len = p.utf8_len
             /\ q.osc_pending_esc = p.osc_pending_esc /\ q.seq = f
  BY <1>1, <1>2, Zenon DEF ParserSet
<1>3. ASSUME NEW q, q \in {[p EXCEPT !.seq = f, !.state = s], [p EXCEPT !.state = s, !.seq = f],
                           [p EXCEPT !.seq = f]}
      PROVE  Quiet(q)
  BY <1>2, <1>3 DEF Quiet, Typed
<1>4. [p EXCEPT !.seq = f].seq = f /\ [p EXCEPT !.seq = f].state = p.state
  BY <1>1, Zenon DEF ParserSet
<1>. QED  BY <1>3, <1>4

\* A parser's sequence.
LEMMA SequenceOf ==
    ASSUME NEW p, Quiet(p)
    PROVE  /\ p.seq \in Sequence /\ Len(p.seq.params) <= MaxCsiParams
           /\ p.seq.params \in Seq(0..MaxParam) /\ p.seq.cur_param \in 0..MaxParam
           /\ p.seq.inter_count \in 0..2
  BY Fields DEF Quiet, Typed, Sequence

\* Intermediates are counted up to two.
LEMMA IntermediateTyped ==
    ASSUME NEW p, Quiet(p), NEW s \in States
    PROVE  /\ Quiet([p EXCEPT !.seq.inter_count = 1, !.state = s])
           /\ Quiet(CollectIntermediate(p).p)
<1>. DEFINE n == IF p.seq.inter_count < 2 THEN p.seq.inter_count + 1 ELSE p.seq.inter_count
            one == [p.seq EXCEPT !.inter_count = 1]
            more == [p.seq EXCEPT !.inter_count = n]
<1>1. n \in 0..2 /\ 1 \in 0..2 /\ p.seq \in Sequence
  BY SequenceOf
<1>2. CollectIntermediate(p).p = [p EXCEPT !.seq = more]
  BY DEF CollectIntermediate, Stay, Step
<1>3. [p EXCEPT !.seq.inter_count = 1, !.state = s] = [p EXCEPT !.seq = one, !.state = s]
  OBVIOUS
<1>. HIDE DEF n
<1>4. one \in Sequence /\ more \in Sequence /\ one.params = p.seq.params /\ more.params = p.seq.params
  BY <1>1, Zenon DEF Sequence
<1>5. Len(one.params) <= MaxCsiParams /\ Len(more.params) <= MaxCsiParams
  BY <1>4, SequenceOf
<1>6. Quiet([p EXCEPT !.seq = one, !.state = s]) /\ Quiet([p EXCEPT !.seq = more])
  <2>. HIDE DEF one, more
  <2>. QED  BY <1>4, <1>5, NewSequence
<1>. QED  BY <1>2, <1>3, <1>6

\* The fields of a sequence are cleared.
LEMMA ResetTyped ==
    ASSUME NEW p, Quiet(p)
    PROVE  Quiet(ResetSequence(p))
<1>1. NoSequence \in Sequence /\ Len(NoSequence.params) <= MaxCsiParams
  BY ParserAssumption DEF NoSequence, Sequence
<1>2. "Ground" \in States
  BY DEF States
<1>. HIDE DEF NoSequence
<1>. QED  BY <1>1, <1>2, NewSequence DEF ResetSequence

\* A parameter is pushed while there is room for it.
LEMMA PushTyped ==
    ASSUME NEW p, Quiet(p)
    PROVE  Quiet(PushParam(p)) /\ PushParam(p).state = p.state
<1>. DEFINE ps == IF Len(p.seq.params) < MaxCsiParams
                    THEN Append(p.seq.params, p.seq.cur_param) ELSE p.seq.params
            f == [p.seq EXCEPT !.params = ps, !.cur_param = 0, !.cur_param_overflow = FALSE]
<1>1. p.seq \in Sequence /\ p \in ParserSet /\ 0 \in 0..MaxParam
  BY SequenceOf, ParserAssumption DEF Quiet, Typed
<1>2. ps \in Seq(0..MaxParam) /\ Len(ps) <= MaxCsiParams
  <2>. DEFINE h == p.seq.params
              c == p.seq.cur_param
  <2>1. h \in Seq(0..MaxParam) /\ c \in 0..MaxParam /\ Len(h) <= MaxCsiParams
    BY SequenceOf
  <2>. HIDE DEF h, c
  <2>2. Append(h, c) \in Seq(0..MaxParam) /\ Len(Append(h, c)) = Len(h) + 1 /\ Len(h) \in Nat
    BY <2>1
  <2>3. (IF Len(h) < MaxCsiParams THEN Append(h, c) ELSE h) \in Seq(0..MaxParam)
    BY <2>1, <2>2
  <2>4. Len(IF Len(h) < MaxCsiParams THEN Append(h, c) ELSE h) <= MaxCsiParams
    BY <2>1, <2>2, ParserAssumption
  <2>. QED  BY <2>3, <2>4 DEF h, c
<1>3. PushParam(p) = [p EXCEPT !.seq = f]
  BY <1>1 DEF PushParam, ParserSet, Sequence
<1>. HIDE DEF ps
<1>4. f \in Sequence /\ f.params = ps
  BY <1>1, <1>2, Zenon DEF Sequence
<1>. HIDE DEF f
<1>5. "Ground" \in States
  BY DEF States
<1>6. Len(f.params) <= MaxCsiParams
  BY <1>2, <1>4
<1>7. Quiet([p EXCEPT !.seq = f]) /\ [p EXCEPT !.seq = f].state = p.state
  BY <1>4, <1>5, <1>6, NewSequence, Zenon
<1>. QED  BY <1>3, <1>7

\* A parameter saturates.
LEMMA DigitTyped ==
    ASSUME NEW p, Quiet(p), NEW d \in 0..(Base - 1)
    PROVE  Quiet(DigitParam(p, d)) /\ DigitParam(p, d).state = p.state
<1>. DEFINE n == Saturate(Saturate(p.seq.cur_param * Base) + d)
            o == (n = MaxParam /\ p.seq.cur_param > MaxParam \div Base)
            f == [p.seq EXCEPT !.cur_param = n, !.cur_param_overflow = o]
<1>1. p.seq \in Sequence /\ p \in ParserSet /\ p.seq.cur_param \in 0..MaxParam
  BY SequenceOf DEF Quiet, Typed
<1>2. p.seq.cur_param * Base \in Nat
  BY <1>1, ParserAssumption
<1>3. \A k \in Nat : Saturate(k) \in 0..MaxParam
  BY ParserAssumption DEF Saturate
<1>4. n \in 0..MaxParam
  <2>1. Saturate(p.seq.cur_param * Base) + d \in Nat
    BY <1>2, <1>3, ParserAssumption
  <2>. QED  BY <1>3, <2>1
<1>5. o \in BOOLEAN
  OBVIOUS
<1>6. CASE p.seq.cur_param_overflow
  BY <1>6 DEF DigitParam
<1>7. CASE ~p.seq.cur_param_overflow
  <2>1. DigitParam(p, d) = [p EXCEPT !.seq = f]
    BY <1>7, <1>1 DEF DigitParam, ParserSet, Sequence
  <2>. HIDE DEF n, o
  <2>2. f \in Sequence /\ f.params = p.seq.params
    BY <1>1, <1>4, <1>5, Zenon DEF Sequence
  <2>3. Len(f.params) <= MaxCsiParams
    BY <2>2, SequenceOf
  <2>. HIDE DEF f
  <2>4. "Ground" \in States
    BY DEF States
  <2>5. Quiet([p EXCEPT !.seq = f]) /\ [p EXCEPT !.seq = f].state = p.state
    BY <2>2, <2>3, <2>4, NewSequence, Zenon
  <2>. QED  BY <2>1, <2>5
<1>. QED  BY <1>6, <1>7

\* The states a parser can go to without changing anything else.
LEMMA ToTyped ==
    ASSUME NEW p, Quiet(p), NEW s \in States
    PROVE  Quiet(To(p, s).p)
  BY GoesTo DEF To, Step

\* A sequence is dispatched and forgotten.
LEMMA EmitTyped ==
    ASSUME NEW p, Quiet(p), NEW b
    PROVE  Quiet(EmitCsi(p, b).p)
  BY ResetTyped DEF EmitCsi, Step

\* The first intermediate of a control sequence.
LEMMA BeginIntermediateTyped ==
    ASSUME NEW p, Quiet(p)
    PROVE  Quiet(BeginIntermediate(p).p)
<1>1. "CsiIntermediate" \in States
  BY DEF States
<1>. QED  BY <1>1, IntermediateTyped DEF BeginIntermediate, Stay, Step

\* A byte among the parameters.
LEMMA CsiParamTyped ==
    ASSUME NEW p, Quiet(p), NEW b
    PROVE  Typed(CsiParam(p, b).p)
<1>1. "Ground" \in States
  BY DEF States
<1>2. Typed(To(p, "Ground").p)
  BY <1>1, ToTyped DEF Quiet
<1>3. ASSUME b \in Digits  PROVE  Typed(Stay(DigitParam(p, b[2])).p)
  <2>1. b[2] \in 0..(Base - 1)
    BY <1>3 DEF Digits
  <2>. QED  BY <2>1, DigitTyped DEF Stay, Step, Quiet
<1>4. /\ Typed(Stay(PushParam(p)).p) /\ Typed(BeginIntermediate(PushParam(p)).p)
      /\ Typed(EmitCsi(PushParam(p), b).p)
  BY PushTyped, BeginIntermediateTyped, EmitTyped DEF Stay, Step, Quiet
<1>5. Typed(Reprocess(ResetSequence(p), b).p)
  BY ResetTyped, ReprocessTyped
<1>. QED  BY <1>2, <1>3, <1>4, <1>5 DEF CsiParam

\* A byte after the introducer.
LEMMA CsiEntryTyped ==
    ASSUME NEW p, Quiet(p), NEW b
    PROVE  Typed(CsiEntry(p, b).p)
<1>1. "Ground" \in States /\ "CsiParam" \in States
  BY DEF States
<1>2. Typed(To(p, "Ground").p) /\ Typed(CsiParam([p EXCEPT !.state = "CsiParam"], b).p)
  BY <1>1, ToTyped, GoesTo, CsiParamTyped DEF Quiet
<1>3. ASSUME b \in PrivateMarks  PROVE  Typed(Stay([p EXCEPT !.seq.private = b]).p)
  <2>. DEFINE f == [p.seq EXCEPT !.private = b]
  <2>1. f \in Sequence /\ f.params = p.seq.params
    <3>1. p.seq \in Sequence /\ b \in PrivateMarks \cup {B("none")}
      BY <1>3, SequenceOf
    <3>. QED  BY <3>1, Zenon DEF Sequence
  <2>2. Len(f.params) <= MaxCsiParams
    BY <2>1, SequenceOf
  <2>3. Stay([p EXCEPT !.seq.private = b]).p = [p EXCEPT !.seq = f]
    BY DEF Stay, Step
  <2>. HIDE DEF f
  <2>4. Quiet([p EXCEPT !.seq = f])
    BY <1>1, <2>1, <2>2, NewSequence
  <2>. QED  BY <2>3, <2>4 DEF Quiet
<1>4. Typed(BeginIntermediate(p).p) /\ Typed(EmitCsi(p, b).p)
  BY BeginIntermediateTyped, EmitTyped DEF Quiet
<1>. QED  BY <1>2, <1>3, <1>4 DEF CsiEntry

\* A byte after an intermediate: a parameter starts the sequence again.
LEMMA CsiIntermediateTyped ==
    ASSUME NEW p, Quiet(p), NEW b
    PROVE  Typed(CsiIntermediate(p, b).p)
<1>. DEFINE f == [p.seq EXCEPT !.private = B("none"), !.params = <<>>, !.cur_param = 0]
            q == [p EXCEPT !.seq.private = B("none"), !.seq.params = <<>>, !.seq.cur_param = 0,
                           !.state = "CsiParam"]
<1>1. "Ground" \in States /\ "CsiParam" \in States
  BY DEF States
<1>2. Typed(To(p, "Ground").p) /\ Typed(CollectIntermediate(p).p) /\ Typed(EmitCsi(p, b).p)
  BY <1>1, ToTyped, IntermediateTyped, EmitTyped DEF Quiet
<1>3. Quiet(q)
  <2>1. p.seq \in Sequence /\ p \in ParserSet
    BY SequenceOf DEF Quiet, Typed
  <2>2. B("none") \in PrivateMarks \cup {B("none")} /\ <<>> \in Seq(0..MaxParam) /\ 0 \in 0..MaxParam
    BY ParserAssumption
  <2>3. f \in Sequence /\ f.params = <<>>
    BY <2>1, <2>2, Zenon DEF Sequence
  <2>4. Len(f.params) <= MaxCsiParams
    BY <2>3, ParserAssumption
  <2>5. q = [p EXCEPT !.seq = f, !.state = "CsiParam"]
    BY <2>1 DEF ParserSet, Sequence
  <2>. HIDE DEF f
  <2>6. Quiet([p EXCEPT !.seq = f, !.state = "CsiParam"])
    BY <1>1, <2>3, <2>4, NewSequence
  <2>. QED  BY <2>5, <2>6
<1>4. Typed(CsiParam(q, b).p)
  BY <1>3, CsiParamTyped
<1>. QED  BY <1>2, <1>4 DEF CsiIntermediate

\* An escape: only one that interrupted an OSC string has the string to return to.
LEMMA EscapeTyped ==
    ASSUME NEW p, Typed(p), p.state = "Escape", NEW b
    PROVE  Typed(Escape(p, b).p)
<1>1. p \in ParserSet /\ p.utf8_len = 0
  <2>1. p \in ParserSet /\ p.utf8_len \in 0..3
    BY Fields DEF Typed
  <2>. QED  BY <2>1 DEF Typed
<1>2. CASE p.osc_pending_esc
  <2>. DEFINE q == [p EXCEPT !.osc_pending_esc = FALSE, !.state = "OscString"]
  <2>1. "OscString" \in States
    BY DEF States
  <2>2. /\ q \in ParserSet /\ q.utf8_len = p.utf8_len
        /\ q.osc_pending_esc = FALSE /\ q.seq = p.seq
    BY <1>1, <2>1, Zenon DEF ParserSet
  <2>3. Typed(q)
    BY <1>1, <2>2 DEF Typed
  <2>4. Typed(EndOsc(p).p)
    BY <1>1, EndOscTyped DEF Quiet
  <2>. QED  BY <1>2, <2>3, <2>4 DEF Escape, Stay, Step
<1>3. CASE ~p.osc_pending_esc
  <2>1. Quiet(p)
    BY <1>1, <1>3 DEF Quiet
  <2>2. {"Ground", "CsiEntry", "CharsetSelect", "LineAttributes", "DcsEntry", "SosPmApc",
         "EscapeIntermediate"} \subseteq States
    BY DEF States
  <2>3. /\ Typed(To(p, "CsiEntry").p) /\ Typed(To(p, "CharsetSelect").p)
        /\ Typed(To(p, "LineAttributes").p) /\ Typed(To(p, "Ground").p)
    BY <2>1, <2>2, ToTyped DEF Quiet
  <2>4. Typed([p EXCEPT !.state = "Ground"])
    BY <2>1, <2>2, GoesTo DEF Quiet
  <2>5. Typed(BeginOsc(p).p)
    BY <2>1, BeginOscTyped DEF Quiet
  <2>6. /\ Typed([p EXCEPT !.passthrough_len = 0, !.state = "DcsEntry"])
        /\ Typed([p EXCEPT !.passthrough_len = 0, !.state = "SosPmApc"])
    BY <2>1, <2>2, BeginStringTyped DEF Quiet
  <2>7. Typed([p EXCEPT !.seq.inter_count = 1, !.state = "EscapeIntermediate"])
    BY <2>1, <2>2, IntermediateTyped DEF Quiet
  <2>. QED
    BY <1>3, <2>3, <2>4, <2>5, <2>6, <2>7 DEF Escape, Stay, Step, BeginString
<1>. QED  BY <1>2, <1>3

\* The escapes of more than one byte.
LEMMA LongEscapeTyped ==
    ASSUME NEW p, Quiet(p), NEW b
    PROVE  /\ Typed(EscapeIntermediate(p, b).p)
           /\ Typed(CharsetSelect(p, b).p) /\ Typed(LineAttributes(p, b).p)
<1>1. "Ground" \in States
  BY DEF States
<1>2. /\ Typed(To(p, "Ground").p) /\ Typed([p EXCEPT !.state = "Ground"])
      /\ Typed(CollectIntermediate(p).p) /\ Typed(Reprocess(p, b).p)
  BY <1>1, ToTyped, GoesTo, IntermediateTyped, ReprocessTyped DEF Quiet
<1>3. Typed(EscapeIntermediate(p, b).p)
  BY <1>2 DEF EscapeIntermediate
<1>. QED  BY <1>2, <1>3 DEF CharsetSelect, LineAttributes, Step

\* An OSC string is kept up to its bound.
LEMMA OscStringTyped ==
    ASSUME NEW p, Quiet(p), NEW b
    PROVE  Typed(OscString(p, b).p)
<1>1. p \in ParserSet /\ p.osc \in 0..MaxOscLen /\ p.utf8_len = 0
  BY Fields DEF Quiet, Typed
<1>2. 0 \in 0..MaxOscLen /\ "Ground" \in States /\ "Escape" \in States
  BY ParserAssumption DEF States
<1>3. Typed(p) /\ Typed(EndOsc(p).p)
  BY <1>1, EndOscTyped DEF Quiet
<1>4. Typed([p EXCEPT !.osc_pending_esc = TRUE, !.state = "Escape"])
  <2>. DEFINE q == [p EXCEPT !.osc_pending_esc = TRUE, !.state = "Escape"]
  <2>1. /\ q \in ParserSet /\ q.utf8_len = p.utf8_len /\ q.state = "Escape" /\ q.seq = p.seq
    BY <1>1, <1>2, Zenon DEF ParserSet
  <2>. QED  BY <1>1, <2>1 DEF Quiet, Typed
<1>5. Typed([p EXCEPT !.osc = 0, !.state = "Ground"])
  <2>. DEFINE q == [p EXCEPT !.osc = 0, !.state = "Ground"]
  <2>1. /\ q \in ParserSet /\ q.utf8_len = p.utf8_len /\ q.seq = p.seq
        /\ q.osc_pending_esc = p.osc_pending_esc
    BY <1>1, <1>2, Zenon DEF ParserSet
  <2>. QED  BY <1>1, <2>1 DEF Quiet, Typed
<1>6. ASSUME p.osc < MaxOscLen  PROVE  Typed([p EXCEPT !.osc = @ + 1])
  <2>. DEFINE n == p.osc + 1
              q == [p EXCEPT !.osc = n]
  <2>1. n \in 0..MaxOscLen
    BY <1>1, <1>6, ParserAssumption
  <2>. HIDE DEF n
  <2>2. /\ q \in ParserSet /\ q.utf8_len = p.utf8_len /\ q.seq = p.seq
        /\ q.osc_pending_esc = p.osc_pending_esc
    BY <1>1, <2>1, Zenon DEF ParserSet
  <2>3. Typed(q)
    BY <1>1, <2>2 DEF Quiet, Typed
  <2>. QED  BY <2>3 DEF n
<1>7. Typed([p EXCEPT !.osc_truncated = TRUE])
  <2>. DEFINE q == [p EXCEPT !.osc_truncated = TRUE]
  <2>1. /\ q \in ParserSet /\ q.utf8_len = p.utf8_len /\ q.seq = p.seq
        /\ q.osc_pending_esc = p.osc_pending_esc
    BY <1>1, Zenon DEF ParserSet
  <2>. QED  BY <1>1, <2>1 DEF Quiet, Typed
<1>. QED  BY <1>3, <1>4, <1>5, <1>6, <1>7 DEF OscString, Stay, Step

\* The strings that are skipped.
LEMMA SkippedTyped ==
    ASSUME NEW p, Quiet(p), NEW b
    PROVE  Typed(DcsEntry(p, b).p) /\ Typed(DcsPassthrough(p, b).p)
<1>1. {"Ground", "Escape", "DcsPassthrough"} \subseteq States
  BY DEF States
<1>2. /\ Typed(To(p, "Ground").p) /\ Typed(To(p, "Escape").p)
      /\ Typed(To(p, "DcsPassthrough").p) /\ Typed(CountByte(p).p)
  BY <1>1, ToTyped, CountByteTyped DEF Quiet
<1>3. Typed(DcsEntry(p, b).p)
  BY <1>2 DEF DcsEntry
<1>. QED  BY <1>2, <1>3 DEF DcsPassthrough

\* Whatever the byte, a parser keeps to its storage.
LEMMA AdvanceTyped ==
    ASSUME NEW p, Typed(p), NEW b
    PROVE  Typed(Advance(p, b).p)
<1>1. CASE p.state = "Ground"
  BY <1>1, GroundTyped DEF Advance
<1>2. CASE p.state = "Escape"
  BY <1>2, EscapeTyped DEF Advance
<1>3. CASE p.state \notin {"Ground", "Escape"}
  <2>1. Quiet(p)
    <3>1. p.utf8_len \in 0..3
      BY Fields DEF Typed
    <3>. QED  BY <1>3, <3>1 DEF Quiet, Typed
  <2>. QED
    BY <1>3, <2>1, LongEscapeTyped, CsiEntryTyped, CsiParamTyped, CsiIntermediateTyped,
       OscStringTyped, SkippedTyped DEF Advance, SosPmApc
<1>. QED  BY <1>1, <1>2, <1>3

-----------------------------------------------------------------------------
\* The cancel byte is in no other class.
LEMMA CancelAlone ==
    /\ B("cancel") \in Cancels
    /\ B("cancel") \notin {B("bel"), B("control"), B("esc"), B("c1control"), B("c1csi"),
          B("c1osc"), B("c1dcs"), B("c1other"), B("cont"), B("badlead"), B("st"), B("csi"),
          B("osc"), B("dcs"), B("sos"), B("charset"), B("hash"), B("inter")}
    /\ B("cancel") \notin Digits /\ B("cancel") \notin Printable
    /\ B("cancel") \notin C1Strings /\ B("cancel") \notin Leads
    /\ B("cancel") \notin Continuations /\ B("cancel") \notin Intermediates
    /\ B("cancel") \notin Separators /\ B("cancel") \notin PrivateMarks
    /\ B("cancel") \notin EscFinals /\ ~IsFinal(B("cancel")) /\ ~FinalOrParam(B("cancel"))
<1>1. B("cancel") \notin Digits
  BY DEF B, Digits
<1>2. B("cancel") \notin Leads
  BY DEF B, Leads, LeadLength
<1>3. B("cancel") \notin Printable /\ B("cancel") \notin EscFinals
  BY <1>1 DEF B, Printable, Separators, PrivateMarks, Intermediates, Finals, EscFinals
<1>4. ~IsFinal(B("cancel")) /\ ~FinalOrParam(B("cancel"))
  BY <1>1 DEF B, IsFinal, FinalOrParam, Separators, PrivateMarks, Finals
<1>. QED
  BY <1>1, <1>2, <1>3, <1>4 DEF B, Cancels, C1Strings, Continuations, Intermediates,
     Separators, PrivateMarks

\* In the ground state a cancel ends a character in progress and is otherwise ignored.
LEMMA CancelInGround ==
    ASSUME NEW p, Typed(p), p.state = "Ground"
    PROVE  Ground(p, B("cancel")).p.state = "Ground" /\ Ground(p, B("cancel")).p.utf8_len = 0
<1>. DEFINE done == [p EXCEPT !.utf8_len = 0]
<1>1. done.state = "Ground" /\ done.utf8_len = 0
  BY DEF Typed, ParserSet
<1>2. \A q : GroundByte(q, B("cancel")) = Stay(q)
  BY CancelAlone DEF GroundByte
<1>3. CASE p.utf8_len > 0
  <2>1. Ground(p, B("cancel")).p = done
    BY <1>2, <1>3, CancelAlone DEF Ground, Utf8Byte, Stay, Step
  <2>. QED  BY <1>1, <2>1
<1>4. CASE ~(p.utf8_len > 0)
  <2>1. p.utf8_len = 0
    BY <1>4, Fields DEF Typed
  <2>. QED  BY <1>2, <1>4, <2>1 DEF Ground, Stay, Step
<1>. QED  BY <1>3, <1>4

\* Outside a character, a cancel that is looked at afresh leaves the parser in the
\* ground state.
LEMMA CancelReprocessed ==
    ASSUME NEW p, Quiet(p)
    PROVE  /\ Reprocess(p, B("cancel")).p.state = "Ground"
           /\ Reprocess(p, B("cancel")).p.utf8_len = 0
<1>1. Typed([p EXCEPT !.state = "Ground"]) /\ [p EXCEPT !.state = "Ground"].state = "Ground"
  BY GoesTo DEF Quiet, States
<1>. QED  BY <1>1, CancelInGround DEF Reprocess

\* One cancel brings the parser to the ground state, or back into the OSC string that
\* an ESC had interrupted; from those two it brings it to the ground state.
LEMMA CancelOnce ==
    ASSUME NEW p, Typed(p)
    PROVE  /\ Advance(p, B("cancel")).p.utf8_len = 0
           /\ Advance(p, B("cancel")).p.state \in {"Ground", "OscString"}
           /\ p.state \in {"Ground", "OscString"}
                => Advance(p, B("cancel")).p.state = "Ground"
<1>. DEFINE q == Advance(p, B("cancel")).p
<1>0. p \in ParserSet /\ p.utf8_len \in 0..3
  BY Fields DEF Typed
<1>1. [p EXCEPT !.state = "Ground"].state = "Ground"
      /\ [p EXCEPT !.state = "Ground"].utf8_len = p.utf8_len
  BY <1>0, Zenon DEF ParserSet
<1>2. CASE p.state = "Ground"
  BY <1>2, CancelInGround DEF Advance
<1>3. CASE p.state = "Escape"
  <2>. DEFINE r == [p EXCEPT !.osc_pending_esc = FALSE, !.state = "OscString"]
  <2>1. p.utf8_len = 0
    BY <1>0, <1>3 DEF Typed
  <2>2. r.state = "OscString" /\ r.utf8_len = p.utf8_len
    BY <1>0, Zenon DEF ParserSet
  <2>3. q = IF p.osc_pending_esc THEN r ELSE [p EXCEPT !.state = "Ground"]
    BY <1>3, CancelAlone DEF Advance, Escape, To, Stay, Step
  <2>. QED  BY <1>1, <1>3, <2>1, <2>2, <2>3
<1>4. CASE p.state \notin {"Ground", "Escape"}
  <2>1. Quiet(p) /\ p.utf8_len = 0
    BY <1>0, <1>4 DEF Quiet, Typed
  <2>2. CASE p.state \in {"CharsetSelect", "LineAttributes"}
    BY <2>1, <2>2, CancelAlone, CancelReprocessed DEF Advance, CharsetSelect, LineAttributes
  <2>3. CASE p.state = "OscString"
    <3>. DEFINE r == [p EXCEPT !.osc = 0, !.state = "Ground"]
    <3>1. r.state = "Ground" /\ r.utf8_len = p.utf8_len
      BY <1>0, Zenon DEF ParserSet
    <3>2. q = r
      BY <2>3, CancelAlone DEF Advance, OscString, Stay, Step
    <3>. QED  BY <2>1, <3>1, <3>2
  <2>4. CASE p.state \in {"EscapeIntermediate", "CsiEntry", "CsiParam", "CsiIntermediate"}
    <3>1. q = [p EXCEPT !.state = "Ground"]
      BY <2>4, CancelAlone DEF Advance, EscapeIntermediate, CsiEntry, CsiParam,
         CsiIntermediate, To, Stay, Step
    <3>. QED  BY <1>1, <2>1, <2>4, <3>1
  <2>5. CASE p.state \in {"DcsEntry", "DcsPassthrough", "SosPmApc"}
    <3>1. q = [p EXCEPT !.state = "Ground"]
      BY <2>5, CancelAlone DEF Advance, DcsEntry, DcsPassthrough, SosPmApc, To, Stay, Step
    <3>. QED  BY <1>1, <2>1, <2>5, <3>1
  <2>6. p.state \in States
    BY <1>0, Fields
  <2>. QED  BY <1>4, <2>2, <2>3, <2>4, <2>5, <2>6 DEF States
<1>. QED  BY <1>2, <1>3, <1>4

-----------------------------------------------------------------------------
\* The parser within its storage, and where one cancel and where two have brought it.
Recovery ==
    /\ Typed(parser)
    /\ cancels \in 0..2
    /\ cancels >= 1 => parser.utf8_len = 0 /\ parser.state \in {"Ground", "OscString"}
    /\ cancels = 2 => parser.state = "Ground"

\* Parser::new is within its storage.
LEMMA RecoveryInit == ParserInit => Recovery
<1>. SUFFICES ASSUME ParserInit  PROVE  Recovery
  OBVIOUS
<1>1. /\ NoSequence \in Sequence /\ Len(NoSequence.params) <= MaxCsiParams
  BY ParserAssumption DEF NoSequence, Sequence
<1>2. 0 \in 0..MaxOscLen /\ 0 \in 0..3 /\ 0 \in {0, 2, 3, 4} /\ 0 \in Nat /\ "Ground" \in States
  BY ParserAssumption DEF States
<1>3. /\ NewParser \in ParserSet /\ NewParser.seq = NoSequence /\ NewParser.utf8_len = 0
      /\ NewParser.osc_pending_esc = FALSE
  <2>. HIDE DEF NoSequence
  <2>. QED  BY <1>1, <1>2, Zenon DEF NewParser, ParserSet
<1>4. Typed(NewParser)
  <2>. HIDE DEF NoSequence, NewParser
  <2>. QED  BY <1>1, <1>3 DEF Typed
<1>. QED  BY <1>4 DEF ParserInit, Recovery

\* Every byte, and the byte that ends a sequence at the bound, keeps it.
LEMMA RecoveryNext == Recovery /\ [ParserNext]_parserVars => Recovery'
<1>. SUFFICES ASSUME Recovery, [ParserNext]_parserVars  PROVE  Recovery'
  OBVIOUS
<1>1. ASSUME NEW b \in Alphabet, Feed(b)  PROVE  Recovery'
  <2>1. parser' = Advance(parser, b).p
    BY <1>1 DEF Feed
  <2>2. Typed(parser')
    BY <2>1, AdvanceTyped DEF Recovery
  <2>3. CASE b \in Cancels
    <3>1. b = B("cancel")
      BY <2>3 DEF Cancels
    <3>2. /\ parser'.utf8_len = 0 /\ parser'.state \in {"Ground", "OscString"}
          /\ parser.state \in {"Ground", "OscString"} => parser'.state = "Ground"
      BY <2>1, <3>1, CancelOnce DEF Recovery
    <3>3. cancels' = IF cancels + 1 > 2 THEN 2 ELSE cancels + 1
      BY <1>1, <2>3 DEF Feed
    <3>4. cancels' \in 0..2 /\ (cancels' = 2 => cancels >= 1)
      BY <3>3 DEF Recovery
    <3>5. cancels' = 2 => parser'.state = "Ground"
      BY <3>2, <3>4 DEF Recovery
    <3>. QED  BY <2>2, <3>2, <3>4, <3>5 DEF Recovery, Typed
  <2>4. CASE b \notin Cancels
    <3>1. cancels' = 0
      BY <1>1, <2>4 DEF Feed
    <3>. QED  BY <2>2, <3>1 DEF Recovery, Typed
  <2>. QED  BY <2>3, <2>4
<1>2. CASE Finish
  <2>1. parser' = Advance(parser, B("final")).p /\ cancels' = 0
    BY <1>2 DEF Finish
  <2>2. Typed(parser')
    BY <2>1, AdvanceTyped DEF Recovery
  <2>. QED  BY <2>1, <2>2 DEF Recovery, Typed
<1>3. CASE UNCHANGED parserVars
  BY <1>3 DEF parserVars, Recovery, Typed
<1>. QED  BY <1>1, <1>2, <1>3 DEF ParserNext

\* The invariant holds of every reachable state.
LEMMA RecoveryCorrect == ParserSpec => []Recovery
  BY RecoveryInit, RecoveryNext, PTL DEF ParserSpec

\* Whatever the bytes, and for any limits: the parameter and intermediate arrays, the
\* UTF-8 buffer and the OSC payload of the parser never outgrow their storage.
THEOREM ParserTyped == ParserSpec => []ParserTypeOK
<1>1. Recovery => ParserTypeOK
  BY Fields DEF Recovery, Typed, ParserTypeOK, Sequence
<1>. QED  BY <1>1, RecoveryCorrect, PTL

\* Two CAN or SUB bytes in a row leave the parser in the ground state with no half
\* character pending, whatever came before them.
THEOREM CancelAlwaysRecovers == ParserSpec => []CancelRecovers
<1>1. Recovery => CancelRecovers
  BY DEF Recovery, CancelRecovers
<1>. QED  BY <1>1, RecoveryCorrect, PTL

-----------------------------------------------------------------------------
\* The bytes of a control sequence before its final byte: marks up to m, parameters
\* up to n, then intermediates.
Shape(s, m, n) == n \in 0..Len(s) /\ m \in 0..n /\ Grammar(s, m, n, Len(s))

\* The value of a parameter up to each byte: a digit adds to it, any other byte clears it.
Sums(s, n, g) ==
    /\ g \in [0..n -> Nat] /\ g[0] = 0
    /\ \A j \in 1..n : g[j] = IF s[j] \in Digits THEN g[j - 1] * Base + s[j][2] ELSE 0

\* The separators among the first n bytes, in order.
Stops(s, n, c, pos) ==
    /\ c \in Nat /\ pos \in [1..c -> 1..n]
    /\ \A i, j \in 1..c : i < j => pos[i] < pos[j]
    /\ \A j \in 1..n : s[j] \in Separators <=> \E k \in 1..c : pos[k] = j

\* The ends of the parameters: the separators and the byte after the last parameter.
Ends(n, c, pos) == [k \in 1..(c + 1) |-> IF k <= c THEN pos[k] ELSE n + 1]

Least(x, y) == IF x <= y THEN x ELSE y

\* No byte is in two of the classes of the grammar.
LEMMA ClassesApart ==
    ASSUME NEW b
    PROVE  /\ b \in PrivateMarks => b \notin Digits /\ b \notin Separators /\ b \notin Intermediates
           /\ b \in Digits => b \notin Separators /\ b \notin Intermediates /\ b \notin PrivateMarks
           /\ b \in Separators => b \notin Digits /\ b \notin Intermediates /\ b \notin PrivateMarks
           /\ b \in Intermediates => b \notin Digits /\ b \notin Separators /\ b \notin PrivateMarks
           /\ IsFinal(b) => /\ b \notin Digits /\ b \notin Separators /\ b \notin Intermediates
                            /\ b \notin PrivateMarks
           /\ b \in Cancels => /\ b \notin Digits /\ b \notin Separators /\ b \notin Intermediates
                               /\ b \notin PrivateMarks /\ ~IsFinal(b)
<1>1. b \in Digits => b[1] = "digit"
  BY DEF Digits
<1>. QED
  BY <1>1 DEF PrivateMarks, Separators, Intermediates, IsFinal, Finals, Cancels, B

\* The digits are numbers.
LEMMA DigitValue ==
    ASSUME NEW b \in Digits
    PROVE  b[2] \in Nat
  BY ParserAssumption DEF Digits

\* A set of bytes that is an interval of places has as many bytes.
LEMMA CountInterval ==
    ASSUME NEW T, NEW s \in Seq(T), NEW class, NEW lo \in Nat, NEW hi \in Nat, lo <= hi,
           hi <= Len(s), \A i \in 1..Len(s) : s[i] \in class <=> lo < i /\ i <= hi
    PROVE  Count(s, class) = hi - lo
<1>1. {i \in DOMAIN s : s[i] \in class} = (lo + 1)..hi
  OBVIOUS
<1>2. Cardinality((lo + 1)..hi) = hi - lo
  <2>1. lo + 1 \in Int /\ hi \in Int
    OBVIOUS
  <2>2. Cardinality((lo + 1)..hi) = IF lo + 1 > hi THEN 0 ELSE hi - (lo + 1) + 1
    BY <2>1, FS_Interval, Zenon
  <2>. QED  BY <2>2
<1>. QED  BY <1>1, <1>2 DEF Count

\* The bytes that are fed.
Fed == Alphabet \cup {B("final")}

\* s is r and one more byte; one final byte.
More(r, b, s) == r \in Seq(Fed) /\ b \in Fed /\ s = Append(r, b)

Ended(r, b, s) == More(r, b, s) /\ IsFinal(b)

\* The bytes of a sequence with one more.
LEMMA MoreBytes ==
    ASSUME NEW r, NEW b, NEW s, More(r, b, s)
    PROVE  /\ Len(r) \in Nat /\ Len(s) \in Nat /\ Len(s) = Len(r) + 1
           /\ s[Len(s)] = b /\ s[Len(r) + 1] = b /\ s \in Seq(Fed)
           /\ \A i \in 1..Len(r) : s[i] = r[i]
  BY DEF More

Counts(s, m, n, l) ==
    /\ Count(s, PrivateMarks) = m
    /\ Count(s, Digits \cup Separators) = n - m
    /\ Count(s, Intermediates) = l - n

\* How many bytes of each class a control sequence has.
LEMMA ShapeCounts ==
    ASSUME NEW r, NEW s, NEW b, Ended(r, b, s), NEW m, NEW n, Shape(r, m, n)
    PROVE  Counts(s, m, n, Len(r))
<1>0. r \in Seq(Fed) /\ s = Append(r, b) /\ IsFinal(b) /\ b \in Fed
  BY DEF Ended, More
<1>1. /\ Len(s) = Len(r) + 1 /\ s[Len(s)] = b /\ Len(r) \in Nat
      /\ \A i \in 1..Len(r) : s[i] = r[i]
      /\ s \in Seq(Fed)
  BY <1>0
<1>2. m \in Nat /\ n \in Nat /\ m <= n /\ n <= Len(r)
  BY <1>1 DEF Shape
<1>3. ASSUME NEW i \in 1..Len(r)
      PROVE  /\ i <= m => s[i] \in PrivateMarks
             /\ m < i /\ i <= n => s[i] \in Digits \cup Separators
             /\ n < i => s[i] \in Intermediates
  BY <1>1, <1>2 DEF Shape, Grammar
<1>4. ASSUME NEW i \in 1..Len(s)
      PROVE  /\ s[i] \in PrivateMarks <=> 0 < i /\ i <= m
             /\ s[i] \in Digits \cup Separators <=> m < i /\ i <= n
             /\ s[i] \in Intermediates <=> n < i /\ i <= Len(r)
  <2>1. CASE i = Len(s)
    <3>1. s[i] \notin PrivateMarks /\ s[i] \notin Digits \cup Separators /\ s[i] \notin Intermediates
      BY <1>0, <1>1, <2>1, ClassesApart
    <3>. QED  BY <3>1, <2>1, <1>1, <1>2
  <2>2. CASE i # Len(s)
    <3>1. i \in 1..Len(r)
      BY <1>1, <2>2
    <3>2. CASE i <= m
      BY <3>1, <3>2, <1>2, <1>3, ClassesApart
    <3>3. CASE m < i /\ i <= n
      BY <3>1, <3>3, <1>2, <1>3, ClassesApart
    <3>4. CASE n < i
      BY <3>1, <3>4, <1>2, <1>3, ClassesApart
    <3>. QED  BY <3>1, <3>2, <3>3, <3>4, <1>2
  <2>. QED  BY <2>1, <2>2
<1>. QED
  <2>0. 0 \in Nat /\ 0 <= m /\ m <= Len(s) /\ n <= Len(s) /\ Len(r) <= Len(s)
    BY <1>1, <1>2
  <2>1. Count(s, PrivateMarks) = m - 0
    <3>1. \A i \in 1..Len(s) : s[i] \in PrivateMarks <=> 0 < i /\ i <= m
      BY <1>4
    <3>. QED  BY <3>1, <2>0, <1>1, <1>2, CountInterval, Zenon
  <2>2. Count(s, Digits \cup Separators) = n - m
    <3>. DEFINE P == Digits \cup Separators
    <3>1. \A i \in 1..Len(s) : s[i] \in P <=> m < i /\ i <= n
      BY <1>4
    <3>. HIDE DEF P
    <3>2. Count(s, P) = n - m
      BY <3>1, <2>0, <1>1, <1>2, CountInterval, Zenon
    <3>. QED  BY <3>2 DEF P
  <2>3. Count(s, Intermediates) = Len(r) - n
    <3>1. \A i \in 1..Len(s) : s[i] \in Intermediates <=> n < i /\ i <= Len(r)
      BY <1>4
    <3>. QED  BY <3>1, <2>0, <1>1, <1>2, CountInterval, Zenon
  <2>. QED  BY <1>2, <2>1, <2>2, <2>3 DEF Counts

-----------------------------------------------------------------------------
\* e lists the N numbers of S, none above M, in order.
Lists(e, N, M, S) ==
    /\ N \in Nat /\ M \in Nat /\ e \in [1..N -> 1..M]
    /\ \A i, j \in 1..N : i < j => e[i] < e[j]
    /\ S = {e[k] : k \in 1..N}

Before(S, x) == {j \in S : j < x}

Ranked(e, N, S) == \A k \in 1..N : Cardinality(Before(S, e[k])) = k - 1

\* The kth number of a list in order has k - 1 before it.
LEMMA RankInList ==
    ASSUME NEW N, NEW e, NEW M, NEW S, Lists(e, N, M, S)
    PROVE  Ranked(e, N, S) /\ Cardinality(S) = N
<1>. USE DEF Lists
<1>1. ASSUME NEW k \in 0..N, NEW A, A = {e[i] : i \in 1..k}
      PROVE  Cardinality(A) = k
  <2>. DEFINE f == [i \in 1..k |-> e[i]]
  <2>1. f \in Surjection(1..k, A)
    BY <1>1 DEF Surjection
  <2>2. \A i, j \in 1..k : f[i] = f[j] => i = j
    BY <1>1
  <2>3. f \in Injection(1..k, A)
    BY <2>1, <2>2 DEF Injection, Surjection, IsInjective
  <2>4. f \in Bijection(1..k, A)
    BY <2>1, <2>3 DEF Bijection
  <2>5. IsFiniteSet(1..k) /\ Cardinality(1..k) = k
    BY FS_Interval
  <2>6. ExistsBijection(1..k, A)
    BY <2>4 DEF ExistsBijection
  <2>. QED  BY <2>5, <2>6, FS_Bijection
<1>2. ASSUME NEW k \in 1..N
      PROVE  Cardinality(Before(S, e[k])) = k - 1
  <2>1. Before(S, e[k]) = {e[i] : i \in 1..(k - 1)}
    <3>1. ASSUME NEW i \in 1..N, e[i] < e[k]  PROVE  i \in 1..(k - 1)
      <4>1. ~(k < i) /\ i # k
        BY <3>1
      <4>. QED  BY <4>1
    <3>2. ASSUME NEW i \in 1..(k - 1)  PROVE  e[i] \in S /\ e[i] < e[k]
      OBVIOUS
    <3>. QED  BY <3>1, <3>2 DEF Before
  <2>2. k - 1 \in 0..N
    OBVIOUS
  <2>. QED  BY <2>1, <2>2, <1>1
<1>3. Cardinality(S) = N
  BY <1>1
<1>. QED  BY <1>2, <1>3 DEF Ranked

\* So it is the kth smallest of them.
LEMMA NthInList ==
    ASSUME NEW N, NEW e, NEW M, NEW S, Lists(e, N, M, S), NEW k \in 1..N
    PROVE  Nth(S, k) = e[k]
<1>0. Ranked(e, N, S)
  BY RankInList
<1>1. \A l \in 1..N : Cardinality(Before(S, e[l])) = l - 1
  BY <1>0, Zenon DEF Ranked
<1>2. e[k] \in S
  BY DEF Lists
<1>3. PICK i \in S : i = Nth(S, k) /\ Cardinality(Before(S, i)) = k - 1
  BY <1>1, <1>2 DEF Nth, Before
<1>4. PICK l \in 1..N : i = e[l]
  BY DEF Lists
<1>5. l - 1 = k - 1
  BY <1>1, <1>3, <1>4
<1>6. l = k
  BY <1>5
<1>. QED  BY <1>3, <1>4, <1>6

\* g adds up the digits from lo to hi.
Adds(s, lo, hi, g) ==
    g[lo - 1] = 0 /\ \A j \in lo..hi : g[j] = g[j - 1] * Base + s[j][2]

\* Digits add up to the number they write.
LEMMA DecimalIs ==
    ASSUME NEW s, NEW lo \in Nat \ {0}, NEW hi \in Nat, lo - 1 <= hi, NEW g, Adds(s, lo, hi, g)
    PROVE  Decimal(s, lo, hi) = g[hi]
<1>. DEFINE D == (lo - 1)..hi
            Rec(d) == d = [j \in D |-> IF j = lo - 1 THEN 0 ELSE d[j - 1] * Base + s[j][2]]
            f == [j \in D |-> g[j]]
            dec == CHOOSE d : Rec(d)
            N == hi - (lo - 1)
            G == [i \in 0..N |-> dec[lo - 1 + i]]
            H == [i \in 0..N |-> g[lo - 1 + i]]
<1>0. g[lo - 1] = 0 /\ \A j \in lo..hi : g[j] = g[j - 1] * Base + s[j][2]
  BY DEF Adds
<1>1. Rec(f)
  <2>1. ASSUME NEW j \in D  PROVE  f[j] = IF j = lo - 1 THEN 0 ELSE f[j - 1] * Base + s[j][2]
    <3>1. CASE j = lo - 1
      BY <3>1, <1>0
    <3>2. CASE j # lo - 1
      <4>1. j \in lo..hi /\ j - 1 \in D
        BY <3>2
      <4>. QED  BY <4>1, <3>2, <1>0
    <3>. QED  BY <3>1, <3>2
  <2>. QED  BY <2>1
<1>2. Rec(dec)
  <2>. HIDE DEF f, Rec
  <2>. QED  BY <1>1
<1>3. Decimal(s, lo, hi) = dec[hi]
  BY DEF Decimal
<1>4. dec[lo - 1] = 0 /\ \A j \in lo..hi : dec[j] = dec[j - 1] * Base + s[j][2]
  <2>. HIDE DEF dec
  <2>1. lo - 1 \in D /\ \A j \in lo..hi : j \in D /\ j # lo - 1
    OBVIOUS
  <2>. QED  BY <1>2, <2>1
<1>. HIDE DEF dec
<1>5. N \in Nat /\ G[0] = H[0]
  BY <1>0, <1>4
<1>6. ASSUME NEW i \in 0..(N - 1), G[i] = H[i]  PROVE  G[i + 1] = H[i + 1]
  <2>1. lo - 1 + (i + 1) \in lo..hi /\ (lo - 1 + (i + 1)) - 1 = lo - 1 + i
        /\ i \in 0..N /\ i + 1 \in 0..N
    OBVIOUS
  <2>. DEFINE j == lo - 1 + (i + 1)
  <2>2. dec[j - 1] = g[j - 1]
    BY <2>1, <1>6
  <2>3. dec[j] = g[j]
    BY <2>1, <2>2, <1>0, <1>4
  <2>. QED  BY <2>1, <2>3
<1>7. G[N] = H[N]
  <2>. HIDE DEF G, H
  <2>. QED  BY <1>5, <1>6, RecursionUnique
<1>8. dec[hi] = g[hi]
  BY <1>5, <1>7
<1>. QED  BY <1>3, <1>8

\* The values of the parameters that end at the places of e.
Values(g, e, q) == [k \in 1..q |-> Saturate(g[e[k] - 1])]

SeparatorsIn(s, n) == {j \in 1..n : s[j] \in Separators}

EndsAre(e, n, c, pos) == (\A k \in 1..c : e[k] = pos[k]) /\ e[c + 1] = n + 1

\* The ends of the parameters, in order, are the places the reference reading finds.
LEMMA EndsListed ==
    ASSUME NEW s, NEW n \in Nat, NEW c, NEW pos, Stops(s, n, c, pos), NEW e, e = Ends(n, c, pos)
    PROVE  /\ Lists(e, c + 1, n + 1, SeparatorsIn(s, n) \cup {n + 1})
           /\ EndsAre(e, n, c, pos)
<1>1. c \in Nat /\ pos \in [1..c -> 1..n] /\ \A i, j \in 1..c : i < j => pos[i] < pos[j]
  BY DEF Stops
<1>2. \A k \in 1..(c + 1) : e[k] = IF k <= c THEN pos[k] ELSE n + 1
  BY <1>1 DEF Ends
<1>3. (\A k \in 1..c : e[k] = pos[k]) /\ e[c + 1] = n + 1 /\ c + 1 \in 1..(c + 1)
      /\ \A k \in 1..(c + 1) : k \in 1..c \/ k = c + 1
  BY <1>1, <1>2
<1>4. \A k \in 1..c : pos[k] \in 1..n
  BY <1>1
<1>5. e \in [1..(c + 1) -> 1..(n + 1)]
  <2>1. \A k \in 1..(c + 1) : e[k] \in 1..(n + 1)
    BY <1>3, <1>4
  <2>2. e = [k \in 1..(c + 1) |-> e[k]]
    BY DEF Ends
  <2>. QED  BY <2>1, <2>2
<1>6. ASSUME NEW i \in 1..(c + 1), NEW j \in 1..(c + 1), i < j  PROVE  e[i] < e[j]
  <2>1. i \in 1..c
    BY <1>6, <1>1
  <2>2. CASE j \in 1..c
    BY <2>1, <2>2, <1>6, <1>3, <1>1
  <2>3. CASE j = c + 1
    <3>1. e[i] \in 1..n /\ e[j] = n + 1
      BY <2>1, <2>3, <1>3, <1>4
    <3>. QED  BY <3>1
  <2>. QED  BY <2>2, <2>3, <1>3
<1>7. {e[k] : k \in 1..(c + 1)} = {j \in 1..n : s[j] \in Separators} \cup {n + 1}
  <2>1. \A j \in 1..n : s[j] \in Separators <=> \E k \in 1..c : pos[k] = j
    BY DEF Stops
  <2>2. ASSUME NEW k \in 1..(c + 1)
        PROVE  e[k] \in {j \in 1..n : s[j] \in Separators} \cup {n + 1}
    BY <2>1, <1>3, <1>4
  <2>3. ASSUME NEW j \in {j \in 1..n : s[j] \in Separators} \cup {n + 1}
        PROVE  \E k \in 1..(c + 1) : j = e[k]
    <3>1. CASE j = n + 1
      BY <3>1, <1>3
    <3>2. CASE j # n + 1
      <4>1. j \in 1..n /\ s[j] \in Separators
        BY <3>2
      <4>2. PICK k \in 1..c : pos[k] = j
        BY <4>1, <2>1
      <4>3. k \in 1..(c + 1)
        BY <1>1
      <4>. QED  BY <4>2, <4>3, <1>3
    <3>. QED  BY <3>1, <3>2
  <2>. QED  BY <2>2, <2>3
<1>8. c + 1 \in Nat /\ n + 1 \in Nat
  BY <1>1
<1>. QED  BY <1>3, <1>5, <1>6, <1>7, <1>8 DEF Lists, SeparatorsIn, EndsAre

\* The same first n bytes.
Agree(s, r, n) == \A j \in 1..n : s[j] = r[j]

\* What the grammar says of the parameter bytes.
LEMMA ParameterBytes ==
    ASSUME NEW r, Len(r) \in Nat, NEW m, NEW n, Shape(r, m, n)
    PROVE  /\ m \in Nat /\ n \in Nat /\ m <= n /\ n <= Len(r)
           /\ \A j \in 1..m : r[j] \in PrivateMarks
           /\ \A j \in (m + 1)..n : r[j] \in Digits \cup Separators
           /\ \A j \in (n + 1)..Len(r) : r[j] \in Intermediates
<1>1. m \in Nat /\ n \in Nat /\ m <= n /\ n <= Len(r)
  BY DEF Shape
<1>. QED  BY <1>1 DEF Shape, Grammar

\* What is known of the parameters among some bytes: their sums and separators.
Tally(r, m, n, g, c, pos) ==
    Len(r) \in Nat /\ Shape(r, m, n) /\ Sums(r, n, g) /\ Stops(r, n, c, pos)

\* The reference value of a parameter is the sum at its end.
LEMMA ValueIs ==
    ASSUME NEW r, NEW m, NEW n, NEW g, NEW c, NEW pos, Tally(r, m, n, g, c, pos),
           NEW e, e = Ends(n, c, pos), NEW seps, seps = SeparatorsIn(r, n),
           NEW s, Agree(s, r, n), NEW k \in 1..(c + 1)
    PROVE  ValueBefore(s, m + 1, seps, e[k]) = Saturate(g[e[k] - 1])
<1>. DEFINE i == e[k]
            from == {j \in seps : j < i}
            last == CHOOSE j \in from : \A l \in from : l <= j
            lo == IF from = {} THEN m + 1 ELSE 1 + last
<1>0. Len(r) \in Nat /\ Shape(r, m, n) /\ Sums(r, n, g) /\ Stops(r, n, c, pos)
  BY DEF Tally
<1>1. /\ m \in Nat /\ n \in Nat /\ m <= n
      /\ \A j \in 1..m : r[j] \in PrivateMarks
      /\ \A j \in (m + 1)..n : r[j] \in Digits \cup Separators
  BY <1>0, ParameterBytes
<1>2. c \in Nat /\ i \in 1..(n + 1)
  <2>1. e \in [1..(c + 1) -> 1..(n + 1)]
    BY <1>0, <1>1, EndsListed, Zenon DEF Lists
  <2>. QED  BY <1>0, <2>1 DEF Stops
<1>3. /\ g \in [0..n -> Nat] /\ g[0] = 0
      /\ \A j \in 1..n : g[j] = IF r[j] \in Digits THEN g[j - 1] * Base + r[j][2] ELSE 0
  BY <1>0 DEF Sums
<1>. USE DEF SeparatorsIn
<1>4. \A j \in seps : j \in (m + 1)..n
  BY <1>1, ClassesApart
<1>5. i \in (m + 1)..(n + 1)
  <2>1. i = n + 1 \/ i \in seps
    <3>1. Lists(e, c + 1, n + 1, seps \cup {n + 1})
      BY <1>0, <1>1, EndsListed, Zenon DEF SeparatorsIn
    <3>2. e[k] \in seps \cup {n + 1}
      BY <3>1, Zenon DEF Lists
    <3>. QED  BY <3>2
  <2>. QED  BY <2>1, <1>1, <1>4
<1>6. /\ lo \in Nat \ {0} /\ lo - 1 <= i - 1 /\ g[lo - 1] = 0 /\ m + 1 <= lo
      /\ \A j \in lo..(i - 1) : r[j] \notin Separators
  <2>1. CASE from = {}
    <3>1. lo = m + 1
      BY <2>1
    <3>2. g[m] = 0
      <4>1. CASE m = 0
        BY <4>1, <1>3
      <4>2. CASE m # 0
        <5>1. m \in 1..n /\ r[m] \notin Digits
          BY <4>2, <1>1, ClassesApart
        <5>. QED  BY <5>1, <1>3
      <4>. QED  BY <4>1, <4>2
    <3>3. \A j \in lo..(i - 1) : r[j] \notin Separators
      BY <2>1, <3>1, <1>1, <1>2
    <3>. HIDE DEF lo, i
    <3>. QED  BY <3>1, <3>2, <3>3, <1>1, <1>5
  <2>2. CASE from # {}
    <3>1. from \in SUBSET Nat /\ \A j \in from : j <= i
      BY <1>1, <1>2
    <3>2. \E j \in from : \A l \in from : l <= j
      <4>. DEFINE D == {i - j : j \in from}
      <4>1. D \in SUBSET Nat /\ D # {}
        BY <2>2, <3>1, <1>2
      <4>2. PICK x \in D : \A y \in D : x <= y
        <5>. HIDE DEF D
        <5>. QED  BY <4>1, LeastNat
      <4>3. PICK j \in from : x = i - j
        OBVIOUS
      <4>4. ASSUME NEW l \in from  PROVE  l <= j
        <5>1. i - j <= i - l
          BY <4>2, <4>3
        <5>. QED  BY <5>1, <3>1, <1>2
      <4>. QED  BY <4>4
    <3>3. last \in from /\ \A l \in from : l <= last
      <4>. HIDE DEF from
      <4>. QED  BY <3>2
    <3>. HIDE DEF last
    <3>4. lo = 1 + last /\ last \in seps /\ last < i /\ last \in 1..n /\ r[last] \in Separators
      BY <3>3, <2>2
    <3>5. g[last] = 0
      <4>1. r[last] \notin Digits
        BY <3>4, ClassesApart
      <4>. QED  BY <4>1, <3>4, <1>3
    <3>6. last \in (m + 1)..n
      BY <3>4, <1>4
    <3>7. \A j \in lo..(i - 1) : r[j] \notin Separators
      <4>1. ASSUME NEW j \in lo..(i - 1), r[j] \in Separators  PROVE  FALSE
        <5>1. j \in 1..n /\ j < i /\ last < j
          BY <3>4, <1>2, <1>1
        <5>2. j \in from
          BY <5>1, <4>1
        <5>3. j <= last
          BY <3>3, <5>2
        <5>. QED  BY <5>1, <5>3, <3>4
      <4>. QED  BY <4>1
    <3>. HIDE DEF lo, i
    <3>. QED  BY <3>4, <3>5, <3>6, <3>7, <1>1, <1>5
  <2>. QED  BY <2>1, <2>2
<1>7. \A j \in lo..(i - 1) : g[j] = g[j - 1] * Base + s[j][2]
  <2>. HIDE DEF lo, i
  <2>1. ASSUME NEW j \in lo..(i - 1)  PROVE  g[j] = g[j - 1] * Base + s[j][2]
    <3>1. j \in (m + 1)..n /\ j \in 1..n
      BY <1>1, <1>5, <1>6
    <3>2. r[j] \in Digits /\ s[j] = r[j]
      BY <3>1, <1>1, <1>6 DEF Agree
    <3>. QED  BY <3>1, <3>2, <1>3
  <2>. QED  BY <2>1
<1>8. Decimal(s, lo, i - 1) = g[i - 1]
  <2>. HIDE DEF lo, i
  <2>1. i - 1 \in Nat
    BY <1>1, <1>5
  <2>. DEFINE h == i - 1
  <2>2. h \in Nat /\ lo - 1 <= h /\ lo \in Nat \ {0} /\ Adds(s, lo, h, g)
    BY <2>1, <1>6, <1>7 DEF Adds
  <2>. HIDE DEF h
  <2>3. Decimal(s, lo, h) = g[h]
    BY <2>2, DecimalIs
  <2>. QED  BY <2>3 DEF h
<1>9. ValueBefore(s, m + 1, seps, e[k]) = Saturate(Decimal(s, lo, i - 1))
  BY DEF ValueBefore
<1>. QED  BY <1>8, <1>9

\* The reference reading of the parameters, from the sums and the separators.
LEMMA RefParamsIs ==
    ASSUME NEW r, NEW s, NEW b, Ended(r, b, s),
           NEW m, NEW n, NEW g, NEW c, NEW pos, Tally(r, m, n, g, c, pos), m < n
    PROVE  RefParams(s) = Values(g, Ends(n, c, pos), Least(c + 1, MaxCsiParams))
<1>. DEFINE e == Ends(n, c, pos)
            seps == {i \in DOMAIN s : s[i] \in Separators}
            stops == seps \cup {n + 1}
            N == Cardinality(stops)
            q == IF N > MaxCsiParams THEN MaxCsiParams ELSE N
<1>0. Len(r) \in Nat /\ Shape(r, m, n) /\ Sums(r, n, g) /\ Stops(r, n, c, pos)
  BY DEF Tally
<1>1. s \in Seq(Fed) /\ Len(r) \in Nat /\ Len(s) = Len(r) + 1 /\ s[Len(s)] = b
      /\ (\A i \in 1..Len(r) : s[i] = r[i]) /\ IsFinal(b)
  BY DEF Ended, More
<1>2. /\ m \in Nat /\ n \in Nat /\ m <= n /\ n <= Len(r)
      /\ \A j \in 1..m : r[j] \in PrivateMarks
      /\ \A j \in (m + 1)..n : r[j] \in Digits \cup Separators
      /\ \A j \in (n + 1)..Len(r) : r[j] \in Intermediates
  BY <1>0, ParameterBytes
<1>3. seps = SeparatorsIn(r, n)
  <2>1. ASSUME NEW i \in 1..Len(s), s[i] \in Separators  PROVE  i \in 1..n
    <3>1. i # Len(s)
      BY <2>1, <1>1, ClassesApart
    <3>2. i \in 1..Len(r) /\ r[i] \in Separators
      BY <3>1, <1>1, <2>1
    <3>3. ~(i \in (n + 1)..Len(r))
      BY <3>2, <1>2, ClassesApart
    <3>. QED  BY <3>2, <3>3, <1>2
  <2>2. DOMAIN s = 1..Len(s) /\ \A i \in 1..n : i \in 1..Len(s) /\ s[i] = r[i]
    BY <1>1, <1>2
  <2>. QED  BY <2>1, <2>2 DEF SeparatorsIn
<1>4. Count(s, PrivateMarks) = m /\ Count(s, Digits \cup Separators) = n - m
  <2>1. Counts(s, m, n, Len(r))
    BY <1>0, ShapeCounts, Zenon
  <2>. QED  BY <2>1, Zenon DEF Counts
<1>5. Lists(e, c + 1, n + 1, stops) /\ c \in Nat
  <2>1. c \in Nat
    BY <1>0 DEF Stops
  <2>. HIDE DEF seps, e
  <2>2. Lists(e, c + 1, n + 1, SeparatorsIn(r, n) \cup {n + 1})
    BY <1>0, <1>2, EndsListed, Zenon DEF e
  <2>. QED  BY <2>1, <2>2, <1>3
<1>6. RefParams(s) = [k \in 1..q |-> ValueBefore(s, m + 1, seps, Nth(stops, k))]
  <2>1. m + 1 + (n - m) = n + 1 /\ n + 1 # m + 1
    BY <1>0, <1>2
  <2>. QED  BY <1>4, <2>1 DEF RefParams
<1>. HIDE DEF e, seps, stops
<1>7. N = c + 1 /\ \A k \in 1..(c + 1) : Nth(stops, k) = e[k]
  <2>. DEFINE C == c + 1
  <2>1. Lists(e, C, n + 1, stops)
    BY <1>5
  <2>. HIDE DEF C
  <2>2. N = C
    BY <2>1, RankInList, Zenon
  <2>3. \A k \in 1..C : Nth(stops, k) = e[k]
    BY <2>1, NthInList, Zenon
  <2>. QED  BY <2>2, <2>3 DEF C
<1>8. ASSUME NEW k \in 1..(c + 1)
      PROVE  ValueBefore(s, m + 1, seps, Nth(stops, k)) = Saturate(g[e[k] - 1])
  <2>1. ValueBefore(s, m + 1, seps, e[k]) = Saturate(g[e[k] - 1])
    <3>1. Agree(s, r, n) /\ Len(r) \in Nat
      BY <1>1, <1>2 DEF Agree
    <3>2. e = Ends(n, c, pos)
      BY DEF e
    <3>. QED  BY <3>1, <3>2, <1>3, ValueIs
  <2>. QED  BY <2>1, <1>7
<1>9. q = Least(c + 1, MaxCsiParams) /\ \A k \in 1..q : k \in 1..(c + 1)
  BY <1>5, <1>7, ParserAssumption DEF Least
<1>. HIDE DEF q
<1>10. RefParams(s) = [k \in 1..q |-> Saturate(g[e[k] - 1])]
  BY <1>6, <1>8, <1>9
<1>. QED  BY <1>9, <1>10 DEF Values, e

\* The last of the private marks.
Marked(r, m) == IF m = 0 THEN B("none") ELSE r[m]

\* The parameters of the bytes up to n, all of them ended.
Complete(r, m, n, ps) ==
    IF m = n THEN ps = <<>>
    ELSE \E g, c, pos : /\ Tally(r, m, n, g, c, pos)
                       /\ ps = Values(g, Ends(n, c, pos), Least(c + 1, MaxCsiParams))

\* A dispatched sequence.
Report(private, ps, k, b) ==
    [private |-> private, params |-> ps, inter_count |-> k, final |-> b]

\* The reference reading of a sequence.
LEMMA RefCsiIs ==
    ASSUME NEW r, NEW s, NEW b, Ended(r, b, s), NEW m, NEW n, Shape(r, m, n),
           NEW ps, Complete(r, m, n, ps)
    PROVE  RefCsi(s) = Report(Marked(r, m), ps, Least(Len(r) - n, 2), b)
<1>1. Len(r) \in Nat /\ Len(s) = Len(r) + 1 /\ s[Len(s)] = b /\ \A i \in 1..Len(r) : s[i] = r[i]
  BY DEF Ended, More
<1>2. m \in Nat /\ n \in Nat /\ m <= n /\ n <= Len(r)
  BY <1>1, ParameterBytes
<1>3. Counts(s, m, n, Len(r))
  BY ShapeCounts, Zenon
<1>4. Count(s, PrivateMarks) = m /\ Count(s, Digits \cup Separators) = n - m
      /\ Count(s, Intermediates) = Len(r) - n
  BY <1>3, Zenon DEF Counts
<1>5. RefParams(s) = ps
  <2>1. CASE m = n
    <3>1. m + 1 + (n - m) = m + 1 /\ ps = <<>>
      BY <2>1, <1>2 DEF Complete
    <3>. QED  BY <3>1, <1>4 DEF RefParams
  <2>2. CASE m # n
    <3>1. PICK g, c, pos : /\ Tally(r, m, n, g, c, pos)
                           /\ ps = Values(g, Ends(n, c, pos), Least(c + 1, MaxCsiParams))
      BY <2>2, Zenon DEF Complete
    <3>2. m < n
      BY <2>2, <1>2
    <3>3. RefParams(s) = Values(g, Ends(n, c, pos), Least(c + 1, MaxCsiParams))
      BY <3>1, <3>2, RefParamsIs
    <3>. QED  BY <3>1, <3>3
  <2>. QED  BY <2>1, <2>2
<1>6. (IF m = 0 THEN B("none") ELSE s[m]) = Marked(r, m)
  BY <1>1, <1>2 DEF Marked
<1>7. (IF Len(r) - n > 2 THEN 2 ELSE Len(r) - n) = Least(Len(r) - n, 2)
  BY <1>1, <1>2 DEF Least
<1>. QED  BY <1>1, <1>4, <1>5, <1>6, <1>7, Zenon DEF RefCsi, Report

-----------------------------------------------------------------------------
\* A mark goes on with marks only.
LEMMA ShapeByMark ==
    ASSUME NEW r, NEW b, NEW s, More(r, b, s), b \in PrivateMarks, NEW m, NEW n, Shape(s, m, n)
    PROVE  m = Len(s) /\ n = Len(s) /\ Shape(r, Len(r), Len(r)) /\ Marked(s, m) = b
<1>1. Len(s) = Len(r) + 1 /\ s[Len(s)] = b /\ Len(r) \in Nat /\ Len(s) \in Nat
      /\ \A i \in 1..Len(r) : s[i] = r[i]
  BY MoreBytes
<1>2. /\ m \in Nat /\ n \in Nat /\ m <= n /\ n <= Len(s)
      /\ \A j \in 1..m : s[j] \in PrivateMarks
      /\ \A j \in (m + 1)..n : s[j] \in Digits \cup Separators
      /\ \A j \in (n + 1)..Len(s) : s[j] \in Intermediates
  BY <1>1, ParameterBytes
<1>3. Len(s) \notin (m + 1)..n /\ Len(s) \notin (n + 1)..Len(s)
  BY <1>1, <1>2, ClassesApart
<1>4. m = Len(s) /\ n = Len(s)
  BY <1>1, <1>2, <1>3
<1>5. \A i \in 1..Len(r) : r[i] \in PrivateMarks
  BY <1>1, <1>2, <1>4
<1>6. Shape(r, Len(r), Len(r))
  BY <1>1, <1>5 DEF Shape, Grammar
<1>. QED  BY <1>1, <1>4, <1>6 DEF Marked

\* A parameter byte goes on with marks and parameters.
LEMMA ShapeByParameter ==
    ASSUME NEW r, NEW b, NEW s, More(r, b, s), b \in Digits \cup Separators,
           NEW m, NEW n, Shape(s, m, n)
    PROVE  n = Len(s) /\ Shape(r, m, Len(r))
<1>1. Len(s) = Len(r) + 1 /\ s[Len(s)] = b /\ Len(r) \in Nat /\ Len(s) \in Nat
      /\ \A i \in 1..Len(r) : s[i] = r[i]
  BY MoreBytes
<1>2. /\ m \in Nat /\ n \in Nat /\ m <= n /\ n <= Len(s)
      /\ \A j \in 1..m : s[j] \in PrivateMarks
      /\ \A j \in (m + 1)..n : s[j] \in Digits \cup Separators
      /\ \A j \in (n + 1)..Len(s) : s[j] \in Intermediates
  BY <1>1, ParameterBytes
<1>3. Len(s) \notin 1..m /\ Len(s) \notin (n + 1)..Len(s)
  BY <1>1, <1>2, ClassesApart
<1>4. n = Len(s) /\ m <= Len(r)
  BY <1>1, <1>2, <1>3
<1>5. \A i \in 1..Len(r) : r[i] \in IF i <= m THEN PrivateMarks ELSE Digits \cup Separators
  BY <1>1, <1>2, <1>4
<1>6. Shape(r, m, Len(r))
  BY <1>1, <1>2, <1>4, <1>5 DEF Shape, Grammar
<1>. QED  BY <1>4, <1>6

\* An intermediate goes on with anything of the grammar.
LEMMA ShapeByIntermediate ==
    ASSUME NEW r, NEW b, NEW s, More(r, b, s), b \in Intermediates,
           NEW m, NEW n, Shape(s, m, n)
    PROVE  n <= Len(r) /\ Shape(r, m, n)
<1>1. Len(s) = Len(r) + 1 /\ s[Len(s)] = b /\ Len(r) \in Nat /\ Len(s) \in Nat
      /\ \A i \in 1..Len(r) : s[i] = r[i]
  BY MoreBytes
<1>2. /\ m \in Nat /\ n \in Nat /\ m <= n /\ n <= Len(s)
      /\ \A j \in 1..m : s[j] \in PrivateMarks
      /\ \A j \in (m + 1)..n : s[j] \in Digits \cup Separators
      /\ \A j \in (n + 1)..Len(s) : s[j] \in Intermediates
  BY <1>1, ParameterBytes
<1>3. Len(s) \notin 1..m /\ Len(s) \notin (m + 1)..n
  BY <1>1, <1>2, ClassesApart
<1>4. n <= Len(r)
  BY <1>1, <1>2, <1>3
<1>5. \A i \in 1..Len(r) : r[i] \in IF i <= m THEN PrivateMarks
                                     ELSE IF i <= n THEN Digits \cup Separators ELSE Intermediates
  BY <1>1, <1>2, <1>4
<1>6. Shape(r, m, n)
  BY <1>1, <1>2, <1>4, <1>5 DEF Shape, Grammar
<1>. QED  BY <1>4, <1>6

\* No other byte is part of one.
LEMMA ShapeByOther ==
    ASSUME NEW r, NEW b, NEW s, More(r, b, s), NEW m, NEW n, Shape(s, m, n)
    PROVE  b \in PrivateMarks \/ b \in Digits \cup Separators \/ b \in Intermediates
<1>1. Len(s) = Len(r) + 1 /\ s[Len(s)] = b /\ Len(r) \in Nat /\ Len(s) \in Nat
  BY MoreBytes
<1>. QED  BY <1>1 DEF Shape, Grammar

\* The bytes before the final byte of a well-formed sequence.
LEMMA ShapeByFinal ==
    ASSUME NEW r, NEW b, NEW s, More(r, b, s), WellFormed(s)
    PROVE  Ended(r, b, s) /\ \E m, n : Shape(r, m, n)
<1>1. Len(s) = Len(r) + 1 /\ s[Len(s)] = b /\ Len(r) \in Nat /\ Len(s) - 1 = Len(r)
      /\ \A i \in 1..Len(r) : s[i] = r[i]
  BY MoreBytes
<1>2. IsFinal(b) /\ \E n \in 0..Len(r) : \E m \in 0..n : Grammar(s, m, n, Len(r))
  <2>. DEFINE l == Len(s) - 1
  <2>1. /\ IsFinal(s[l + 1])
        /\ \E n \in 0..l : \E m \in 0..n : Grammar(s, m, n, l)
    BY DEF WellFormed
  <2>2. l = Len(r) /\ l + 1 = Len(s)
    BY <1>1
  <2>. QED  BY <2>1, <2>2, <1>1
<1>2a. PICK n \in 0..Len(r) : \E m \in 0..n : Grammar(s, m, n, Len(r))
  BY <1>2
<1>3. PICK m \in 0..n : Grammar(s, m, n, Len(r))
  BY <1>2a
<1>4. Grammar(r, m, n, Len(r))
  BY <1>1, <1>3 DEF Grammar
<1>5. Shape(r, m, n)
  BY <1>4 DEF Shape
<1>. QED  BY <1>2, <1>5 DEF Ended

-----------------------------------------------------------------------------
\* The fields of a sequence whose bytes so far are the private marks and the parameters:
\* the values of the ended parameters and of the one in progress.
Counted(q, r, m, g, c, pos) ==
    /\ Tally(r, m, Len(r), g, c, pos)
    /\ q.private = Marked(r, m) /\ q.inter_count = 0
    /\ q.params = Values(g, pos, Least(c, MaxCsiParams))
    /\ q.cur_param = Saturate(g[Len(r)])
    /\ q.cur_param_overflow => g[Len(r)] >= MaxParam

\* The sums go on with one more byte.
Extended(g, n, v) == [j \in 0..(n + 1) |-> IF j <= n THEN g[j] ELSE v]

NextSum(g, n, b, v) == v \in Nat /\ v = IF b \in Digits THEN g[n] * Base + b[2] ELSE 0

SameSums(h, g, n) == \A j \in 0..n : h[j] = g[j]

\* The sums, with one more byte, are sums again.
LEMMA ExtendedSums ==
    ASSUME NEW r, NEW b, NEW s, More(r, b, s), NEW g, Sums(r, Len(r), g),
           NEW v, NextSum(g, Len(r), b, v), NEW h, h = Extended(g, Len(r), v)
    PROVE  Sums(s, Len(s), h) /\ h[Len(s)] = v /\ SameSums(h, g, Len(r))
<1>. DEFINE n == Len(r)
<1>0. v \in Nat /\ v = IF b \in Digits THEN g[n] * Base + b[2] ELSE 0
  BY DEF NextSum
<1>1. Len(s) = n + 1 /\ s[n + 1] = b /\ n \in Nat /\ \A i \in 1..n : s[i] = r[i]
  BY MoreBytes
<1>2. /\ g \in [0..n -> Nat] /\ g[0] = 0
      /\ \A j \in 1..n : g[j] = IF r[j] \in Digits THEN g[j - 1] * Base + r[j][2] ELSE 0
  BY DEF Sums
<1>3. \A j \in 0..(n + 1) : h[j] = IF j <= n THEN g[j] ELSE v
  BY DEF Extended
<1>4. h[n + 1] = v /\ \A j \in 0..n : h[j] = g[j]
  BY <1>1, <1>3
<1>5. h \in [0..(n + 1) -> Nat]
  <2>1. \A j \in 0..(n + 1) : h[j] \in Nat
    BY <1>0, <1>1, <1>2, <1>3
  <2>2. h = [j \in 0..(n + 1) |-> h[j]]
    BY DEF Extended
  <2>. QED  BY <2>1, <2>2
<1>6. ASSUME NEW j \in 1..(n + 1)
      PROVE  h[j] = IF s[j] \in Digits THEN h[j - 1] * Base + s[j][2] ELSE 0
  <2>1. CASE j = n + 1
    <3>1. h[j - 1] = g[n] /\ s[j] = b /\ h[j] = v
      BY <2>1, <1>1, <1>4
    <3>. QED  BY <3>1, <1>0
  <2>2. CASE j # n + 1
    <3>1. j \in 1..n /\ j \in 0..n /\ j - 1 \in 0..n
      BY <2>2, <1>1
    <3>2. h[j - 1] = g[j - 1] /\ s[j] = r[j] /\ h[j] = g[j]
      BY <3>1, <1>1, <1>4
    <3>. QED  BY <3>1, <3>2, <1>2
  <2>. QED  BY <2>1, <2>2
<1>7. Sums(s, n + 1, h)
  BY <1>1, <1>2, <1>4, <1>5, <1>6 DEF Sums
<1>. QED  BY <1>1, <1>4, <1>7 DEF SameSums

\* The grammar goes on with one more parameter byte.
LEMMA ExtendedShape ==
    ASSUME NEW r, NEW b, NEW s, More(r, b, s), NEW m,
           Shape(r, m, Len(r)), b \in Digits \cup Separators
    PROVE  Shape(s, m, Len(s)) /\ Marked(s, m) = Marked(r, m) /\ m <= Len(r)
<1>1. Len(s) = Len(r) + 1 /\ s[Len(s)] = b /\ Len(r) \in Nat /\ \A i \in 1..Len(r) : s[i] = r[i]
  BY MoreBytes
<1>2. m \in Nat /\ m <= Len(r)
  BY <1>1 DEF Shape
<1>3. ASSUME NEW i \in 1..Len(s)
      PROVE  s[i] \in IF i <= m THEN PrivateMarks
                      ELSE IF i <= Len(s) THEN Digits \cup Separators ELSE Intermediates
  <2>1. CASE i = Len(s)
    BY <2>1, <1>1, <1>2
  <2>2. CASE i # Len(s)
    <3>1. i \in 1..Len(r) /\ s[i] = r[i] /\ i <= Len(s)
      BY <2>2, <1>1
    <3>2. r[i] \in IF i <= m THEN PrivateMarks ELSE Digits \cup Separators
      BY <3>1, <1>1 DEF Shape, Grammar
    <3>. QED  BY <3>1, <3>2
  <2>. QED  BY <2>1, <2>2
<1>4. Shape(s, m, Len(s))
  BY <1>1, <1>2, <1>3 DEF Shape, Grammar
<1>. QED  BY <1>1, <1>2, <1>4 DEF Marked

\* The first q parameters end among the first n bytes.
EndWithin(e, q, n) == \A k \in 1..q : e[k] - 1 \in 0..n

\* The values of ended parameters do not depend on later bytes.
LEMMA ValuesKept ==
    ASSUME NEW n, NEW g, NEW h, SameSums(h, g, n), NEW e, NEW q, EndWithin(e, q, n)
    PROVE  Values(h, e, q) = Values(g, e, q)
<1>1. ASSUME NEW k \in 1..q  PROVE  Saturate(h[e[k] - 1]) = Saturate(g[e[k] - 1])
  BY DEF SameSums, EndWithin
<1>. QED  BY <1>1 DEF Values

\* A saturated value and a digit: c is x, saturated.
SatAdds(x, d, c) ==
    /\ Saturate(Saturate(c * Base) + d) = Saturate(x * Base + d)
    /\ x >= MaxParam => x * Base + d >= MaxParam /\ Saturate(x * Base + d) = c
    /\ x * Base + d \in Nat

\* A parameter that saturates at each digit is its sum, saturated.
LEMMA SaturatedSum ==
    ASSUME NEW x \in Nat, NEW d \in Nat, NEW c, c = Saturate(x)
    PROVE  SatAdds(x, d, c)
<1>. USE DEF SatAdds
<1>1. MaxParam \in Nat /\ Base \in Nat /\ Base >= 1 /\ MaxParam >= 1
  BY ParserAssumption
<1>2. x * Base \in Nat /\ x * Base >= x /\ MaxParam * Base >= MaxParam /\ MaxParam * Base \in Nat
  BY <1>1
<1>. DEFINE y == x * Base
            z == MaxParam * Base
<1>3. y \in Nat /\ y >= x /\ z >= MaxParam /\ z \in Nat
  BY <1>2
<1>4. CASE x > MaxParam
  <2>1. c = MaxParam /\ c * Base = z
    BY <1>4 DEF Saturate
  <2>. HIDE DEF y, z
  <2>2. Saturate(Saturate(z) + d) = Saturate(y + d) /\ (y + d >= MaxParam /\ Saturate(y + d) = c)
    BY <2>1, <1>4, <1>3, <1>1 DEF Saturate
  <2>. QED  BY <2>1, <2>2, <1>3, <1>1 DEF y, z
<1>5. CASE ~(x > MaxParam)
  <2>1. c = x /\ c * Base = y
    BY <1>5 DEF Saturate
  <2>. HIDE DEF y, z
  <2>2. Saturate(Saturate(y) + d) = Saturate(y + d)
        /\ (x >= MaxParam => y + d >= MaxParam /\ Saturate(y + d) = c)
    BY <2>1, <1>5, <1>3, <1>1 DEF Saturate
  <2>. QED  BY <2>1, <2>2, <1>3, <1>1 DEF y, z
<1>. QED  BY <1>4, <1>5

\* What a digit and what the end of a parameter do to the fields.
Digited(q, d, w) ==
    /\ w.private = q.private /\ w.inter_count = q.inter_count /\ w.params = q.params
    /\ IF q.cur_param_overflow THEN w.cur_param = q.cur_param
       ELSE /\ w.cur_param = Saturate(Saturate(q.cur_param * Base) + d)
            /\ w.cur_param_overflow => w.cur_param = MaxParam

Pushed(q, w) ==
    /\ w.private = q.private /\ w.inter_count = q.inter_count
    /\ w.params = IF Len(q.params) < MaxCsiParams THEN Append(q.params, q.cur_param) ELSE q.params
    /\ w.cur_param = 0 /\ w.cur_param_overflow = FALSE

\* One more digit.
LEMMA DigitCounted ==
    ASSUME NEW r, NEW b, NEW s, More(r, b, s), b \in Digits,
           NEW q, NEW m, NEW g, NEW c, NEW pos, Counted(q, r, m, g, c, pos),
           NEW w, Digited(q, b[2], w)
    PROVE  \E h : Counted(w, s, m, h, c, pos)
<1>. DEFINE n == Len(r)
            v == g[n] * Base + b[2]
            h == Extended(g, n, v)
<1>1. Tally(r, m, n, g, c, pos)
  BY DEF Counted
<1>2. n \in Nat /\ Shape(r, m, n) /\ Sums(r, n, g) /\ Stops(r, n, c, pos)
  BY <1>1 DEF Tally
<1>3. g[n] \in Nat /\ b[2] \in Nat
  BY <1>2, DigitValue DEF Sums
<1>4. /\ Saturate(Saturate(q.cur_param * Base) + b[2]) = Saturate(v)
      /\ g[n] >= MaxParam => v >= MaxParam /\ Saturate(v) = q.cur_param
      /\ v \in Nat
  <2>. DEFINE x == g[n]
              d == b[2]
  <2>1. q.cur_param = Saturate(x) /\ x \in Nat /\ d \in Nat
    BY <1>3 DEF Counted
  <2>. HIDE DEF x, d
  <2>2. SatAdds(x, d, q.cur_param)
    BY <2>1, SaturatedSum, Zenon
  <2>. QED  BY <2>2 DEF SatAdds, x, d
<1>5. Sums(s, Len(s), h) /\ h[Len(s)] = v /\ SameSums(h, g, Len(r)) /\ n + 1 = Len(s)
  <2>1. NextSum(g, Len(r), b, v)
    BY <1>4 DEF NextSum
  <2>. HIDE DEF v
  <2>2. n + 1 = Len(s)
    BY MoreBytes
  <2>. QED  BY <2>1, <2>2, <1>2, ExtendedSums
<1>6. Shape(s, m, Len(s)) /\ Marked(s, m) = Marked(r, m)
  BY <1>2, ExtendedShape
<1>7. c \in Nat /\ pos \in [1..c -> 1..n]
  BY <1>2 DEF Stops
<1>8. Stops(s, n + 1, c, pos)
  <2>1. \A k \in 1..c : pos[k] \in 1..n /\ pos[k] \in 1..(n + 1) /\ pos[k] # n + 1
    BY <1>7, <1>2
  <2>2. pos \in [1..c -> 1..(n + 1)]
    BY <2>1, <1>7
  <2>3. s[n + 1] = b /\ b \notin Separators /\ \A j \in 1..n : s[j] = r[j]
    BY MoreBytes, ClassesApart
  <2>4. ASSUME NEW j \in 1..(n + 1)
        PROVE  s[j] \in Separators <=> \E k \in 1..c : pos[k] = j
    <3>1. CASE j = n + 1
      BY <3>1, <2>1, <2>3
    <3>2. CASE j # n + 1
      <4>1. j \in 1..n
        BY <3>2, <1>2
      <4>. QED  BY <4>1, <2>3, <1>2 DEF Stops
    <3>. QED  BY <3>1, <3>2
  <2>. QED  BY <2>2, <2>4, <1>2 DEF Stops
<1>9. Tally(s, m, Len(s), h, c, pos)
  <2>1. Len(s) \in Nat
    BY MoreBytes
  <2>. HIDE DEF h, n
  <2>. QED  BY <2>1, <1>5, <1>6, <1>8 DEF Tally
<1>10. w.params = Values(h, pos, Least(c, MaxCsiParams))
  <2>. DEFINE x == Least(c, MaxCsiParams)
  <2>1. 1..x \subseteq 1..c
    BY <1>7, ParserAssumption DEF Least
  <2>2. w.params = Values(g, pos, x)
    BY DEF Digited, Counted
  <2>3. EndWithin(pos, x, Len(r))
    <3>1. ASSUME NEW k \in 1..x  PROVE  pos[k] - 1 \in 0..n
      <4>1. pos[k] \in 1..n
        BY <2>1, <1>7
      <4>. QED  BY <4>1, <1>2
    <3>. QED  BY <3>1 DEF EndWithin
  <2>. HIDE DEF h, x
  <2>4. Values(h, pos, x) = Values(g, pos, x)
    BY <2>3, <1>5, ValuesKept
  <2>. QED  BY <2>4, <2>2 DEF x
<1>11. w.cur_param = Saturate(h[Len(s)]) /\ (w.cur_param_overflow => h[Len(s)] >= MaxParam)
  <2>1. h[Len(s)] = v
    BY <1>5
  <2>2. CASE q.cur_param_overflow
    <3>1. w.cur_param = q.cur_param /\ g[n] >= MaxParam
      BY <2>2 DEF Digited, Counted
    <3>. QED  BY <3>1, <2>1, <1>4
  <2>3. CASE ~q.cur_param_overflow
    <3>1. w.cur_param = Saturate(v) /\ (w.cur_param_overflow => w.cur_param = MaxParam)
      BY <2>3, <1>4 DEF Digited
    <3>2. Saturate(v) = MaxParam => v >= MaxParam
      <4>. HIDE DEF v
      <4>. QED  BY <1>4, ParserAssumption DEF Saturate
    <3>. QED  BY <3>1, <3>2, <2>1
  <2>. QED  BY <2>2, <2>3
<1>12. w.private = Marked(s, m) /\ w.inter_count = 0
  BY <1>6 DEF Digited, Counted
<1>. HIDE DEF h
<1>13. Counted(w, s, m, h, c, pos)
  BY <1>9, <1>10, <1>11, <1>12 DEF Counted
<1>. QED  BY <1>13

\* The parameters are complete once the last is pushed.
LEMMA PushComplete ==
    ASSUME NEW r, NEW q, NEW m, NEW g, NEW c, NEW pos, Counted(q, r, m, g, c, pos),
           NEW w, Pushed(q, w)
    PROVE  w.params = Values(g, Ends(Len(r), c, pos), Least(c + 1, MaxCsiParams))
<1>. DEFINE n == Len(r)
            e == Ends(n, c, pos)
            x == Least(c, MaxCsiParams)
<1>1. n \in Nat /\ Stops(r, n, c, pos)
  BY DEF Counted, Tally
<1>2. c \in Nat
  BY <1>1 DEF Stops
<1>3. (\A k \in 1..c : e[k] = pos[k]) /\ e[c + 1] = n + 1
  <2>. HIDE DEF n, e
  <2>1. e = Ends(n, c, pos)
    BY DEF e
  <2>2. EndsAre(e, n, c, pos)
    BY <2>1, <1>1, EndsListed, Zenon
  <2>. QED  BY <2>2 DEF EndsAre
<1>4. q.params = Values(g, pos, x) /\ q.cur_param = Saturate(g[n])
  BY DEF Counted
<1>5. x \in Nat /\ Len(q.params) = x
  <2>1. x \in Nat
    BY <1>2, ParserAssumption DEF Least
  <2>. HIDE DEF x
  <2>. QED  BY <2>1, <1>4 DEF Values
<1>6. w.params = IF Len(q.params) < MaxCsiParams THEN Append(q.params, q.cur_param) ELSE q.params
  BY DEF Pushed
<1>7. CASE c < MaxCsiParams
  <2>1. x = c /\ Least(c + 1, MaxCsiParams) = c + 1
    BY <1>7, <1>2, ParserAssumption DEF Least
  <2>2. w.params = Append(q.params, q.cur_param)
    BY <1>5, <1>6, <1>7, <2>1
  <2>. HIDE DEF e, n
  <2>3. q.params = [k \in 1..c |-> Saturate(g[pos[k] - 1])]
    BY <1>4, <2>1 DEF Values
  <2>. DEFINE W == [k \in 1..(c + 1) |-> Saturate(g[e[k] - 1])]
  <2>4. \A k \in 1..c : W[k] = Saturate(g[pos[k] - 1]) /\ k \in 1..(c + 1)
    BY <1>2, <1>3
  <2>5. W[c + 1] = q.cur_param
    <3>1. (n + 1) - 1 = n /\ c + 1 \in 1..(c + 1)
      BY <1>1, <1>2
    <3>. QED  BY <3>1, <1>3, <1>4
  <2>6. W = Append([k \in 1..c |-> Saturate(g[pos[k] - 1])], q.cur_param)
    <3>. HIDE DEF W
    <3>1. \A k \in 1..c : W[k] = Saturate(g[pos[k] - 1])
      BY <2>4
    <3>2. W = [k \in 1..(c + 1) |-> W[k]]
      BY DEF W
    <3>. QED  BY <3>1, <3>2, <2>5, <1>2
  <2>. QED  BY <2>1, <2>2, <2>3, <2>6 DEF Values, e, n
<1>8. CASE ~(c < MaxCsiParams)
  <2>1. x = MaxCsiParams /\ Least(c + 1, MaxCsiParams) = MaxCsiParams
    BY <1>8, <1>2, ParserAssumption DEF Least
  <2>2. w.params = q.params
    BY <1>5, <1>6, <2>1, ParserAssumption
  <2>3. \A k \in 1..MaxCsiParams : e[k] = pos[k]
    <3>1. \A k \in 1..MaxCsiParams : k \in 1..c
      BY <1>8, <1>2, ParserAssumption
    <3>. QED  BY <3>1, <1>3
  <2>. HIDE DEF e, x
  <2>4. Values(g, e, MaxCsiParams) = Values(g, pos, MaxCsiParams)
    BY <2>3 DEF Values
  <2>. QED  BY <2>1, <2>2, <2>4, <1>4 DEF e
<1>. QED  BY <1>7, <1>8

\* One more separator.
LEMMA SeparatorCounted ==
    ASSUME NEW r, NEW b, NEW s, More(r, b, s), b \in Separators,
           NEW q, NEW m, NEW g, NEW c, NEW pos, Counted(q, r, m, g, c, pos),
           NEW w, Pushed(q, w)
    PROVE  \E h, e : Counted(w, s, m, h, c + 1, e)
<1>. DEFINE n == Len(r)
            h == Extended(g, n, 0)
            e == Ends(n, c, pos)
<1>1. n \in Nat /\ Shape(r, m, n) /\ Sums(r, n, g) /\ Stops(r, n, c, pos)
  BY DEF Counted, Tally
<1>2. b \notin Digits
  BY ClassesApart
<1>5. Sums(s, Len(s), h) /\ h[Len(s)] = 0 /\ SameSums(h, g, Len(r)) /\ n + 1 = Len(s)
  <2>1. NextSum(g, Len(r), b, 0)
    BY <1>2 DEF NextSum
  <2>2. n + 1 = Len(s)
    BY MoreBytes
  <2>. QED  BY <2>1, <2>2, <1>1, ExtendedSums
<1>6. Shape(s, m, Len(s)) /\ Marked(s, m) = Marked(r, m)
  BY <1>1, ExtendedShape
<1>7. Lists(e, c + 1, n + 1, SeparatorsIn(r, n) \cup {n + 1})
  BY <1>1, EndsListed
<1>8. Stops(s, n + 1, c + 1, e)
  <2>1. s[n + 1] = b /\ \A j \in 1..n : s[j] = r[j]
    BY MoreBytes
  <2>. HIDE DEF e, n
  <2>2. {e[k] : k \in 1..(c + 1)} = SeparatorsIn(r, n) \cup {n + 1}
    BY <1>7 DEF Lists
  <2>3. ASSUME NEW j \in 1..(n + 1)
        PROVE  s[j] \in Separators <=> j \in SeparatorsIn(r, n) \cup {n + 1}
    <3>1. CASE j = n + 1
      BY <3>1, <2>1
    <3>2. CASE j # n + 1
      <4>1. j \in 1..n
        BY <3>2, <1>1
      <4>. QED  BY <3>2, <4>1, <2>1 DEF SeparatorsIn
    <3>. QED  BY <3>1, <3>2
  <2>4. ASSUME NEW j \in 1..(n + 1)
        PROVE  s[j] \in Separators <=> \E k \in 1..(c + 1) : e[k] = j
    <3>1. j \in SeparatorsIn(r, n) \cup {n + 1} <=> \E k \in 1..(c + 1) : e[k] = j
      BY <2>2
    <3>. QED  BY <3>1, <2>3
  <2>. QED  BY <2>4, <1>7 DEF Stops, Lists
<1>9. Tally(s, m, Len(s), h, c + 1, e)
  <2>1. Len(s) \in Nat
    BY MoreBytes
  <2>. HIDE DEF h, n, e
  <2>. QED  BY <2>1, <1>5, <1>6, <1>8 DEF Tally
<1>10. w.params = Values(h, e, Least(c + 1, MaxCsiParams))
  <2>. DEFINE x == Least(c + 1, MaxCsiParams)
  <2>1. c \in Nat
    BY <1>1 DEF Stops
  <2>2. 1..x \subseteq 1..(c + 1)
    BY <2>1, ParserAssumption DEF Least
  <2>3. w.params = Values(g, e, x)
    BY PushComplete
  <2>4. EndWithin(e, x, Len(r))
    <3>. HIDE DEF e, x
    <3>1. ASSUME NEW k \in 1..x  PROVE  e[k] - 1 \in 0..n
      <4>1. e[k] \in 1..(n + 1)
        BY <2>2, <1>7 DEF Lists
      <4>. QED  BY <4>1, <1>1
    <3>. QED  BY <3>1 DEF EndWithin
  <2>. HIDE DEF h, e, x
  <2>5. Values(h, e, x) = Values(g, e, x)
    BY <2>4, <1>5, ValuesKept
  <2>. QED  BY <2>3, <2>5 DEF x
<1>11. w.cur_param = Saturate(h[Len(s)]) /\ w.cur_param_overflow = FALSE
  <2>1. h[Len(s)] = 0 /\ Saturate(0) = 0
    BY <1>5, ParserAssumption DEF Saturate
  <2>. QED  BY <2>1 DEF Pushed
<1>12. w.private = Marked(s, m) /\ w.inter_count = 0
  BY <1>6 DEF Pushed, Counted
<1>. HIDE DEF h, e
<1>13. Counted(w, s, m, h, c + 1, e)
  BY <1>9, <1>10, <1>11, <1>12 DEF Counted
<1>. QED  BY <1>13

-----------------------------------------------------------------------------
\* What the fields of the parser say of the bytes since the introducer.
Entered(p, r) ==
    /\ Shape(r, Len(r), Len(r)) /\ p.seq.private = Marked(r, Len(r))
    /\ p.seq.params = <<>> /\ p.seq.cur_param = 0
    /\ p.seq.cur_param_overflow = FALSE /\ p.seq.inter_count = 0

Counting(p, r) == \E m, g, c, pos : m < Len(r) /\ Counted(p.seq, r, m, g, c, pos)

Collecting(p, r) ==
    \E m, n : /\ Shape(r, m, n) /\ n < Len(r) /\ Complete(r, m, n, p.seq.params)
             /\ p.seq.private = Marked(r, m) /\ p.seq.inter_count = Least(Len(r) - n, 2)

Means(p, r) ==
    /\ p.state = "CsiEntry" => Entered(p, r)
    /\ p.state = "CsiParam" => Counting(p, r)
    /\ p.state = "CsiIntermediate" => Collecting(p, r)

Prefixed(r) == \E m, n : Shape(r, m, n)

\* At the introducer no byte has been seen.
LEMMA MeansNothing ==
    ASSUME NEW p, p.state = "CsiEntry", p.seq = NoSequence
    PROVE  Means(p, <<>>)
<1>1. Len(<<>>) = 0
  OBVIOUS
<1>2. Shape(<<>>, 0, 0)
  BY <1>1 DEF Shape, Grammar
<1>3. Marked(<<>>, 0) = B("none")
  BY DEF Marked
<1>4. Entered(p, <<>>)
  BY <1>1, <1>2, <1>3 DEF Entered, NoSequence
<1>. QED  BY <1>4 DEF Means

\* After the marks alone there is no parameter yet.
LEMMA EnteredCounted ==
    ASSUME NEW p, NEW r \in Seq(Fed), Entered(p, r)
    PROVE  \E g, pos : Counted(p.seq, r, Len(r), g, 0, pos)
<1>. DEFINE n == Len(r)
            g == [j \in 0..n |-> 0]
            pos == <<>>
<1>1. n \in Nat /\ Shape(r, n, n)
  BY DEF Entered
<1>2. \A j \in 1..n : r[j] \in PrivateMarks
  BY <1>1, ParameterBytes
<1>3. \A j \in 1..n : r[j] \notin Digits /\ r[j] \notin Separators
  BY <1>2, ClassesApart
<1>4. Sums(r, n, g)
  <2>1. g \in [0..n -> Nat] /\ g[0] = 0 /\ \A j \in 1..n : g[j] = 0
    BY <1>1
  <2>. HIDE DEF g
  <2>. QED  BY <2>1, <1>3 DEF Sums
<1>5. Stops(r, n, 0, pos)
  <2>1. pos \in [1..0 -> 1..n]
    OBVIOUS
  <2>2. \A k \in 1..0 : FALSE
    OBVIOUS
  <2>. HIDE DEF pos
  <2>. QED  BY <2>1, <2>2, <1>3 DEF Stops
<1>6. Values(g, pos, Least(0, MaxCsiParams)) = <<>>
  <2>1. Least(0, MaxCsiParams) = 0
    BY ParserAssumption DEF Least
  <2>2. [k \in 1..0 |-> Saturate(g[pos[k] - 1])] = <<>>
    OBVIOUS
  <2>. QED  BY <2>1, <2>2 DEF Values
<1>7. Saturate(g[n]) = 0
  BY <1>1, ParserAssumption DEF Saturate
<1>8. /\ p.seq.private = Marked(r, n) /\ p.seq.inter_count = 0 /\ p.seq.params = <<>>
      /\ p.seq.cur_param = 0 /\ p.seq.cur_param_overflow = FALSE
  BY DEF Entered
<1>. HIDE DEF g, pos
<1>9. Tally(r, n, n, g, 0, pos)
  BY <1>1, <1>4, <1>5 DEF Tally
<1>10. Counted(p.seq, r, n, g, 0, pos)
  BY <1>6, <1>7, <1>8, <1>9 DEF Counted
<1>. QED  BY <1>10

\* An intermediate leaves the parameters as they are.
LEMMA IntermediateKept ==
    ASSUME NEW r, NEW b, NEW s, More(r, b, s), b \in Intermediates, NEW m, NEW n, Shape(r, m, n)
    PROVE  /\ Shape(s, m, n) /\ Marked(s, m) = Marked(r, m)
           /\ \A ps : Complete(r, m, n, ps) => Complete(s, m, n, ps)
<1>1. Len(s) = Len(r) + 1 /\ s[Len(s)] = b /\ Len(r) \in Nat /\ Len(s) \in Nat
      /\ \A i \in 1..Len(r) : s[i] = r[i]
  BY MoreBytes
<1>2. m \in Nat /\ n \in Nat /\ m <= n /\ n <= Len(r)
  BY <1>1, ParameterBytes
<1>3. ASSUME NEW i \in 1..Len(s)
      PROVE  s[i] \in IF i <= m THEN PrivateMarks
                      ELSE IF i <= n THEN Digits \cup Separators ELSE Intermediates
  <2>1. CASE i = Len(s)
    BY <2>1, <1>1, <1>2
  <2>2. CASE i # Len(s)
    <3>1. i \in 1..Len(r) /\ s[i] = r[i]
      BY <2>2, <1>1
    <3>. QED  BY <3>1 DEF Shape, Grammar
  <2>. QED  BY <2>1, <2>2
<1>4. Shape(s, m, n)
  BY <1>1, <1>2, <1>3 DEF Shape, Grammar
<1>5. Marked(s, m) = Marked(r, m)
  BY <1>1, <1>2 DEF Marked
<1>6. ASSUME NEW ps, Complete(r, m, n, ps)  PROVE  Complete(s, m, n, ps)
  <2>1. CASE m = n
    BY <2>1, <1>6 DEF Complete
  <2>2. CASE m # n
    <3>1. PICK g, c, pos : /\ Tally(r, m, n, g, c, pos)
                           /\ ps = Values(g, Ends(n, c, pos), Least(c + 1, MaxCsiParams))
      BY <2>2, <1>6, Zenon DEF Complete
    <3>2. \A j \in 1..n : s[j] = r[j]
      BY <1>1, <1>2
    <3>3. Sums(s, n, g)
      BY <3>1, <3>2 DEF Tally, Sums
    <3>4. Stops(s, n, c, pos)
      BY <3>1, <3>2 DEF Tally, Stops
    <3>5. Tally(s, m, n, g, c, pos)
      BY <3>3, <3>4, <1>1, <1>4 DEF Tally
    <3>. QED  BY <3>1, <3>5, <2>2 DEF Complete
  <2>. QED  BY <2>1, <2>2
<1>. QED  BY <1>4, <1>5, <1>6

\* What PushParam does to the fields.
LEMMA PushFields ==
    ASSUME NEW p, Quiet(p)
    PROVE  Pushed(p.seq, PushParam(p).seq) /\ PushParam(p).state = p.state
<1>. DEFINE ps == IF Len(p.seq.params) < MaxCsiParams
                    THEN Append(p.seq.params, p.seq.cur_param) ELSE p.seq.params
            f == [p.seq EXCEPT !.params = ps, !.cur_param = 0, !.cur_param_overflow = FALSE]
<1>1. p.seq \in Sequence /\ p \in ParserSet
  BY SequenceOf DEF Quiet, Typed
<1>2. PushParam(p) = [p EXCEPT !.seq = f]
  BY <1>1 DEF PushParam, ParserSet, Sequence
<1>. HIDE DEF ps
<1>3. /\ f.private = p.seq.private /\ f.inter_count = p.seq.inter_count /\ f.params = ps
      /\ f.cur_param = 0 /\ f.cur_param_overflow = FALSE
  BY <1>1, Zenon DEF Sequence
<1>. HIDE DEF f
<1>4. PushParam(p).seq = f /\ PushParam(p).state = p.state
  BY <1>1, <1>2, Zenon DEF ParserSet
<1>5. Pushed(p.seq, f)
  BY <1>3 DEF Pushed, ps
<1>. QED  BY <1>4, <1>5

\* What DigitParam does to the fields.
LEMMA DigitFields ==
    ASSUME NEW p, Quiet(p), NEW d \in 0..(Base - 1)
    PROVE  Digited(p.seq, d, DigitParam(p, d).seq) /\ DigitParam(p, d).state = p.state
<1>. DEFINE n == Saturate(Saturate(p.seq.cur_param * Base) + d)
            o == (n = MaxParam /\ p.seq.cur_param > MaxParam \div Base)
            f == [p.seq EXCEPT !.cur_param = n, !.cur_param_overflow = o]
<1>1. p.seq \in Sequence /\ p \in ParserSet
  BY SequenceOf DEF Quiet, Typed
<1>2. CASE p.seq.cur_param_overflow
  BY <1>2 DEF DigitParam, Digited
<1>3. CASE ~p.seq.cur_param_overflow
  <2>1. DigitParam(p, d) = [p EXCEPT !.seq = f]
    BY <1>3, <1>1 DEF DigitParam, ParserSet, Sequence
  <2>2. o => n = MaxParam
    OBVIOUS
  <2>. HIDE DEF n, o
  <2>3. /\ f.private = p.seq.private /\ f.inter_count = p.seq.inter_count
        /\ f.params = p.seq.params /\ f.cur_param = n /\ f.cur_param_overflow = o
    BY <1>1, Zenon DEF Sequence
  <2>. HIDE DEF f
  <2>4. DigitParam(p, d).seq = f /\ DigitParam(p, d).state = p.state
    BY <1>1, <2>1, Zenon DEF ParserSet
  <2>5. Digited(p.seq, d, f)
    BY <1>3, <2>2, <2>3 DEF Digited, n
  <2>. QED  BY <2>4, <2>5
<1>. QED  BY <1>2, <1>3

-----------------------------------------------------------------------------
\* The control sequences among what a byte made the parser emit.
Emitted(o) == {o[i][2] : i \in {j \in DOMAIN o : o[j][1] = "csi"}}

\* A dispatch is one control sequence and clears the fields.
LEMMA EmitsOne ==
    ASSUME NEW p, NEW b
    PROVE  /\ Emitted(EmitCsi(p, b).out)
                = {Report(p.seq.private, p.seq.params, p.seq.inter_count, b)}
           /\ EmitCsi(p, b).p = ResetSequence(p)
<1>. DEFINE c == Report(p.seq.private, p.seq.params, p.seq.inter_count, b)
<1>1. EmitCsi(p, b).out = <<<<"csi", c>>>> /\ EmitCsi(p, b).p = ResetSequence(p)
  BY DEF EmitCsi, Step, Report
<1>. HIDE DEF c
<1>2. Emitted(<<<<"csi", c>>>>) = {c}
  BY DEF Emitted
<1>. QED  BY <1>1, <1>2 DEF c

\* The final byte of a sequence: what is dispatched is what the bytes mean.
LEMMA FinalMeans ==
    ASSUME NEW p, Quiet(p), p.state \in CsiStates, NEW r, Means(p, r),
           NEW b, NEW s, Ended(r, b, s)
    PROVE  Emitted(Advance(p, b).out) = {RefCsi(s)}
<1>1. IsFinal(b) /\ r \in Seq(Fed) /\ Len(r) \in Nat
  BY DEF Ended, More
<1>2. b \notin Cancels /\ b \notin Digits /\ b \notin Separators /\ b \notin Intermediates
      /\ b \notin PrivateMarks
  BY <1>1, ClassesApart
<1>3. CASE p.state = "CsiEntry"
  <2>1. Advance(p, b) = EmitCsi(p, b)
    BY <1>1, <1>2, <1>3 DEF Advance, CsiEntry
  <2>2. Entered(p, r)
    BY <1>3 DEF Means
  <2>3. /\ p.seq.private = Marked(r, Len(r)) /\ p.seq.params = <<>> /\ p.seq.inter_count = 0
        /\ Shape(r, Len(r), Len(r))
    BY <2>2 DEF Entered
  <2>4. Complete(r, Len(r), Len(r), <<>>)
    BY DEF Complete
  <2>5. Least(Len(r) - Len(r), 2) = 0
    BY <1>1 DEF Least
  <2>6. RefCsi(s) = Report(Marked(r, Len(r)), <<>>, Least(Len(r) - Len(r), 2), b)
    <3>. DEFINE l == Len(r)
                ps == <<>>
    <3>1. Shape(r, l, l) /\ Complete(r, l, l, ps)
      BY <2>3, <2>4
    <3>. HIDE DEF l, ps
    <3>2. RefCsi(s) = Report(Marked(r, l), ps, Least(Len(r) - l, 2), b)
      BY <3>1, RefCsiIs, Zenon
    <3>. QED  BY <3>2 DEF l, ps
  <2>. QED  BY <2>1, <2>3, <2>5, <2>6, EmitsOne, Zenon
<1>4. CASE p.state = "CsiParam"
  <2>. DEFINE w == PushParam(p)
  <2>1. Advance(p, b) = EmitCsi(w, b)
    BY <1>1, <1>2, <1>4 DEF Advance, CsiParam
  <2>2. PICK m, g, c, pos : m < Len(r) /\ Counted(p.seq, r, m, g, c, pos)
    BY <1>4 DEF Means, Counting
  <2>3. Pushed(p.seq, w.seq)
    BY PushFields
  <2>. HIDE DEF w
  <2>4. w.seq.params = Values(g, Ends(Len(r), c, pos), Least(c + 1, MaxCsiParams))
    BY <2>2, <2>3, PushComplete
  <2>5. /\ Tally(r, m, Len(r), g, c, pos) /\ Shape(r, m, Len(r)) /\ m # Len(r)
    <3>1. Tally(r, m, Len(r), g, c, pos)
      BY <2>2 DEF Counted
    <3>2. Shape(r, m, Len(r))
      BY <3>1 DEF Tally
    <3>3. m \in Nat
      BY <3>2, <1>1 DEF Shape
    <3>. QED  BY <3>1, <3>2, <3>3, <2>2, <1>1
  <2>6. Complete(r, m, Len(r), w.seq.params)
    BY <2>4, <2>5 DEF Complete
  <2>7. w.seq.private = Marked(r, m) /\ w.seq.inter_count = 0
    BY <2>2, <2>3 DEF Counted, Pushed
  <2>8. Least(Len(r) - Len(r), 2) = 0
    BY <1>1 DEF Least
  <2>9. RefCsi(s) = Report(Marked(r, m), w.seq.params, Least(Len(r) - Len(r), 2), b)
    BY <2>5, <2>6, RefCsiIs, Zenon
  <2>. QED  BY <2>1, <2>7, <2>8, <2>9, EmitsOne, Zenon
<1>5. CASE p.state = "CsiIntermediate"
  <2>1. Advance(p, b) = EmitCsi(p, b)
    BY <1>1, <1>2, <1>5 DEF Advance, CsiIntermediate
  <2>2. PICK m, n : /\ Shape(r, m, n) /\ n < Len(r) /\ Complete(r, m, n, p.seq.params)
                    /\ p.seq.private = Marked(r, m) /\ p.seq.inter_count = Least(Len(r) - n, 2)
    BY <1>5 DEF Means, Collecting
  <2>3. RefCsi(s) = Report(Marked(r, m), p.seq.params, Least(Len(r) - n, 2), b)
    BY <2>2, RefCsiIs, Zenon
  <2>. QED  BY <2>1, <2>2, <2>3, EmitsOne, Zenon
<1>. QED  BY <1>3, <1>4, <1>5 DEF CsiStates

\* A mark or a parameter byte after the marks.
LEMMA EntryMeans ==
    ASSUME NEW p, Quiet(p), p.state = "CsiEntry", NEW r, Means(p, r),
           NEW b, NEW s, More(r, b, s), Prefixed(s)
    PROVE  Means(Advance(p, b).p, s)
<1>. DEFINE w == Advance(p, b).p
<1>1. Entered(p, r) /\ r \in Seq(Fed) /\ Len(r) \in Nat /\ b \in Fed
  BY DEF Means, More
<1>2. PICK m, n : Shape(s, m, n)
  BY DEF Prefixed
<1>3. b \in PrivateMarks \/ b \in Digits \cup Separators \/ b \in Intermediates
  BY <1>2, ShapeByOther
<1>4. p \in ParserSet /\ p.seq \in Sequence
  BY SequenceOf DEF Quiet, Typed
<1>5. CASE b \in PrivateMarks
  <2>1. Advance(p, b) = Stay([p EXCEPT !.seq.private = b])
    BY <1>5, ClassesApart DEF Advance, CsiEntry
  <2>. DEFINE f == [p.seq EXCEPT !.private = b]
  <2>2. w = [p EXCEPT !.seq = f]
    BY <2>1 DEF Stay, Step
  <2>3. /\ f.private = b /\ f.params = p.seq.params /\ f.cur_param = p.seq.cur_param
        /\ f.cur_param_overflow = p.seq.cur_param_overflow /\ f.inter_count = p.seq.inter_count
    BY <1>4, Zenon DEF Sequence
  <2>. HIDE DEF f
  <2>4. w.seq = f /\ w.state = "CsiEntry"
    BY <2>2, <1>4, Zenon DEF ParserSet
  <2>5. m = Len(s) /\ n = Len(s) /\ Marked(s, m) = b
    BY <1>2, <1>5, ShapeByMark
  <2>6. Entered(w, s)
    BY <2>3, <2>4, <2>5, <1>1, <1>2 DEF Entered
  <2>. QED  BY <2>4, <2>6 DEF Means
<1>6. CASE b \in Digits \cup Separators
  <2>. DEFINE q == [p EXCEPT !.state = "CsiParam"]
  <2>1. Quiet(q) /\ q.state = "CsiParam"
    BY GoesTo DEF States
  <2>2. q.seq = p.seq
    BY <1>4, Zenon DEF ParserSet
  <2>3. Advance(p, b) = CsiParam(q, b)
    BY <1>6, ClassesApart DEF Advance, CsiEntry
  <2>4. PICK g, pos : Counted(p.seq, r, Len(r), g, 0, pos)
    BY <1>1, EnteredCounted
  <2>5. Len(r) < Len(s)
    BY MoreBytes
  <2>. HIDE DEF q
  <2>6. CASE b \in Digits
    <3>1. CsiParam(q, b) = Stay(DigitParam(q, b[2]))
      BY <2>6, ClassesApart DEF CsiParam
    <3>2. w = DigitParam(q, b[2])
      BY <3>1, <2>3 DEF Stay, Step
    <3>3. b[2] \in 0..(Base - 1)
      BY <2>6 DEF Digits
    <3>4. Digited(p.seq, b[2], w.seq) /\ w.state = "CsiParam"
      BY <3>2, <3>3, <2>1, <2>2, DigitFields
    <3>. HIDE DEF w
    <3>5. \E h : Counted(w.seq, s, Len(r), h, 0, pos)
      BY <3>4, <2>4, <2>6, DigitCounted
    <3>. QED  BY <3>4, <3>5, <2>5 DEF Means, Counting, w
  <2>7. CASE b \in Separators
    <3>1. CsiParam(q, b) = Stay(PushParam(q))
      BY <2>7, ClassesApart DEF CsiParam
    <3>2. w = PushParam(q)
      BY <3>1, <2>3 DEF Stay, Step
    <3>4. Pushed(p.seq, w.seq) /\ w.state = "CsiParam"
      BY <3>2, <2>1, <2>2, PushFields
    <3>. HIDE DEF w
    <3>5. \E h, e : Counted(w.seq, s, Len(r), h, 0 + 1, e)
      BY <3>4, <2>4, <2>7, SeparatorCounted
    <3>. QED  BY <3>4, <3>5, <2>5 DEF Means, Counting, w
  <2>. QED  BY <1>6, <2>6, <2>7
<1>7. CASE b \in Intermediates
  <2>. DEFINE f == [p.seq EXCEPT !.inter_count = 1]
  <2>1. Advance(p, b) = BeginIntermediate(p)
    BY <1>7, ClassesApart DEF Advance, CsiEntry
  <2>2. w = [p EXCEPT !.seq = f, !.state = "CsiIntermediate"]
    BY <2>1, <1>4 DEF BeginIntermediate, Stay, Step, ParserSet, Sequence
  <2>3. f.params = p.seq.params /\ f.private = p.seq.private /\ f.inter_count = 1
    BY <1>4, Zenon DEF Sequence
  <2>. HIDE DEF f
  <2>4. w.seq = f /\ w.state = "CsiIntermediate"
    BY <2>2, <1>4, Zenon DEF ParserSet
  <2>. HIDE DEF w
  <2>5. p.seq.private = Marked(r, Len(r)) /\ p.seq.params = <<>> /\ Shape(r, Len(r), Len(r))
    BY <1>1 DEF Entered
  <2>6. Complete(r, Len(r), Len(r), <<>>)
    BY DEF Complete
  <2>7. /\ Shape(s, Len(r), Len(r)) /\ Marked(s, Len(r)) = Marked(r, Len(r))
        /\ Complete(s, Len(r), Len(r), <<>>)
    BY <2>5, <2>6, <1>7, IntermediateKept
  <2>8. Len(r) < Len(s) /\ Least(Len(s) - Len(r), 2) = 1
    BY MoreBytes DEF Least
  <2>9. Collecting(w, s)
    BY <2>3, <2>4, <2>5, <2>7, <2>8 DEF Collecting
  <2>. QED  BY <2>4, <2>9 DEF Means, w
<1>. QED  BY <1>3, <1>5, <1>6, <1>7

\* Among the parameters no mark can follow.
LEMMA ParamMeans ==
    ASSUME NEW p, Quiet(p), p.state = "CsiParam", NEW r, Means(p, r),
           NEW b, NEW s, More(r, b, s), Prefixed(s)
    PROVE  Means(Advance(p, b).p, s)
<1>. DEFINE w == Advance(p, b).p
<1>1. Counting(p, r) /\ r \in Seq(Fed) /\ Len(r) \in Nat /\ b \in Fed
  BY DEF Means, More
<1>2. PICK m, n : Shape(s, m, n)
  BY DEF Prefixed
<1>3. b \in PrivateMarks \/ b \in Digits \cup Separators \/ b \in Intermediates
  BY <1>2, ShapeByOther
<1>4. p \in ParserSet /\ p.seq \in Sequence
  BY SequenceOf DEF Quiet, Typed
<1>5. PICK x, g, c, pos : x < Len(r) /\ Counted(p.seq, r, x, g, c, pos)
  BY <1>1 DEF Counting
<1>6. Tally(r, x, Len(r), g, c, pos) /\ Shape(r, x, Len(r)) /\ x \in Nat
  BY <1>1, <1>5 DEF Counted, Tally, Shape
<1>7. Len(s) = Len(r) + 1 /\ x < Len(s)
  BY <1>1, <1>5, <1>6, MoreBytes
<1>8. b \notin PrivateMarks
  <2>1. SUFFICES ASSUME b \in PrivateMarks  PROVE  FALSE
    OBVIOUS
  <2>2. Shape(r, Len(r), Len(r))
    BY <2>1, <1>2, ShapeByMark
  <2>3. r[Len(r)] \in PrivateMarks
    <3>1. \A j \in 1..Len(r) : r[j] \in PrivateMarks
      BY <2>2, <1>1, ParameterBytes
    <3>. QED  BY <3>1, <1>1, <1>5, <1>6
  <2>4. r[Len(r)] \in Digits \cup Separators
    <3>1. \A j \in (x + 1)..Len(r) : r[j] \in Digits \cup Separators
      BY <1>1, <1>6, ParameterBytes
    <3>. QED  BY <3>1, <1>1, <1>5, <1>6
  <2>. QED  BY <2>3, <2>4, ClassesApart
<1>9. Advance(p, b) = CsiParam(p, b)
  BY DEF Advance
<1>10. CASE b \in Digits
  <2>1. CsiParam(p, b) = Stay(DigitParam(p, b[2]))
    BY <1>10, ClassesApart DEF CsiParam
  <2>2. w = DigitParam(p, b[2])
    BY <2>1, <1>9 DEF Stay, Step
  <2>3. b[2] \in 0..(Base - 1)
    BY <1>10 DEF Digits
  <2>4. Digited(p.seq, b[2], w.seq) /\ w.state = "CsiParam"
    BY <2>2, <2>3, DigitFields
  <2>. HIDE DEF w
  <2>5. \E h : Counted(w.seq, s, x, h, c, pos)
    BY <2>4, <1>5, <1>10, DigitCounted
  <2>. QED  BY <2>4, <2>5, <1>7 DEF Means, Counting, w
<1>11. CASE b \in Separators
  <2>1. CsiParam(p, b) = Stay(PushParam(p))
    BY <1>11, ClassesApart DEF CsiParam
  <2>2. w = PushParam(p)
    BY <2>1, <1>9 DEF Stay, Step
  <2>3. Pushed(p.seq, w.seq) /\ w.state = "CsiParam"
    BY <2>2, PushFields
  <2>. HIDE DEF w
  <2>4. \E h, e : Counted(w.seq, s, x, h, c + 1, e)
    BY <2>3, <1>5, <1>11, SeparatorCounted
  <2>. QED  BY <2>3, <2>4, <1>7 DEF Means, Counting, w
<1>12. CASE b \in Intermediates
  <2>. DEFINE q == PushParam(p)
              f == [q.seq EXCEPT !.inter_count = 1]
  <2>1. CsiParam(p, b) = BeginIntermediate(q)
    BY <1>12, ClassesApart DEF CsiParam
  <2>2. Quiet(q) /\ Pushed(p.seq, q.seq)
    BY PushTyped, PushFields
  <2>. HIDE DEF q
  <2>3. q \in ParserSet /\ q.seq \in Sequence
    BY <2>2, SequenceOf DEF Quiet, Typed
  <2>4. w = [q EXCEPT !.seq = f, !.state = "CsiIntermediate"]
    BY <2>1, <2>3, <1>9 DEF BeginIntermediate, Stay, Step, ParserSet, Sequence
  <2>5. f.params = q.seq.params /\ f.private = q.seq.private /\ f.inter_count = 1
    BY <2>3, Zenon DEF Sequence
  <2>. HIDE DEF f
  <2>6. w.seq = f /\ w.state = "CsiIntermediate"
    BY <2>3, <2>4, Zenon DEF ParserSet
  <2>. HIDE DEF w
  <2>7. q.seq.private = Marked(r, x)
    BY <2>2, <1>5 DEF Counted, Pushed
  <2>8. q.seq.params = Values(g, Ends(Len(r), c, pos), Least(c + 1, MaxCsiParams))
    BY <2>2, <1>5, PushComplete
  <2>9. Complete(r, x, Len(r), q.seq.params)
    <3>1. x # Len(r)
      BY <1>1, <1>5, <1>6
    <3>. QED  BY <3>1, <2>8, <1>6 DEF Complete
  <2>10. /\ Shape(s, x, Len(r)) /\ Marked(s, x) = Marked(r, x)
         /\ Complete(s, x, Len(r), q.seq.params)
    BY <2>9, <1>6, <1>12, IntermediateKept
  <2>11. Len(r) < Len(s) /\ Least(Len(s) - Len(r), 2) = 1
    BY MoreBytes DEF Least
  <2>12. Collecting(w, s)
    BY <2>5, <2>6, <2>7, <2>10, <2>11 DEF Collecting
  <2>. QED  BY <2>6, <2>12 DEF Means, w
<1>. QED  BY <1>3, <1>8, <1>10, <1>11, <1>12

\* Among the intermediates only another can follow.
LEMMA CollectMeans ==
    ASSUME NEW p, Quiet(p), p.state = "CsiIntermediate", NEW r, Means(p, r),
           NEW b, NEW s, More(r, b, s), Prefixed(s)
    PROVE  Means(Advance(p, b).p, s)
<1>. DEFINE w == Advance(p, b).p
            k == p.seq.inter_count
            i == IF k < 2 THEN k + 1 ELSE k
            f == [p.seq EXCEPT !.inter_count = i]
<1>1. Collecting(p, r) /\ r \in Seq(Fed) /\ Len(r) \in Nat /\ b \in Fed
  BY DEF Means, More
<1>2. PICK x, y : Shape(s, x, y)
  BY DEF Prefixed
<1>3. b \in PrivateMarks \/ b \in Digits \cup Separators \/ b \in Intermediates
  BY <1>2, ShapeByOther
<1>4. p \in ParserSet /\ p.seq \in Sequence
  BY SequenceOf DEF Quiet, Typed
<1>5. PICK m, n : /\ Shape(r, m, n) /\ n < Len(r) /\ Complete(r, m, n, p.seq.params)
                  /\ p.seq.private = Marked(r, m) /\ k = Least(Len(r) - n, 2)
  BY <1>1 DEF Collecting
<1>6. n \in Nat /\ r[Len(r)] \in Intermediates
  <2>1. n \in Nat /\ \A j \in (n + 1)..Len(r) : r[j] \in Intermediates
    BY <1>1, <1>5, ParameterBytes
  <2>. QED  BY <2>1, <1>1, <1>5
<1>7. b \in Intermediates
  <2>1. ASSUME b \in PrivateMarks  PROVE  FALSE
    <3>1. Shape(r, Len(r), Len(r))
      BY <2>1, <1>2, ShapeByMark
    <3>2. \A j \in 1..Len(r) : r[j] \in PrivateMarks
      BY <3>1, <1>1, ParameterBytes
    <3>3. r[Len(r)] \in PrivateMarks
      BY <3>2, <1>1, <1>5, <1>6
    <3>. QED  BY <3>3, <1>6, ClassesApart
  <2>2. ASSUME b \in Digits \cup Separators  PROVE  FALSE
    <3>1. Shape(r, x, Len(r))
      BY <2>2, <1>2, ShapeByParameter
    <3>2. /\ x \in Nat /\ \A j \in 1..x : r[j] \in PrivateMarks
          /\ \A j \in (x + 1)..Len(r) : r[j] \in Digits \cup Separators
      BY <3>1, <1>1, ParameterBytes
    <3>3. r[Len(r)] \in PrivateMarks \/ r[Len(r)] \in Digits \cup Separators
      BY <3>2, <1>1, <1>5, <1>6
    <3>. QED  BY <3>3, <1>6, ClassesApart
  <2>. QED  BY <1>3, <2>1, <2>2
<1>8. Advance(p, b) = CollectIntermediate(p)
  BY <1>7, ClassesApart DEF Advance, CsiIntermediate
<1>9. w = [p EXCEPT !.seq = f]
  BY <1>8 DEF CollectIntermediate, Stay, Step
<1>10. i = Least(Len(s) - n, 2) /\ n < Len(s)
  BY <1>1, <1>5, <1>6, MoreBytes DEF Least
<1>. HIDE DEF i
<1>11. f.params = p.seq.params /\ f.private = p.seq.private /\ f.inter_count = i
  BY <1>4, Zenon DEF Sequence
<1>. HIDE DEF f
<1>12. w.seq = f /\ w.state = "CsiIntermediate"
  BY <1>4, <1>9, Zenon DEF ParserSet
<1>. HIDE DEF w
<1>13. Shape(s, m, n) /\ Marked(s, m) = Marked(r, m) /\ Complete(s, m, n, p.seq.params)
  BY <1>5, <1>7, IntermediateKept
<1>14. Collecting(w, s)
  BY <1>5, <1>10, <1>11, <1>12, <1>13 DEF Collecting
<1>. QED  BY <1>12, <1>14 DEF Means, w

\* A sequence that follows the grammar followed it a byte before.
LEMMA PrefixedBefore ==
    ASSUME NEW r, NEW b, NEW s, More(r, b, s), Prefixed(s)
    PROVE  Prefixed(r)
<1>1. PICK m, n : Shape(s, m, n)
  BY DEF Prefixed
<1>2. b \in PrivateMarks \/ b \in Digits \cup Separators \/ b \in Intermediates
  BY <1>1, ShapeByOther
<1>. QED  BY <1>1, <1>2, ShapeByMark, ShapeByParameter, ShapeByIntermediate DEF Prefixed

\* A byte of a control sequence.
LEMMA CsiStepMeans ==
    ASSUME NEW p, Typed(p), p.state \in CsiStates, NEW r, Prefixed(r) => Means(p, r),
           NEW b, NEW s, More(r, b, s)
    PROVE  /\ Prefixed(s) => Means(Advance(p, b).p, s)
           /\ WellFormed(s) => \A c \in Emitted(Advance(p, b).out) : c = RefCsi(s)
<1>1. Quiet(p)
  <2>1. p.utf8_len \in 0..3
    BY Fields DEF Typed
  <2>. QED  BY <2>1 DEF Quiet, Typed, CsiStates
<1>2. ASSUME Prefixed(s)  PROVE  Means(Advance(p, b).p, s)
  <2>1. Means(p, r)
    BY <1>2, PrefixedBefore
  <2>. QED  BY <2>1, <1>1, <1>2, EntryMeans, ParamMeans, CollectMeans DEF CsiStates
<1>3. ASSUME WellFormed(s)  PROVE  Emitted(Advance(p, b).out) = {RefCsi(s)}
  <2>1. Ended(r, b, s) /\ Prefixed(r)
    BY <1>3, ShapeByFinal DEF Prefixed
  <2>. QED  BY <2>1, <1>1, FinalMeans
<1>. QED  BY <1>2, <1>3

-----------------------------------------------------------------------------
\* The states that only a control sequence in progress leads to.
Inside == {"CsiParam", "CsiIntermediate"}

\* Outside a control sequence a byte can only introduce one.
LEMMA GroundOutside ==
    ASSUME NEW p \in ParserSet, p.state \notin Inside, NEW b
    PROVE  GroundByte(p, b).p.state \notin Inside /\ Ground(p, b).p.state \notin Inside
<1>1. ASSUME NEW q \in ParserSet, q.state \notin Inside
      PROVE  GroundByte(q, b).p.state \notin Inside
  <2>1. ASSUME NEW x  PROVE  To(q, x).p.state = x
    <3>1. [q EXCEPT !.state = x].state = x
      BY <1>1, Zenon DEF ParserSet
    <3>. QED  BY <3>1 DEF To, Step
  <2>2. BeginOsc(q).p.state = "OscString"
    <3>1. [q EXCEPT !.osc = 0, !.osc_truncated = FALSE, !.state = "OscString"].state = "OscString"
      BY <1>1, Zenon DEF ParserSet
    <3>. QED  BY <3>1 DEF BeginOsc, Stay, Step
  <2>3. BeginString(q).p.state = "SosPmApc"
    <3>1. [q EXCEPT !.passthrough_len = 0, !.state = "SosPmApc"].state = "SosPmApc"
      BY <1>1, Zenon DEF ParserSet
    <3>. QED  BY <3>1 DEF BeginString, Stay, Step
  <2>4. ASSUME NEW x, NEW y  PROVE  [q EXCEPT !.utf8_len = x, !.utf8_expected = y].state = q.state
    BY <1>1, Zenon DEF ParserSet
  <2>5. Stay([q EXCEPT !.utf8_len = 1, !.utf8_expected = LeadLength[b[1]]]).p.state = q.state
    BY <2>4 DEF Stay, Step
  <2>6. \A o : Step(q, o).p.state = q.state
    BY DEF Step
  <2>7. Stay(q).p.state = q.state
    BY DEF Stay, Step
  <2>. QED
    BY <1>1, <2>1, <2>2, <2>3, <2>5, <2>6, <2>7 DEF GroundByte, Inside
<1>. DEFINE done == [p EXCEPT !.utf8_len = 0]
<1>2. done \in ParserSet /\ done.state = p.state
  <2>1. 0 \in 0..3
    OBVIOUS
  <2>. QED  BY <2>1, Zenon DEF ParserSet
<1>3. \A x : [p EXCEPT !.utf8_len = x].state = p.state
  BY Zenon DEF ParserSet
<1>. HIDE DEF done
<1>4. GroundByte(done, b).p.state \notin Inside /\ GroundByte(p, b).p.state \notin Inside
  BY <1>1, <1>2
<1>5. Utf8Byte(p, b).p.state \notin Inside
  BY <1>2, <1>3, <1>4 DEF Utf8Byte, Step, Stay, done
<1>. QED  BY <1>4, <1>5 DEF Ground

\* From no state outside a control sequence does a byte lead inside one.
LEMMA OnlyEnters ==
    ASSUME NEW p, Typed(p), p.state \notin CsiStates, NEW b
    PROVE  Advance(p, b).p.state \notin Inside
<1>1. p \in ParserSet /\ p.state \notin Inside /\ p.state \in States
  BY Fields DEF Typed, Inside, CsiStates
<1>2. ASSUME NEW x  PROVE  [p EXCEPT !.state = x].state = x /\ To(p, x).p.state = x
  <2>1. [p EXCEPT !.state = x].state = x
    BY <1>1, Zenon DEF ParserSet
  <2>. QED  BY <2>1 DEF To, Step
<1>3. Ground(p, b).p.state \notin Inside
  BY <1>1, GroundOutside
<1>4. Reprocess(p, b).p.state \notin Inside
  <2>. DEFINE q == [p EXCEPT !.state = "Ground"]
  <2>1. q \in ParserSet /\ q.state = "Ground"
    <3>1. "Ground" \in States
      BY DEF States
    <3>. QED  BY <3>1, <1>1, Zenon DEF ParserSet
  <2>2. q.state \notin Inside
    BY <2>1 DEF Inside
  <2>. HIDE DEF q
  <2>3. Ground(q, b).p.state \notin Inside
    BY <2>1, <2>2, GroundOutside
  <2>. QED  BY <2>3 DEF Reprocess, q
<1>5. /\ EndOsc(p).p.state = "Ground" /\ BeginOsc(p).p.state = "OscString"
      /\ BeginString(p).p.state = "SosPmApc"
  <2>1. /\ [p EXCEPT !.osc = 0, !.state = "Ground", !.osc_pending_esc = FALSE].state = "Ground"
        /\ [p EXCEPT !.osc = 0, !.osc_truncated = FALSE, !.state = "OscString"].state = "OscString"
        /\ [p EXCEPT !.passthrough_len = 0, !.state = "SosPmApc"].state = "SosPmApc"
    BY <1>1, Zenon DEF ParserSet
  <2>. QED  BY <2>1 DEF EndOsc, BeginOsc, BeginString, Stay, Step
<1>6. CollectIntermediate(p).p.state = p.state /\ CountByte(p).p.state = p.state
  <2>1. ASSUME NEW x  PROVE  [p EXCEPT !.seq = x].state = p.state
                             /\ [p EXCEPT !.passthrough_len = x].state = p.state
    BY <1>1, Zenon DEF ParserSet
  <2>2. CollectIntermediate(p).p = [p EXCEPT !.seq = [p.seq EXCEPT !.inter_count =
                            IF p.seq.inter_count < 2 THEN p.seq.inter_count + 1 ELSE p.seq.inter_count]]
    BY DEF CollectIntermediate, Stay, Step
  <2>3. CountByte(p).p = [p EXCEPT !.passthrough_len =
                IF p.passthrough_len > MaxDcsLen THEN p.passthrough_len ELSE p.passthrough_len + 1]
    BY DEF CountByte, Stay, Step
  <2>. QED  BY <2>1, <2>2, <2>3
<1>7. CASE p.state = "Escape"
  <2>1. [p EXCEPT !.osc_pending_esc = FALSE, !.state = "OscString"].state = "OscString"
        /\ [p EXCEPT !.passthrough_len = 0, !.state = "DcsEntry"].state = "DcsEntry"
    BY <1>1, Zenon DEF ParserSet
  <2>2. [p EXCEPT !.seq.inter_count = 1, !.state = "EscapeIntermediate"].state = "EscapeIntermediate"
    BY <1>1 DEF ParserSet
  <2>3. Escape(p, b).p.state \notin Inside
    <3>1. \A o : Step([p EXCEPT !.state = "Ground"], o).p.state = "Ground"
      BY <1>2 DEF Step
    <3>2. /\ Stay([p EXCEPT !.osc_pending_esc = FALSE, !.state = "OscString"]).p.state = "OscString"
          /\ Stay([p EXCEPT !.passthrough_len = 0, !.state = "DcsEntry"]).p.state = "DcsEntry"
          /\ Stay([p EXCEPT !.seq.inter_count = 1, !.state = "EscapeIntermediate"]).p.state
                = "EscapeIntermediate"
          /\ Stay(p).p.state = "Escape"
      BY <1>7, <2>1, <2>2 DEF Stay, Step
    <3>3. ASSUME NEW x, x \in {"Ground", "OscString", "DcsEntry", "EscapeIntermediate", "Escape",
                               "SosPmApc", "CsiEntry", "CharsetSelect", "LineAttributes"}
          PROVE  x \notin Inside
      BY <3>3 DEF Inside
    <3>. HIDE DEF Inside
    <3>4. CASE p.osc_pending_esc
      BY <3>4, <1>5, <3>2, <3>3 DEF Escape
    <3>5. CASE ~p.osc_pending_esc
      BY <3>5, <1>2, <1>5, <3>1, <3>2, <3>3 DEF Escape
    <3>. QED  BY <3>4, <3>5
  <2>. QED  BY <2>3, <1>7 DEF Advance
<1>8. CASE p.state \in {"EscapeIntermediate", "CharsetSelect", "LineAttributes"}
  <2>1. EscapeIntermediate(p, b).p.state \notin Inside
    BY <1>1, <1>2, <1>4, <1>6 DEF EscapeIntermediate, Inside
  <2>2. CharsetSelect(p, b).p.state \notin Inside /\ LineAttributes(p, b).p.state \notin Inside
    BY <1>2, <1>4 DEF CharsetSelect, LineAttributes, Step, Inside
  <2>. QED  BY <2>1, <2>2, <1>8 DEF Advance
<1>9. CASE p.state = "OscString"
  <2>1. ASSUME NEW x
        PROVE  /\ [p EXCEPT !.osc_pending_esc = TRUE, !.state = "Escape"].state = "Escape"
               /\ [p EXCEPT !.osc = 0, !.state = "Ground"].state = "Ground"
               /\ [p EXCEPT !.osc = x].state = p.state
               /\ [p EXCEPT !.osc_truncated = x].state = p.state
    BY <1>1, Zenon DEF ParserSet
  <2>2. /\ Stay([p EXCEPT !.osc_pending_esc = TRUE, !.state = "Escape"]).p.state = "Escape"
        /\ Stay([p EXCEPT !.osc = 0, !.state = "Ground"]).p.state = "Ground"
        /\ Stay([p EXCEPT !.osc = @ + 1]).p.state = p.state
        /\ Stay([p EXCEPT !.osc_truncated = TRUE]).p.state = p.state
        /\ Stay(p).p.state = p.state
    BY <2>1 DEF Stay, Step
  <2>3. OscString(p, b).p.state \notin Inside
    BY <1>1, <1>5, <2>2 DEF OscString, Inside
  <2>. QED  BY <2>3, <1>9 DEF Advance
<1>10. CASE p.state \in {"DcsEntry", "DcsPassthrough", "SosPmApc"}
  <2>1. DcsEntry(p, b).p.state \notin Inside /\ DcsPassthrough(p, b).p.state \notin Inside
    BY <1>1, <1>2, <1>6 DEF DcsEntry, DcsPassthrough, Inside
  <2>. QED  BY <2>1, <1>10 DEF Advance, SosPmApc
<1>11. CASE p.state = "Ground"
  BY <1>3, <1>11 DEF Advance
<1>. QED  BY <1>1, <1>7, <1>8, <1>9, <1>10, <1>11 DEF States, CsiStates

-----------------------------------------------------------------------------
\* While a control sequence is in progress its fields say what its bytes mean, as long
\* as the bytes follow the grammar.
Reading ==
    /\ Typed(parser) /\ seen \in Seq(Fed)
    /\ parser.state \in CsiStates /\ fresh /\ Prefixed(seen) => Means(parser, seen)
    /\ CsiMeansItsBytes

\* A sequence of no byte has no final byte.
LEMMA NotEmpty == ~WellFormed(<<>>)
  BY DEF WellFormed

\* Parser::new is in no sequence.
LEMMA ReadingInit == ParserInit => Reading
<1>. SUFFICES ASSUME ParserInit  PROVE  Reading
  OBVIOUS
<1>1. Typed(parser)
  BY RecoveryInit DEF Recovery
<1>2. parser.state = "Ground" /\ seen = <<>>
  BY DEF ParserInit, NewParser
<1>. QED  BY <1>1, <1>2, NotEmpty DEF Reading, CsiMeansItsBytes, CsiStates

\* A byte of a control sequence that is being read.
LEMMA ReadingOn ==
    ASSUME Reading, parser.state \in CsiStates, fresh, NEW b \in Fed,
           parser' = Advance(parser, b).p, out' = Advance(parser, b).out,
           seen' = Append(seen, b), fresh' = fresh
    PROVE  Reading'
<1>1. More(seen, b, seen')
  BY DEF More, Reading
<1>2. Typed(parser') /\ seen' \in Seq(Fed)
  BY AdvanceTyped DEF Reading
<1>3. /\ Prefixed(seen') => Means(parser', seen')
      /\ WellFormed(seen') => \A c \in Emitted(out') : c = RefCsi(seen')
  <2>1. Typed(parser) /\ (Prefixed(seen) => Means(parser, seen))
    BY DEF Reading
  <2>. QED  BY <2>1, <1>1, CsiStepMeans
<1>4. EmittedCsi' = Emitted(out')
  BY DEF EmittedCsi, Emitted
<1>5. CsiMeansItsBytes'
  BY <1>3, <1>4 DEF CsiMeansItsBytes
<1>. QED  BY <1>2, <1>3, <1>5 DEF Reading

\* Every byte, and the byte that ends a sequence at the bound, keeps the reading.
LEMMA ReadingNext == Reading /\ [ParserNext]_parserVars => Reading'
<1>. SUFFICES ASSUME Reading, [ParserNext]_parserVars  PROVE  Reading'
  OBVIOUS
<1>1. ASSUME NEW b \in Alphabet, Feed(b)  PROVE  Reading'
  <2>. DEFINE enter == parser'.state = "CsiEntry" /\ parser.state # "CsiEntry"
  <2>1. /\ parser' = Advance(parser, b).p /\ out' = Advance(parser, b).out
        /\ seen' = IF parser.state \in CsiStates /\ fresh /\ ~enter THEN Append(seen, b) ELSE <<>>
        /\ fresh' = IF enter THEN parser'.seq = NoSequence ELSE fresh
    BY <1>1 DEF Feed
  <2>2. Typed(parser')
    BY <2>1, AdvanceTyped DEF Reading
  <2>3. ASSUME seen' = <<>>  PROVE  CsiMeansItsBytes' /\ seen' \in Seq(Fed)
    BY <2>3, NotEmpty DEF CsiMeansItsBytes
  <2>4. CASE enter
    <3>1. seen' = <<>> /\ (fresh' => parser'.seq = NoSequence) /\ parser'.state = "CsiEntry"
      BY <2>1, <2>4
    <3>2. fresh' => Means(parser', seen')
      BY <3>1, MeansNothing
    <3>. QED  BY <2>2, <2>3, <3>1, <3>2 DEF Reading
  <2>5. CASE ~enter /\ parser.state \in CsiStates /\ fresh
    <3>1. seen' = Append(seen, b) /\ fresh' = fresh /\ b \in Fed
      BY <2>1, <2>5 DEF Fed
    <3>. QED  BY <2>1, <2>5, <3>1, ReadingOn
  <2>6. CASE ~enter /\ parser.state \notin CsiStates
    <3>1. seen' = <<>>
      BY <2>1, <2>6
    <3>2. parser'.state \notin CsiStates
      <4>1. parser'.state \notin Inside
        BY <2>1, <2>6, OnlyEnters DEF Reading
      <4>. QED  BY <4>1, <2>6 DEF CsiStates, Inside
    <3>. QED  BY <2>2, <2>3, <3>1, <3>2 DEF Reading
  <2>7. CASE ~enter /\ ~fresh
    <3>1. seen' = <<>> /\ ~fresh'
      BY <2>1, <2>7
    <3>. QED  BY <2>2, <2>3, <3>1 DEF Reading
  <2>. QED  BY <2>4, <2>5, <2>6, <2>7
<1>2. CASE Finish
  <2>. DEFINE b == B("final")
  <2>1. /\ parser' = Advance(parser, b).p /\ out' = Advance(parser, b).out
        /\ seen' = Append(seen, b) /\ fresh' = fresh /\ parser.state \in CsiStates
    BY <1>2 DEF Finish
  <2>2. b \in Fed
    BY DEF Fed
  <2>. HIDE DEF b
  <2>3. CASE fresh
    BY <2>1, <2>2, <2>3, ReadingOn
  <2>4. CASE ~fresh
    <3>1. Typed(parser') /\ seen' \in Seq(Fed)
      BY <2>1, <2>2, AdvanceTyped DEF Reading
    <3>. QED  BY <3>1, <2>1, <2>4 DEF Reading, CsiMeansItsBytes
  <2>. QED  BY <2>3, <2>4
<1>3. CASE UNCHANGED parserVars
  BY <1>3 DEF parserVars, Reading, CsiMeansItsBytes, EmittedCsi
<1>. QED  BY <1>1, <1>2, <1>3 DEF ParserNext

\* Whatever the limits and the stream: a control sequence whose introducer found the
\* fields reset and whose bytes follow the grammar is dispatched as its own bytes read,
\* its parameters saturated at MaxParam and cut at MaxCsiParams.
THEOREM SequencesMeanTheirBytes == ParserSpec => []CsiMeansItsBytes
<1>1. Reading => CsiMeansItsBytes
  BY DEF Reading
<1>. QED  BY <1>1, ReadingInit, ReadingNext, PTL DEF ParserSpec
=============================================================================

------------------------------- MODULE Broker -------------------------------
(***************************************************************************)
(* The runtime broker `ferrokeyd serve`: the single-threaded poll loop     *)
(* (serve.rs), the per-client session state machine (session.rs), and the  *)
(* one uinput keyboard with its held-key ledger (device.rs, ledger.rs).    *)
(*                                                                         *)
(* A connection is a member of Conns and connects at most once, so the     *)
(* per-slot fields (hello, open, held, out, closing) are functions of the  *)
(* connection and `sessions` is only the order of the slots in the Vec.    *)
(* Peers are hostile: what a read returns is any batch of messages, any    *)
(* malformed bytes, nothing, or end of file once the peer has gone, and    *)
(* the token bucket may refuse any message (module Wire says when). *)
(***************************************************************************)
EXTENDS Naturals, Sequences, FiniteSets, SequencesExt

CONSTANTS
    Conns,           \* connections that may ever be made
    Authorized,      \* those SO_PEERCRED and the session scope accept
    Keys,            \* the immutable capability set of the device
    ForeignKeys,     \* key codes outside it that a peer may still name
    MaxConnections,  \* ServeArgs.max_connections
    MaxHeldKeys,     \* ServeArgs.max_held_keys, 1..32 by config validation
    MaxPendingOut,   \* MAX_PENDING_OUT, counted in reply frames
    MaxBatch,        \* bound: whole messages decoded from one read
    WriteFaults      \* whether a write to the uinput fd may fail

ASSUME BrokerAssumption ==
    /\ Authorized \subseteq Conns
    /\ IsFiniteSet(Keys)
    /\ Keys \cap ForeignKeys = {}
    /\ MaxConnections \in Nat \ {0}
    /\ MaxHeldKeys \in Nat \ {0}
    /\ MaxPendingOut \in Nat \ {0}
    /\ MaxBatch \in Nat \ {0}
    /\ WriteFaults \in BOOLEAN

VARIABLES
    phase,     \* what the process is doing
    pc,        \* where the serve loop is
    stop,      \* signals::STOP
    backlog,   \* connections waiting in the listener's queue
    peer,      \* the other end of each connection
    sessions,  \* Runtime.sessions: the slots' connections, in Vec order
    hello,     \* ClientSession.hello_received
    open,      \* ClientSession.session_open
    held,      \* ClientSession.held
    out,       \* SessionSlot.out, a sequence of frames
    closing,   \* SessionSlot.close_after_flush
    reason,    \* the reason put beside the slot in to_close
    polled,    \* number of slots in the poll set of this pass
    pollout,   \* slots poll reported POLLOUT, POLLHUP or POLLERR for
    cursor,    \* slot the service or flush pass is at
    batch,     \* decoded messages of the current read still to process
    toClose,   \* slot indices to remove, first occurrences only
    ledger,    \* HeldLedger.held
    kernel,    \* keys the kernel believes are down (external)
    failed     \* history: keys with a failed down or up write

worldVars  == <<phase, stop, backlog, peer, sessions>>
pollVars   == <<polled, pollout>>
loopVars   == <<pc, pollVars, cursor, batch, toClose>>
sessVars   == <<hello, open, held>>
slotVars   == <<sessVars, out, closing, reason>>
deviceVars == <<ledger, kernel, failed>>
vars == <<worldVars, loopVars, slotVars, deviceVars>>

Phases == {"Serving", "ShuttingDown", "Flushing", "Exited", "Panicked"}
Places == {"poll", "accept", "service", "message", "flush", "remove"}
\* OK and PONG are "Reply"; an ERROR frame carries either the code INTERNAL or
\* "Refused", one of the codes that name a fault of the peer.
Frames == {"Reply", "Refused", "Internal"}
Reasons == {"none", "eof", "protocol", "overflow", "gate", "flushed", "write"}

LoopTypeOK ==
    /\ phase \in Phases
    /\ pc \in Places
    /\ polled \in Nat
    /\ pollout \subseteq Conns
    /\ cursor \in Nat \ {0}
    /\ batch \in 0..MaxBatch
    /\ toClose \in Seq(Nat \ {0})

ConnTypeOK ==
    /\ stop \in BOOLEAN
    /\ backlog \subseteq Conns
    /\ peer \in [Conns -> {"idle", "connected", "gone"}]
    /\ sessions \in Seq(Conns)

SlotTypeOK ==
    /\ hello \in [Conns -> BOOLEAN]
    /\ open \in [Conns -> BOOLEAN]
    /\ held \in [Conns -> SUBSET Keys]
    /\ out \in [Conns -> Seq(Frames)]
    /\ closing \in [Conns -> BOOLEAN]
    /\ reason \in [Conns -> Reasons]

DeviceTypeOK ==
    /\ ledger \subseteq Keys
    /\ kernel \subseteq Keys
    /\ failed \subseteq Keys

\* Every variable keeps its type; keys outside the capability set reach
\* neither a session's held set, nor the ledger, nor the kernel.
TypeOK == LoopTypeOK /\ ConnTypeOK /\ SlotTypeOK /\ DeviceTypeOK

Live == {sessions[i] : i \in 1..Len(sessions)}

Init ==
    /\ phase = "Serving"
    /\ pc = "poll"
    /\ stop = FALSE
    /\ backlog = {}
    /\ peer = [c \in Conns |-> "idle"]
    /\ sessions = <<>>
    /\ hello = [c \in Conns |-> FALSE]
    /\ open = [c \in Conns |-> FALSE]
    /\ held = [c \in Conns |-> {}]
    /\ out = [c \in Conns |-> <<>>]
    /\ closing = [c \in Conns |-> FALSE]
    /\ reason = [c \in Conns |-> "none"]
    /\ polled = 0
    /\ pollout = {}
    /\ cursor = 1
    /\ batch = 0
    /\ toClose = <<>>
    /\ ledger = {}
    /\ kernel = {}
    /\ failed = {}

-----------------------------------------------------------------------------
(* The environment: clients connect and vanish, a signal arrives.          *)

PeerConnects(c) ==
    /\ peer[c] = "idle"
    /\ phase = "Serving"
    /\ peer' = [peer EXCEPT ![c] = "connected"]
    /\ backlog' = backlog \cup {c}
    /\ UNCHANGED <<phase, stop, sessions, loopVars, slotVars, deviceVars>>

PeerCloses(c) ==
    /\ peer[c] = "connected"
    /\ peer' = [peer EXCEPT ![c] = "gone"]
    /\ UNCHANGED <<phase, stop, backlog, sessions, loopVars, slotVars, deviceVars>>

Signal ==
    /\ ~stop
    /\ stop' = TRUE
    /\ UNCHANGED <<phase, backlog, peer, sessions, loopVars, slotVars, deviceVars>>

-----------------------------------------------------------------------------
(* The head of serve_loop: stop check, poll, accept.                       *)

PollIgnoresStop ==
    /\ phase = "Serving" /\ pc = "poll"
    /\ pollout' = {c \in Live : out[c] # <<>> \/ peer[c] = "gone"}
    /\ pc' = IF backlog = {} THEN "service" ELSE "accept"
    /\ polled' = Len(sessions)
    /\ cursor' = 1
    /\ UNCHANGED <<worldVars, batch, toClose, slotVars, deviceVars>>

\* The poll set holds POLLOUT only for slots whose queue is non-empty when it
\* is built; a hung-up peer is reported whatever was asked for.
Poll ==
    /\ phase = "Serving" /\ pc = "poll" /\ ~stop
    /\ \E room \in SUBSET {c \in Live : out[c] # <<>>} :
          pollout' = room \cup {c \in Live : peer[c] = "gone"}
    /\ pc' = IF backlog = {} THEN "service" ELSE "accept"
    /\ polled' = Len(sessions)
    /\ cursor' = 1
    /\ UNCHANGED <<worldVars, batch, toClose, slotVars, deviceVars>>

\* STOP observed at the loop head.
StopServing ==
    /\ phase = "Serving" /\ pc = "poll" /\ stop
    /\ phase' = "ShuttingDown"
    /\ UNCHANGED <<stop, backlog, peer, sessions, loopVars, slotVars, deviceVars>>

\* poll(2) fails with anything but EINTR.
PollFails ==
    /\ phase = "Serving" /\ pc = "poll" /\ ~stop
    /\ phase' = "ShuttingDown"
    /\ UNCHANGED <<stop, backlog, peer, sessions, loopVars, slotVars, deviceVars>>

HasRoomOffByOne == Len(sessions) <= MaxConnections

HasRoom == Len(sessions) < MaxConnections

\* One accept4 of accept_pending: over the limit, or unauthorized, the stream
\* is dropped, which ends the connection; otherwise a fresh slot is pushed.
Accept(c) ==
    /\ phase = "Serving" /\ pc = "accept"
    /\ c \in backlog
    /\ backlog' = backlog \ {c}
    /\ \/ /\ HasRoom /\ c \in Authorized
          /\ sessions' = Append(sessions, c)
          /\ UNCHANGED peer
       \/ /\ ~HasRoom \/ c \notin Authorized
          /\ peer' = [peer EXCEPT ![c] = "gone"]
          /\ UNCHANGED sessions
    /\ UNCHANGED <<phase, stop, loopVars, slotVars, deviceVars>>

\* accept4 returns EAGAIN, or any other error: the queue need not be empty.
AcceptDone ==
    /\ phase = "Serving" /\ pc = "accept"
    /\ pc' = "service"
    /\ UNCHANGED <<worldVars, pollVars, cursor, batch, toClose, slotVars, deviceVars>>

-----------------------------------------------------------------------------
(* The service pass: service_client for every slot of the poll set.        *)

MarkTwice(c, i, why) ==
    /\ toClose' = Append(toClose, i)
    /\ reason' = [reason EXCEPT ![c] = why]

\* to_close.push((i, reason)), with the later de-duplication into `seen`.
Mark(c, i, why) ==
    /\ toClose' = IF i \in Range(toClose) THEN toClose ELSE Append(toClose, i)
    /\ reason' = [reason EXCEPT ![c] = IF i \in Range(toClose) THEN @ ELSE why]

Servicing(c) ==
    /\ phase = "Serving" /\ pc = "service"
    /\ cursor <= polled
    /\ c = sessions[cursor]

\* A slot waiting for its last flush is not read any more.
SkipClosing(c) ==
    /\ Servicing(c)
    /\ closing[c]
    /\ cursor' = cursor + 1
    /\ UNCHANGED <<worldVars, pc, pollVars, batch, toClose, slotVars, deviceVars>>

\* EAGAIN, or bytes that do not complete a message.  The socket of a peer that has gone
\* never answers EAGAIN: it is at its end.
ReadNothing(c) ==
    /\ Servicing(c)
    /\ ~closing[c]
    /\ peer[c] = "connected"
    /\ cursor' = cursor + 1
    /\ UNCHANGED <<worldVars, pc, pollVars, batch, toClose, slotVars, deviceVars>>

ReadEofAlive(c) ==
    /\ Servicing(c)
    /\ ~closing[c]
    /\ peer[c] = "gone"
    /\ cursor' = cursor + 1
    /\ UNCHANGED <<worldVars, pc, pollVars, batch, toClose, slotVars, deviceVars>>

\* read returns 0, or an error other than EAGAIN.
ReadEof(c) ==
    /\ Servicing(c)
    /\ ~closing[c]
    /\ peer[c] = "gone"
    /\ Mark(c, cursor, "eof")
    /\ cursor' = cursor + 1
    /\ UNCHANGED <<worldVars, pc, pollVars, batch, sessVars, out, closing, deviceVars>>

\* Decoder::push fails: every message decoded from this read is lost with it.
ReadMalformed(c) ==
    /\ Servicing(c)
    /\ ~closing[c]
    /\ Mark(c, cursor, "protocol")
    /\ cursor' = cursor + 1
    /\ UNCHANGED <<worldVars, pc, pollVars, batch, sessVars, out, closing, deviceVars>>

ReadBatch(c) ==
    /\ Servicing(c)
    /\ ~closing[c]
    /\ batch' \in 1..MaxBatch
    /\ pc' = "message"
    /\ UNCHANGED <<worldVars, pollVars, cursor, toClose, slotVars, deviceVars>>

ServiceDone ==
    /\ phase = "Serving" /\ pc = "service"
    /\ cursor > polled
    /\ pc' = "flush"
    /\ cursor' = 1
    /\ UNCHANGED <<worldVars, pollVars, batch, toClose, slotVars, deviceVars>>

-----------------------------------------------------------------------------
(* What service_client does with the Outcome of one message.               *)

NextMessage ==
    /\ batch' = batch - 1
    /\ pc' = IF batch = 1 THEN "service" ELSE "message"
    /\ cursor' = IF batch = 1 THEN cursor + 1 ELSE cursor

AbandonBatch ==
    /\ batch' = 0
    /\ pc' = "service"
    /\ cursor' = cursor + 1

Keep ==
    /\ NextMessage
    /\ UNCHANGED <<out, closing, reason, toClose>>

\* ServiceResult::Closed returned from the middle of a batch.
CloseNow(c, why) ==
    /\ Mark(c, cursor, why)
    /\ AbandonBatch
    /\ UNCHANGED <<out, closing>>

QueueFitsOffByOne(c) == Len(out[c]) <= MaxPendingOut

QueueFits(c) == Len(out[c]) < MaxPendingOut

Reply(c, frame) ==
    \/ /\ QueueFits(c)
       /\ out' = [out EXCEPT ![c] = Append(@, frame)]
       /\ NextMessage
       /\ UNCHANGED <<closing, reason, toClose>>
    \/ /\ ~QueueFits(c)
       /\ CloseNow(c, "overflow")

ReplyAndCloseKeepsBatch(c, frame) ==
    \/ /\ QueueFits(c)
       /\ out' = [out EXCEPT ![c] = Append(@, frame)]
       /\ closing' = [closing EXCEPT ![c] = TRUE]
       /\ NextMessage
       /\ UNCHANGED <<reason, toClose>>
    \/ /\ ~QueueFits(c)
       /\ CloseNow(c, "overflow")

\* The rest of the batch is dropped and the slot is no longer read.
ReplyAndClose(c, frame) ==
    \/ /\ QueueFits(c)
       /\ out' = [out EXCEPT ![c] = Append(@, frame)]
       /\ closing' = [closing EXCEPT ![c] = TRUE]
       /\ AbandonBatch
       /\ UNCHANGED <<reason, toClose>>
    \/ /\ ~QueueFits(c)
       /\ CloseNow(c, "overflow")

-----------------------------------------------------------------------------
(* The device: the ledger is changed first, then one EV_KEY is written.    *)
(* A failed write may or may not have reached the kernel.                  *)

\* A seeded fault: KeyBusy is not looked for, the session's own keys are enough.
LedgerAdmitsBusy(k) == Cardinality(ledger) < MaxHeldKeys

LedgerAdmits(k) == k \notin ledger /\ Cardinality(ledger) < MaxHeldKeys

\* Ledger errors travel as their Display text, in which map_sink finds none of
\* the variant names it looks for: they all arrive as DeviceError::Io.
LedgerErrorCode == "Internal"

WriteDown(k) ==
    /\ ledger' = ledger \cup {k}
    /\ kernel' = kernel \cup {k}
    /\ UNCHANGED failed

WriteDownFails(k) ==
    /\ WriteFaults
    /\ ledger' = ledger \cup {k}
    /\ kernel' \in {kernel, kernel \cup {k}}
    /\ failed' = failed \cup {k}

\* Seeded fault: the ledger is drained before it is asked for the keys.
ReleaseKeysDrained(S, bad) ==
    /\ bad = {}
    /\ ledger' = ledger \ S
    /\ UNCHANGED <<kernel, failed>>

\* release_keys: every key the ledger holds is attempted, those in `bad` fail.
ReleaseKeys(S, bad) ==
    /\ bad \subseteq S \cap ledger
    /\ WriteFaults \/ bad = {}
    /\ ledger' = ledger \ S
    /\ \E stuck \in SUBSET bad : kernel' = kernel \ ((S \cap ledger) \ stuck)
    /\ failed' = failed \cup bad

-----------------------------------------------------------------------------
(* process_message, one action per message.                                *)

Processing(c) ==
    /\ phase = "Serving" /\ pc = "message"
    /\ batch > 0
    /\ c = sessions[cursor]

\* The token bucket is empty: checked before the message is looked at.
RateLimited(c) ==
    /\ Processing(c)
    /\ ReplyAndClose(c, "Refused")
    /\ UNCHANGED <<worldVars, pollVars, sessVars, deviceVars>>

\* hello_received is set before the version is compared.
Hello(c, versionMatches) ==
    /\ Processing(c)
    /\ \/ hello[c] /\ ReplyAndClose(c, "Refused") /\ UNCHANGED hello
       \/ /\ ~hello[c]
          /\ hello' = [hello EXCEPT ![c] = TRUE]
          /\ IF versionMatches THEN Keep ELSE ReplyAndClose(c, "Refused")
    /\ UNCHANGED <<worldVars, pollVars, open, held, deviceVars>>

OpenSessionWithoutHello(c) ==
    /\ Processing(c)
    /\ ~open[c]
    /\ open' = [open EXCEPT ![c] = TRUE]
    /\ Reply(c, "Reply")
    /\ UNCHANGED <<worldVars, pollVars, hello, held, deviceVars>>

OpenSession(c) ==
    /\ Processing(c)
    /\ \/ ~hello[c] /\ ReplyAndClose(c, "Refused") /\ UNCHANGED open
       \/ hello[c] /\ open[c] /\ ReplyAndClose(c, "Refused") /\ UNCHANGED open
       \/ /\ hello[c] /\ ~open[c]
          /\ open' = [open EXCEPT ![c] = TRUE]
          /\ Reply(c, "Reply")
    /\ UNCHANGED <<worldVars, pollVars, hello, held, deviceVars>>

\* The checks of the KeyDown arm in order; "none" when the device is reached
\* and its ledger admits the key.
KeyDownError(c, k) ==
    IF k \notin Keys \/ k \in held[c] \/ Cardinality(held[c]) >= MaxHeldKeys THEN "Refused"
    ELSE IF ~LedgerAdmits(k) THEN LedgerErrorCode
    ELSE "none"

KeyDown(c, k) ==
    /\ Processing(c)
    /\ \/ ~open[c] /\ CloseNow(c, "gate") /\ UNCHANGED <<held, deviceVars>>
       \/ /\ open[c] /\ KeyDownError(c, k) # "none"
          /\ ReplyAndClose(c, KeyDownError(c, k))
          /\ UNCHANGED <<held, deviceVars>>
       \/ /\ open[c] /\ KeyDownError(c, k) = "none"
          /\ \/ /\ WriteDown(k)
                /\ held' = [held EXCEPT ![c] = @ \cup {k}]
                /\ Keep
             \/ /\ WriteDownFails(k)
                /\ ReplyAndClose(c, "Internal")
                /\ UNCHANGED held
    /\ UNCHANGED <<worldVars, pollVars, hello, open>>

KeyUpError(c, k) ==
    IF k \notin Keys \/ k \notin held[c] THEN "Refused"
    ELSE IF k \notin ledger THEN LedgerErrorCode
    ELSE "none"

\* A failed up leaves the key in the session's held set but out of the ledger.
KeyUp(c, k) ==
    /\ Processing(c)
    /\ \/ ~open[c] /\ CloseNow(c, "gate") /\ UNCHANGED <<held, deviceVars>>
       \/ /\ open[c] /\ KeyUpError(c, k) # "none"
          /\ ReplyAndClose(c, KeyUpError(c, k))
          /\ UNCHANGED <<held, deviceVars>>
       \/ /\ open[c] /\ KeyUpError(c, k) = "none"
          /\ \/ /\ ReleaseKeys({k}, {})
                /\ held' = [held EXCEPT ![c] = @ \ {k}]
                /\ Keep
             \/ /\ ReleaseKeys({k}, {k})
                /\ ReplyAndClose(c, "Internal")
                /\ UNCHANGED held
    /\ UNCHANGED <<worldVars, pollVars, hello, open>>

KeyRepeatError(c, k) == IF k \in Keys /\ k \in held[c] THEN "none" ELSE "Refused"

\* EV_KEY value 2 changes neither the ledger nor which keys are down.
KeyRepeat(c, k) ==
    /\ Processing(c)
    /\ \/ ~open[c] /\ CloseNow(c, "gate")
       \/ /\ open[c] /\ KeyRepeatError(c, k) # "none"
          /\ ReplyAndClose(c, KeyRepeatError(c, k))
       \/ /\ open[c] /\ KeyRepeatError(c, k) = "none"
          /\ Keep \/ (WriteFaults /\ ReplyAndClose(c, "Internal"))
    /\ UNCHANGED <<worldVars, pollVars, sessVars, deviceVars>>

\* Partial failures are reported, but the session stays open.
ReleaseAll(c) ==
    /\ Processing(c)
    /\ \/ ~open[c] /\ CloseNow(c, "gate") /\ UNCHANGED <<held, deviceVars>>
       \/ /\ open[c]
          /\ held' = [held EXCEPT ![c] = {}]
          /\ \E bad \in SUBSET held[c] :
                /\ ReleaseKeys(held[c], bad)
                /\ Reply(c, IF bad = {} /\ held[c] \subseteq ledger THEN "Reply" ELSE "Internal")
    /\ UNCHANGED <<worldVars, pollVars, hello, open>>

Ping(c) ==
    /\ Processing(c)
    /\ Reply(c, "Reply")
    /\ UNCHANGED <<worldVars, pollVars, sessVars, deviceVars>>

\* PONG, OK and ERROR are only ever sent by the broker.  The text of an ERROR is quoted
\* in the answer: one that has the full length makes it too long to encode, and the
\* session is closed without an answer.  No other reply can be too long.
ServerOnlyMessage(c) ==
    /\ Processing(c)
    /\ ReplyAndClose(c, "Refused") \/ CloseNow(c, "overflow")
    /\ UNCHANGED <<worldVars, pollVars, sessVars, deviceVars>>

-----------------------------------------------------------------------------
(* The flush pass, then the removal of the slots marked by both passes.    *)

Flushing(c) ==
    /\ phase = "Serving" /\ pc = "flush"
    /\ cursor <= polled
    /\ c = sessions[cursor]

WantsFlush(c) == closing[c] \/ (out[c] # <<>> /\ c \in pollout)

FlushSkip(c) ==
    /\ Flushing(c)
    /\ ~WantsFlush(c)
    /\ cursor' = cursor + 1
    /\ UNCHANGED <<worldVars, pc, pollVars, batch, toClose, slotVars, deviceVars>>

FlushAll(c) ==
    /\ Flushing(c)
    /\ WantsFlush(c)
    /\ peer[c] = "connected" \/ out[c] = <<>>
    /\ out' = [out EXCEPT ![c] = <<>>]
    /\ IF closing[c] THEN Mark(c, cursor, "flushed") ELSE UNCHANGED <<toClose, reason>>
    /\ cursor' = cursor + 1
    /\ UNCHANGED <<worldVars, pc, pollVars, batch, sessVars, closing, deviceVars>>

FlushPartCloses(c) ==
    /\ Flushing(c)
    /\ WantsFlush(c)
    /\ peer[c] = "connected"
    /\ IF closing[c] THEN Mark(c, cursor, "flushed") ELSE UNCHANGED <<toClose, reason>>
    /\ cursor' = cursor + 1
    /\ UNCHANGED <<worldVars, pc, pollVars, batch, sessVars, out, closing, deviceVars>>

\* The socket buffer takes n frames, then EAGAIN.
FlushPart(c) ==
    /\ Flushing(c)
    /\ WantsFlush(c)
    /\ peer[c] = "connected"
    /\ \E n \in 0..(Len(out[c]) - 1) :
          out' = [out EXCEPT ![c] = SubSeq(@, n + 1, Len(@))]
    /\ cursor' = cursor + 1
    /\ UNCHANGED <<worldVars, pc, pollVars, batch, toClose, sessVars, closing, reason, deviceVars>>

\* The peer is gone: EPIPE.
FlushFails(c) ==
    /\ Flushing(c)
    /\ WantsFlush(c)
    /\ peer[c] = "gone" /\ out[c] # <<>>
    /\ Mark(c, cursor, "write")
    /\ cursor' = cursor + 1
    /\ UNCHANGED <<worldVars, pc, pollVars, batch, sessVars, out, closing, deviceVars>>

FlushDone ==
    /\ phase = "Serving" /\ pc = "flush"
    /\ cursor > polled
    /\ pc' = "remove"
    /\ cursor' = 1
    /\ UNCHANGED <<worldVars, pollVars, batch, toClose, slotVars, deviceVars>>

\* seen.iter().rev(): indices are taken from the end, whatever their order, and
\* every removal shifts the slots behind it.
ToRemove == toClose[Len(toClose)]

DropSlot(c) ==
    /\ hello' = [hello EXCEPT ![c] = FALSE]
    /\ open' = [open EXCEPT ![c] = FALSE]
    /\ held' = [held EXCEPT ![c] = {}]
    /\ out' = [out EXCEPT ![c] = <<>>]
    /\ closing' = [closing EXCEPT ![c] = FALSE]
    /\ reason' = [reason EXCEPT ![c] = "none"]

\* sessions.remove(idx), drain_held, release_keys, and the slot is dropped with
\* its stream.
RemoveSlot(c) ==
    /\ phase = "Serving" /\ pc = "remove"
    /\ toClose # <<>>
    /\ ToRemove <= Len(sessions)
    /\ c = sessions[ToRemove]
    /\ toClose' = SubSeq(toClose, 1, Len(toClose) - 1)
    /\ sessions' = RemoveAt(sessions, ToRemove)
    /\ \E bad \in SUBSET held[c] : ReleaseKeys(held[c], bad)
    /\ DropSlot(c)
    /\ peer' = [peer EXCEPT ![c] = "gone"]
    /\ UNCHANGED <<phase, stop, backlog, pc, pollVars, cursor, batch>>

\* to_close is local to one pass.
RemoveDone ==
    /\ phase = "Serving" /\ pc = "remove"
    /\ toClose = <<>>
    /\ pc' = "poll"
    /\ polled' = 0
    /\ pollout' = {}
    /\ reason' = [c \in Conns |-> "none"]
    /\ UNCHANGED <<worldVars, cursor, batch, toClose, sessVars, out, closing, deviceVars>>

\* The process is gone: the device fd is closed, so the kernel unregisters the
\* keyboard and every key comes up; nothing the process held survives.
ProcessEnds ==
    /\ sessions' = <<>>
    /\ backlog' = {}
    /\ hello' = [c \in Conns |-> FALSE]
    /\ open' = [c \in Conns |-> FALSE]
    /\ held' = [c \in Conns |-> {}]
    /\ out' = [c \in Conns |-> <<>>]
    /\ closing' = [c \in Conns |-> FALSE]
    /\ reason' = [c \in Conns |-> "none"]
    /\ ledger' = {}
    /\ kernel' = {}
    /\ UNCHANGED <<stop, peer, loopVars, failed>>

\* Vec::remove with an index past the end.
RemovePanics ==
    /\ phase = "Serving" /\ pc = "remove"
    /\ toClose # <<>>
    /\ ToRemove > Len(sessions)
    /\ phase' = "Panicked"
    /\ ProcessEnds

-----------------------------------------------------------------------------
(* The end of run(): release every session's keys, wait, exit.             *)

HeldBySessionsFirstOnly == IF sessions = <<>> THEN {} ELSE held[sessions[1]]

HeldBySessions == UNION {held[c] : c \in Live}

Shutdown ==
    /\ phase = "ShuttingDown"
    /\ phase' = "Flushing"
    /\ held' = [c \in Conns |-> IF c \in Live THEN {} ELSE held[c]]
    /\ \E bad \in SUBSET HeldBySessions : ReleaseKeys(HeldBySessions, bad)
    /\ UNCHANGED <<stop, backlog, peer, sessions, loopVars, hello, open, out, closing, reason>>

Exit ==
    /\ phase = "Flushing"
    /\ phase' = "Exited"
    /\ ProcessEnds

Ended ==
    /\ phase \in {"Exited", "Panicked"}
    /\ UNCHANGED vars

-----------------------------------------------------------------------------

Environment == Signal \/ \E c \in Conns : PeerConnects(c) \/ PeerCloses(c)

Service(c) ==
    \/ SkipClosing(c)
    \/ ReadNothing(c)
    \/ ReadEof(c)
    \/ ReadMalformed(c)
    \/ ReadBatch(c)

ProcessMessage(c) ==
    \/ RateLimited(c)
    \/ \E versionMatches \in BOOLEAN : Hello(c, versionMatches)
    \/ OpenSession(c)
    \/ \E k \in Keys \cup ForeignKeys : KeyDown(c, k) \/ KeyUp(c, k) \/ KeyRepeat(c, k)
    \/ ReleaseAll(c)
    \/ Ping(c)
    \/ ServerOnlyMessage(c)

Flush(c) ==
    \/ FlushSkip(c)
    \/ FlushAll(c)
    \/ FlushPart(c)
    \/ FlushFails(c)

ServeLoop ==
    \/ Poll
    \/ StopServing
    \/ PollFails
    \/ AcceptDone
    \/ ServiceDone
    \/ FlushDone
    \/ RemoveDone
    \/ RemovePanics
    \/ \E c \in Conns :
          Accept(c) \/ Service(c) \/ ProcessMessage(c) \/ Flush(c) \/ RemoveSlot(c)

Broker == ServeLoop \/ Shutdown \/ Exit

Next == Environment \/ Broker \/ Ended

Spec == Init /\ [][Next]_vars

\* The loop never blocks longer than the 200 ms poll timeout, so the broker
\* keeps stepping. A peer that has gone left only finitely many bytes behind,
\* so a read of it eventually returns end of file; a peer that stays drains
\* its socket, so a flush eventually completes.
Fairness ==
    /\ WF_vars(Broker)
    /\ \A c \in Conns : SF_vars(ReadEof(c)) /\ SF_vars(FlushAll(c))

FairSpec == Spec /\ Fairness

-----------------------------------------------------------------------------
(* Properties.                                                             *)

\* Key ownership (session.rs: "every depressed key belongs to the session that
\* pressed it"): for every key whose writes have not failed, the ledger, the
\* kernel and the sessions agree, and at most one session owns the key. A
\* failed write damages only the key it was about.
Ownership ==
    \A k \in Keys \ failed :
        /\ k \in kernel <=> k \in ledger
        /\ k \in ledger <=> \E c \in Live : k \in held[c]
        /\ \A c, d \in Conns : k \in held[c] /\ k \in held[d] => c = d

\* Only an authorized peer that completed HELLO and OPEN_SESSION owns keys.
KeysOnlyAfterHandshake ==
    \A c \in Conns : held[c] # {} => c \in Authorized /\ hello[c] /\ open[c] /\ c \in Live

\* What the ownership proof needs of the loop: during a pass the poll set is a
\* prefix of the slots, and the slot being served is in it.
PassShape ==
    phase = "Serving" =>
        /\ pc \in {"accept", "service", "message", "flush"} => polled <= Len(sessions)
        /\ pc = "message" => cursor <= polled

HandshakeOrder == Live \subseteq Authorized /\ \A c \in Conns : open[c] => hello[c]

\* The configured limits hold together: slots, reply queues, and the ledger,
\* whatever mixture of sessions the pressed keys belong to.
Limits ==
    /\ Len(sessions) <= MaxConnections
    /\ \A c \in Conns : Len(out[c]) <= MaxPendingOut
    /\ Cardinality(ledger) <= MaxHeldKeys

\* When run() has released every session's keys, the device holds no key except
\* those a failed write left behind ("no stuck keys survive").
CleanShutdown == phase = "Flushing" => kernel \subseteq failed

\* An index past the end of the session Vec is never removed.
NeverPanics == phase # "Panicked"

Removed(c) == c \in Live /\ c \notin Live' /\ phase' = "Serving"

\* A slot is removed only if this pass decided to close it ("Remove closed
\* sessions, releasing exactly their keys").
OnlyMarkedRemoved == [][\A c \in Conns : Removed(c) => reason[c] # "none"]_vars

\* A session closed with an ERROR frame is removed only once the peer has been
\* given the whole queue, unless writing to the peer failed ("the peer must see
\* the frame before the FIN").
ErrorFrameBeforeClose ==
    [][\A c \in Conns : Removed(c) /\ closing[c] /\ reason[c] # "write" => out[c] = <<>>]_vars

\* From the moment its ERROR frame is queued a session is inert: nothing it has
\* sent or sends presses or releases a key until its slot goes.
ClosingIsInert ==
    [][\A c \in Conns : closing[c] /\ phase = "Serving" /\ c \in Live' =>
          held'[c] = held[c] /\ open'[c] = open[c] /\ hello'[c] = hello[c]]_vars

\* A session whose peer has gone, or that was sent its ERROR frame, is removed,
\* and its keys come up with it.
DoomedSessionEnds ==
    \A c \in Conns : c \in Live /\ (peer[c] = "gone" \/ closing[c]) ~> c \notin Live

Promise == INSTANCE KeyOwnership WITH owned <- held, down <- kernel

\* With no write faults the broker implements exclusive key ownership: a key
\* goes down only for one session and comes up only by that session's hand,
\* its removal, or the end of the broker.
ImplementsKeyOwnership == Promise!Spec

\* SIGTERM ends the process with every key up.
StopEnds == stop ~> (phase \in {"Exited", "Panicked"} /\ kernel = {})
=============================================================================

---------------------------- MODULE TermSession ----------------------------
(***************************************************************************)
(* The shell session of the terminal pane: the PTY, the child process and  *)
(* the bytes on their way to it (terminal.rs start_session .. send_input   *)
(* and paste, child.rs, pty.rs, PtySink of sink.rs).                       *)
(*                                                                         *)
(* The UI is one thread.  It runs poll, or tears a session down, one       *)
(* system call at a time, and the child, the kernel and the clock move     *)
(* between two calls: ui.at is the call it is about to make.  A process is *)
(* named by the number of its session.  What is written to the shell are   *)
(* tokens, numbered in the order in which they were accepted.              *)
(*                                                                         *)
(* Timing: a child that has not reached execv and a child that was killed  *)
(* need less time than any grace period, so no deadline passes before them *)
(* (WaitExpires).                                                          *)
(***************************************************************************)
EXTENDS Naturals, Sequences, FiniteSets

CONSTANTS
    MaxSessions,   \* bound: how often a shell is started
    MaxTokens,     \* bound: how much is typed, pasted and answered
    MaxPending,    \* MAX_PENDING of PtySink::send and of send_input
    MaxResponse,   \* MAX_RESPONSE of queue_response
    InputQueue,    \* what the kernel holds of the input of a PTY
    OutputQueue,   \* what the kernel holds of its output
    Chunk,         \* the size of the read buffer of poll
    ReadBudget,    \* read_budget of poll
    Word           \* usize is arithmetic modulo Word

ASSUME SessionAssumption ==
    /\ MaxSessions \in Nat \ {0}
    /\ MaxTokens \in Nat
    /\ MaxPending \in Nat \ {0}
    /\ MaxResponse \in Nat
    /\ InputQueue \in Nat \ {0}
    /\ OutputQueue \in Nat \ {0}
    /\ Chunk \in Nat \ {0}
    /\ ReadBudget \in Nat
    /\ Word \in Nat /\ ReadBudget < Word

VARIABLES
    ui,        \* the UI thread: [at, then, rest, budget]
    pty,       \* the session whose PTY is open, 0 if none
    child,     \* the session of the ChildHandle, 0 if none
    childExit, \* child_exited
    proc,      \* proc[s] is the state of the child of session s
    events,    \* events[s] counts ChildExited events
    source,    \* the shared buffer of PtySink
    writeBuf,  \* write_buf
    response,  \* response
    queue,     \* the kernel's input queue of the open PTY
    got,       \* got[s] is what the shell of session s has read
    output,    \* how much output of the open PTY is not read yet
    pasted,    \* pending_paste
    tokens     \* tokens accepted so far

bufVars == <<source, writeBuf, response, queue, got, tokens, pasted>>
procVars == <<pty, child, childExit, proc, events>>
vars == <<ui, procVars, bufVars, output>>

Sessions == 1..MaxSessions
Tokens == 1..MaxTokens

(* A process: forked (still in the parent's process group), leader (setsid *)
(* done), closed (its copy of the slave closed), open (the slave is its    *)
(* controlling terminal), shell (exec done), zombie, reaped.               *)
Starting == {"forked", "leader", "closed", "open"}
Alive == Starting \cup {"shell"}

Calls == {"idle", "flush", "source", "response", "write", "read", "reap",
          "hangup", "wait", "kill", "waitKilled", "start", "ended"}

TypeOK ==
    /\ ui \in [at : Calls, then : Calls, rest : Seq(Tokens), budget : 0..Word - 1]
    /\ pty \in 0..MaxSessions
    /\ child \in 0..MaxSessions
    /\ childExit \in BOOLEAN
    /\ proc \in [Sessions -> {"none", "zombie", "reaped"} \cup Alive]
    /\ events \in [Sessions -> Nat]
    /\ source \in Seq(Tokens) /\ Len(source) <= MaxPending
    /\ writeBuf \in Seq(Tokens)
    /\ response \in Seq(Tokens) /\ Len(response) <= MaxResponse
    /\ queue \in Seq(Tokens) /\ Len(queue) <= InputQueue
    /\ got \in [Sessions -> Seq(Tokens)]
    /\ output \in 0..OutputQueue
    /\ pasted \in BOOLEAN
    /\ tokens \in 0..MaxTokens

UiAt(call) == [at |-> call, then |-> "idle", rest |-> <<>>, budget |-> 0]

Init ==
    /\ ui = UiAt("start")
    /\ pty = 0 /\ child = 0 /\ childExit = FALSE
    /\ proc = [s \in Sessions |-> "none"]
    /\ events = [s \in Sessions |-> 0]
    /\ source = <<>> /\ writeBuf = <<>> /\ response = <<>> /\ queue = <<>>
    /\ got = [s \in Sessions |-> <<>>]
    /\ output = 0
    /\ pasted = FALSE
    /\ tokens = 0

-----------------------------------------------------------------------------
(* start_session                                                           *)

Used == {s \in Sessions : proc[s] # "none"}

\* PtyPair::open, make_nonblocking and ChildHandle::spawn; the parent keeps only
\* the master.
StartSession ==
    /\ ui.at = "start" /\ pty = 0
    /\ Used # Sessions
    /\ LET s == Cardinality(Used) + 1
       IN  /\ pty' = s /\ child' = s
           /\ proc' = [proc EXCEPT ![s] = "forked"]
    /\ childExit' = FALSE
    /\ queue' = <<>> /\ output' = 0
    /\ ui' = UiAt("idle")
    /\ UNCHANGED <<events, source, writeBuf, response, got, tokens, pasted>>

\* openpty, fcntl or fork fails: nothing is kept.
StartFails ==
    /\ ui.at = "start"
    /\ ui' = UiAt("idle")
    /\ UNCHANGED <<procVars, bufVars, output>>

-----------------------------------------------------------------------------
(* The child (child_exec) and the kernel.                                  *)

Becomes(s, state) == proc' = [proc EXCEPT ![s] = state]

ChildSetsid(s) ==
    /\ proc[s] = "forked"
    /\ Becomes(s, "leader")
    /\ UNCHANGED <<ui, pty, child, childExit, events, bufVars, output>>

ChildClosesSlave(s) ==
    /\ proc[s] = "leader"
    /\ Becomes(s, "closed")
    /\ UNCHANGED <<ui, pty, child, childExit, events, bufVars, output>>

\* The fresh open makes the slave the controlling terminal.
ChildOpensSlave(s) ==
    /\ proc[s] = "closed" /\ pty = s
    /\ Becomes(s, "open")
    /\ UNCHANGED <<ui, pty, child, childExit, events, bufVars, output>>

ChildExecs(s) ==
    /\ proc[s] = "open"
    /\ Becomes(s, "shell")
    /\ UNCHANGED <<ui, pty, child, childExit, events, bufVars, output>>

\* A setup call fails (exit code 127), or the shell exits or is killed.
ChildExits(s) ==
    /\ proc[s] \in Alive
    /\ Becomes(s, "zombie")
    /\ UNCHANGED <<ui, pty, child, childExit, events, bufVars, output>>

ShellReads(s) ==
    /\ proc[s] = "shell" /\ pty = s /\ queue # <<>>
    /\ \E n \in 1..Len(queue) :
          /\ got' = [got EXCEPT ![s] = @ \o SubSeq(queue, 1, n)]
          /\ queue' = SubSeq(queue, n + 1, Len(queue))
    /\ UNCHANGED <<ui, procVars, source, writeBuf, response, tokens, pasted, output>>

ShellPrints(s) ==
    /\ proc[s] = "shell" /\ pty = s /\ output < OutputQueue
    /\ output' = output + 1
    /\ UNCHANGED <<ui, procVars, bufVars>>

-----------------------------------------------------------------------------
(* What the application asks for between two polls.                        *)

\* PtySink::send: the buffer is bounded, with or without a session.
TypeKey ==
    /\ ui.at = "idle" /\ tokens < MaxTokens
    /\ Len(source) < MaxPending
    /\ source' = Append(source, tokens + 1)
    /\ tokens' = tokens + 1
    /\ UNCHANGED <<ui, procVars, writeBuf, response, queue, got, pasted, output>>

\* send_input: no session drops the text, a full buffer refuses it.
SendInput ==
    IF pty = 0 \/ Len(writeBuf) + 1 > MaxPending
    THEN UNCHANGED <<writeBuf, tokens>>
    ELSE writeBuf' = Append(writeBuf, tokens + 1) /\ tokens' = tokens + 1

\* paste, or a tap on the paste pill: text of one line is sent at once.
Paste ==
    /\ ui.at = "idle" /\ tokens < MaxTokens
    /\ SendInput
    /\ UNCHANGED <<ui, procVars, source, response, queue, got, pasted, output>>

\* paste with several lines waits for confirm_paste or cancel_paste.
PasteLines ==
    /\ ui.at = "idle" /\ ~pasted
    /\ pasted' = TRUE
    /\ UNCHANGED <<ui, procVars, source, writeBuf, response, queue, got, tokens, output>>

ConfirmPaste ==
    /\ ui.at = "idle" /\ pasted /\ tokens < MaxTokens
    /\ SendInput
    /\ pasted' = FALSE
    /\ UNCHANGED <<ui, procVars, source, response, queue, got, output>>

CancelPaste ==
    /\ ui.at = "idle" /\ pasted
    /\ pasted' = FALSE
    /\ UNCHANGED <<ui, procVars, source, writeBuf, response, queue, got, tokens, output>>

-----------------------------------------------------------------------------
(* poll                                                                    *)

\* Without a PTY, poll returns at once.
Poll ==
    /\ ui.at = "idle" /\ pty # 0
    /\ ui' = UiAt("flush")
    /\ UNCHANGED <<procVars, bufVars, output>>

\* write_all is handed a whole buffer, which is now empty.
HandOver(buf, then) ==
    ui' = IF buf = <<>> THEN UiAt(then)
          ELSE [UiAt("write") EXCEPT !.then = then, !.rest = buf]

FlushPending ==
    /\ ui.at = "flush"
    /\ HandOver(writeBuf, "source")
    /\ writeBuf' = <<>>
    /\ UNCHANGED <<procVars, source, response, queue, got, tokens, pasted, output>>

FlushSource ==
    /\ ui.at = "source"
    /\ HandOver(source, "response")
    /\ source' = <<>>
    /\ UNCHANGED <<procVars, writeBuf, response, queue, got, tokens, pasted, output>>

FlushResponse ==
    /\ ui.at = "response"
    /\ ui' = IF response = <<>> THEN [UiAt("read") EXCEPT !.budget = ReadBudget]
             ELSE [UiAt("write") EXCEPT !.then = "read", !.rest = response, !.budget = ReadBudget]
    /\ response' = <<>>
    /\ UNCHANGED <<procVars, source, writeBuf, queue, got, tokens, pasted, output>>

\* Someone holds the slave: the parent does only until the fork.
SlaveOpen == proc[pty] \in {"forked", "leader", "open", "shell"}

WriteReturns == [ui EXCEPT !.at = ui.then, !.then = "idle", !.rest = <<>>]

\* Seeded fault: a partial write is followed by the whole buffer.
WriteSomeAgain ==
    /\ ui.at = "write" /\ SlaveOpen
    /\ \E n \in 1..Len(ui.rest) :
          /\ Len(queue) + n <= InputQueue
          /\ queue' = queue \o SubSeq(ui.rest, 1, n)
          /\ ui' = IF n = Len(ui.rest) THEN WriteReturns ELSE ui
    /\ UNCHANGED <<procVars, source, writeBuf, response, got, tokens, pasted, output>>

\* The kernel takes as much as it has room for.
WriteSome ==
    /\ ui.at = "write" /\ SlaveOpen
    /\ \E n \in 1..Len(ui.rest) :
          /\ Len(queue) + n <= InputQueue
          /\ queue' = queue \o SubSeq(ui.rest, 1, n)
          /\ ui' = IF n = Len(ui.rest) THEN WriteReturns
                   ELSE [ui EXCEPT !.rest = SubSeq(@, n + 1, Len(@))]
    /\ UNCHANGED <<procVars, source, writeBuf, response, got, tokens, pasted, output>>

\* EAGAIN: the remainder goes to write_buf.
WriteBlocks ==
    /\ ui.at = "write" /\ SlaveOpen /\ Len(queue) = InputQueue
    /\ writeBuf' = writeBuf \o ui.rest
    /\ ui' = WriteReturns
    /\ UNCHANGED <<procVars, source, response, queue, got, tokens, pasted, output>>

\* Nothing taken, or an error that is not EAGAIN (EIO once nobody holds the slave,
\* EINTR at any time): the remainder is dropped.
WriteFails ==
    /\ ui.at = "write"
    /\ ui' = WriteReturns
    /\ UNCHANGED <<procVars, bufVars, output>>

\* queue_response, when what was read is a query.
Answer ==
    \/ UNCHANGED <<response, tokens>>
    \/ /\ tokens < MaxTokens /\ Len(response) < MaxResponse
       /\ response' = Append(response, tokens + 1)
       /\ tokens' = tokens + 1

\* One read, any part of what is there, fed to the parser; the release build
\* subtracts modulo the word.
ReadChunk ==
    /\ ui.at = "read" /\ ui.budget # 0
    /\ \E n \in 1..Chunk :
          /\ n <= output
          /\ output' = output - n
          /\ ui' = [ui EXCEPT !.budget = (@ + Word - n) % Word]
    /\ Answer
    /\ UNCHANGED <<procVars, source, writeBuf, queue, got, pasted>>

\* Seeded fault: poll returns when the master is hung up.
ReadEndsHungUp ==
    /\ ui.at = "read"
    /\ ui.budget = 0 \/ output = 0
    /\ ui' = UiAt(IF SlaveOpen THEN "reap" ELSE "idle")
    /\ UNCHANGED <<procVars, bufVars, output>>

\* The budget is used up, or the read ends with EAGAIN, EIO or end of file, or, with
\* output left, with any other error.
ReadEnds ==
    /\ ui.at = "read"
    /\ ui' = UiAt("reap")
    /\ UNCHANGED <<procVars, bufVars, output>>

\* poll_reap; the exit is reported once.
Reap ==
    /\ ui.at = "reap"
    /\ IF child # 0 /\ proc[child] \in {"zombie", "reaped"}
       THEN /\ Becomes(child, "reaped")
            /\ childExit' = TRUE
            /\ events' = IF childExit THEN events ELSE [events EXCEPT ![child] = @ + 1]
       ELSE UNCHANGED <<proc, childExit, events>>
    /\ ui' = UiAt("idle")
    /\ UNCHANGED <<pty, child, bufVars, output>>

-----------------------------------------------------------------------------
(* restart, shutdown and the drop of the handle.                           *)

TearDown(then) ==
    ui' = [UiAt(IF child = 0 THEN then ELSE "hangup") EXCEPT !.then = then]

\* Without a child there is nothing to wait for.
NoSession == pty' = 0 /\ child' = 0 /\ childExit' = FALSE /\ queue' = <<>> /\ output' = 0

\* restart, from the pill of the exit bar.
Restart ==
    /\ ui.at = "idle"
    /\ TearDown("start")
    /\ IF child = 0 THEN NoSession ELSE UNCHANGED <<pty, child, childExit, queue, output>>
    /\ UNCHANGED <<proc, events, source, writeBuf, response, got, tokens, pasted>>

\* shutdown when the window closes; an error return drops the handle instead,
\* which does the same with shorter deadlines unless the child was reaped.
Shutdown ==
    /\ ui.at = "idle"
    /\ TearDown("ended")
    /\ IF child = 0 THEN NoSession ELSE UNCHANGED <<pty, child, childExit, queue, output>>
    /\ UNCHANGED <<proc, events, source, writeBuf, response, got, tokens, pasted>>

\* hangup_group: a process that has not called setsid has no group yet, a child
\* on its way to execv has the default action, a shell may ignore it.
HangupGroup ==
    /\ ui.at = "hangup"
    /\ \/ proc[child] \in {"leader", "closed", "open", "shell"} /\ Becomes(child, "zombie")
       \/ proc[child] \in {"forked", "shell", "zombie", "reaped"} /\ UNCHANGED proc
    /\ ui' = [ui EXCEPT !.at = "wait"]
    /\ UNCHANGED <<pty, child, childExit, events, bufVars, output>>

\* wait_with_timeout reaps the child: the session is over.
WaitReaps ==
    /\ ui.at \in {"wait", "waitKilled"}
    /\ proc[child] \in {"zombie", "reaped"}
    /\ Becomes(child, "reaped")
    /\ NoSession
    /\ ui' = UiAt(ui.then)
    /\ UNCHANGED <<events, source, writeBuf, response, got, tokens, pasted>>

\* Seeded fault: the handle is given up at the first deadline.
WaitGivesUp ==
    /\ ui.at = "wait" /\ proc[child] = "shell"
    /\ NoSession
    /\ ui' = UiAt(ui.then)
    /\ UNCHANGED <<proc, events, source, writeBuf, response, got, tokens, pasted>>

WaitExpires ==
    /\ ui.at = "wait" /\ proc[child] = "shell"
    /\ ui' = [ui EXCEPT !.at = "kill"]
    /\ UNCHANGED <<procVars, bufVars, output>>

\* kill_group; by now the child leads a group.
KillGroup ==
    /\ ui.at = "kill"
    /\ IF proc[child] \in Alive THEN Becomes(child, "zombie") ELSE UNCHANGED proc
    /\ ui' = [ui EXCEPT !.at = "waitKilled"]
    /\ UNCHANGED <<pty, child, childExit, events, bufVars, output>>

-----------------------------------------------------------------------------

ChildStep(s) ==
    \/ ChildSetsid(s) \/ ChildClosesSlave(s) \/ ChildOpensSlave(s)
    \/ ChildExecs(s) \/ ChildExits(s) \/ ShellReads(s) \/ ShellPrints(s)

Request == TypeKey \/ Paste \/ PasteLines \/ ConfirmPaste \/ CancelPaste \/ Restart \/ Shutdown

\* What the thread does once it is in a call, and the poll of every pass.
UiStep ==
    \/ StartSession \/ StartFails
    \/ Poll \/ FlushPending \/ FlushSource \/ FlushResponse
    \/ WriteSome \/ WriteBlocks \/ WriteFails
    \/ ReadChunk \/ ReadEnds \/ Reap
    \/ HangupGroup \/ WaitReaps \/ WaitExpires \/ KillGroup

Next == UiStep \/ Request \/ \E s \in Sessions : ChildStep(s)

Spec == Init /\ [][Next]_vars

\* The thread is scheduled, and a child on its way to execv is too; what the
\* shell does, and when, is its own affair.
Setup(s) == ChildSetsid(s) \/ ChildClosesSlave(s) \/ ChildOpensSlave(s) \/ ChildExecs(s)

FairSpec == Spec /\ WF_vars(UiStep) /\ \A s \in Sessions : WF_vars(Setup(s))

-----------------------------------------------------------------------------
(* Properties.                                                             *)

\* Where accepted input can be: the three buffers, the buffer write_all was handed,
\* the kernel, and what each shell has read.
Places == <<source, writeBuf, response, ui.rest, queue>> \o got

\* No token stands in two places, nor twice in one.
Once(places) ==
    \A p, q \in DOMAIN places :
       \A m \in DOMAIN places[p], n \in DOMAIN places[q] :
          places[p][m] = places[q][n] => p = q /\ m = n

\* No input is sent twice: whatever was accepted is in at most one buffer, in the
\* kernel or was read by one shell, however writes are split, blocked and broken off
\* (write_all).  It may be in none: write_all drops what it has not written on an
\* error, and a session takes its kernel queue with it.
EachTokenOnce == Once(Places)

\* No stray process: a child that was not reaped belongs to the handle the terminal
\* holds, through restarts, ignored hangups and signals sent before setsid
\* (ChildHandle::shutdown: "Always leaves the child reaped").
NoStray == \A s \in Sessions : proc[s] \notin {"none", "reaped"} => s = child

\* A shell that exited is reaped: nothing stays a zombie (poll, shutdown).
ExitNoticed == \A s \in Sessions : proc[s] = "zombie" ~> proc[s] = "reaped"
=============================================================================

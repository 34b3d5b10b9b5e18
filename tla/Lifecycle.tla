------------------------------ MODULE Lifecycle ------------------------------
(* How a broker comes to serve and how it ends: the supervisor               *)
(* (ferrokeyd/src/bootstrap.rs), the bootstrap child that creates the device *)
(* (init.rs, ferrokey-uinput/src/device.rs), the runtime child that receives *)
(* it, binds the socket, gives up every privilege and freezes (serve.rs run, *)
(* fds.rs, socket_path.rs, session_scope.rs, security.rs, sandbox.rs,        *)
(* phase.rs), and the signals that stop them (signals.rs).  The serve loop   *)
(* itself is module Broker.                                                  *)
(*                                                                           *)
(* Successive starts share one socket path; as the service manager does, the *)
(* next one begins when the processes of the last are gone, and finds what   *)
(* they left at the path.  Every system call may fail, and the ones the code *)
(* reads back may report success without having had an effect.               *)
EXTENDS SeccompFilter, FiniteSets

CONSTANT MaxStarts    \* bound on the attempts at `ferrokeyd start`

Starts == 1..MaxStarts

VARIABLES
    sup,        \* the supervisor: where it is
    supCatches, \* its handlers are installed (signals::install)
    supStop,    \* its STOP flag
    ini,        \* the bootstrap child
    srv,        \* the runtime child
    srvCatches, srvStop,
    initEnd,    \* the processes that hold the init end of the handoff pair
    srvEnd,     \* the processes that hold the serve end
    device,     \* what keeps the registered virtual keyboard alive
    given,      \* the privileges the runtime child no longer has
    fds,        \* its descriptors, by what they are
    scope,      \* the session_scope of the configuration
    filter,     \* its seccomp program, << >> for none
    phase,      \* its PhaseGuard
    path,       \* what is at socket_path
    fault       \* something refused, lied, signalled or died during this start

supVars == <<sup, supCatches, supStop>>
srvVars == <<srv, srvCatches, srvStop, given, fds, filter, phase>>
vars == <<supVars, ini, srvVars, initEnd, srvEnd, device, scope, path, fault>>

Ended == {"ok", "failed", "killed"}
SupStates == {"off", "config", "identity", "pair", "init", "spawn", "install", "wait", "reap"}
             \cup Ended
InitStates == {"none", "close", "open", "configure", "create", "verify", "send", "exit"}
              \cup Ended
PreExec == {"bounding", "setgroups", "setgid", "setuid", "exec"}
Freeze == {"root", "caps", "caps?", "nnp", "nnp?", "core", "core?", "dumpable", "dumpable?",
           "fds?", "seccomp", "probe"}
SrvStates == {"none", "recv", "handlers", "close", "adopt", "stat", "unlink", "bind", "chmod",
              "gate", "phases", "serving", "release", "flush"}
             \cup PreExec \cup Freeze \cup Ended \cup {"noexec"}
SrvEnded == Ended \cup {"noexec"}      \* noexec: its pre-exec closure failed
Privileges == {"bounding", "groups", "gid", "uid", "caps", "nnp", "core", "dumpable"}
Phases == {"Initializing", "DeviceConfigured", "Sandboxed", "Serving", "ShuttingDown"}
Scopes == {"none", "bound"}     \* bound: an explicit scope, or auto
Paths == {"none", "file", "foreign", "socket"}  \* socket: of this user or of root
Fds == {"stdio", "handoff", "init_end", "inherited", "device", "listener", "proc"}

(* One type invariant. *)
TypeOK ==
    /\ sup \in [Starts -> SupStates]
    /\ ini \in [Starts -> InitStates]
    /\ srv \in [Starts -> SrvStates]
    /\ {supCatches, supStop, srvCatches, srvStop, fault} \subseteq [Starts -> BOOLEAN]
    /\ initEnd \in [Starts -> SUBSET {"sup", "init", "serve"}]
    /\ srvEnd \in [Starts -> SUBSET {"sup", "init", "serve"}]
    /\ device \in [Starts -> SUBSET {"init", "message", "serve"}]
    /\ given \in [Starts -> SUBSET Privileges]
    /\ fds \in [Starts -> SUBSET Fds]
    /\ scope \in [Starts -> Scopes]
    /\ \A s \in Starts : filter[s] \in Seq([op : {"ld", "jeq", "ret"}, k : Nat,
                                            field : STRING, jt : 0..255, jf : 0..255])
    /\ phase \in [Starts -> Phases]
    /\ path \in Paths

Init ==
    /\ sup = [s \in Starts |-> "off"]
    /\ ini = [s \in Starts |-> "none"]
    /\ srv = [s \in Starts |-> "none"]
    /\ supCatches = [s \in Starts |-> FALSE] /\ supStop = [s \in Starts |-> FALSE]
    /\ srvCatches = [s \in Starts |-> FALSE] /\ srvStop = [s \in Starts |-> FALSE]
    /\ fault = [s \in Starts |-> FALSE]
    /\ initEnd = [s \in Starts |-> {}]
    /\ srvEnd = [s \in Starts |-> {}]
    /\ device = [s \in Starts |-> {}]
    /\ given = [s \in Starts |-> {}]
    /\ fds = [s \in Starts |-> {}]
    /\ scope = [s \in Starts |-> "none"]
    /\ filter = [s \in Starts |-> << >>]
    /\ phase = [s \in Starts |-> "Initializing"]
    /\ path \in Paths

-----------------------------------------------------------------------------
(* Descriptors die with the process; a descriptor in flight dies with the    *)
(* last end that could receive it, and the device with its last descriptor.  *)
CloseSrvEnd(s, p, held) ==
    /\ srvEnd' = [srvEnd EXCEPT ![s] = @ \ {p}]
    /\ device' = [device EXCEPT ![s] =
                    held \ (IF srvEnd[s] \subseteq {p} THEN {"message"} ELSE {})]

CloseAll(s, p) ==
    /\ initEnd' = [initEnd EXCEPT ![s] = @ \ {p}]
    /\ CloseSrvEnd(s, p, device[s] \ {p})

(* The runtime child returns, panics or is killed: nothing of it remains but *)
(* the socket at its path.                                                   *)
SrvExits(s, how) ==
    /\ srv' = [srv EXCEPT ![s] = how]
    /\ srvCatches' = [srvCatches EXCEPT ![s] = FALSE]
    /\ srvStop' = [srvStop EXCEPT ![s] = FALSE]
    /\ given' = [given EXCEPT ![s] = {}]
    /\ fds' = [fds EXCEPT ![s] = {}]
    /\ filter' = [filter EXCEPT ![s] = << >>]
    /\ phase' = [phase EXCEPT ![s] = "Initializing"]
    /\ scope' = [scope EXCEPT ![s] = "none"]
    /\ CloseAll(s, "serve")

Faulty(s) == fault' = [fault EXCEPT ![s] = TRUE]

-----------------------------------------------------------------------------
(* The supervisor. *)

SupGoes(s, from, to) == sup[s] = from /\ sup' = [sup EXCEPT ![s] = to]

(* It returns an error: the process exits and its descriptors close. *)
SupGivesUp(s) ==
    /\ sup' = [sup EXCEPT ![s] = "failed"]
    /\ CloseAll(s, "sup") /\ Faulty(s)
    /\ UNCHANGED <<supCatches, supStop, ini, srvVars, scope, path>>

(* DaemonConfig::load: unreadable, malformed, or refused by validate or, for *)
(* root, by check_privileged_placement.                                      *)
ConfigRefused(s) == sup[s] = "config" /\ SupGivesUp(s)

(* No such user or group, or root's. *)
IdentityRefused(s) == sup[s] = "identity" /\ SupGivesUp(s)

(* No socketpair, a fork fails, or wait() cannot have the status of an init   *)
(* that has ended (ECHILD, where SIGCHLD is ignored).                        *)
SupFails(s) ==
    /\ sup[s] = "pair" \/ (sup[s] = "init" /\ ini[s] \in Ended)
    /\ SupGivesUp(s)

(* `ferrokeyd start` in an environment that may hand down a descriptor. *)
Start(s) ==
    /\ SupGoes(s, "off", "config")
    /\ s > 1 => /\ sup[s - 1] \in Ended
                /\ ini[s - 1] \in {"none"} \cup Ended
                /\ srv[s - 1] \in {"none"} \cup SrvEnded
    /\ \/ UNCHANGED <<fds, fault>>
       \/ fds' = [fds EXCEPT ![s] = {"inherited"}] /\ Faulty(s)
    /\ UNCHANGED <<supCatches, supStop, ini, srv, srvCatches, srvStop, given, filter, phase,
                   initEnd, srvEnd, device, scope, path>>

(* load_config: the explicit path or the first default one that exists. *)
LoadConfig(s) ==
    /\ SupGoes(s, "config", "identity")
    /\ \E c \in Scopes : scope' = [scope EXCEPT ![s] = c]
    /\ UNCHANGED <<supCatches, supStop, ini, srvVars, initEnd, srvEnd, device, path, fault>>

(* resolve_identity: a user and a group that exist and are not root's. *)
ResolveIdentity(s) ==
    /\ SupGoes(s, "identity", "pair")
    /\ UNCHANGED <<supCatches, supStop, ini, srvVars, initEnd, srvEnd, device, scope, path, fault>>

(* handoff_socketpair, neither end close-on-exec, and the spawn of init,     *)
(* which inherits both.                                                      *)
SpawnInit(s) ==
    /\ SupGoes(s, "pair", "init")
    /\ initEnd' = [initEnd EXCEPT ![s] = {"sup", "init"}]
    /\ srvEnd' = [srvEnd EXCEPT ![s] = {"sup", "init"}]
    /\ ini' = [ini EXCEPT ![s] = "close"]
    /\ UNCHANGED <<supCatches, supStop, srvVars, device, scope, path, fault>>

(* The parent's init end stays open across the fork. *)
InitSucceededKeepsEnd(s) ==
    /\ ini[s] = "ok"
    /\ SupGoes(s, "init", "spawn")
    /\ initEnd' = [initEnd EXCEPT ![s] = @ \cup {"serve"}]
    /\ srvEnd' = [srvEnd EXCEPT ![s] = @ \cup {"serve"}]
    /\ srv' = [srv EXCEPT ![s] = "bounding"]
    /\ fds' = [fds EXCEPT ![s] = @ \cup {"stdio", "handoff", "init_end"}]
    /\ UNCHANGED <<supCatches, supStop, ini, srvCatches, srvStop, given, filter, phase, device,
                   scope, path, fault>>

(* wait(): init must have succeeded; the init end is dropped and the runtime *)
(* is forked with whatever descriptors are not close-on-exec.                *)
InitSucceeded(s) ==
    /\ ini[s] = "ok"
    /\ SupGoes(s, "init", "spawn")
    /\ initEnd' = [initEnd EXCEPT ![s] = @ \ {"sup"}]
    /\ srvEnd' = [srvEnd EXCEPT ![s] = @ \cup {"serve"}]
    /\ srv' = [srv EXCEPT ![s] = "bounding"]
    /\ fds' = [fds EXCEPT ![s] = @ \cup {"stdio", "handoff"}]
    /\ UNCHANGED <<supCatches, supStop, ini, srvCatches, srvStop, given, filter, phase, device,
                   scope, path, fault>>

(* StartError::InitFailed. *)
InitFailed(s) ==
    /\ ini[s] \in {"failed", "killed"}
    /\ SupGoes(s, "init", "failed")
    /\ CloseAll(s, "sup")
    /\ UNCHANGED <<supCatches, supStop, ini, srvVars, scope, path, fault>>

(* spawn() returns once the child has exec'd; the serve end is dropped. *)
SpawnReturns(s) ==
    /\ srv[s] \notin PreExec \cup {"noexec"}
    /\ SupGoes(s, "spawn", "install")
    /\ CloseSrvEnd(s, "sup", device[s])
    /\ UNCHANGED <<supCatches, supStop, ini, srvVars, initEnd, scope, path, fault>>

(* The pre-exec closure failed: spawn() returns its error (SpawnServe). *)
SpawnFails(s) ==
    /\ srv[s] = "noexec" /\ SupGoes(s, "spawn", "failed")
    /\ CloseAll(s, "sup")
    /\ UNCHANGED <<supCatches, supStop, ini, srvVars, scope, path, fault>>

(* wait_with_signal_forwarding installs the handlers, best effort. *)
SupInstalls(s) ==
    /\ SupGoes(s, "install", "wait")
    /\ \/ supCatches' = [supCatches EXCEPT ![s] = TRUE] /\ UNCHANGED fault
       \/ UNCHANGED supCatches /\ Faulty(s)
    /\ UNCHANGED <<supStop, ini, srvVars, initEnd, srvEnd, device, scope, path>>

(* SIGTERM at a process: its handler sets STOP, or the process dies. *)
Terminate(s) ==
    IF srvCatches[s]
    THEN /\ srvStop' = [srvStop EXCEPT ![s] = TRUE]
         /\ UNCHANGED <<srv, srvCatches, given, fds, filter, phase, initEnd, srvEnd, device, scope>>
    ELSE SrvExits(s, "killed")

(* The supervisor leaves the wait for the child out. *)
ForwardAndExit(s) ==
    /\ supStop[s]
    /\ SupGoes(s, "wait", "ok")
    /\ \/ srv[s] \notin SrvEnded /\ Terminate(s)
       \/ srv[s] \in SrvEnded /\ UNCHANGED <<srvVars, initEnd, srvEnd, device, scope>>
    /\ UNCHANGED <<supCatches, supStop, ini, path, fault>>

(* The signal is noted and never passed on. *)
ForwardNothing(s) ==
    /\ supStop[s]
    /\ SupGoes(s, "wait", "reap")
    /\ UNCHANGED <<supCatches, supStop, ini, srvVars, initEnd, srvEnd, device, scope, path, fault>>

(* STOP seen: forward SIGTERM and wait for the child. *)
Forward(s) ==
    /\ supStop[s]
    /\ SupGoes(s, "wait", "reap")
    /\ \/ srv[s] \notin SrvEnded /\ Terminate(s)
       \/ srv[s] \in SrvEnded /\ UNCHANGED <<srvVars, initEnd, srvEnd, device, scope>>
    /\ UNCHANGED <<supCatches, supStop, ini, path, fault>>

(* try_wait or wait: the child's status becomes the supervisor's, or, where  *)
(* it cannot be had (ECHILD), an error.                                      *)
SupReaps(s) ==
    /\ srv[s] \in SrvEnded
    /\ \/ sup[s] = "reap"
       \/ sup[s] = "wait" /\ ~ supStop[s]
    /\ \/ sup' = [sup EXCEPT ![s] = IF srv[s] = "ok" THEN "ok" ELSE "failed"] /\ UNCHANGED fault
       \/ sup' = [sup EXCEPT ![s] = "failed"] /\ Faulty(s)
    /\ supCatches' = [supCatches EXCEPT ![s] = FALSE]
    /\ supStop' = [supStop EXCEPT ![s] = FALSE]
    /\ UNCHANGED <<ini, srvVars, initEnd, srvEnd, device, scope, path>>

(* SIGTERM from outside at the supervisor. *)
SignalSupervisor(s) ==
    /\ sup[s] \notin {"off"} \cup Ended
    /\ ~ supStop[s]
    /\ IF supCatches[s]
       THEN /\ supStop' = [supStop EXCEPT ![s] = TRUE]
            /\ UNCHANGED <<sup, initEnd, srvEnd, device>>
       ELSE /\ sup' = [sup EXCEPT ![s] = "killed"]
            /\ CloseAll(s, "sup") /\ UNCHANGED supStop
    /\ Faulty(s)
    /\ UNCHANGED <<supCatches, ini, srvVars, scope, path>>

SupStep(s) ==
    \/ LoadConfig(s) \/ ResolveIdentity(s) \/ SpawnInit(s) \/ InitSucceeded(s) \/ InitFailed(s)
    \/ SpawnReturns(s) \/ SpawnFails(s) \/ SupInstalls(s) \/ Forward(s) \/ SupReaps(s)
    \/ ConfigRefused(s) \/ IdentityRefused(s) \/ SupFails(s)

-----------------------------------------------------------------------------
(* The bootstrap child. *)

InitGoes(s, from, to) == ini[s] = from /\ ini' = [ini EXCEPT ![s] = to]

(* close_in_child, before exec. *)
InitClosesEnd(s) ==
    /\ InitGoes(s, "close", "open")
    /\ CloseSrvEnd(s, "init", device[s])
    /\ UNCHANGED <<supVars, srvVars, initEnd, scope, path, fault>>

(* UinputDevice::create: open, the event and key bits and the setup, then    *)
(* UI_DEV_CREATE, which registers the keyboard.                              *)
InitConfigures(s) ==
    /\ \/ InitGoes(s, "open", "configure")
       \/ InitGoes(s, "configure", "create")
    /\ UNCHANGED <<supVars, srvVars, initEnd, srvEnd, device, scope, path, fault>>

DevCreate(s) ==
    /\ InitGoes(s, "create", "verify")
    /\ device' = [device EXCEPT ![s] = {"init"}]
    /\ UNCHANGED <<supVars, srvVars, initEnd, srvEnd, scope, path, fault>>

(* verify: identity and capability bitmap as sysfs shows them. *)
InitVerifies(s) ==
    /\ InitGoes(s, "verify", "send")
    /\ UNCHANGED <<supVars, srvVars, initEnd, srvEnd, device, scope, path, fault>>

(* send_fd: one SCM_RIGHTS message; EPIPE when nobody can receive it. *)
SendFd(s) ==
    /\ srvEnd[s] # {}
    /\ InitGoes(s, "send", "exit")
    /\ device' = [device EXCEPT ![s] = @ \cup {"message"}]
    /\ UNCHANGED <<supVars, srvVars, initEnd, srvEnd, scope, path, fault>>

InitExits(s) ==
    /\ InitGoes(s, "exit", "ok")
    /\ CloseAll(s, "init")
    /\ UNCHANGED <<supVars, srvVars, scope, path, fault>>

(* Any of its calls fails, or the process is killed. *)
InitEnds(s, how) ==
    /\ ini[s] \notin {"none"} \cup Ended
    /\ how = "failed" => ini[s] # "exit"
    /\ ini' = [ini EXCEPT ![s] = how]
    /\ CloseAll(s, "init") /\ Faulty(s)
    /\ UNCHANGED <<supVars, srvVars, scope, path>>

InitStep(s) ==
    \/ InitClosesEnd(s) \/ InitConfigures(s) \/ DevCreate(s) \/ InitVerifies(s) \/ SendFd(s)
    \/ InitExits(s) \/ InitEnds(s, "failed")

-----------------------------------------------------------------------------
(* The runtime child. *)

SrvGoes(s, from, to) == srv[s] = from /\ srv' = [srv EXCEPT ![s] = to]

(* A check of the code that does not hold ends the start. *)
Refuses(s) ==
    /\ SrvExits(s, IF srv[s] \in PreExec THEN "noexec" ELSE "failed")
    /\ UNCHANGED <<supVars, ini, path>>

(* A call made at any of these points reports an error. *)
SrvFails(s) ==
    /\ srv[s] \in PreExec \cup (Freeze \ {"root", "fds?"})
                  \cup {"handlers", "recv", "adopt", "stat", "unlink", "bind", "chmod", "gate"}
    /\ srv[s] = "gate" => scope[s] # "none"
    /\ Refuses(s) /\ Faulty(s)

(* Only the place in the code moves. *)
Moves(s, from, to) ==
    /\ SrvGoes(s, from, to)
    /\ UNCHANGED <<supVars, ini, srvCatches, srvStop, given, fds, filter, phase, initEnd, srvEnd,
                   device, scope, path, fault>>

(* One privilege is given up.  Where `proved` the code reads the state back, *)
(* so the call may also have reported success for nothing.                   *)
Gives(s, from, to, privilege, proved) ==
    /\ SrvGoes(s, from, to)
    /\ \/ given' = [given EXCEPT ![s] = @ \cup {privilege}] /\ UNCHANGED fault
       \/ proved /\ UNCHANGED given /\ Faulty(s)
    /\ UNCHANGED <<supVars, ini, srvCatches, srvStop, fds, filter, phase, initEnd, srvEnd, device,
                   scope, path>>

(* The read-back of what Gives did. *)
Proves(s, from, to, privilege) ==
    \/ privilege \in given[s] /\ Moves(s, from, to)
    \/ privilege \notin given[s] /\ srv[s] = from /\ Refuses(s) /\ UNCHANGED fault

(* drop_bounding_set: every capability leaves the bounding set. *)
DropBoundingSet(s) == Gives(s, "bounding", "setgroups", "bounding", FALSE)

(* drop_identity: groups, then gid, then uid. *)
SetIdentity(s) ==
    \/ Gives(s, "setgroups", "setgid", "groups", FALSE)
    \/ Gives(s, "setgid", "setuid", "gid", FALSE)
    \/ Gives(s, "setuid", "exec", "uid", TRUE)

(* command_with_dropped_identity, in the fork and before exec. *)
DropIdentity(s) == DropBoundingSet(s) \/ SetIdentity(s)

(* exec serve, parse_serve_args; cmd_serve installs the handlers first. *)
ExecServe(s) == Moves(s, "exec", "handlers")

SrvInstalls(s) ==
    /\ SrvGoes(s, "handlers", "recv")
    /\ srvCatches' = [srvCatches EXCEPT ![s] = TRUE]
    /\ UNCHANGED <<supVars, ini, srvStop, given, fds, filter, phase, initEnd, srvEnd, device,
                   scope, path, fault>>

(* recv_owned_fd: the one descriptor of the one message; a message with      *)
(* none, or with several, is an error (SrvFails).                            *)
RecvFd(s) ==
    /\ "message" \in device[s]
    /\ SrvGoes(s, "recv", "close")
    /\ device' = [device EXCEPT ![s] = (@ \ {"message"}) \cup {"serve"}]
    /\ fds' = [fds EXCEPT ![s] = @ \cup {"device"}]
    /\ UNCHANGED <<supVars, ini, srvCatches, srvStop, given, filter, phase, initEnd, srvEnd, scope,
                   path, fault>>

(* The handoff end is closed so that the inventory sees the intended set. *)
CloseHandoff(s) ==
    /\ SrvGoes(s, "close", "adopt")
    /\ fds' = [fds EXCEPT ![s] = @ \ {"handoff"}]
    /\ CloseSrvEnd(s, "serve", device[s])
    /\ UNCHANGED <<supVars, ini, srvCatches, srvStop, given, filter, phase, initEnd, scope, path,
                   fault>>

(* UinputDevice::adopt: a character device that verifies. *)
Adopt(s) == Moves(s, "adopt", "stat")

(* bind_secure: validate_parent and the lstat of the path; what is there     *)
(* must be a socket of this user or of root to be taken for stale.           *)
StatPath(s) ==
    \/ path \in {"file", "foreign"} /\ srv[s] = "stat" /\ Refuses(s) /\ Faulty(s)
    \/ path = "none" /\ Moves(s, "stat", "bind")
    \/ path = "socket" /\ Moves(s, "stat", "unlink")

UnlinkStale(s) ==
    \/ /\ path # "none"
       /\ SrvGoes(s, "unlink", "bind")
       /\ path' = "none"
       /\ UNCHANGED <<supVars, ini, srvCatches, srvStop, given, fds, filter, phase, initEnd,
                      srvEnd, device, scope, fault>>
    \/ path = "none" /\ srv[s] = "unlink" /\ Refuses(s) /\ UNCHANGED fault

(* bind fails on a path that exists. *)
Bind(s) ==
    \/ /\ path = "none"
       /\ SrvGoes(s, "bind", "chmod")
       /\ path' = "socket"
       /\ fds' = [fds EXCEPT ![s] = @ \cup {"listener"}]
       /\ UNCHANGED <<supVars, ini, srvCatches, srvStop, given, filter, phase, initEnd, srvEnd,
                      device, scope, fault>>
    \/ path # "none" /\ srv[s] = "bind" /\ Refuses(s) /\ UNCHANGED fault

(* Mode and the check for a bind race: a socket is still there.  Another     *)
(* user's is refused by set_permissions, unless it came after it.            *)
SecurePath(s) ==
    \/ path \notin {"none", "file"} /\ Moves(s, "chmod", "gate")
    \/ path # "socket" /\ srv[s] = "chmod" /\ Refuses(s) /\ UNCHANGED fault

(* Somebody with access to the directory (validate_parent leaves root and    *)
(* this user) changes what is at the path, another user's socket included.   *)
Meddle(s) ==
    /\ srv[s] \in {"stat", "unlink", "bind", "chmod"}
    /\ path' \in {"none", "file", "foreign"} \ {path}
    /\ Faulty(s)
    /\ UNCHANGED <<supVars, ini, srvVars, initEnd, srvEnd, device, scope>>

(* The session gate: /proc is opened for an explicit scope, and for `auto`   *)
(* when the broker itself is in a session; `auto` outside one is SrvFails.   *)
OpenGate(s) ==
    /\ SrvGoes(s, "gate", "root")
    /\ fds' = [fds EXCEPT ![s] = @ \cup (IF scope[s] = "none" THEN {} ELSE {"proc"})]
    /\ UNCHANGED <<supVars, ini, srvCatches, srvStop, given, filter, phase, initEnd, srvEnd,
                   device, scope, path, fault>>

Gate(s) == IF scope[s] = "none" THEN NoGate ELSE ProcDirfd

(* expected_fds: stdio, the device, the listener and the gate's dirfd. *)
ExpectedFds(s) ==
    {"stdio", "device", "listener"} \cup (IF scope[s] = "none" THEN {} ELSE {"proc"})

(* capset's success is taken for the fact. *)
ProveCapsTrusting(s) == Moves(s, "caps?", "nnp")

(* verify_before_freeze: each privilege is given up and its state read back. *)
CheckRefusesRoot(s) == Proves(s, "root", "caps", "uid")

ClearCaps(s) == Gives(s, "caps", "caps?", "caps", TRUE)

ProveCaps(s) == Proves(s, "caps?", "nnp", "caps")

NoNewPrivs(s) ==
    Gives(s, "nnp", "nnp?", "nnp", TRUE) \/ Proves(s, "nnp?", "core", "nnp")

NoCoreDumps(s) ==
    Gives(s, "core", "core?", "core", TRUE) \/ Proves(s, "core?", "dumpable", "core")

NonDumpable(s) ==
    \/ Gives(s, "dumpable", "dumpable?", "dumpable", TRUE)
    \/ Proves(s, "dumpable?", "fds?", "dumpable")

VerifyBeforeFreeze(s) ==
    \/ CheckRefusesRoot(s) \/ ClearCaps(s) \/ ProveCaps(s)
    \/ NoNewPrivs(s) \/ NoCoreDumps(s) \/ NonDumpable(s)

(* fd_inventory against expected_fds. *)
FdInventory(s) ==
    \/ fds[s] = ExpectedFds(s) /\ Moves(s, "fds?", "seccomp")
    \/ fds[s] # ExpectedFds(s) /\ srv[s] = "fds?" /\ Refuses(s) /\ UNCHANGED fault

(* install_filter; the kernel demands NO_NEW_PRIVS. *)
InstallFilter(s) ==
    /\ "nnp" \in given[s]
    /\ SrvGoes(s, "seccomp", "probe")
    /\ \/ filter' = [filter EXCEPT ![s] = BuildFilterProgram(Gate(s))] /\ UNCHANGED fault
       \/ UNCHANGED filter /\ Faulty(s)
    /\ UNCHANGED <<supVars, ini, srvCatches, srvStop, given, fds, phase, initEnd, srvEnd, device,
                   scope, path>>

ProveEnforced(s) ==
    \/ ProbesAllDenied(filter[s], Gate(s)) /\ Moves(s, "probe", "phases")
    \/ ~ ProbesAllDenied(filter[s], Gate(s)) /\ srv[s] = "probe" /\ Refuses(s) /\ UNCHANGED fault

(* PhaseGuard::transition; the caller panics on an illegal one. *)
PhaseAllows(from, to) ==
    \/ from = "Initializing" /\ to \in {"DeviceConfigured", "ShuttingDown"}
    \/ from = "DeviceConfigured" /\ to \in {"Sandboxed", "ShuttingDown"}
    \/ from = "Sandboxed" /\ to \in {"Serving", "ShuttingDown"}
    \/ from = "Serving" /\ to = "ShuttingDown"

(* The three transitions of the freeze, then the loop. *)
EnterServing(s) ==
    /\ SrvGoes(s, "phases", "serving")
    /\ phase[s] = "Initializing"
    /\ \A p \in {<<"Initializing", "DeviceConfigured">>, <<"DeviceConfigured", "Sandboxed">>,
                 <<"Sandboxed", "Serving">>} : PhaseAllows(p[1], p[2])
    /\ phase' = [phase EXCEPT ![s] = "Serving"]
    /\ UNCHANGED <<supVars, ini, srvCatches, srvStop, given, fds, filter, initEnd, srvEnd, device,
                   scope, path, fault>>

(* serve_loop returns on STOP, or when poll fails: release every session's   *)
(* keys, flush, exit.                                                        *)
LeavesLoop(s) ==
    /\ SrvGoes(s, "serving", "release")
    /\ phase' = [phase EXCEPT ![s] = IF PhaseAllows(@, "ShuttingDown") THEN "ShuttingDown" ELSE @]
    /\ UNCHANGED <<supVars, ini, srvCatches, srvStop, given, fds, filter, initEnd, srvEnd, device,
                   scope, path>>

LeaveServing(s) == srvStop[s] /\ LeavesLoop(s) /\ UNCHANGED fault
PollFails(s) == LeavesLoop(s) /\ Faulty(s)

Release(s) == Moves(s, "release", "flush")

FlushAndExit(s) ==
    /\ srv[s] = "flush"
    /\ SrvExits(s, "ok")
    /\ UNCHANGED <<supVars, ini, path, fault>>

(* SIGTERM from outside at the runtime child. *)
SignalServe(s) ==
    /\ srv[s] \notin {"none"} \cup SrvEnded
    /\ ~ srvStop[s]
    /\ Terminate(s) /\ Faulty(s)
    /\ UNCHANGED <<supVars, ini, path>>

(* SIGKILL at either child. *)
KillServe(s) ==
    /\ srv[s] \notin {"none"} \cup SrvEnded
    /\ SrvExits(s, "killed") /\ Faulty(s)
    /\ UNCHANGED <<supVars, ini, path>>

SrvStep(s) ==
    \/ DropIdentity(s) \/ ExecServe(s) \/ SrvInstalls(s) \/ RecvFd(s) \/ CloseHandoff(s)
    \/ Adopt(s) \/ StatPath(s) \/ UnlinkStale(s) \/ Bind(s) \/ SecurePath(s) \/ OpenGate(s)
    \/ VerifyBeforeFreeze(s) \/ FdInventory(s) \/ InstallFilter(s) \/ ProveEnforced(s)
    \/ EnterServing(s) \/ LeaveServing(s) \/ Release(s) \/ FlushAndExit(s) \/ SrvFails(s)

(* What the environment does, or does not do. *)
Outside(s) ==
    \/ Start(s) \/ Meddle(s) \/ SignalSupervisor(s) \/ InitEnds(s, "killed") \/ SignalServe(s) \/ KillServe(s)
    \/ PollFails(s)

Next == \E s \in Starts : SupStep(s) \/ InitStep(s) \/ SrvStep(s) \/ Outside(s)

Spec == Init /\ [][Next]_vars

(* Each process is scheduled; signals, kills and a poll that fails are not   *)
(* owed to anybody.                                                          *)
FairSpec ==
    /\ Spec
    /\ \A s \in Starts : WF_vars(SupStep(s)) /\ WF_vars(InitStep(s)) /\ WF_vars(SrvStep(s))
-----------------------------------------------------------------------------
(* Properties. *)

(* A broker that serves, or still releases its keys, has given up every      *)
(* privilege, runs under a filter and holds exactly the descriptors          *)
(* expected_fds names, whatever the calls on the way reported: the order of  *)
(* drop, set, read back, inventory and install in run and                    *)
(* verify_before_freeze leaves no way around a step.                         *)
FrozenWhileServing ==
    \A s \in Starts : srv[s] \in {"serving", "release", "flush"} =>
        /\ given[s] = Privileges
        /\ fds[s] = ExpectedFds(s)
        /\ filter[s] = BuildFilterProgram(Gate(s))

(* The program build_filter_program assembles, jump by jump, decides every   *)
(* call as the two allowlists and the session gate say, on every             *)
(* architecture and with and without the gate.                               *)
FilterExact ==
    \A s \in Starts : srv[s] = "probe" /\ filter[s] # << >> =>
        \A call \in Calls : Verdict(filter[s], call) = Reference(Gate(s), call)

(* A supervisor that returns from run leaves no child and no keyboard        *)
(* behind, on every error path and after every signal it could catch.        *)
ExitLeavesNothing ==
    \A s \in Starts : sup[s] \in {"ok", "failed"} =>
        /\ ini[s] \in {"none"} \cup Ended
        /\ srv[s] \in {"none"} \cup SrvEnded
        /\ device[s] = {}

(* A start nothing interferes with ends up serving: the ends of the handoff  *)
(* pair are closed where the inventory needs them closed, the stale socket   *)
(* of an earlier broker is no obstacle, and no process waits for another.    *)
CleanStartServes ==
    \A s \in Starts : sup[s] = "config" ~> (phase[s] = "Serving" \/ fault[s])

(* A signal the supervisor catches ends all of this start: the forwarded     *)
(* SIGTERM reaches the broker whether or not it has its own handlers yet.    *)
StopReachesBroker ==
    \A s \in Starts : supStop[s] ~> /\ sup[s] \in Ended
                                     /\ srv[s] \in SrvEnded
                                     /\ device[s] = {}

=============================================================================

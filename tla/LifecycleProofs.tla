--------------------------- MODULE LifecycleProofs ---------------------------
(* Proofs about the life of a broker, for every number of starts and every   *)
(* pair of allowlists.                                                       *)
EXTENDS Lifecycle, Induction

-----------------------------------------------------------------------------
(* The freeze.                                                               *)

(* Where the runtime child is once it has passed each step of the freeze.    *)
Loop == {"serving", "release", "flush"}
Probed == {"phases"} \cup Loop
Filtered == {"probe"} \cup Probed
Inventoried == {"seccomp"} \cup Filtered
PastDumpable == {"fds?"} \cup Inventoried
PastCore == {"dumpable", "dumpable?"} \cup PastDumpable
PastNnp == {"core", "core?"} \cup PastCore
PastCaps == {"nnp", "nnp?"} \cup PastNnp
PastRoot == {"caps", "caps?"} \cup PastCaps
PastGid == {"setuid", "exec", "handlers", "recv", "close", "adopt", "stat", "unlink", "bind",
            "chmod", "gate", "root"} \cup PastRoot
PastGroups == {"setgid"} \cup PastGid
PastBounding == {"setgroups"} \cup PastGroups

(* The supervisor has not forked the runtime child yet. *)
BeforeFork == {"off", "config", "identity", "pair", "init"}

GivenOnTheWay(s) ==
    /\ srv[s] \in PastBounding => "bounding" \in given[s]
    /\ srv[s] \in PastGroups => "groups" \in given[s]
    /\ srv[s] \in PastGid => "gid" \in given[s]
    /\ srv[s] \in PastRoot => "uid" \in given[s]
    /\ srv[s] \in PastCaps => "caps" \in given[s]
    /\ srv[s] \in PastNnp => "nnp" \in given[s]
    /\ srv[s] \in PastCore => "core" \in given[s]
    /\ srv[s] \in PastDumpable => "dumpable" \in given[s]

FdsOnTheWay(s) ==
    /\ sup[s] \in BeforeFork => srv[s] = "none"
    /\ srv[s] \in Inventoried => fds[s] = ExpectedFds(s)

FilterOnTheWay(s) ==
    /\ filter[s] \in {<< >>, BuildFilterProgram(Gate(s))}
    /\ srv[s] \in Probed => filter[s] # << >>
    /\ filter[s] # << >> => srv[s] \in Filtered

(* The functions of the starts the freeze writes. *)
StartsTyped ==
    /\ sup \in [Starts -> SupStates]
    /\ srv \in [Starts -> SrvStates]
    /\ given \in [Starts -> SUBSET Privileges]
    /\ fds \in [Starts -> SUBSET Fds]
    /\ scope \in [Starts -> Scopes]
    /\ DOMAIN filter = Starts

(* What makes FrozenWhileServing inductive: at each place of the code, what  *)
(* the calls before it gave up and read back.                                *)
FreezeInv ==
    /\ StartsTyped
    /\ \A s \in Starts : GivenOnTheWay(s) /\ FdsOnTheWay(s) /\ FilterOnTheWay(s)

-----------------------------------------------------------------------------
(* The exit.                                                                 *)

InitGone == {"none"} \cup Ended
SrvGone == {"none"} \cup SrvEnded

(* Who may still hold an end of the handoff pair or the device. *)
HoldersLive(s) ==
    /\ "sup" \in srvEnd[s] => sup[s] \in {"init", "spawn"}
    /\ "init" \in srvEnd[s] => ini[s] \notin InitGone
    /\ "serve" \in srvEnd[s] => srv[s] \notin SrvGone
    /\ "init" \in device[s] => ini[s] \notin InitGone
    /\ "serve" \in device[s] => srv[s] \notin SrvGone
    /\ "message" \in device[s] => srvEnd[s] # {}

(* Whom the supervisor has forked and waited for. *)
ChildrenInOrder(s) ==
    /\ sup[s] \in {"off", "config", "identity", "pair"} => ini[s] = "none"
    /\ sup[s] \in BeforeFork => srv[s] = "none"
    /\ sup[s] \in {"spawn", "install", "wait", "reap"} => ini[s] = "ok"
    /\ sup[s] \in {"ok", "failed"} => ini[s] \in InitGone /\ srv[s] \in SrvGone

HandoffTyped ==
    /\ sup \in [Starts -> SupStates]
    /\ ini \in [Starts -> InitStates]
    /\ srv \in [Starts -> SrvStates]
    /\ srvEnd \in [Starts -> SUBSET {"sup", "init", "serve"}]
    /\ device \in [Starts -> SUBSET {"init", "message", "serve"}]

(* What makes ExitLeavesNothing inductive. *)
HandoffInv ==
    /\ HandoffTyped
    /\ \A s \in Starts : HoldersLive(s) /\ ChildrenInOrder(s)
-----------------------------------------------------------------------------
(* The freeze, step by step.                                                 *)

(* What the step of one start leaves alone in the others, and what it has to *)
(* keep in its own.                                                          *)
LEMMA FreezeByStart ==
    ASSUME NEW t \in Starts, FreezeInv, StartsTyped',
           \A s \in Starts \ {t} : /\ sup'[s] = sup[s] /\ srv'[s] = srv[s]
                                   /\ given'[s] = given[s] /\ fds'[s] = fds[s]
                                   /\ scope'[s] = scope[s] /\ filter'[s] = filter[s],
           GivenOnTheWay(t)', FdsOnTheWay(t)', FilterOnTheWay(t)'
    PROVE  FreezeInv'
<1>1. SUFFICES ASSUME NEW s \in Starts, s # t
               PROVE  GivenOnTheWay(s)' /\ FdsOnTheWay(s)' /\ FilterOnTheWay(s)'
  BY DEF FreezeInv
<1>2. /\ sup'[s] = sup[s] /\ srv'[s] = srv[s] /\ given'[s] = given[s] /\ fds'[s] = fds[s]
      /\ scope'[s] = scope[s] /\ filter'[s] = filter[s]
  BY <1>1
<1>3. ExpectedFds(s)' = ExpectedFds(s) /\ Gate(s)' = Gate(s)
  BY <1>2 DEF ExpectedFds, Gate
<1>4. BuildFilterProgram(Gate(s))' = BuildFilterProgram(Gate(s))
  BY <1>3 DEF BuildFilterProgram, AllowlistChain, AllowlistChainLen
<1>5. GivenOnTheWay(s) /\ FdsOnTheWay(s) /\ FilterOnTheWay(s)
  BY <1>1 DEF FreezeInv
<1>6. GivenOnTheWay(s)'
  BY <1>2, <1>5 DEF GivenOnTheWay
<1>7. FdsOnTheWay(s)'
  BY <1>2, <1>3, <1>5 DEF FdsOnTheWay
<1>8. FilterOnTheWay(s)'
  BY <1>2, <1>4, <1>5 DEF FilterOnTheWay
<1> QED
  BY <1>6, <1>7, <1>8

(* A supervisor that moves on with its runtime child as it is. *)
LEMMA FreezeSupMoves ==
    ASSUME FreezeInv, NEW t \in Starts, NEW x \in SupStates,
           sup' = [sup EXCEPT ![t] = x],
           x \in BeforeFork => srv[t] = "none",
           UNCHANGED <<srvVars, scope>>
    PROVE  FreezeInv'
<1>1. StartsTyped'
  BY DEF FreezeInv, StartsTyped, srvVars
<1>2. GivenOnTheWay(t) /\ FdsOnTheWay(t) /\ FilterOnTheWay(t)
  BY DEF FreezeInv
<1>3. ExpectedFds(t)' = ExpectedFds(t) /\ Gate(t)' = Gate(t)
  BY DEF ExpectedFds, Gate
<1>4. GivenOnTheWay(t)'
  BY <1>2 DEF GivenOnTheWay, srvVars
<1>5. FdsOnTheWay(t)'
  BY <1>2, <1>3 DEF FdsOnTheWay, srvVars, FreezeInv, StartsTyped
<1>6. FilterOnTheWay(t)'
  BY <1>2, <1>3 DEF FilterOnTheWay, srvVars, BuildFilterProgram, AllowlistChain, AllowlistChainLen
<1>7. \A s \in Starts \ {t} : sup'[s] = sup[s]
  BY DEF FreezeInv, StartsTyped
<1> QED
  BY <1>1, <1>4, <1>5, <1>6, <1>7, FreezeByStart DEF srvVars

(* A runtime child that ends. *)
LEMMA FreezeExits ==
    ASSUME FreezeInv, NEW t \in Starts, NEW how \in SrvEnded, SrvExits(t, how),
           sup' \in [Starts -> SupStates],
           \A s \in Starts \ {t} : sup'[s] = sup[s],
           sup'[t] \notin BeforeFork
    PROVE  FreezeInv'
<1>1. StartsTyped'
  BY DEF FreezeInv, StartsTyped, SrvExits, SrvStates, Scopes, SrvEnded
<1>2. /\ srv'[t] = how /\ filter'[t] = << >>
  BY DEF FreezeInv, StartsTyped, SrvExits
<1>3. how \notin PastBounding
  BY DEF SrvEnded, Ended, PastBounding, PastGroups, PastGid, PastRoot, PastCaps, PastNnp, PastCore,
         PastDumpable, Inventoried, Filtered, Probed, Loop
<1>4. GivenOnTheWay(t)'
  BY <1>2, <1>3 DEF GivenOnTheWay, PastBounding, PastGroups, PastGid, PastRoot, PastCaps, PastNnp,
                    PastCore, PastDumpable
<1>5. FdsOnTheWay(t)'
  BY <1>2, <1>3 DEF FdsOnTheWay, PastBounding, PastGroups, PastGid, PastRoot, PastCaps, PastNnp,
                    PastCore, PastDumpable
<1>6. FilterOnTheWay(t)'
  BY <1>2, <1>3 DEF FilterOnTheWay, PastBounding, PastGroups, PastGid, PastRoot, PastCaps, PastNnp,
                    PastCore, PastDumpable, Inventoried, Filtered
<1>7. \A s \in Starts \ {t} : /\ srv'[s] = srv[s]
                              /\ given'[s] = given[s] /\ fds'[s] = fds[s]
                              /\ scope'[s] = scope[s] /\ filter'[s] = filter[s]
  BY DEF FreezeInv, StartsTyped, SrvExits
<1> QED
  BY <1>1, <1>4, <1>5, <1>6, <1>7, FreezeByStart

(* A runtime child that goes from one place to another with what it has,     *)
(* its descriptors included.                                                 *)
LEMMA FreezeMoves ==
    ASSUME FreezeInv, NEW t \in Starts, NEW to \in SrvStates, srv[t] # "none",
           srv' = [srv EXCEPT ![t] = to],
           UNCHANGED <<sup, given, scope, filter>>,
           fds' \in [Starts -> SUBSET Fds],
           \A s \in Starts \ {t} : fds'[s] = fds[s],
           GivenOnTheWay(t)',
           to \in Inventoried => fds'[t] = ExpectedFds(t),
           to \in Probed => filter[t] # << >>,
           filter[t] # << >> => to \in Filtered
    PROVE  FreezeInv'
<1>1. StartsTyped'
  BY DEF FreezeInv, StartsTyped
<1>2. FdsOnTheWay(t) /\ FilterOnTheWay(t)
  BY DEF FreezeInv
<1>3. ExpectedFds(t)' = ExpectedFds(t) /\ Gate(t)' = Gate(t)
  BY DEF ExpectedFds, Gate
<1>4. srv'[t] = to
  BY DEF FreezeInv, StartsTyped
<1>5. FdsOnTheWay(t)'
  BY <1>2, <1>3, <1>4 DEF FdsOnTheWay
<1>6. FilterOnTheWay(t)'
  BY <1>2, <1>3, <1>4 DEF FilterOnTheWay, BuildFilterProgram, AllowlistChain, AllowlistChainLen
<1>7. \A s \in Starts \ {t} : srv'[s] = srv[s]
  BY DEF FreezeInv, StartsTyped
<1> QED
  BY <1>1, <1>5, <1>6, <1>7, FreezeByStart

(* A move that gives nothing up and skips no step of the freeze. *)
LEMMA FreezePlainMove ==
    ASSUME FreezeInv, NEW t \in Starts, NEW from \in SrvStates \ {"none"}, NEW to \in SrvStates,
           Moves(t, from, to),
           to \in PastBounding => from \in PastBounding,
           to \in PastGroups => from \in PastGroups,
           to \in PastGid => from \in PastGid,
           to \in PastRoot => from \in PastRoot \/ "uid" \in given[t],
           to \in PastCaps => from \in PastCaps \/ "caps" \in given[t],
           to \in PastNnp => from \in PastNnp \/ "nnp" \in given[t],
           to \in PastCore => from \in PastCore \/ "core" \in given[t],
           to \in PastDumpable => from \in PastDumpable \/ "dumpable" \in given[t],
           to \in Inventoried => from \in Inventoried \/ fds[t] = ExpectedFds(t),
           to \in Probed => from \in Probed \/ filter[t] # << >>,
           from \in Filtered => to \in Filtered
    PROVE  FreezeInv'
<1>1. /\ srv[t] = from /\ srv' = [srv EXCEPT ![t] = to]
      /\ UNCHANGED <<sup, given, fds, filter, scope>>
  BY DEF Moves, SrvGoes, supVars
<1>2. GivenOnTheWay(t) /\ FdsOnTheWay(t) /\ FilterOnTheWay(t)
  BY DEF FreezeInv
<1>3. srv'[t] = to /\ fds \in [Starts -> SUBSET Fds]
  BY <1>1 DEF FreezeInv, StartsTyped
<1>4. GivenOnTheWay(t)'
  BY <1>1, <1>2, <1>3 DEF GivenOnTheWay
<1>5. to \in Inventoried => fds'[t] = ExpectedFds(t)
  BY <1>1, <1>2 DEF FdsOnTheWay
<1>6. to \in Probed => filter[t] # << >>
  BY <1>1, <1>2 DEF FilterOnTheWay
<1>7. filter[t] # << >> => to \in Filtered
  BY <1>1, <1>2 DEF FilterOnTheWay
<1> QED
  BY <1>1, <1>3, <1>4, <1>5, <1>6, <1>7, FreezeMoves

(* A call that gives one privilege up, or says so. *)
LEMMA FreezeGives ==
    ASSUME FreezeInv, NEW t \in Starts, NEW from \in SrvStates \ ({"none"} \cup Filtered),
           NEW to \in SrvStates \ Inventoried, NEW privilege \in Privileges, NEW proved \in BOOLEAN,
           Gives(t, from, to, privilege, proved),
           to \in PastBounding => from \in PastBounding \/ (privilege = "bounding" /\ ~ proved),
           to \in PastGroups => from \in PastGroups \/ (privilege = "groups" /\ ~ proved),
           to \in PastGid => from \in PastGid \/ (privilege = "gid" /\ ~ proved),
           to \in PastRoot => from \in PastRoot,
           to \in PastCaps => from \in PastCaps,
           to \in PastNnp => from \in PastNnp,
           to \in PastCore => from \in PastCore,
           to \in PastDumpable => from \in PastDumpable
    PROVE  FreezeInv'
<1>1. /\ srv[t] = from /\ srv' = [srv EXCEPT ![t] = to]
      /\ UNCHANGED <<sup, fds, filter, scope>>
  BY DEF Gives, SrvGoes, supVars
<1>2. GivenOnTheWay(t) /\ FdsOnTheWay(t) /\ FilterOnTheWay(t)
  BY DEF FreezeInv
<1>3. /\ srv'[t] = to /\ given' \in [Starts -> SUBSET Privileges]
      /\ given[t] \subseteq given'[t] /\ (~ proved => privilege \in given'[t])
      /\ \A s \in Starts \ {t} : given'[s] = given[s] /\ srv'[s] = srv[s]
  BY <1>1 DEF FreezeInv, StartsTyped, Gives
<1>4. GivenOnTheWay(t)'
  BY <1>1, <1>2, <1>3 DEF GivenOnTheWay
<1>5. StartsTyped'
  BY <1>1, <1>3 DEF FreezeInv, StartsTyped
<1>6. FdsOnTheWay(t)'
  BY <1>1, <1>2, <1>3 DEF FdsOnTheWay
<1>7. filter[t] = << >> /\ to \notin Probed
  BY <1>1, <1>2 DEF FilterOnTheWay, Inventoried, Filtered
<1>8. FilterOnTheWay(t)'
  BY <1>1, <1>3, <1>7 DEF FilterOnTheWay
<1> QED
  BY <1>1, <1>3, <1>4, <1>5, <1>6, <1>8, FreezeByStart

(* A start that is refused after its fork. *)
LEMMA FreezeRefuses ==
    ASSUME FreezeInv, NEW t \in Starts, srv[t] # "none", Refuses(t)
    PROVE  FreezeInv'
<1>1. SrvExits(t, IF srv[t] \in PreExec THEN "noexec" ELSE "failed") /\ sup' = sup
  BY DEF Refuses, supVars
<1>2. (IF srv[t] \in PreExec THEN "noexec" ELSE "failed") \in SrvEnded
  BY DEF SrvEnded, Ended
<1>3. sup' \in [Starts -> SupStates] /\ sup'[t] \notin BeforeFork
  BY <1>1 DEF FreezeInv, StartsTyped, FdsOnTheWay
<1> QED
  BY <1>1, <1>2, <1>3, FreezeExits

(* A read-back: the next place is reached only with the privilege gone. *)
LEMMA FreezeProves ==
    ASSUME FreezeInv, NEW t \in Starts
    PROVE  /\ Proves(t, "root", "caps", "uid") => FreezeInv'
           /\ Proves(t, "caps?", "nnp", "caps") => FreezeInv'
           /\ Proves(t, "nnp?", "core", "nnp") => FreezeInv'
           /\ Proves(t, "core?", "dumpable", "core") => FreezeInv'
           /\ Proves(t, "dumpable?", "fds?", "dumpable") => FreezeInv'
<1>1. ASSUME Proves(t, "root", "caps", "uid") PROVE FreezeInv'
  <2>1. CASE "uid" \in given[t] /\ Moves(t, "root", "caps")
    BY <2>1, FreezePlainMove
       DEF SrvStates, Freeze, PastBounding, PastGroups, PastGid, PastRoot, PastCaps, PastNnp, PastCore, PastDumpable,
         Inventoried, Filtered, Probed, Loop
  <2>2. CASE srv[t] = "root" /\ Refuses(t)
    BY <2>2, FreezeRefuses
  <2> QED
    BY <1>1, <2>1, <2>2 DEF Proves
<1>2. ASSUME Proves(t, "caps?", "nnp", "caps") PROVE FreezeInv'
  <2>1. CASE "caps" \in given[t] /\ Moves(t, "caps?", "nnp")
    BY <2>1, FreezePlainMove
       DEF SrvStates, Freeze, PastBounding, PastGroups, PastGid, PastRoot, PastCaps, PastNnp, PastCore, PastDumpable,
         Inventoried, Filtered, Probed, Loop
  <2>2. CASE srv[t] = "caps?" /\ Refuses(t)
    BY <2>2, FreezeRefuses
  <2> QED
    BY <1>2, <2>1, <2>2 DEF Proves
<1>3. ASSUME Proves(t, "nnp?", "core", "nnp") PROVE FreezeInv'
  <2>1. CASE "nnp" \in given[t] /\ Moves(t, "nnp?", "core")
    BY <2>1, FreezePlainMove
       DEF SrvStates, Freeze, PastBounding, PastGroups, PastGid, PastRoot, PastCaps, PastNnp, PastCore, PastDumpable,
         Inventoried, Filtered, Probed, Loop
  <2>2. CASE srv[t] = "nnp?" /\ Refuses(t)
    BY <2>2, FreezeRefuses
  <2> QED
    BY <1>3, <2>1, <2>2 DEF Proves
<1>4. ASSUME Proves(t, "core?", "dumpable", "core") PROVE FreezeInv'
  <2>1. CASE "core" \in given[t] /\ Moves(t, "core?", "dumpable")
    BY <2>1, FreezePlainMove
       DEF SrvStates, Freeze, PastBounding, PastGroups, PastGid, PastRoot, PastCaps, PastNnp, PastCore, PastDumpable,
         Inventoried, Filtered, Probed, Loop
  <2>2. CASE srv[t] = "core?" /\ Refuses(t)
    BY <2>2, FreezeRefuses
  <2> QED
    BY <1>4, <2>1, <2>2 DEF Proves
<1>5. ASSUME Proves(t, "dumpable?", "fds?", "dumpable") PROVE FreezeInv'
  <2>1. CASE "dumpable" \in given[t] /\ Moves(t, "dumpable?", "fds?")
    BY <2>1, FreezePlainMove
       DEF SrvStates, Freeze, PastBounding, PastGroups, PastGid, PastRoot, PastCaps, PastNnp, PastCore, PastDumpable,
         Inventoried, Filtered, Probed, Loop
  <2>2. CASE srv[t] = "dumpable?" /\ Refuses(t)
    BY <2>2, FreezeRefuses
  <2> QED
    BY <1>5, <2>1, <2>2 DEF Proves
<1> QED
  BY <1>1, <1>2, <1>3, <1>4, <1>5

(* A step that leaves the supervisor and the runtime child of every start as *)
(* they are.                                                                 *)
LEMMA FreezeUnchanged ==
    ASSUME FreezeInv, UNCHANGED <<sup, srv, given, fds, filter, scope>>
    PROVE  FreezeInv'
BY ZenonT(40) DEF FreezeInv, StartsTyped, GivenOnTheWay, FdsOnTheWay, FilterOnTheWay, ExpectedFds, Gate,
       BuildFilterProgram, AllowlistChain, AllowlistChainLen

(* The steps of the supervisor. *)
LEMMA FreezeSupStep ==
    ASSUME FreezeInv, NEW t \in Starts, SupStep(t)
    PROVE  FreezeInv'
<1> USE DEF SupGoes
<1>a. sup \in [Starts -> SupStates] /\ sup[t] \in SupStates
      /\ (sup[t] \in BeforeFork => srv[t] = "none")
  BY DEF FreezeInv, StartsTyped, FdsOnTheWay
<1>1. CASE LoadConfig(t)
  <2>1. /\ srv[t] = "none" /\ filter[t] = << >>
        /\ sup'[t] = "identity" /\ srv'[t] = "none" /\ filter'[t] = << >>
    BY <1>1, <1>a DEF LoadConfig, BeforeFork, srvVars, FreezeInv, FilterOnTheWay, PastBounding, PastGroups, PastGid, PastRoot, PastCaps, PastNnp, PastCore, PastDumpable,
           Inventoried, Filtered, Probed, Loop
  <2>2. StartsTyped'
    BY <1>1 DEF LoadConfig, srvVars, FreezeInv, StartsTyped, SupStates
  <2>3. /\ GivenOnTheWay(t)' /\ FdsOnTheWay(t)' /\ FilterOnTheWay(t)'
    BY <2>1 DEF GivenOnTheWay, FdsOnTheWay, FilterOnTheWay, PastBounding, PastGroups, PastGid, PastRoot, PastCaps, PastNnp, PastCore, PastDumpable,
           Inventoried, Filtered, Probed, Loop
  <2>4. \A s \in Starts \ {t} : sup'[s] = sup[s] /\ scope'[s] = scope[s]
    BY <1>1 DEF LoadConfig, FreezeInv, StartsTyped
  <2> QED
    BY <1>1, <2>2, <2>3, <2>4, FreezeByStart DEF LoadConfig, srvVars
<1>2. CASE InitSucceeded(t)
  <2>1. /\ srv[t] = "none" /\ filter[t] = << >>
        /\ sup'[t] = "spawn" /\ srv'[t] = "bounding" /\ filter'[t] = << >>
    BY <1>2, <1>a DEF InitSucceeded, BeforeFork, FreezeInv, StartsTyped, FilterOnTheWay, PastBounding, PastGroups, PastGid, PastRoot, PastCaps, PastNnp, PastCore, PastDumpable,
           Inventoried, Filtered, Probed, Loop
  <2>2. StartsTyped'
    BY <1>2 DEF InitSucceeded, FreezeInv, StartsTyped, SupStates, SrvStates, PreExec, Fds
  <2>3. /\ GivenOnTheWay(t)' /\ FdsOnTheWay(t)' /\ FilterOnTheWay(t)'
    BY <2>1 DEF GivenOnTheWay, FdsOnTheWay, FilterOnTheWay, BeforeFork, PastBounding, PastGroups, PastGid, PastRoot, PastCaps, PastNnp, PastCore, PastDumpable,
           Inventoried, Filtered, Probed, Loop
  <2>4. \A s \in Starts \ {t} : sup'[s] = sup[s] /\ srv'[s] = srv[s] /\ fds'[s] = fds[s]
    BY <1>2 DEF InitSucceeded, FreezeInv, StartsTyped
  <2> QED
    BY <1>2, <2>2, <2>3, <2>4, FreezeByStart DEF InitSucceeded
<1>3. CASE Forward(t)
  <2>1. sup' = [sup EXCEPT ![t] = "reap"] /\ "reap" \in SupStates /\ "reap" \notin BeforeFork
    BY <1>3 DEF Forward, SupStates, BeforeFork
  <2>2. /\ sup' \in [Starts -> SupStates] /\ sup'[t] \notin BeforeFork
        /\ \A s \in Starts \ {t} : sup'[s] = sup[s]
    BY <2>1, <1>a
  <2>3. CASE SrvExits(t, "killed")
    BY <2>2, <2>3, FreezeExits DEF SrvEnded, Ended
  <2>4. CASE UNCHANGED <<srv, given, fds, filter, phase, scope, srvCatches>>
    <3>1. UNCHANGED <<given, fds, filter, scope, srv>>
      BY <2>4
    <3>2. StartsTyped'
      BY <2>2, <3>1 DEF FreezeInv, StartsTyped
    <3>3. ExpectedFds(t)' = ExpectedFds(t) /\ Gate(t)' = Gate(t)
      BY <3>1 DEF ExpectedFds, Gate
    <3>4. GivenOnTheWay(t)' /\ FdsOnTheWay(t)'
      BY <2>2, <3>1, <3>3 DEF FreezeInv, GivenOnTheWay, FdsOnTheWay
    <3>5. FilterOnTheWay(t)'
      BY <3>1, <3>3 DEF FreezeInv, FilterOnTheWay, BuildFilterProgram, AllowlistChain,
                        AllowlistChainLen
    <3> QED
      BY <2>2, <3>1, <3>2, <3>4, <3>5, FreezeByStart
  <2> QED
    BY <1>3, <2>3, <2>4 DEF Forward, Terminate, srvVars
<1>4. CASE ResolveIdentity(t)
  BY <1>4, <1>a, FreezeSupMoves DEF ResolveIdentity, SupStates, Ended, BeforeFork
<1>5. CASE SpawnInit(t)
  BY <1>5, <1>a, FreezeSupMoves DEF SpawnInit, SupStates, Ended, BeforeFork
<1>6. CASE InitFailed(t)
  BY <1>6, <1>a, FreezeSupMoves DEF InitFailed, SupStates, Ended, BeforeFork
<1>7. CASE SpawnReturns(t)
  BY <1>7, <1>a, FreezeSupMoves DEF SpawnReturns, SupStates, Ended, BeforeFork
<1>8. CASE SpawnFails(t)
  BY <1>8, <1>a, FreezeSupMoves DEF SpawnFails, SupStates, Ended, BeforeFork
<1>9. CASE SupInstalls(t)
  BY <1>9, <1>a, FreezeSupMoves DEF SupInstalls, SupStates, Ended, BeforeFork
<1>10. CASE SupReaps(t)
  BY <1>10, <1>a, FreezeSupMoves DEF SupReaps, SupStates, Ended, BeforeFork
<1>11. CASE SupGivesUp(t)
  BY <1>11, <1>a, FreezeSupMoves DEF SupGivesUp, SupStates, Ended, BeforeFork
<1> QED
  BY <1>1, <1>2, <1>3, <1>4, <1>5, <1>6, <1>7, <1>8, <1>9, <1>10, <1>11
     DEF SupStep, ConfigRefused, IdentityRefused, SupFails

(* Without a program the kernel refuses nothing (ProbeReport). *)
LEMMA NoProgramAllows == \A call : Verdict(<< >>, call) = "allow"
BY Zenon DEF Verdict

(* Into the loop and out of it: the freeze is behind the runtime child. *)
LEMMA FreezeServing ==
    ASSUME FreezeInv, NEW t \in Starts, UNCHANGED <<sup, given, fds, scope, filter>>,
           \/ srv[t] = "phases" /\ srv' = [srv EXCEPT ![t] = "serving"]
           \/ srv[t] = "serving" /\ srv' = [srv EXCEPT ![t] = "release"]
    PROVE  FreezeInv'
<1>a. /\ srv \in [Starts -> SrvStates] /\ fds \in [Starts -> SUBSET Fds]
      /\ GivenOnTheWay(t) /\ FdsOnTheWay(t) /\ FilterOnTheWay(t)
  BY DEF FreezeInv, StartsTyped
<1>1. PICK to \in {"serving", "release"} : srv' = [srv EXCEPT ![t] = to]
  OBVIOUS
<1>2. srv[t] \in Probed /\ to \in Probed /\ to \in SrvStates /\ srv'[t] = to
  BY <1>1, <1>a DEF Probed, Loop, SrvStates
<1>3. GivenOnTheWay(t)'
  BY <1>2, <1>a DEF GivenOnTheWay, PastBounding, PastGroups, PastGid, PastRoot, PastCaps, PastNnp,
                    PastCore, PastDumpable, Inventoried, Filtered
<1>4. fds[t] = ExpectedFds(t) /\ filter[t] # << >> /\ to \in Filtered
  BY <1>2, <1>a DEF FdsOnTheWay, FilterOnTheWay, Inventoried, Filtered
<1> QED
  BY <1>1, <1>2, <1>3, <1>4, <1>a, FreezeMoves DEF Probed, Loop

(* The steps of the runtime child up to the freeze. *)
LEMMA FreezeSrvStep ==
    ASSUME FreezeInv, NEW t \in Starts, SrvStep(t)
    PROVE  FreezeInv'
<1> USE DEF SrvGoes
<1>a. /\ srv \in [Starts -> SrvStates] /\ fds \in [Starts -> SUBSET Fds]
      /\ GivenOnTheWay(t) /\ FdsOnTheWay(t) /\ FilterOnTheWay(t)
  BY DEF FreezeInv, StartsTyped
<1>1. CASE DropIdentity(t)
  <2>1. CASE Gives(t, "bounding", "setgroups", "bounding", FALSE)
    BY <2>1, FreezeGives
       DEF SrvStates, PreExec, Freeze, Privileges, PastBounding, PastGroups, PastGid, PastRoot, PastCaps, PastNnp, PastCore, PastDumpable,
           Inventoried, Filtered, Probed, Loop
  <2>2. CASE Gives(t, "setgroups", "setgid", "groups", FALSE)
    BY <2>2, FreezeGives
       DEF SrvStates, PreExec, Freeze, Privileges, PastBounding, PastGroups, PastGid, PastRoot, PastCaps, PastNnp, PastCore, PastDumpable,
           Inventoried, Filtered, Probed, Loop
  <2>3. CASE Gives(t, "setgid", "setuid", "gid", FALSE)
    BY <2>3, FreezeGives
       DEF SrvStates, PreExec, Freeze, Privileges, PastBounding, PastGroups, PastGid, PastRoot, PastCaps, PastNnp, PastCore, PastDumpable,
           Inventoried, Filtered, Probed, Loop
  <2>4. CASE Gives(t, "setuid", "exec", "uid", TRUE)
    BY <2>4, FreezeGives
       DEF SrvStates, PreExec, Freeze, Privileges, PastBounding, PastGroups, PastGid, PastRoot, PastCaps, PastNnp, PastCore, PastDumpable,
           Inventoried, Filtered, Probed, Loop
  <2> QED
    BY <1>1, FreezeProves, <2>1, <2>2, <2>3, <2>4 DEF DropIdentity, DropBoundingSet, SetIdentity
<1>2. CASE VerifyBeforeFreeze(t)
  <2>1. CASE Gives(t, "caps", "caps?", "caps", TRUE)
    BY <2>1, FreezeGives
       DEF SrvStates, PreExec, Freeze, Privileges, PastBounding, PastGroups, PastGid, PastRoot, PastCaps, PastNnp, PastCore, PastDumpable,
           Inventoried, Filtered, Probed, Loop
  <2>2. CASE Gives(t, "nnp", "nnp?", "nnp", TRUE)
    BY <2>2, FreezeGives
       DEF SrvStates, PreExec, Freeze, Privileges, PastBounding, PastGroups, PastGid, PastRoot, PastCaps, PastNnp, PastCore, PastDumpable,
           Inventoried, Filtered, Probed, Loop
  <2>3. CASE Gives(t, "core", "core?", "core", TRUE)
    BY <2>3, FreezeGives
       DEF SrvStates, PreExec, Freeze, Privileges, PastBounding, PastGroups, PastGid, PastRoot, PastCaps, PastNnp, PastCore, PastDumpable,
           Inventoried, Filtered, Probed, Loop
  <2>4. CASE Gives(t, "dumpable", "dumpable?", "dumpable", TRUE)
    BY <2>4, FreezeGives
       DEF SrvStates, PreExec, Freeze, Privileges, PastBounding, PastGroups, PastGid, PastRoot, PastCaps, PastNnp, PastCore, PastDumpable,
           Inventoried, Filtered, Probed, Loop
  <2> QED
    BY <1>2, FreezeProves, <2>1, <2>2, <2>3, <2>4 DEF VerifyBeforeFreeze, CheckRefusesRoot, ClearCaps, ProveCaps, NoNewPrivs,
         NoCoreDumps, NonDumpable
<1>3. CASE ExecServe(t)
  <2>1. CASE Moves(t, "exec", "handlers")
    BY <2>1, FreezePlainMove
       DEF SrvStates, PreExec, Freeze, PastBounding, PastGroups, PastGid, PastRoot, PastCaps, PastNnp, PastCore, PastDumpable,
           Inventoried, Filtered, Probed, Loop
  <2> QED
    BY <1>3, <2>1 DEF ExecServe
<1>4. CASE Adopt(t)
  <2>1. CASE Moves(t, "adopt", "stat")
    BY <2>1, FreezePlainMove
       DEF SrvStates, PreExec, Freeze, PastBounding, PastGroups, PastGid, PastRoot, PastCaps, PastNnp, PastCore, PastDumpable,
           Inventoried, Filtered, Probed, Loop
  <2> QED
    BY <1>4, <2>1 DEF Adopt
<1>5. CASE StatPath(t)
  <2>1. CASE Moves(t, "stat", "bind")
    BY <2>1, FreezePlainMove
       DEF SrvStates, PreExec, Freeze, PastBounding, PastGroups, PastGid, PastRoot, PastCaps, PastNnp, PastCore, PastDumpable,
           Inventoried, Filtered, Probed, Loop
  <2>2. CASE Moves(t, "stat", "unlink")
    BY <2>2, FreezePlainMove
       DEF SrvStates, PreExec, Freeze, PastBounding, PastGroups, PastGid, PastRoot, PastCaps, PastNnp, PastCore, PastDumpable,
           Inventoried, Filtered, Probed, Loop
  <2>3. CASE srv[t] # "none" /\ Refuses(t)
    BY <2>3, FreezeRefuses
  <2> QED
    BY <1>5, <2>1, <2>2, <2>3 DEF StatPath
<1>6. CASE SecurePath(t)
  <2>1. CASE Moves(t, "chmod", "gate")
    BY <2>1, FreezePlainMove
       DEF SrvStates, PreExec, Freeze, PastBounding, PastGroups, PastGid, PastRoot, PastCaps, PastNnp, PastCore, PastDumpable,
           Inventoried, Filtered, Probed, Loop
  <2>2. CASE srv[t] # "none" /\ Refuses(t)
    BY <2>2, FreezeRefuses
  <2> QED
    BY <1>6, <2>1, <2>2 DEF SecurePath
<1>7. CASE Release(t)
  <2>1. CASE Moves(t, "release", "flush")
    BY <2>1, FreezePlainMove
       DEF SrvStates, PreExec, Freeze, PastBounding, PastGroups, PastGid, PastRoot, PastCaps, PastNnp, PastCore, PastDumpable,
           Inventoried, Filtered, Probed, Loop
  <2> QED
    BY <1>7, <2>1 DEF Release
<1>8. CASE SrvInstalls(t)
  <2>1. CASE /\ srv[t] = "handlers" /\ srv' = [srv EXCEPT ![t] = "recv"]
           /\ UNCHANGED <<sup, given, scope, filter>>
           /\ fds' \in [Starts -> SUBSET Fds]
           /\ \A s \in Starts \ {t} : fds'[s] = fds[s]
    <3>1. srv'[t] = "recv" /\ "recv" \in SrvStates
      BY <2>1, <1>a DEF SrvStates, PreExec, Freeze
    <3>2. GivenOnTheWay(t)'
      BY <1>a, <2>1, <3>1 DEF GivenOnTheWay, PastBounding, PastGroups, PastGid, PastRoot, PastCaps, PastNnp, PastCore, PastDumpable,
             Inventoried, Filtered, Probed, Loop
    <3>3. "recv" \notin Inventoried /\ filter[t] = << >>
      BY <1>a, <2>1 DEF FilterOnTheWay, Inventoried, Filtered, Probed, Loop
    <3> QED
      BY <2>1, <3>1, <3>2, <3>3, FreezeMoves DEF Inventoried, Filtered
  <2> QED
    BY <1>8, <1>a, <2>1 DEF SrvInstalls, supVars, Fds
<1>9. CASE RecvFd(t)
  <2>1. CASE /\ srv[t] = "recv" /\ srv' = [srv EXCEPT ![t] = "close"]
           /\ UNCHANGED <<sup, given, scope, filter>>
           /\ fds' \in [Starts -> SUBSET Fds]
           /\ \A s \in Starts \ {t} : fds'[s] = fds[s]
    <3>1. srv'[t] = "close" /\ "close" \in SrvStates
      BY <2>1, <1>a DEF SrvStates, PreExec, Freeze
    <3>2. GivenOnTheWay(t)'
      BY <1>a, <2>1, <3>1 DEF GivenOnTheWay, PastBounding, PastGroups, PastGid, PastRoot, PastCaps, PastNnp, PastCore, PastDumpable,
             Inventoried, Filtered, Probed, Loop
    <3>3. "close" \notin Inventoried /\ filter[t] = << >>
      BY <1>a, <2>1 DEF FilterOnTheWay, Inventoried, Filtered, Probed, Loop
    <3> QED
      BY <2>1, <3>1, <3>2, <3>3, FreezeMoves DEF Inventoried, Filtered
  <2> QED
    BY <1>9, <1>a, <2>1 DEF RecvFd, supVars, Fds
<1>10. CASE CloseHandoff(t)
  <2>1. CASE /\ srv[t] = "close" /\ srv' = [srv EXCEPT ![t] = "adopt"]
           /\ UNCHANGED <<sup, given, scope, filter>>
           /\ fds' \in [Starts -> SUBSET Fds]
           /\ \A s \in Starts \ {t} : fds'[s] = fds[s]
    <3>1. srv'[t] = "adopt" /\ "adopt" \in SrvStates
      BY <2>1, <1>a DEF SrvStates, PreExec, Freeze
    <3>2. GivenOnTheWay(t)'
      BY <1>a, <2>1, <3>1 DEF GivenOnTheWay, PastBounding, PastGroups, PastGid, PastRoot, PastCaps, PastNnp, PastCore, PastDumpable,
             Inventoried, Filtered, Probed, Loop
    <3>3. "adopt" \notin Inventoried /\ filter[t] = << >>
      BY <1>a, <2>1 DEF FilterOnTheWay, Inventoried, Filtered, Probed, Loop
    <3> QED
      BY <2>1, <3>1, <3>2, <3>3, FreezeMoves DEF Inventoried, Filtered
  <2> QED
    BY <1>10, <1>a, <2>1 DEF CloseHandoff, supVars, Fds
<1>11. CASE UnlinkStale(t)
  <2>1. CASE /\ srv[t] = "unlink" /\ srv' = [srv EXCEPT ![t] = "bind"]
           /\ UNCHANGED <<sup, given, scope, filter>>
           /\ fds' \in [Starts -> SUBSET Fds]
           /\ \A s \in Starts \ {t} : fds'[s] = fds[s]
    <3>1. srv'[t] = "bind" /\ "bind" \in SrvStates
      BY <2>1, <1>a DEF SrvStates, PreExec, Freeze
    <3>2. GivenOnTheWay(t)'
      BY <1>a, <2>1, <3>1 DEF GivenOnTheWay, PastBounding, PastGroups, PastGid, PastRoot, PastCaps, PastNnp, PastCore, PastDumpable,
             Inventoried, Filtered, Probed, Loop
    <3>3. "bind" \notin Inventoried /\ filter[t] = << >>
      BY <1>a, <2>1 DEF FilterOnTheWay, Inventoried, Filtered, Probed, Loop
    <3> QED
      BY <2>1, <3>1, <3>2, <3>3, FreezeMoves DEF Inventoried, Filtered
  <2>2. CASE srv[t] # "none" /\ Refuses(t)
    BY <2>2, FreezeRefuses
  <2> QED
    BY <1>11, <1>a, <2>1, <2>2 DEF UnlinkStale, supVars, Fds
<1>12. CASE Bind(t)
  <2>1. CASE /\ srv[t] = "bind" /\ srv' = [srv EXCEPT ![t] = "chmod"]
           /\ UNCHANGED <<sup, given, scope, filter>>
           /\ fds' \in [Starts -> SUBSET Fds]
           /\ \A s \in Starts \ {t} : fds'[s] = fds[s]
    <3>1. srv'[t] = "chmod" /\ "chmod" \in SrvStates
      BY <2>1, <1>a DEF SrvStates, PreExec, Freeze
    <3>2. GivenOnTheWay(t)'
      BY <1>a, <2>1, <3>1 DEF GivenOnTheWay, PastBounding, PastGroups, PastGid, PastRoot, PastCaps, PastNnp, PastCore, PastDumpable,
             Inventoried, Filtered, Probed, Loop
    <3>3. "chmod" \notin Inventoried /\ filter[t] = << >>
      BY <1>a, <2>1 DEF FilterOnTheWay, Inventoried, Filtered, Probed, Loop
    <3> QED
      BY <2>1, <3>1, <3>2, <3>3, FreezeMoves DEF Inventoried, Filtered
  <2>2. CASE srv[t] # "none" /\ Refuses(t)
    BY <2>2, FreezeRefuses
  <2> QED
    BY <1>12, <1>a, <2>1, <2>2 DEF Bind, supVars, Fds
<1>13. CASE OpenGate(t)
  <2>1. CASE /\ srv[t] = "gate" /\ srv' = [srv EXCEPT ![t] = "root"]
           /\ UNCHANGED <<sup, given, scope, filter>>
           /\ fds' \in [Starts -> SUBSET Fds]
           /\ \A s \in Starts \ {t} : fds'[s] = fds[s]
    <3>1. srv'[t] = "root" /\ "root" \in SrvStates
      BY <2>1, <1>a DEF SrvStates, PreExec, Freeze
    <3>2. GivenOnTheWay(t)'
      BY <1>a, <2>1, <3>1 DEF GivenOnTheWay, PastBounding, PastGroups, PastGid, PastRoot, PastCaps, PastNnp, PastCore, PastDumpable,
             Inventoried, Filtered, Probed, Loop
    <3>3. "root" \notin Inventoried /\ filter[t] = << >>
      BY <1>a, <2>1 DEF FilterOnTheWay, Inventoried, Filtered, Probed, Loop
    <3> QED
      BY <2>1, <3>1, <3>2, <3>3, FreezeMoves DEF Inventoried, Filtered
  <2> QED
    BY <1>13, <1>a, <2>1 DEF OpenGate, supVars, Fds
<1>14. CASE FdInventory(t)
  <2>1. CASE fds[t] = ExpectedFds(t) /\ Moves(t, "fds?", "seccomp")
    BY <2>1, FreezePlainMove
       DEF SrvStates, PreExec, Freeze, PastBounding, PastGroups, PastGid, PastRoot, PastCaps, PastNnp, PastCore, PastDumpable,
           Inventoried, Filtered, Probed, Loop
  <2>2. CASE srv[t] # "none" /\ Refuses(t)
    BY <2>2, FreezeRefuses
  <2> QED
    BY <1>14, <2>1, <2>2 DEF FdInventory
<1>15. CASE InstallFilter(t)
  <2>1. /\ srv[t] = "seccomp" /\ srv'[t] = "probe" /\ srv' = [srv EXCEPT ![t] = "probe"]
        /\ UNCHANGED <<sup, given, fds, scope>>
    BY <1>15, <1>a DEF InstallFilter, supVars
  <2>2. Gate(t)' = Gate(t) /\ ExpectedFds(t)' = ExpectedFds(t)
    BY <2>1 DEF Gate, ExpectedFds
  <2>3. /\ DOMAIN filter' = Starts
        /\ \A s \in Starts \ {t} : filter'[s] = filter[s]
        /\ filter'[t] \in {<< >>, BuildFilterProgram(Gate(t))}
    BY <1>15, <1>a DEF InstallFilter, FilterOnTheWay, FreezeInv, StartsTyped
  <2>4. BuildFilterProgram(Gate(t))' = BuildFilterProgram(Gate(t))
    BY <2>2 DEF BuildFilterProgram, AllowlistChain, AllowlistChainLen
  <2>5. StartsTyped'
    BY <2>1, <2>3 DEF FreezeInv, StartsTyped, SrvStates, Freeze
  <2>6. GivenOnTheWay(t)'
    BY <1>a, <2>1 DEF GivenOnTheWay, PastBounding, PastGroups, PastGid, PastRoot, PastCaps, PastNnp, PastCore, PastDumpable,
           Inventoried, Filtered, Probed, Loop
  <2>7. FdsOnTheWay(t)'
    BY <1>a, <2>1, <2>2 DEF FdsOnTheWay, PastBounding, PastGroups, PastGid, PastRoot, PastCaps, PastNnp, PastCore, PastDumpable,
           Inventoried, Filtered, Probed, Loop
  <2>8. FilterOnTheWay(t)'
    BY <2>1, <2>3, <2>4 DEF FilterOnTheWay, Filtered, Probed, Loop
  <2>9. \A s \in Starts \ {t} : srv'[s] = srv[s]
    BY <2>1, <1>a
  <2> QED
    BY <2>1, <2>3, <2>5, <2>6, <2>7, <2>8, <2>9, FreezeByStart
<1>16. CASE ProveEnforced(t)
  <2>1. CASE ProbesAllDenied(filter[t], Gate(t)) /\ Moves(t, "probe", "phases")
    <3>1. filter[t] # << >>
      BY <2>1, NoProgramAllows, "allow" # "eperm", Zenon DEF ProbesAllDenied, ProbeDenied
    <3> QED
      BY <2>1, <3>1, FreezePlainMove
         DEF SrvStates, PreExec, Freeze, PastBounding, PastGroups, PastGid, PastRoot, PastCaps, PastNnp, PastCore, PastDumpable,
             Inventoried, Filtered, Probed, Loop
  <2>2. CASE srv[t] # "none" /\ Refuses(t)
    BY <2>2, FreezeRefuses
  <2> QED
    BY <1>16, <2>1, <2>2 DEF ProveEnforced
<1>17. CASE EnterServing(t)
  BY <1>17, <1>a, FreezeServing DEF EnterServing, supVars
<1>18. CASE LeaveServing(t)
  BY <1>18, <1>a, FreezeServing DEF LeaveServing, LeavesLoop, supVars
<1>19. CASE FlushAndExit(t)
  BY <1>19, FreezeExits DEF FlushAndExit, supVars, SrvEnded, Ended, FreezeInv, StartsTyped,
                        FdsOnTheWay
<1>20. CASE SrvFails(t)
  BY <1>20, FreezeRefuses DEF SrvFails, PreExec, Freeze
<1> QED
  BY <1>1, <1>2, <1>3, <1>4, <1>5, <1>6, <1>7, <1>8, <1>9, <1>10, <1>11, <1>12, <1>13, <1>14, <1>15, <1>16, <1>17, <1>18, <1>19, <1>20
     DEF SrvStep

(* The bootstrap child, and what the environment does. *)
LEMMA FreezeOtherStep ==
    ASSUME FreezeInv, NEW t \in Starts, InitStep(t) \/ Outside(t)
    PROVE  FreezeInv'
<1>a. /\ sup \in [Starts -> SupStates]
      /\ (sup[t] \in BeforeFork => srv[t] = "none")
      /\ FilterOnTheWay(t)
  BY DEF FreezeInv, StartsTyped, FdsOnTheWay
<1>1. CASE InitStep(t) \/ InitEnds(t, "killed") \/ Meddle(t)
  BY <1>1, FreezeUnchanged
     DEF InitStep, InitClosesEnd, InitConfigures, DevCreate, InitVerifies, SendFd, InitExits,
         InitEnds, Meddle, supVars, srvVars
<1>2. CASE Start(t)
  <2>1. /\ srv[t] = "none" /\ filter[t] = << >>
        /\ sup'[t] = "config" /\ srv'[t] = "none" /\ filter'[t] = << >>
    BY <1>2, <1>a DEF Start, SupGoes, BeforeFork, FilterOnTheWay, Filtered, Probed, Loop
  <2>2. StartsTyped'
    BY <1>2 DEF Start, SupGoes, FreezeInv, StartsTyped, SupStates, Fds
  <2>3. GivenOnTheWay(t)' /\ FdsOnTheWay(t)' /\ FilterOnTheWay(t)'
    BY <2>1 DEF GivenOnTheWay, FdsOnTheWay, FilterOnTheWay, PastBounding, PastGroups, PastGid,
           PastRoot, PastCaps, PastNnp, PastCore, PastDumpable, Inventoried, Filtered, Probed, Loop
  <2>4. \A s \in Starts \ {t} : sup'[s] = sup[s] /\ fds'[s] = fds[s]
    BY <1>2 DEF Start, SupGoes, FreezeInv, StartsTyped
  <2> QED
    BY <1>2, <2>2, <2>3, <2>4, FreezeByStart DEF Start
<1>3. CASE SignalSupervisor(t)
  <2>1. CASE supCatches[t]
    BY <1>3, <2>1, FreezeUnchanged DEF SignalSupervisor, srvVars
  <2>2. CASE ~ supCatches[t]
    BY <1>3, <2>2, FreezeSupMoves DEF SignalSupervisor, SupStates, Ended, BeforeFork
  <2> QED
    BY <2>1, <2>2
<1>4. CASE SignalServe(t)
  <2>1. CASE srvCatches[t]
    BY <1>4, <2>1, FreezeUnchanged DEF SignalServe, Terminate, supVars
  <2>2. CASE ~ srvCatches[t]
    BY <1>4, <1>a, <2>2, FreezeExits DEF SignalServe, Terminate, supVars, SrvEnded, Ended
  <2> QED
    BY <2>1, <2>2
<1>5. CASE KillServe(t)
  BY <1>5, <1>a, FreezeExits DEF KillServe, supVars, SrvEnded, Ended
<1>6. CASE PollFails(t)
  BY <1>6, FreezeServing DEF PollFails, LeavesLoop, SrvGoes, supVars
<1> QED
  BY <1>1, <1>2, <1>3, <1>4, <1>5, <1>6 DEF Outside

\* The invariant about the order of the freeze holds throughout.
LEMMA FreezeInvariant == Spec => []FreezeInv
<1>1. Init => FreezeInv
  <2> SUFFICES ASSUME Init PROVE FreezeInv
    OBVIOUS
  <2>1. StartsTyped
    BY DEF Init, StartsTyped, SupStates, SrvStates, Scopes
  <2>2. ASSUME NEW s \in Starts PROVE GivenOnTheWay(s) /\ FdsOnTheWay(s) /\ FilterOnTheWay(s)
    BY DEF Init, GivenOnTheWay, FdsOnTheWay, FilterOnTheWay, PastBounding, PastGroups, PastGid,
           PastRoot, PastCaps, PastNnp, PastCore, PastDumpable, Inventoried, Filtered, Probed, Loop
  <2> QED
    BY <2>1, <2>2 DEF FreezeInv
<1>2. FreezeInv /\ [Next]_vars => FreezeInv'
  <2>1. ASSUME FreezeInv, Next PROVE FreezeInv'
    <3>1. PICK t \in Starts : SupStep(t) \/ InitStep(t) \/ SrvStep(t) \/ Outside(t)
      BY <2>1 DEF Next
    <3> QED
      BY <2>1, <3>1, FreezeSupStep, FreezeSrvStep, FreezeOtherStep
  <2>2. ASSUME FreezeInv, UNCHANGED vars PROVE FreezeInv'
    BY <2>2, FreezeUnchanged DEF vars, supVars, srvVars
  <2> QED
    BY <2>1, <2>2
<1> QED
  BY <1>1, <1>2, PTL DEF Spec

(* Whatever the system calls reported, whoever signalled and in whatever     *)
(* order the three processes ran, a broker in its loop has given up every    *)
(* privilege, holds the descriptors expected_fds names and runs under the    *)
(* program build_filter_program made for its gate (serve.rs run,             *)
(* verify_before_freeze, fd_inventory, prove_enforced).                      *)
THEOREM ServesFrozen == Spec => []FrozenWhileServing
<1>1. ASSUME FreezeInv, NEW s \in Starts, srv[s] \in Loop
      PROVE  /\ given[s] = Privileges
             /\ fds[s] = ExpectedFds(s)
             /\ filter[s] = BuildFilterProgram(Gate(s))
  <2>1. GivenOnTheWay(s) /\ FdsOnTheWay(s) /\ FilterOnTheWay(s) /\ given[s] \subseteq Privileges
    BY <1>1 DEF FreezeInv, StartsTyped
  <2>2. Privileges \subseteq given[s]
    BY <1>1, <2>1 DEF Privileges, GivenOnTheWay, PastBounding, PastGroups, PastGid,
           PastRoot, PastCaps, PastNnp, PastCore, PastDumpable, Inventoried, Filtered, Probed, Loop
  <2>3. fds[s] = ExpectedFds(s)
    BY <1>1, <2>1 DEF FdsOnTheWay, Inventoried, Filtered, Probed
  <2>4. filter[s] = BuildFilterProgram(Gate(s))
    BY <1>1, <2>1 DEF FilterOnTheWay, Probed
  <2> QED
    BY <2>1, <2>2, <2>3, <2>4
<1>2. FreezeInv => FrozenWhileServing
  BY <1>1 DEF FrozenWhileServing, Loop
<1> QED
  BY <1>2, FreezeInvariant, PTL

-----------------------------------------------------------------------------
(* The exit, step by step.                                                   *)

(* The step of one start leaves the others alone. *)
LEMMA HandoffByStart ==
    ASSUME NEW t \in Starts, HandoffInv, HandoffTyped',
           \A s \in Starts \ {t} : /\ sup'[s] = sup[s] /\ ini'[s] = ini[s] /\ srv'[s] = srv[s]
                                   /\ srvEnd'[s] = srvEnd[s] /\ device'[s] = device[s],
           HoldersLive(t)', ChildrenInOrder(t)'
    PROVE  HandoffInv'
<1>1. SUFFICES ASSUME NEW s \in Starts, s # t
               PROVE  HoldersLive(s)' /\ ChildrenInOrder(s)'
  BY DEF HandoffInv
<1>2. /\ sup'[s] = sup[s] /\ ini'[s] = ini[s] /\ srv'[s] = srv[s]
      /\ srvEnd'[s] = srvEnd[s] /\ device'[s] = device[s]
  BY <1>1
<1> QED
  BY <1>1, <1>2 DEF HandoffInv, HoldersLive, ChildrenInOrder

\* A step outside the processes and what they share keeps the invariant.
LEMMA HandoffUnchanged ==
    ASSUME HandoffInv, UNCHANGED <<sup, ini, srv, srvEnd, device>>
    PROVE  HandoffInv'
BY DEF HandoffInv, HandoffTyped, HoldersLive, ChildrenInOrder

(* Closing the serve end in a process, and whatever of the device it held,   *)
(* leaves nothing of the two to that process.                                *)
LEMMA CloseLocal ==
    ASSUME HandoffInv, NEW t \in Starts, NEW p \in {"sup", "init", "serve"},
           NEW held \in SUBSET device[t], CloseSrvEnd(t, p, held)
    PROVE  /\ srvEnd' \in [Starts -> SUBSET {"sup", "init", "serve"}]
           /\ device' \in [Starts -> SUBSET {"init", "message", "serve"}]
           /\ \A s \in Starts \ {t} : srvEnd'[s] = srvEnd[s] /\ device'[s] = device[s]
           /\ srvEnd'[t] = srvEnd[t] \ {p}
           /\ device'[t] \subseteq held
           /\ "message" \in device'[t] => srvEnd'[t] # {}
<1>1. /\ srvEnd \in [Starts -> SUBSET {"sup", "init", "serve"}]
      /\ device \in [Starts -> SUBSET {"init", "message", "serve"}]
  BY DEF HandoffInv, HandoffTyped
<1>2. srvEnd' = [srvEnd EXCEPT ![t] = @ \ {p}]
  BY DEF CloseSrvEnd
<1> DEFINE rest == held \ (IF srvEnd[t] \subseteq {p} THEN {"message"} ELSE {})
<1>3. /\ device' = [device EXCEPT ![t] = rest]
      /\ rest \subseteq held /\ (srvEnd[t] \subseteq {p} => "message" \notin rest)
  BY DEF CloseSrvEnd
<1> HIDE DEF rest
<1>4. device[t] \subseteq {"init", "message", "serve"}
  BY <1>1
<1>5. device' \in [Starts -> SUBSET {"init", "message", "serve"}] /\ device'[t] = rest
      /\ \A s \in Starts \ {t} : device'[s] = device[s]
  BY <1>1, <1>3, <1>4
<1>6. srvEnd' \in [Starts -> SUBSET {"sup", "init", "serve"}] /\ srvEnd'[t] = srvEnd[t] \ {p}
      /\ \A s \in Starts \ {t} : srvEnd'[s] = srvEnd[s]
  BY <1>1, <1>2
<1> QED
  BY <1>3, <1>5, <1>6

(* A runtime child that ends, whatever its supervisor does in the same step. *)
LEMMA HandoffExits ==
    ASSUME HandoffInv, NEW t \in Starts, NEW how \in SrvEnded, SrvExits(t, how), ini' = ini,
           sup' \in [Starts -> SupStates],
           \A s \in Starts \ {t} : sup'[s] = sup[s],
           sup'[t] \notin BeforeFork,
           sup'[t] = sup[t] \/ (sup[t] = "wait" /\ sup'[t] = "reap")
    PROVE  HandoffInv'
<1>1. /\ srv \in [Starts -> SrvStates] /\ srv' = [srv EXCEPT ![t] = how] /\ how \in SrvGone
      /\ SrvGone \subseteq SrvStates
  BY DEF SrvExits, HandoffInv, HandoffTyped, SrvGone, SrvStates, SrvEnded
<1>2. /\ srv' \in [Starts -> SrvStates] /\ srv'[t] \in SrvGone
      /\ \A s \in Starts \ {t} : srv'[s] = srv[s]
  BY <1>1
<1>3. /\ srvEnd' \in [Starts -> SUBSET {"sup", "init", "serve"}]
      /\ device' \in [Starts -> SUBSET {"init", "message", "serve"}]
      /\ \A s \in Starts \ {t} : srvEnd'[s] = srvEnd[s] /\ device'[s] = device[s]
      /\ srvEnd'[t] = srvEnd[t] \ {"serve"}
      /\ device'[t] \subseteq device[t] \ {"serve"}
      /\ "message" \in device'[t] => srvEnd'[t] # {}
  BY CloseLocal DEF SrvExits, CloseAll
<1>4. HoldersLive(t) /\ ChildrenInOrder(t)
  BY DEF HandoffInv
<1>5. HoldersLive(t)'
  BY <1>2, <1>3, <1>4 DEF HoldersLive, BeforeFork
<1>6. ChildrenInOrder(t)'
  BY <1>2, <1>4 DEF ChildrenInOrder, BeforeFork
<1>7. HandoffTyped'
  BY <1>2, <1>3 DEF HandoffInv, HandoffTyped
<1> QED
  BY <1>2, <1>3, <1>5, <1>6, <1>7, HandoffByStart

(* A runtime child that goes on: it lives before and after. *)
LEMMA HandoffMoves ==
    ASSUME HandoffInv, NEW t \in Starts, NEW from \in SrvStates \ SrvGone,
           NEW to \in SrvStates \ SrvGone, SrvGoes(t, from, to),
           UNCHANGED <<sup, ini, srvEnd, device>>
    PROVE  HandoffInv'
<1>1. /\ srv' \in [Starts -> SrvStates] /\ srv[t] = from /\ srv'[t] = to
      /\ \A s \in Starts \ {t} : srv'[s] = srv[s]
  BY DEF SrvGoes, HandoffInv, HandoffTyped
<1>2. HoldersLive(t) /\ ChildrenInOrder(t)
  BY DEF HandoffInv
<1>3. HoldersLive(t)' /\ ChildrenInOrder(t)'
  BY <1>1, <1>2 DEF HoldersLive, ChildrenInOrder, SrvGone
<1>4. HandoffTyped'
  BY <1>1 DEF HandoffInv, HandoffTyped
<1> QED
  BY <1>1, <1>3, <1>4, HandoffByStart

\* A serving child that gives up lets go of its end and of the device.
LEMMA HandoffRefuses ==
    ASSUME HandoffInv, NEW t \in Starts, srv[t] # "none", Refuses(t)
    PROVE  HandoffInv'
<1>1. SrvExits(t, IF srv[t] \in PreExec THEN "noexec" ELSE "failed") /\ sup' = sup /\ ini' = ini
  BY DEF Refuses, supVars
<1>2. (IF srv[t] \in PreExec THEN "noexec" ELSE "failed") \in SrvEnded
  BY DEF SrvEnded, Ended
<1>3. sup' \in [Starts -> SupStates] /\ sup'[t] \notin BeforeFork
  BY <1>1 DEF HandoffInv, HandoffTyped, ChildrenInOrder
<1> QED
  BY <1>1, <1>2, <1>3, HandoffExits

(* The steps of the supervisor: it gives up only with both children gone. *)
LEMMA HandoffSupStep ==
    ASSUME HandoffInv, NEW t \in Starts, SupStep(t) \/ SignalSupervisor(t) \/ Start(t)
    PROVE  HandoffInv'
<1> USE DEF SupGoes
<1>a. /\ sup \in [Starts -> SupStates] /\ ini \in [Starts -> InitStates]
      /\ srv \in [Starts -> SrvStates]
      /\ srvEnd \in [Starts -> SUBSET {"sup", "init", "serve"}]
      /\ device \in [Starts -> SUBSET {"init", "message", "serve"}]
      /\ HoldersLive(t) /\ ChildrenInOrder(t)
  BY DEF HandoffInv, HandoffTyped
<1>1. CASE Start(t)
  <2>1. /\ sup'[t] = "config" /\ sup' \in [Starts -> SupStates]
        /\ \A s \in Starts \ {t} : sup'[s] = sup[s]
        /\ UNCHANGED <<ini, srv, srvEnd, device>>
    BY <1>1, <1>a DEF Start, SupStates, srvVars
  <2>2. HoldersLive(t)' /\ ChildrenInOrder(t)'
    BY <1>1, <1>a, <2>1 DEF Start, HoldersLive, ChildrenInOrder, BeforeFork
  <2>3. HandoffTyped'
    BY <1>a, <2>1 DEF HandoffTyped
  <2> QED
    BY <2>1, <2>2, <2>3, HandoffByStart
<1>2. CASE LoadConfig(t)
  <2>1. /\ sup'[t] = "identity" /\ sup' \in [Starts -> SupStates]
        /\ \A s \in Starts \ {t} : sup'[s] = sup[s]
        /\ UNCHANGED <<ini, srv, srvEnd, device>>
    BY <1>2, <1>a DEF LoadConfig, SupStates, srvVars
  <2>2. HoldersLive(t)' /\ ChildrenInOrder(t)'
    BY <1>2, <1>a, <2>1 DEF LoadConfig, HoldersLive, ChildrenInOrder, BeforeFork
  <2>3. HandoffTyped'
    BY <1>a, <2>1 DEF HandoffTyped
  <2> QED
    BY <2>1, <2>2, <2>3, HandoffByStart
<1>3. CASE ResolveIdentity(t)
  <2>1. /\ sup'[t] = "pair" /\ sup' \in [Starts -> SupStates]
        /\ \A s \in Starts \ {t} : sup'[s] = sup[s]
        /\ UNCHANGED <<ini, srv, srvEnd, device>>
    BY <1>3, <1>a DEF ResolveIdentity, SupStates, srvVars
  <2>2. HoldersLive(t)' /\ ChildrenInOrder(t)'
    BY <1>3, <1>a, <2>1 DEF ResolveIdentity, HoldersLive, ChildrenInOrder, BeforeFork
  <2>3. HandoffTyped'
    BY <1>a, <2>1 DEF HandoffTyped
  <2> QED
    BY <2>1, <2>2, <2>3, HandoffByStart
<1>4. CASE SupInstalls(t)
  <2>1. /\ sup'[t] = "wait" /\ sup' \in [Starts -> SupStates]
        /\ \A s \in Starts \ {t} : sup'[s] = sup[s]
        /\ UNCHANGED <<ini, srv, srvEnd, device>>
    BY <1>4, <1>a DEF SupInstalls, SupStates, srvVars
  <2>2. HoldersLive(t)' /\ ChildrenInOrder(t)'
    BY <1>4, <1>a, <2>1 DEF SupInstalls, HoldersLive, ChildrenInOrder, BeforeFork
  <2>3. HandoffTyped'
    BY <1>a, <2>1 DEF HandoffTyped
  <2> QED
    BY <2>1, <2>2, <2>3, HandoffByStart
<1>5. CASE SpawnInit(t)
  <2>1. /\ sup[t] = "pair" /\ sup'[t] = "init" /\ ini'[t] = "close" /\ srvEnd'[t] = {"sup", "init"}
        /\ UNCHANGED <<srv, device>>
        /\ \A s \in Starts \ {t} : sup'[s] = sup[s] /\ ini'[s] = ini[s] /\ srvEnd'[s] = srvEnd[s]
    BY <1>5, <1>a DEF SpawnInit, srvVars
  <2>2. HandoffTyped'
    BY <1>5, <1>a DEF SpawnInit, HandoffTyped, SupStates, InitStates, srvVars
  <2>3. HoldersLive(t)' /\ ChildrenInOrder(t)'
    BY <1>a, <2>1 DEF HoldersLive, ChildrenInOrder, BeforeFork, InitGone, Ended
  <2> QED
    BY <2>1, <2>2, <2>3, HandoffByStart
<1>6. CASE InitSucceeded(t)
  <2>1. /\ ini[t] = "ok" /\ sup'[t] = "spawn" /\ srv'[t] = "bounding"
        /\ srvEnd'[t] = srvEnd[t] \cup {"serve"}
        /\ UNCHANGED <<ini, device>>
        /\ \A s \in Starts \ {t} : sup'[s] = sup[s] /\ srv'[s] = srv[s] /\ srvEnd'[s] = srvEnd[s]
    BY <1>6, <1>a DEF InitSucceeded
  <2>2. HandoffTyped'
    BY <1>6, <1>a DEF InitSucceeded, HandoffTyped, SupStates, SrvStates, PreExec
  <2>3. HoldersLive(t)' /\ ChildrenInOrder(t)'
    BY <1>a, <2>1 DEF HoldersLive, ChildrenInOrder, BeforeFork, SrvGone, SrvEnded, Ended
  <2> QED
    BY <2>1, <2>2, <2>3, HandoffByStart
<1>7. CASE InitFailed(t)
  <2>1. /\ sup'[t] = "failed" /\ sup' \in [Starts -> SupStates]
        /\ \A s \in Starts \ {t} : sup'[s] = sup[s]
        /\ UNCHANGED <<ini, srv>>
    BY <1>7, <1>a DEF InitFailed, SupStates, Ended, srvVars
  <2>2. /\ srvEnd' \in [Starts -> SUBSET {"sup", "init", "serve"}]
        /\ device' \in [Starts -> SUBSET {"init", "message", "serve"}]
        /\ \A s \in Starts \ {t} : srvEnd'[s] = srvEnd[s] /\ device'[s] = device[s]
        /\ srvEnd'[t] = srvEnd[t] \ {"sup"}
        /\ device'[t] \subseteq device[t]
        /\ "message" \in device'[t] => srvEnd'[t] # {}
    <3>1. PICK held \in SUBSET device[t] : CloseSrvEnd(t, "sup", held)
      BY <1>7 DEF InitFailed, CloseAll
    <3> QED
      BY <3>1, CloseLocal
  <2>3. HoldersLive(t)'
    BY <1>a, <2>1, <2>2 DEF HoldersLive
  <2>4. ChildrenInOrder(t)'
    BY <1>7, <1>a, <2>1 DEF InitFailed, ChildrenInOrder, BeforeFork, InitGone, SrvGone, SrvEnded, Ended
  <2>5. HandoffTyped'
    BY <1>a, <2>1, <2>2 DEF HandoffTyped
  <2> QED
    BY <2>1, <2>2, <2>3, <2>4, <2>5, HandoffByStart
<1>8. CASE SpawnReturns(t)
  <2>1. /\ sup'[t] = "install" /\ sup' \in [Starts -> SupStates]
        /\ \A s \in Starts \ {t} : sup'[s] = sup[s]
        /\ UNCHANGED <<ini, srv>>
    BY <1>8, <1>a DEF SpawnReturns, SupStates, Ended, srvVars
  <2>2. /\ srvEnd' \in [Starts -> SUBSET {"sup", "init", "serve"}]
        /\ device' \in [Starts -> SUBSET {"init", "message", "serve"}]
        /\ \A s \in Starts \ {t} : srvEnd'[s] = srvEnd[s] /\ device'[s] = device[s]
        /\ srvEnd'[t] = srvEnd[t] \ {"sup"}
        /\ device'[t] \subseteq device[t]
        /\ "message" \in device'[t] => srvEnd'[t] # {}
    <3>1. PICK held \in SUBSET device[t] : CloseSrvEnd(t, "sup", held)
      BY <1>8 DEF SpawnReturns, CloseAll
    <3> QED
      BY <3>1, CloseLocal
  <2>3. HoldersLive(t)'
    BY <1>a, <2>1, <2>2 DEF HoldersLive
  <2>4. ChildrenInOrder(t)'
    BY <1>8, <1>a, <2>1 DEF SpawnReturns, ChildrenInOrder, BeforeFork, InitGone, SrvGone, SrvEnded, Ended
  <2>5. HandoffTyped'
    BY <1>a, <2>1, <2>2 DEF HandoffTyped
  <2> QED
    BY <2>1, <2>2, <2>3, <2>4, <2>5, HandoffByStart
<1>9. CASE SpawnFails(t)
  <2>1. /\ sup'[t] = "failed" /\ sup' \in [Starts -> SupStates]
        /\ \A s \in Starts \ {t} : sup'[s] = sup[s]
        /\ UNCHANGED <<ini, srv>>
    BY <1>9, <1>a DEF SpawnFails, SupStates, Ended, srvVars
  <2>2. /\ srvEnd' \in [Starts -> SUBSET {"sup", "init", "serve"}]
        /\ device' \in [Starts -> SUBSET {"init", "message", "serve"}]
        /\ \A s \in Starts \ {t} : srvEnd'[s] = srvEnd[s] /\ device'[s] = device[s]
        /\ srvEnd'[t] = srvEnd[t] \ {"sup"}
        /\ device'[t] \subseteq device[t]
        /\ "message" \in device'[t] => srvEnd'[t] # {}
    <3>1. PICK held \in SUBSET device[t] : CloseSrvEnd(t, "sup", held)
      BY <1>9 DEF SpawnFails, CloseAll
    <3> QED
      BY <3>1, CloseLocal
  <2>3. HoldersLive(t)'
    BY <1>a, <2>1, <2>2 DEF HoldersLive
  <2>4. ChildrenInOrder(t)'
    BY <1>9, <1>a, <2>1 DEF SpawnFails, ChildrenInOrder, BeforeFork, InitGone, SrvGone, SrvEnded, Ended
  <2>5. HandoffTyped'
    BY <1>a, <2>1, <2>2 DEF HandoffTyped
  <2> QED
    BY <2>1, <2>2, <2>3, <2>4, <2>5, HandoffByStart
<1>10. CASE ConfigRefused(t) \/ IdentityRefused(t) \/ SupFails(t)
  <2>1. /\ sup'[t] = "failed" /\ sup' \in [Starts -> SupStates]
        /\ \A s \in Starts \ {t} : sup'[s] = sup[s]
        /\ UNCHANGED <<ini, srv>>
    BY <1>10, <1>a DEF ConfigRefused, IdentityRefused, SupFails, SupGivesUp, SupStates, Ended, srvVars
  <2>2. /\ srvEnd' \in [Starts -> SUBSET {"sup", "init", "serve"}]
        /\ device' \in [Starts -> SUBSET {"init", "message", "serve"}]
        /\ \A s \in Starts \ {t} : srvEnd'[s] = srvEnd[s] /\ device'[s] = device[s]
        /\ srvEnd'[t] = srvEnd[t] \ {"sup"}
        /\ device'[t] \subseteq device[t]
        /\ "message" \in device'[t] => srvEnd'[t] # {}
    <3>1. PICK held \in SUBSET device[t] : CloseSrvEnd(t, "sup", held)
      BY <1>10 DEF ConfigRefused, IdentityRefused, SupFails, SupGivesUp, CloseAll
    <3> QED
      BY <3>1, CloseLocal
  <2>3. HoldersLive(t)'
    BY <1>a, <2>1, <2>2 DEF HoldersLive
  <2>4. ChildrenInOrder(t)'
    BY <1>10, <1>a, <2>1 DEF ConfigRefused, IdentityRefused, SupFails, SupGivesUp, ChildrenInOrder, BeforeFork, InitGone, SrvGone, SrvEnded, Ended
  <2>5. HandoffTyped'
    BY <1>a, <2>1, <2>2 DEF HandoffTyped
  <2> QED
    BY <2>1, <2>2, <2>3, <2>4, <2>5, HandoffByStart
<1>11. CASE SignalSupervisor(t) /\ ~ supCatches[t]
  <2>1. /\ sup'[t] = "killed" /\ sup' \in [Starts -> SupStates]
        /\ \A s \in Starts \ {t} : sup'[s] = sup[s]
        /\ UNCHANGED <<ini, srv>>
    BY <1>11, <1>a DEF SignalSupervisor, SupStates, Ended, srvVars
  <2>2. /\ srvEnd' \in [Starts -> SUBSET {"sup", "init", "serve"}]
        /\ device' \in [Starts -> SUBSET {"init", "message", "serve"}]
        /\ \A s \in Starts \ {t} : srvEnd'[s] = srvEnd[s] /\ device'[s] = device[s]
        /\ srvEnd'[t] = srvEnd[t] \ {"sup"}
        /\ device'[t] \subseteq device[t]
        /\ "message" \in device'[t] => srvEnd'[t] # {}
    <3>1. PICK held \in SUBSET device[t] : CloseSrvEnd(t, "sup", held)
      BY <1>11 DEF SignalSupervisor, CloseAll
    <3> QED
      BY <3>1, CloseLocal
  <2>3. HoldersLive(t)'
    BY <1>a, <2>1, <2>2 DEF HoldersLive
  <2>4. ChildrenInOrder(t)'
    BY <1>11, <1>a, <2>1 DEF SignalSupervisor, ChildrenInOrder, BeforeFork, InitGone, SrvGone, SrvEnded, Ended
  <2>5. HandoffTyped'
    BY <1>a, <2>1, <2>2 DEF HandoffTyped
  <2> QED
    BY <2>1, <2>2, <2>3, <2>4, <2>5, HandoffByStart
<1>12. CASE SignalSupervisor(t) /\ supCatches[t]
  BY <1>12, HandoffUnchanged DEF SignalSupervisor, srvVars
<1>13. CASE SupReaps(t)
  <2>1. /\ sup'[t] \in {"ok", "failed"} /\ sup' \in [Starts -> SupStates]
        /\ sup[t] \in {"wait", "reap"} /\ srv[t] \in SrvEnded
        /\ \A s \in Starts \ {t} : sup'[s] = sup[s]
        /\ UNCHANGED <<ini, srv, srvEnd, device>>
    BY <1>13, <1>a DEF SupReaps, SupStates, Ended, srvVars
  <2>2. HoldersLive(t)' /\ ChildrenInOrder(t)'
    BY <1>a, <2>1 DEF HoldersLive, ChildrenInOrder, BeforeFork, InitGone, SrvGone, Ended
  <2>3. HandoffTyped'
    BY <1>a, <2>1 DEF HandoffTyped
  <2> QED
    BY <2>1, <2>2, <2>3, HandoffByStart
<1>14. CASE Forward(t)
  <2>1. /\ sup[t] = "wait" /\ sup'[t] = "reap" /\ sup' \in [Starts -> SupStates]
        /\ \A s \in Starts \ {t} : sup'[s] = sup[s]
        /\ ini' = ini /\ "reap" \notin BeforeFork
    BY <1>14, <1>a DEF Forward, SupStates, BeforeFork
  <2>2. CASE SrvExits(t, "killed")
    BY <2>1, <2>2, HandoffExits DEF SrvEnded, Ended
  <2>3. CASE UNCHANGED <<srv, srvEnd, device>>
    <3>1. HoldersLive(t)' /\ ChildrenInOrder(t)'
      BY <1>a, <2>1, <2>3 DEF HoldersLive, ChildrenInOrder, BeforeFork
    <3>2. HandoffTyped'
      BY <1>a, <2>1, <2>3 DEF HandoffTyped
    <3> QED
      BY <2>1, <2>3, <3>1, <3>2, HandoffByStart
  <2> QED
    BY <1>14, <2>2, <2>3 DEF Forward, Terminate, srvVars
<1> QED
  BY <1>1, <1>2, <1>3, <1>4, <1>5, <1>6, <1>7, <1>8, <1>9, <1>10, <1>11, <1>12, <1>13, <1>14 DEF SupStep

(* The steps of the bootstrap child, its end included. *)
LEMMA HandoffInitStep ==
    ASSUME HandoffInv, NEW t \in Starts, InitStep(t) \/ InitEnds(t, "killed")
    PROVE  HandoffInv'
<1> USE DEF InitGoes
<1>a. /\ sup \in [Starts -> SupStates] /\ ini \in [Starts -> InitStates]
      /\ srv \in [Starts -> SrvStates]
      /\ srvEnd \in [Starts -> SUBSET {"sup", "init", "serve"}]
      /\ device \in [Starts -> SUBSET {"init", "message", "serve"}]
      /\ HoldersLive(t) /\ ChildrenInOrder(t)
  BY DEF HandoffInv, HandoffTyped
<1>1. CASE InitConfigures(t) \/ InitVerifies(t) \/ DevCreate(t) \/ SendFd(t)
  <2>1. /\ ini[t] \notin InitGone /\ ini'[t] \notin InitGone /\ ini' \in [Starts -> InitStates]
        /\ \A s \in Starts \ {t} : ini'[s] = ini[s] /\ device'[s] = device[s]
        /\ UNCHANGED <<sup, srv, srvEnd>>
    BY <1>1, <1>a DEF InitConfigures, InitVerifies, DevCreate, SendFd, InitStates, InitGone, Ended,
                      supVars, srvVars
  <2>2. /\ device'[t] \subseteq device[t] \cup {"init"} \cup (IF srvEnd[t] = {} THEN {} ELSE {"message"})
        /\ device' \in [Starts -> SUBSET {"init", "message", "serve"}]
    BY <1>1, <1>a DEF InitConfigures, InitVerifies, DevCreate, SendFd
  <2>3. HoldersLive(t)' /\ ChildrenInOrder(t)'
    BY <1>a, <2>1, <2>2 DEF HoldersLive, ChildrenInOrder, InitGone, Ended
  <2>4. HandoffTyped'
    BY <1>a, <2>1, <2>2 DEF HandoffTyped
  <2> QED
    BY <2>1, <2>3, <2>4, HandoffByStart
<1>2. CASE InitClosesEnd(t) \/ InitExits(t) \/ InitEnds(t, "failed") \/ InitEnds(t, "killed")
  <2>1. /\ ini[t] \notin InitGone /\ ini' \in [Starts -> InitStates]
        /\ \A s \in Starts \ {t} : ini'[s] = ini[s]
        /\ UNCHANGED <<sup, srv>>
    BY <1>2, <1>a DEF InitClosesEnd, InitExits, InitEnds, InitStates, InitGone, Ended, supVars, srvVars
  <2>2. PICK held \in SUBSET device[t] : /\ CloseSrvEnd(t, "init", held)
                                         /\ ini'[t] \in InitGone => "init" \notin held
    <3>1. CASE InitClosesEnd(t)
      <4>1. CloseSrvEnd(t, "init", device[t]) /\ ini'[t] \notin InitGone
        BY <3>1, <1>a DEF InitClosesEnd, InitGone, Ended
      <4> QED
        BY <4>1
    <3>2. CASE InitExits(t) \/ InitEnds(t, "failed") \/ InitEnds(t, "killed")
      <4>1. CloseSrvEnd(t, "init", device[t] \ {"init"})
        BY <3>2 DEF InitExits, InitEnds, CloseAll
      <4> QED
        BY <4>1
    <3> QED
      BY <1>2, <3>1, <3>2
  <2>3. /\ srvEnd' \in [Starts -> SUBSET {"sup", "init", "serve"}]
        /\ device' \in [Starts -> SUBSET {"init", "message", "serve"}]
        /\ \A s \in Starts \ {t} : srvEnd'[s] = srvEnd[s] /\ device'[s] = device[s]
        /\ srvEnd'[t] = srvEnd[t] \ {"init"}
        /\ device'[t] \subseteq held
        /\ "message" \in device'[t] => srvEnd'[t] # {}
    BY <2>2, CloseLocal
  <2>4. HoldersLive(t)' /\ ChildrenInOrder(t)'
    BY <1>a, <2>1, <2>2, <2>3 DEF HoldersLive, ChildrenInOrder, InitGone, Ended
  <2>5. HandoffTyped'
    BY <1>a, <2>1, <2>3 DEF HandoffTyped
  <2> QED
    BY <2>1, <2>3, <2>4, <2>5, HandoffByStart
<1> QED
  BY <1>1, <1>2 DEF InitStep

(* The steps of the runtime child, and the signals at it. *)
LEMMA HandoffSrvStep ==
    ASSUME HandoffInv, NEW t \in Starts,
           SrvStep(t) \/ SignalServe(t) \/ KillServe(t) \/ PollFails(t) \/ Meddle(t)
    PROVE  HandoffInv'
<1>a. /\ sup \in [Starts -> SupStates] /\ ini \in [Starts -> InitStates]
      /\ srv \in [Starts -> SrvStates]
      /\ srvEnd \in [Starts -> SUBSET {"sup", "init", "serve"}]
      /\ device \in [Starts -> SUBSET {"init", "message", "serve"}]
      /\ HoldersLive(t) /\ ChildrenInOrder(t)
  BY DEF HandoffInv, HandoffTyped
<1> DEFINE Live == SrvStates \ SrvGone
<1>1. ASSUME NEW from \in Live, NEW to \in Live, NEW p, NEW proved, Gives(t, from, to, p, proved)
      PROVE  HandoffInv'
  BY <1>1, HandoffMoves DEF Gives, supVars
<1>2. ASSUME NEW from \in Live, NEW to \in Live, Moves(t, from, to)
      PROVE  HandoffInv'
  BY <1>2, HandoffMoves DEF Moves, supVars
<1>3. ASSUME srv[t] \in Live, Refuses(t) PROVE HandoffInv'
  BY <1>3, HandoffRefuses DEF SrvGone
<1>4. PreExec \cup Freeze \cup {"recv", "handlers", "close", "adopt", "stat", "unlink", "bind",
         "chmod", "gate", "phases", "serving", "release", "flush"} \subseteq Live
  BY DEF SrvStates, SrvGone, SrvEnded, Ended, PreExec, Freeze
<1>5. CASE DropIdentity(t)
  BY <1>1, <1>4, <1>5 DEF DropIdentity, DropBoundingSet, SetIdentity, PreExec
<1>6. ASSUME NEW from \in Live, NEW to \in Live, NEW p, Proves(t, from, to, p) PROVE HandoffInv'
  BY <1>2, <1>3, <1>6 DEF Proves
<1> HIDE DEF Live
<1>7. CASE VerifyBeforeFreeze(t)
  <2>1. {"root", "caps", "caps?", "nnp", "nnp?", "core", "core?", "dumpable", "dumpable?", "fds?"}
          \subseteq Live
    BY <1>4 DEF Freeze
  <2> QED
    BY <1>1, <1>6, <1>7, <2>1 DEF VerifyBeforeFreeze, CheckRefusesRoot, ClearCaps, ProveCaps,
           NoNewPrivs, NoCoreDumps, NonDumpable
<1>8. CASE ExecServe(t) \/ Adopt(t) \/ Release(t) \/ StatPath(t) \/ SecurePath(t)
           \/ FdInventory(t) \/ ProveEnforced(t)
  <2>1. {"exec", "handlers", "adopt", "stat", "release", "flush", "bind", "unlink", "chmod", "gate",
         "fds?", "seccomp", "probe", "phases"} \subseteq Live
    BY <1>4 DEF PreExec, Freeze
  <2> QED
    BY <1>2, <1>3, <1>8, <2>1 DEF ExecServe, Adopt, Release, StatPath, SecurePath, FdInventory,
                                  ProveEnforced
<1>9. CASE SrvInstalls(t) \/ UnlinkStale(t) \/ Bind(t) \/ OpenGate(t) \/ InstallFilter(t)
           \/ EnterServing(t) \/ LeaveServing(t) \/ PollFails(t)
  <2>1. {"handlers", "recv", "unlink", "bind", "chmod", "gate", "root", "seccomp", "probe", "phases",
         "serving", "release"} \subseteq Live
    BY <1>4 DEF Freeze
  <2>2. ASSUME NEW from \in Live, NEW to \in Live, SrvGoes(t, from, to),
               UNCHANGED <<sup, ini, srvEnd, device>>
        PROVE  HandoffInv'
    BY <2>2, HandoffMoves DEF Live
  <2> QED
    BY <1>3, <1>9, <2>1, <2>2 DEF SrvInstalls, UnlinkStale, Bind, OpenGate, InstallFilter,
                                  EnterServing, LeaveServing, PollFails, LeavesLoop, supVars
<1>10. CASE RecvFd(t)
  <2>1. /\ srv[t] = "recv" /\ srv'[t] = "close" /\ srv' \in [Starts -> SrvStates]
        /\ \A s \in Starts \ {t} : srv'[s] = srv[s] /\ device'[s] = device[s]
        /\ device'[t] = (device[t] \ {"message"}) \cup {"serve"}
        /\ device' \in [Starts -> SUBSET {"init", "message", "serve"}]
        /\ UNCHANGED <<sup, ini, srvEnd>>
    BY <1>10, <1>a DEF RecvFd, SrvGoes, supVars, SrvStates
  <2>2. HoldersLive(t)' /\ ChildrenInOrder(t)'
    BY <1>a, <2>1 DEF HoldersLive, ChildrenInOrder, SrvGone, SrvEnded, Ended
  <2>3. HandoffTyped'
    BY <1>a, <2>1 DEF HandoffTyped
  <2> QED
    BY <2>1, <2>2, <2>3, HandoffByStart
<1>11. CASE CloseHandoff(t)
  <2>1. /\ srv[t] = "close" /\ srv'[t] = "adopt" /\ srv' \in [Starts -> SrvStates]
        /\ \A s \in Starts \ {t} : srv'[s] = srv[s]
        /\ UNCHANGED <<sup, ini>> /\ CloseSrvEnd(t, "serve", device[t])
    BY <1>11, <1>a DEF CloseHandoff, SrvGoes, supVars, SrvStates
  <2>2. /\ srvEnd' \in [Starts -> SUBSET {"sup", "init", "serve"}]
        /\ device' \in [Starts -> SUBSET {"init", "message", "serve"}]
        /\ \A s \in Starts \ {t} : srvEnd'[s] = srvEnd[s] /\ device'[s] = device[s]
        /\ srvEnd'[t] = srvEnd[t] \ {"serve"}
        /\ device'[t] \subseteq device[t]
        /\ "message" \in device'[t] => srvEnd'[t] # {}
    BY <2>1, CloseLocal
  <2>3. HoldersLive(t)' /\ ChildrenInOrder(t)'
    BY <1>a, <2>1, <2>2 DEF HoldersLive, ChildrenInOrder, SrvGone, SrvEnded, Ended
  <2>4. HandoffTyped'
    BY <1>a, <2>1, <2>2 DEF HandoffTyped
  <2> QED
    BY <2>1, <2>2, <2>3, <2>4, HandoffByStart
<1>12. ASSUME NEW how \in {"ok", "killed"}, SrvExits(t, how), UNCHANGED <<sup, ini>>, srv[t] # "none"
       PROVE  HandoffInv'
  <2>1. how \in SrvEnded /\ sup[t] \notin BeforeFork
    BY <1>12, <1>a DEF SrvEnded, Ended, ChildrenInOrder
  <2> QED
    BY <1>12, <1>a, <2>1, HandoffExits
<1>13. CASE FlushAndExit(t) \/ KillServe(t) \/ (SignalServe(t) /\ ~ srvCatches[t])
  BY <1>12, <1>13 DEF FlushAndExit, KillServe, SignalServe, Terminate, supVars
<1>14. CASE (SignalServe(t) /\ srvCatches[t]) \/ Meddle(t)
  BY <1>14, HandoffUnchanged DEF SignalServe, Terminate, Meddle, supVars, srvVars
<1>15. CASE SrvFails(t)
  BY <1>3, <1>4, <1>15 DEF SrvFails
<1> QED
  BY <1>5, <1>7, <1>8, <1>9, <1>10, <1>11, <1>13, <1>14, <1>15 DEF SrvStep

\* The invariant about the hand-over holds throughout.
LEMMA HandoffInvariant == Spec => []HandoffInv
<1>1. Init => HandoffInv
  <2> SUFFICES ASSUME Init PROVE HandoffInv
    OBVIOUS
  <2>1. HandoffTyped
    BY DEF Init, HandoffTyped, SupStates, InitStates, SrvStates
  <2>2. ASSUME NEW s \in Starts PROVE HoldersLive(s) /\ ChildrenInOrder(s)
    BY DEF Init, HoldersLive, ChildrenInOrder
  <2> QED
    BY <2>1, <2>2 DEF HandoffInv
<1>2. HandoffInv /\ [Next]_vars => HandoffInv'
  <2>1. ASSUME HandoffInv, Next PROVE HandoffInv'
    <3>1. PICK t \in Starts : SupStep(t) \/ InitStep(t) \/ SrvStep(t) \/ Outside(t)
      BY <2>1 DEF Next
    <3> QED
      BY <2>1, <3>1, HandoffSupStep, HandoffInitStep, HandoffSrvStep DEF Outside
  <2>2. ASSUME HandoffInv, UNCHANGED vars PROVE HandoffInv'
    BY <2>2, HandoffUnchanged DEF vars, supVars, srvVars
  <2> QED
    BY <2>1, <2>2
<1> QED
  BY <1>1, <1>2, PTL DEF Spec

(* A supervisor that returns, by whichever path of bootstrap.rs and after    *)
(* whichever signal it caught, leaves no child and no registered keyboard.   *)
THEOREM ReturnLeavesNothing == Spec => []ExitLeavesNothing
<1>1. ASSUME HandoffInv, NEW s \in Starts, sup[s] \in {"ok", "failed"}
      PROVE  ini[s] \in InitGone /\ srv[s] \in SrvGone /\ device[s] = {}
  <2>1. HoldersLive(s) /\ ChildrenInOrder(s)
    BY <1>1 DEF HandoffInv
  <2>2. ini[s] \in InitGone /\ srv[s] \in SrvGone
    BY <1>1, <2>1 DEF ChildrenInOrder
  <2>3. srvEnd[s] \subseteq {"sup", "init", "serve"} /\ device[s] \subseteq {"init", "message", "serve"}
    BY <1>1 DEF HandoffInv, HandoffTyped
  <2>4. srvEnd[s] = {}
    BY <1>1, <2>1, <2>2, <2>3 DEF HoldersLive
  <2> QED
    BY <2>1, <2>2, <2>3, <2>4 DEF HoldersLive
<1>2. HandoffInv => ExitLeavesNothing
  BY <1>1 DEF ExitLeavesNothing, InitGone, SrvGone
<1> QED
  BY <1>2, HandoffInvariant, PTL

-----------------------------------------------------------------------------
(* The filter: what the assembled program decides, for every pair of lists.  *)

CallFields == {"arch", "nr", "arg0", "arg2"}
Verdicts == {"allow", "eperm", "kill"}
Insns == [op : {"ld", "jeq", "ret"}, k : Nat, field : CallFields \cup Verdicts \cup {"none"},
          jt : Nat, jf : Nat]
AllCalls == [arch : Arches, nr : Nat, arg0 : Nat, arg2 : Nat]

(* What the kernel checks of a program before it takes it: every instruction *)
(* returns or goes on within the program.                                    *)
WellFormed(prog) ==
    /\ prog \in Seq(Insns)
    /\ \A pc \in 1..Len(prog) :
          /\ prog[pc].op = "ld" => pc + 1 <= Len(prog) /\ prog[pc].field \in CallFields
          /\ prog[pc].op = "jeq" => /\ pc + 1 + prog[pc].jt <= Len(prog)
                                    /\ pc + 1 + prog[pc].jf <= Len(prog)

IsRun(r, prog, call) ==
    /\ r \in [0..Len(prog) -> RunStates(prog)]
    /\ r[0] = [pc |-> 1, acc |-> 0]
    /\ \A n \in 0..(Len(prog) - 1) : r[n + 1] = Execute(prog, call)[r[n]]

(* An instruction of a well-formed program leads to a state of its run. *)
LEMMA ExecuteTyped ==
    ASSUME NEW prog, WellFormed(prog), NEW call \in AllCalls, NEW m \in RunStates(prog)
    PROVE  Execute(prog, call)[m] \in RunStates(prog)
<1> DEFINE insn == prog[m.pc]
<1>1. /\ m.pc \in 1..Len(prog) /\ m.acc \in Nat /\ insn \in Insns /\ Len(prog) \in Nat
  BY DEF RunStates, WellFormed
<1>2. \A f \in CallFields : call[f] \in Nat
  BY DEF CallFields, AllCalls, Arches, X86, Aarch, OtherArch
<1>3. CASE insn.op = "ld"
  <2>1. Execute(prog, call)[m] = [pc |-> m.pc + 1, acc |-> call[insn.field]]
    BY <1>3 DEF Execute
  <2>2. m.pc + 1 \in 1..Len(prog) /\ insn.field \in CallFields
    BY <1>1, <1>3 DEF WellFormed
  <2> QED
    BY <1>2, <2>1, <2>2 DEF RunStates
<1>4. CASE insn.op = "jeq"
  <2>1. PICK j \in {insn.jt, insn.jf} : Execute(prog, call)[m] = [pc |-> m.pc + 1 + j, acc |-> m.acc]
    BY <1>4 DEF Execute
  <2>2. /\ insn.jt \in Nat /\ insn.jf \in Nat
        /\ m.pc + 1 + insn.jt <= Len(prog) /\ m.pc + 1 + insn.jf <= Len(prog)
    BY <1>1, <1>4 DEF WellFormed, Insns
  <2>3. m.pc + 1 + j \in 1..Len(prog)
    <3> HIDE DEF insn
    <3> QED
      BY <1>1, <2>1, <2>2
  <2> QED
    BY <1>1, <2>1, <2>3 DEF RunStates
<1>5. CASE insn.op = "ret"
  BY <1>5 DEF Execute
<1> QED
  BY <1>1, <1>3, <1>4, <1>5 DEF Insns

(* The run of a well-formed program, as the table Verdict looks it up in. *)
LEMMA VerdictRun ==
    ASSUME NEW prog, WellFormed(prog), prog # << >>, NEW call \in AllCalls
    PROVE  \E r : IsRun(r, prog, call) /\ Verdict(prog, call) = prog[r[Len(prog)].pc].field
<1> DEFINE N == Len(prog)
           S == RunStates(prog)
           base == [pc |-> 1, acc |-> 0]
           E == Execute(prog, call)
           F == [a \in (1..N) \X S |-> E[a[2]]]
           Table(f) == [n \in 0..N |-> IF n = 0 THEN base ELSE E[f[n - 1]]]
           G == CHOOSE f : f = Table(f)
<1>1. N \in Nat /\ N >= 1
  BY DEF WellFormed
<1>2. base \in S
  BY <1>1 DEF RunStates
<1>3. IsStep(F, N, S)
  <2>1. \A m \in S : E[m] \in S
    BY ExecuteTyped
  <2> HIDE DEF E, S, N
  <2> QED
    BY <2>1 DEF IsStep
<1>4. PICK g : IsTable(g, base, F, N, S)
  <2> HIDE DEF N, F, base, S, E
  <2> QED
    BY <1>1, <1>2, <1>3, RecursionExists
<1>5. g \in [0..N -> S] /\ g[0] = base
  BY <1>4 DEF IsTable
<1>6. ASSUME NEW n \in 1..N PROVE g[n] = E[g[n - 1]]
  <2> HIDE DEF E, S, N
  <2>1. n - 1 \in 0..N
    BY <1>1
  <2>2. <<n, g[n - 1]>> \in (1..N) \X S
    BY <1>5, <2>1
  <2>3. g[n] = F[<<n, g[n - 1]>>]
    BY <1>4 DEF IsTable
  <2> QED
    BY <2>2, <2>3
<1>7. g = Table(g)
  <2> HIDE DEF E, S, N, base
  <2>1. ASSUME NEW n \in 0..N PROVE g[n] = IF n = 0 THEN base ELSE E[g[n - 1]]
    BY <1>1, <1>5, <1>6
  <2> QED
    BY <1>5, <2>1
<1>8. G = Table(G)
  BY <1>7
<1>9. Verdict(prog, call) = prog[G[N].pc].field
  BY DEF Verdict
<1> HIDE DEF G, base, N, E, S
<1>10. DOMAIN G = 0..N /\ G[0] = base
  BY <1>1, <1>8
<1>11. ASSUME NEW n \in 0..(N - 1) PROVE n \in 0..N /\ n + 1 \in 0..N /\ G[n + 1] = E[G[n]]
  <2>1. n \in 0..N /\ n + 1 \in 0..N /\ n + 1 # 0 /\ (n + 1) - 1 = n
    BY <1>1
  <2> QED
    BY <1>8, <2>1
<1>12. \A n \in 0..(N - 1) : g[n] = G[n] => g[n + 1] = G[n + 1]
  <2>1. \A n \in 0..(N - 1) : g[n + 1] = E[g[n]]
    BY <1>1, <1>6
  <2> QED
    BY <1>11, <2>1
<1>13. \A n \in 0..N : g[n] = G[n]
  <2>1. g[0] = G[0] /\ N \in Nat
    BY <1>1, <1>5, <1>10
  <2> QED
    BY <1>12, <2>1, RecursionUnique
<1>14. g = G
  <2>1. g = [n \in 0..N |-> g[n]]
    BY <1>5
  <2>2. G = [n \in 0..N |-> G[n]]
    BY <1>8
  <2> QED
    BY <1>13, <2>1, <2>2
<1>15. IsRun(G, prog, call)
  BY <1>5, <1>10, <1>11, <1>14 DEF IsRun, N, S, E, base
<1> QED
  BY <1>9, <1>15 DEF N

(* One instruction of a run, by its kind. *)
LEMMA RunLoads ==
    ASSUME NEW prog, WellFormed(prog), NEW call \in AllCalls, NEW r, IsRun(r, prog, call),
           NEW n \in 0..(Len(prog) - 1), NEW p, NEW f,
           r[n].pc = p, prog[p] = LdAbs(f)
    PROVE  r[n + 1].pc = p + 1 /\ r[n + 1].acc = call[f]
<1>1. r[n] \in RunStates(prog) /\ r[n + 1] = Execute(prog, call)[r[n]]
  BY SMTT(30) DEF IsRun, WellFormed
<1>2. prog[r[n].pc].op = "ld" /\ prog[r[n].pc].field = f
  BY DEF LdAbs
<1>3. r[n + 1] = [pc |-> r[n].pc + 1, acc |-> call[prog[r[n].pc].field]]
  BY <1>1, <1>2 DEF Execute
<1> QED
  BY <1>2, <1>3

\* A conditional jump goes where its offset says and keeps the register.
LEMMA RunJumps ==
    ASSUME NEW prog, WellFormed(prog), NEW call \in AllCalls, NEW r, IsRun(r, prog, call),
           NEW n \in 0..(Len(prog) - 1), NEW k, NEW jt, NEW jf, prog[r[n].pc] = JeqK(k, jt, jf)
    PROVE  /\ r[n].acc = k => r[n + 1].pc = r[n].pc + 1 + jt
           /\ r[n].acc # k => r[n + 1].pc = r[n].pc + 1 + jf
           /\ r[n + 1].acc = r[n].acc
<1>1. r[n] \in RunStates(prog) /\ r[n + 1] = Execute(prog, call)[r[n]]
  BY DEF IsRun, WellFormed
<1>2. /\ prog[r[n].pc].op = "jeq" /\ prog[r[n].pc].k = k
      /\ prog[r[n].pc].jt = jt /\ prog[r[n].pc].jf = jf
  BY DEF JeqK
<1>3. r[n + 1] = [pc |-> r[n].pc + 1 + (IF r[n].acc = prog[r[n].pc].k
                                        THEN prog[r[n].pc].jt ELSE prog[r[n].pc].jf),
                  acc |-> r[n].acc]
  BY <1>1, <1>2 DEF Execute
<1> QED
  BY <1>2, <1>3

(* Where a run has returned it stays. *)
LEMMA RunReturns ==
    ASSUME NEW prog, WellFormed(prog), NEW call \in AllCalls, NEW r, IsRun(r, prog, call),
           NEW n \in 0..Len(prog), NEW verdict, prog[r[n].pc] = RetK(verdict)
    PROVE  /\ prog[r[Len(prog)].pc].field = verdict
           /\ n < Len(prog) => r[n + 1] = r[n]
<1> DEFINE N == Len(prog)
           T == {i \in 0..(N - n) : r[n + i] = r[n]}
<1>1. N \in Nat /\ N - n \in Nat
  BY DEF WellFormed
<1>2. r[n] \in RunStates(prog) /\ Execute(prog, call)[r[n]] = r[n]
  <2>1. prog[r[n].pc].op = "ret"
    BY DEF RetK
  <2> QED
    BY <2>1 DEF IsRun, Execute
<1>3. 0 \in T
  BY <1>1
<1>4. ASSUME NEW i \in 0..(N - n - 1), i \in T PROVE i + 1 \in T
  <2>1. n + i \in 0..(N - 1) /\ i + 1 \in 0..(N - n) /\ (n + i) + 1 = n + (i + 1)
    BY <1>1
  <2>2. r[(n + i) + 1] = Execute(prog, call)[r[n + i]]
    BY <2>1 DEF IsRun
  <2> QED
    BY <1>2, <1>4, <2>1, <2>2
<1>5. 0..(N - n) \subseteq T
  <2> HIDE DEF T
  <2> QED
    BY <1>1, <1>3, <1>4, BoundedInduction
<1>6. r[N] = r[n]
  <2>1. N - n \in 0..(N - n) /\ n + (N - n) = N
    BY <1>1
  <2> QED
    BY <1>5, <2>1
<1>7. n < N => r[n + 1] = r[n]
  <2>1. n < N => 1 \in 0..(N - n)
    BY <1>1
  <2> QED
    BY <1>5, <2>1
<1> QED
  BY <1>6, <1>7 DEF RetK

(* The three constructors make instructions. *)
LEMMA InsnsTyped ==
    /\ \A f \in CallFields : LdAbs(f) \in Insns
    /\ \A v \in Verdicts : RetK(v) \in Insns
    /\ \A k \in Nat, jt \in Nat, jf \in Nat : JeqK(k, jt, jf) \in Insns
    /\ CallFields = {"arch", "nr", "arg0", "arg2"} /\ Verdicts = {"allow", "eperm", "kill"}
BY DEF LdAbs, RetK, JeqK, Insns, CallFields, Verdicts

(* Where the instructions of two programs are in their concatenation. *)
LEMMA CatAt ==
    ASSUME NEW a \in Seq(Insns), NEW b \in Seq(Insns)
    PROVE  /\ a \o b \in Seq(Insns) /\ Len(a \o b) = Len(a) + Len(b)
           /\ \A i \in 1..Len(a) : (a \o b)[i] = a[i]
           /\ \A i \in 1..Len(b) : (a \o b)[Len(a) + i] = b[i]
OBVIOUS

(* What a chain is made of, place by place. *)
LEMMA ChainShape ==
    ASSUME NEW list \in Seq(Nat), NEW openat \in Nat, NEW gate \in Nat
    PROVE  LET chain == AllowlistChain(list, openat, gate)
               last == 2 * Len(list) + 2
           IN  /\ chain \in Seq(Insns)
               /\ Len(chain) = AllowlistChainLen(list, gate)
               /\ chain[1] = LdAbs("nr")
               /\ \A j \in 1..Len(list) : /\ chain[2 * j] = JeqK(list[j], 0, 1)
                                          /\ chain[2 * j + 1] = RetK("allow")
               /\ gate = NoGate => chain[last] = RetK("eperm")
               /\ gate # NoGate => /\ chain[last] = JeqK(openat, 0, 5)
                                   /\ chain[last + 1] = LdAbs("arg0")
                                   /\ chain[last + 2] = JeqK(gate, 0, 3)
                                   /\ chain[last + 3] = LdAbs("arg2")
                                   /\ chain[last + 4] = JeqK(ReadFlags, 0, 1)
                                   /\ chain[last + 5] = RetK("allow")
                                   /\ chain[last + 6] = RetK("eperm")
<1> DEFINE N == Len(list)
           A == <<LdAbs("nr")>>
           B == [n \in 1..(2 * N) |->
                    IF n % 2 = 1 THEN JeqK(list[(n + 1) \div 2], 0, 1) ELSE RetK("allow")]
           C == IF gate = NoGate THEN <<RetK("eperm")>>
                ELSE << JeqK(openat, 0, 5), LdAbs("arg0"), JeqK(gate, 0, 3), LdAbs("arg2"),
                        JeqK(ReadFlags, 0, 1), RetK("allow"), RetK("eperm") >>
           chain == A \o B \o C
<1>1. N \in Nat /\ AllowlistChain(list, openat, gate) = chain
  BY DEF AllowlistChain
<1>2. /\ LdAbs("nr") \in Insns /\ LdAbs("arg0") \in Insns /\ LdAbs("arg2") \in Insns
      /\ RetK("allow") \in Insns /\ RetK("eperm") \in Insns
      /\ \A k \in Nat, jt \in Nat, jf \in Nat : JeqK(k, jt, jf) \in Insns
  BY InsnsTyped
<1>3. A \in Seq(Insns) /\ Len(A) = 1 /\ A[1] = LdAbs("nr")
  BY <1>2
<1>4. B \in Seq(Insns) /\ Len(B) = 2 * N
  <2>1. \A n \in 1..(2 * N) : n % 2 = 1 => (n + 1) \div 2 \in 1..N
    BY <1>1
  <2>2. \A n \in 1..(2 * N) : B[n] \in Insns
    <3> SUFFICES ASSUME NEW n \in 1..(2 * N) PROVE B[n] \in Insns
      OBVIOUS
    <3>1. CASE n % 2 = 1
      BY <1>2, <2>1, <3>1
    <3>2. CASE n % 2 # 1
      BY <1>2, <3>2
    <3> QED BY <3>1, <3>2
  <2>3. B \in [1..(2 * N) -> Insns] /\ 2 * N \in Nat
    BY <1>1, <2>2
  <2> HIDE DEF B, N
  <2> QED
    BY <2>3
<1>5. \A j \in 1..N : B[2 * j - 1] = JeqK(list[j], 0, 1) /\ B[2 * j] = RetK("allow")
  <2> SUFFICES ASSUME NEW j \in 1..N
               PROVE  B[2 * j - 1] = JeqK(list[j], 0, 1) /\ B[2 * j] = RetK("allow")
    OBVIOUS
  <2>1. /\ 2 * j - 1 \in 1..(2 * N) /\ (2 * j - 1) % 2 = 1 /\ ((2 * j - 1) + 1) \div 2 = j
        /\ 2 * j \in 1..(2 * N) /\ (2 * j) % 2 # 1
    BY <1>1
  <2> QED
    BY <2>1
<1>6. /\ C \in Seq(Insns) /\ Len(C) = (IF gate = NoGate THEN 1 ELSE 7)
  <2>1. CASE gate = NoGate
    BY <1>2, <2>1
  <2>2. CASE gate # NoGate
    <3>1. ReadFlags \in Nat
      BY DEF ReadFlags
    <3>2. \A s1, s2, s3, s4, s5, s6, s7 \in Insns :
             <<s1, s2, s3, s4, s5, s6, s7>> \in Seq(Insns) /\ Len(<<s1, s2, s3, s4, s5, s6, s7>>) = 7
      OBVIOUS
    <3> QED
      BY <1>2, <2>2, <3>1, <3>2
  <2> QED
    BY <2>1, <2>2
<1>7. /\ gate = NoGate => C[1] = RetK("eperm")
      /\ gate # NoGate => /\ C[1] = JeqK(openat, 0, 5) /\ C[2] = LdAbs("arg0")
                          /\ C[3] = JeqK(gate, 0, 3) /\ C[4] = LdAbs("arg2")
                          /\ C[5] = JeqK(ReadFlags, 0, 1) /\ C[6] = RetK("allow")
                          /\ C[7] = RetK("eperm")
  OBVIOUS
<1> HIDE DEF A, B, C, N
<1>8. /\ chain \in Seq(Insns) /\ Len(chain) = 1 + 2 * N + Len(C)
      /\ chain[1] = A[1]
      /\ \A i \in 1..(2 * N) : chain[i + 1] = B[i]
      /\ \A i \in 1..Len(C) : chain[2 * N + 1 + i] = C[i]
  <2> DEFINE AB == A \o B
  <2>1. /\ AB \in Seq(Insns) /\ Len(AB) = 1 + 2 * N /\ AB[1] = A[1]
        /\ \A i \in 1..(2 * N) : AB[1 + i] = B[i]
    <3>1. /\ AB \in Seq(Insns) /\ Len(AB) = Len(A) + Len(B)
          /\ \A i \in 1..Len(A) : AB[i] = A[i]
          /\ \A i \in 1..Len(B) : AB[Len(A) + i] = B[i]
      BY <1>3, <1>4, CatAt
    <3> HIDE DEF AB
    <3> QED
      BY <1>1, <1>3, <1>4, <3>1
  <2>2. chain = AB \o C
    OBVIOUS
  <2> HIDE DEF AB, chain
  <2>3. /\ chain \in Seq(Insns) /\ Len(chain) = Len(AB) + Len(C)
        /\ \A i \in 1..Len(AB) : chain[i] = AB[i]
        /\ \A i \in 1..Len(C) : chain[Len(AB) + i] = C[i]
    BY <1>6, <2>1, <2>2, CatAt
  <2>4. Len(AB) + Len(C) = 1 + 2 * N + Len(C) /\ \A i : Len(AB) + i = 1 + 2 * N + i
    BY <2>1
  <2>5. 1 \in 1..Len(AB) /\ \A i \in 1..(2 * N) : 1 + i \in 1..Len(AB) /\ 1 + i = i + 1
    BY <1>1, <2>1
  <2>6. \A i \in 1..Len(C) : 1 + 2 * N + i = 2 * N + 1 + i
    BY <1>1
  <2> QED
    BY <2>1, <2>3, <2>4, <2>5, <2>6
<1> HIDE DEF chain
<1>9. \A j \in 1..N : /\ chain[2 * j] = JeqK(list[j], 0, 1)
                      /\ chain[2 * j + 1] = RetK("allow")
  <2> SUFFICES ASSUME NEW j \in 1..N
               PROVE  chain[2 * j] = JeqK(list[j], 0, 1) /\ chain[2 * j + 1] = RetK("allow")
    OBVIOUS
  <2>1. 2 * j - 1 \in 1..(2 * N) /\ 2 * j \in 1..(2 * N) /\ (2 * j - 1) + 1 = 2 * j
    BY <1>1
  <2>2. chain[(2 * j - 1) + 1] = B[2 * j - 1] /\ chain[2 * j + 1] = B[2 * j]
    BY <1>8, <2>1
  <2> QED
    BY <1>5, <2>1, <2>2
<1>10. Len(chain) = AllowlistChainLen(list, gate)
  BY <1>6, <1>8 DEF AllowlistChainLen, N
<1>11. gate = NoGate => chain[2 * N + 2] = RetK("eperm")
  <2>1. gate = NoGate => chain[2 * N + 1 + 1] = C[1]
    BY <1>6, <1>8
  <2> QED
    BY <1>1, <1>7, <2>1
<1>12. gate # NoGate => /\ chain[2 * N + 2] = JeqK(openat, 0, 5)
                        /\ chain[2 * N + 2 + 1] = LdAbs("arg0")
                        /\ chain[2 * N + 2 + 2] = JeqK(gate, 0, 3)
                        /\ chain[2 * N + 2 + 3] = LdAbs("arg2")
                        /\ chain[2 * N + 2 + 4] = JeqK(ReadFlags, 0, 1)
                        /\ chain[2 * N + 2 + 5] = RetK("allow")
                        /\ chain[2 * N + 2 + 6] = RetK("eperm")
  <2>1. gate # NoGate => \A i \in 1..7 : chain[2 * N + 1 + i] = C[i]
    BY <1>6, <1>8
  <2>2. \A i \in 1..7 : 2 * N + 1 + i = 2 * N + 2 + (i - 1)
    BY <1>1
  <2> QED
    BY <1>1, <1>7, <2>1, <2>2
<1> QED
  BY <1>1, <1>3, <1>8, <1>9, <1>10, <1>11, <1>12 DEF N

(* No instruction of a chain leaves it. *)
LEMMA ChainWellFormed ==
    ASSUME NEW list \in Seq(Nat), NEW openat \in Nat, NEW gate \in Nat
    PROVE  WellFormed(AllowlistChain(list, openat, gate))
<1> DEFINE chain == AllowlistChain(list, openat, gate)
           N == Len(list)
           M == Len(chain)
<1>1. /\ chain \in Seq(Insns) /\ M = AllowlistChainLen(list, gate)
      /\ chain[1] = LdAbs("nr")
      /\ \A j \in 1..N : chain[2 * j] = JeqK(list[j], 0, 1) /\ chain[2 * j + 1] = RetK("allow")
      /\ gate = NoGate => chain[2 * N + 2] = RetK("eperm")
      /\ gate # NoGate => /\ chain[2 * N + 2] = JeqK(openat, 0, 5)
                          /\ chain[2 * N + 2 + 1] = LdAbs("arg0")
                          /\ chain[2 * N + 2 + 2] = JeqK(gate, 0, 3)
                          /\ chain[2 * N + 2 + 3] = LdAbs("arg2")
                          /\ chain[2 * N + 2 + 4] = JeqK(ReadFlags, 0, 1)
                          /\ chain[2 * N + 2 + 5] = RetK("allow")
                          /\ chain[2 * N + 2 + 6] = RetK("eperm")
  BY ChainShape
<1>2. N \in Nat /\ M \in Nat /\ M = 1 + 2 * N + (IF gate # NoGate THEN 7 ELSE 1)
  BY <1>1 DEF AllowlistChainLen
<1> DEFINE Stays(insn, pc) ==
              /\ insn.op = "ld" => pc + 1 <= M /\ insn.field \in CallFields
              /\ insn.op = "jeq" => pc + 1 + insn.jt <= M /\ pc + 1 + insn.jf <= M
<1> HIDE DEF chain, N, M
<1>3. /\ \A pc \in Nat, f \in CallFields : pc < M => Stays(LdAbs(f), pc)
      /\ \A pc \in Nat, v \in Verdicts : Stays(RetK(v), pc)
  BY <1>2 DEF LdAbs, RetK
<1>6. \A pc \in Nat, k \in Nat, j \in Nat : pc + j < M => Stays(JeqK(k, 0, j), pc)
  BY <1>2 DEF JeqK
<1> HIDE DEF Stays
<1>4. /\ "nr" \in CallFields /\ "arg0" \in CallFields /\ "arg2" \in CallFields
      /\ "allow" \in Verdicts /\ "eperm" \in Verdicts /\ ReadFlags \in Nat
  BY DEF CallFields, Verdicts, ReadFlags
<1>5. ASSUME NEW pc \in 1..M PROVE Stays(chain[pc], pc)
  <2>1. CASE pc = 1
    BY <1>1, <1>2, <1>3, <1>4, <2>1
  <2>2. CASE pc \in 2..(2 * N + 1)
    <3>1. PICK j \in 1..N : pc = 2 * j \/ pc = 2 * j + 1
      <4>1. CASE pc % 2 = 0
        <5>1. pc \div 2 \in 1..N /\ pc = 2 * (pc \div 2)
          BY <1>2, <2>2, <4>1
        <5> QED BY <5>1
      <4>2. CASE pc % 2 = 1
        <5>1. pc \div 2 \in 1..N /\ pc = 2 * (pc \div 2) + 1
          BY <1>2, <2>2, <4>2
        <5> QED BY <5>1
      <4> QED BY <1>2, <2>2, <4>1, <4>2
    <3>2. CASE pc = 2 * j
      <4>1. pc + 1 < M /\ pc \in Nat /\ list[j] \in Nat
        BY <1>2, <3>2 DEF N
      <4>2. chain[pc] = JeqK(list[j], 0, 1)
        BY <1>1, <3>2
      <4>3. Stays(JeqK(list[j], 0, 1), pc)
        BY <1>6, <4>1
      <4> QED
        BY <4>2, <4>3
    <3>3. CASE pc = 2 * j + 1
      <4>1. chain[pc] = RetK("allow") /\ pc \in Nat
        BY <1>1, <3>3
      <4> QED
        BY <1>3, <1>4, <4>1
    <3> QED BY <3>1, <3>2, <3>3
  <2>3. CASE gate = NoGate /\ pc = 2 * N + 2
    BY <1>1, <1>2, <1>3, <1>4, <2>3
  <2>4. CASE gate # NoGate /\ pc \in (2 * N + 2)..(2 * N + 8)
    <3> DEFINE p == 2 * N + 2
    <3>1. p \in Nat /\ M = p + 6 /\ pc \in p..(p + 6)
      BY <1>2, <2>4
    <3>2. /\ chain[p] = JeqK(openat, 0, 5) /\ chain[p + 1] = LdAbs("arg0")
          /\ chain[p + 2] = JeqK(gate, 0, 3) /\ chain[p + 3] = LdAbs("arg2")
          /\ chain[p + 4] = JeqK(ReadFlags, 0, 1) /\ chain[p + 5] = RetK("allow")
          /\ chain[p + 6] = RetK("eperm")
      BY <1>1, <2>4
    <3> HIDE DEF p
    <3>3. /\ p + 5 < M /\ p + 1 < M /\ (p + 2) + 3 < M /\ p + 3 < M /\ (p + 4) + 1 < M
          /\ p + 1 \in Nat /\ p + 2 \in Nat /\ p + 3 \in Nat /\ p + 4 \in Nat /\ p + 5 \in Nat
          /\ p + 6 \in Nat
      BY <3>1
    <3>4. Stays(JeqK(openat, 0, 5), p) /\ Stays(JeqK(gate, 0, 3), p + 2)
          /\ Stays(JeqK(ReadFlags, 0, 1), p + 4)
      BY <1>4, <1>6, <3>1, <3>3
    <3>5. /\ Stays(LdAbs("arg0"), p + 1) /\ Stays(LdAbs("arg2"), p + 3)
          /\ Stays(RetK("allow"), p + 5) /\ Stays(RetK("eperm"), p + 6)
      BY <1>3, <1>4, <3>1, <3>3
    <3>6. \/ pc = p \/ pc = p + 1 \/ pc = p + 2 \/ pc = p + 3 \/ pc = p + 4 \/ pc = p + 5
          \/ pc = p + 6
      BY <3>1
    <3> QED
      BY <3>2, <3>4, <3>5, <3>6
  <2>5. \/ pc = 1 \/ pc \in 2..(2 * N + 1) \/ (gate = NoGate /\ pc = 2 * N + 2)
        \/ (gate # NoGate /\ pc \in (2 * N + 2)..(2 * N + 8))
    BY <1>2
  <2> QED
    BY <2>1, <2>2, <2>3, <2>4, <2>5
<1> QED
  BY <1>1, <1>5 DEF WellFormed, Stays, M, chain

(* A chain lies in a program behind `start` instructions. *)
Embedded(prog, start, chain) ==
    /\ start + Len(chain) <= Len(prog)
    /\ \A i \in 1..Len(chain) : prog[start + i] = chain[i]

Listed(list, nr) == \E i \in 1..Len(list) : list[i] = nr

(* A run at the first of its list entries comes to the end of the list, or   *)
(* to the ALLOW behind the entry that matches.                               *)
LEMMA ListRun ==
    ASSUME NEW prog, WellFormed(prog), NEW call \in AllCalls, NEW r, IsRun(r, prog, call),
           NEW list \in Seq(Nat), NEW openat \in Nat, NEW gate \in Nat, NEW start \in Nat,
           Embedded(prog, start, AllowlistChain(list, openat, gate)),
           NEW n \in Nat, n + Len(list) <= Len(prog),
           r[n].pc = start + 2, r[n].acc = call.nr
    PROVE  LET end == r[n + Len(list)]
           IN  \/ Listed(list, call.nr) /\ prog[end.pc] = RetK("allow")
               \/ /\ ~ Listed(list, call.nr)
                  /\ end.pc = start + 2 * Len(list) + 2 /\ end.acc = call.nr
<1> DEFINE N == Len(list)
           M == Len(prog)
           nr == call.nr
           Found(j) == \E i \in 1..j : list[i] = nr
           Kept(j) == \/ Found(j) /\ prog[r[n + j].pc] = RetK("allow")
                      \/ ~ Found(j) /\ r[n + j].pc = start + 2 * j + 2 /\ r[n + j].acc = nr
           T == {j \in 0..N : Kept(j)}
<1>1. N \in Nat /\ M \in Nat
  BY DEF WellFormed
<1>6. \A m \in 0..(M - 1) : prog[r[m].pc] = RetK("allow") => r[m + 1] = r[m]
  <2> SUFFICES ASSUME NEW m \in 0..(M - 1), prog[r[m].pc] = RetK("allow") PROVE r[m + 1] = r[m]
    OBVIOUS
  <2>1. m \in 0..M /\ m < M
    BY <1>1
  <2> QED
    BY <2>1, RunReturns
<1>7. \A m \in 0..(M - 1) : \A k : prog[r[m].pc] = JeqK(k, 0, 1)
         => /\ r[m].acc = k => r[m + 1].pc = r[m].pc + 1 + 0
            /\ r[m].acc # k => r[m + 1].pc = r[m].pc + 1 + 1
            /\ r[m + 1].acc = r[m].acc
  <2> SUFFICES ASSUME NEW m \in 0..(M - 1), NEW k, prog[r[m].pc] = JeqK(k, 0, 1)
               PROVE  /\ r[m].acc = k => r[m + 1].pc = r[m].pc + 1 + 0
                      /\ r[m].acc # k => r[m + 1].pc = r[m].pc + 1 + 1
                      /\ r[m + 1].acc = r[m].acc
    OBVIOUS
  <2>1. \A jt, jf : prog[r[m].pc] = JeqK(k, jt, jf)
           => /\ r[m].acc = k => r[m + 1].pc = r[m].pc + 1 + jt
              /\ r[m].acc # k => r[m + 1].pc = r[m].pc + 1 + jf
              /\ r[m + 1].acc = r[m].acc
    BY RunJumps
  <2> QED
    BY <2>1, Zenon
<1>2. \A j \in 1..N : prog[start + 2 * j] = JeqK(list[j], 0, 1) /\ prog[start + 2 * j + 1] = RetK("allow")
  <2> DEFINE chain == AllowlistChain(list, openat, gate)
  <2>1. /\ \A j \in 1..N : chain[2 * j] = JeqK(list[j], 0, 1) /\ chain[2 * j + 1] = RetK("allow")
        /\ Len(chain) = AllowlistChainLen(list, gate)
    BY ChainShape
  <2>2. Len(chain) \in Nat /\ 2 * N + 1 <= Len(chain)
    BY <1>1, <2>1 DEF AllowlistChainLen
  <2>3. \A i \in 1..Len(chain) : prog[start + i] = chain[i]
    BY DEF Embedded
  <2> HIDE DEF chain, N
  <2> SUFFICES ASSUME NEW j \in 1..N
               PROVE  /\ prog[start + 2 * j] = JeqK(list[j], 0, 1)
                      /\ prog[start + 2 * j + 1] = RetK("allow")
    OBVIOUS
  <2>4. 2 * j \in 1..Len(chain) /\ 2 * j + 1 \in 1..Len(chain)
    BY <1>1, <2>2
  <2>5. start + (2 * j + 1) = start + 2 * j + 1
    BY <1>1
  <2> QED
    BY <2>1, <2>3, <2>4, <2>5
<1>3. 0 \in T
  <2>1. ~ Found(0) /\ n + 0 = n /\ start + 2 * 0 + 2 = start + 2
    OBVIOUS
  <2> QED
    BY <1>1, <2>1
<1>4. ASSUME NEW j \in 0..(N - 1), j \in T PROVE j + 1 \in T
  <2> DEFINE m == n + j
  <2>1. /\ j + 1 \in 1..N /\ j + 1 \in 0..N /\ j \in Nat /\ m \in 0..(M - 1)
        /\ m + 1 = n + (j + 1) /\ m \in 0..M /\ m < M
    BY SMTT(30), <1>1
  <2>2. Kept(j)
    BY <1>4
  <2>3. Found(j + 1) <=> Found(j) \/ list[j + 1] = nr
    <3>1. \A i : i \in 1..(j + 1) <=> i \in 1..j \/ i = j + 1
      BY SMTT(30), <2>1
    <3> HIDE DEF nr
    <3> QED
      BY <3>1, Zenon
  <2> HIDE DEF N, M, nr, Found, m
  <2>4. CASE Found(j) /\ prog[r[m].pc] = RetK("allow")
    <3>1. r[m + 1] = r[m]
      BY <1>6, <2>1, <2>4, Zenon
    <3> QED
      BY <2>1, <2>3, <2>4, <3>1
  <2>5. CASE ~ Found(j) /\ r[m].pc = start + 2 * j + 2 /\ r[m].acc = nr
    <3> DEFINE p == start + 2 * (j + 1)
    <3>1. r[m].pc = p /\ p \in Nat
      <4>1. start + 2 * j + 2 = p /\ p \in Nat
        BY <2>1
      <4> QED
        BY <2>5, <4>1
    <3> DEFINE k == list[j + 1]
    <3>2. prog[p] = JeqK(k, 0, 1) /\ prog[p + 1] = RetK("allow")
      BY <1>2, <2>1
    <3> HIDE DEF p, k
    <3>3. /\ r[m].acc = k => r[m + 1].pc = p + 1 + 0
          /\ r[m].acc # k => r[m + 1].pc = p + 1 + 1
          /\ r[m + 1].acc = r[m].acc
      BY <1>7, <2>1, <3>1, <3>2, Zenon
    <3>4. CASE k = nr
      <4>1. r[m + 1].pc = p + 1
        BY <2>5, <3>1, <3>3, <3>4
      <4> QED
        BY <2>1, <2>3, <3>2, <3>4, <4>1 DEF k
    <3>5. CASE k # nr
      <4>1. r[m + 1].pc = p + 1 + 1
        BY <2>5, <3>3, <3>5
      <4>2. p + 1 + 1 = start + 2 * (j + 1) + 2
        BY <2>1 DEF p
      <4> QED
        BY <2>1, <2>3, <2>5, <3>3, <3>5, <4>1, <4>2 DEF k
    <3> QED
      BY <3>4, <3>5
  <2> QED
    BY <2>2, <2>4, <2>5 DEF m
<1>5. N \in T
  <2>1. 0..N \subseteq T
    <3> HIDE DEF T
    <3> QED
      BY <1>1, <1>3, <1>4, BoundedInduction
  <2> HIDE DEF T, N
  <2> QED
    BY <1>1, <2>1
<1> QED
  BY <1>5 DEF Listed

(* A run behind the list of its chain ends with EPERM, or passes the gate in *)
(* exactly its one shape.                                                    *)
LEMMA GateRun ==
    ASSUME NEW prog, WellFormed(prog), NEW call \in AllCalls, NEW r, IsRun(r, prog, call),
           NEW list \in Seq(Nat), NEW openat \in Nat, NEW gate \in Nat, NEW start \in Nat,
           Embedded(prog, start, AllowlistChain(list, openat, gate)),
           NEW n \in Nat, n <= Len(prog), gate # NoGate => n + 6 <= Len(prog),
           r[n].pc = start + 2 * Len(list) + 2, r[n].acc = call.nr
    PROVE  prog[r[Len(prog)].pc].field =
               IF gate # NoGate /\ call.nr = openat /\ call.arg0 = gate /\ call.arg2 = ReadFlags
               THEN "allow" ELSE "eperm"
<1> DEFINE M == Len(prog)
           q == 2 * Len(list) + 2
           p == start + q
           chain == AllowlistChain(list, openat, gate)
           out == prog[r[M].pc].field
<1>1. M \in Nat /\ q \in Nat /\ p \in Nat /\ q >= 2
  BY DEF WellFormed
<1>2. r[n].pc = p
  <2>1. start + 2 * Len(list) + 2 = p
    BY <1>1
  <2> QED
    BY <2>1
<1>3. \A m \in 0..M : \A v : prog[r[m].pc] = RetK(v) => out = v
  <2> SUFFICES ASSUME NEW m \in 0..M, NEW v, prog[r[m].pc] = RetK(v) PROVE out = v
    OBVIOUS
  <2> QED
    BY RunReturns
<1>4. \A m \in 0..(M - 1) : \A k, j : prog[r[m].pc] = JeqK(k, 0, j)
         => /\ r[m].acc = k => r[m + 1].pc = r[m].pc + 1 + 0
            /\ r[m].acc # k => r[m + 1].pc = r[m].pc + 1 + j
            /\ r[m + 1].acc = r[m].acc
  <2> SUFFICES ASSUME NEW m \in 0..(M - 1), NEW k, NEW j, prog[r[m].pc] = JeqK(k, 0, j)
               PROVE  /\ r[m].acc = k => r[m + 1].pc = r[m].pc + 1 + 0
                      /\ r[m].acc # k => r[m + 1].pc = r[m].pc + 1 + j
                      /\ r[m + 1].acc = r[m].acc
    OBVIOUS
  <2> QED
    BY RunJumps
<1>5. \A m \in 0..(M - 1) : \A f : prog[r[m].pc] = LdAbs(f)
         => r[m + 1].pc = r[m].pc + 1 /\ r[m + 1].acc = call[f]
  <2> SUFFICES ASSUME NEW m \in 0..(M - 1), NEW f, prog[r[m].pc] = LdAbs(f)
               PROVE  r[m + 1].pc = r[m].pc + 1 /\ r[m + 1].acc = call[f]
    OBVIOUS
  <2> QED
    BY RunLoads
<1>6. /\ Len(chain) = AllowlistChainLen(list, gate)
      /\ gate = NoGate => chain[q] = RetK("eperm")
      /\ gate # NoGate => /\ chain[q] = JeqK(openat, 0, 5) /\ chain[q + 1] = LdAbs("arg0")
                          /\ chain[q + 2] = JeqK(gate, 0, 3) /\ chain[q + 3] = LdAbs("arg2")
                          /\ chain[q + 4] = JeqK(ReadFlags, 0, 1)
                          /\ chain[q + 5] = RetK("allow") /\ chain[q + 6] = RetK("eperm")
  BY ChainShape
<1>7. /\ Len(chain) \in Nat
      /\ gate = NoGate => q \in 1..Len(chain)
      /\ gate # NoGate => \A i \in 0..6 : q + i \in 1..Len(chain)
  <2>1. /\ gate = NoGate => Len(chain) = q
        /\ gate # NoGate => Len(chain) = q + 6
    BY <1>6 DEF AllowlistChainLen
  <2> HIDE DEF q, chain
  <2>2. CASE gate = NoGate
    BY <1>1, <2>1, <2>2
  <2>3. CASE gate # NoGate
    <3>1. Len(chain) = q + 6
      BY <2>1, <2>3
    <3>2. \A i \in 0..6 : q + i \in 1..(q + 6)
      BY <1>1
    <3>3. q + 6 \in Nat
      BY <1>1
    <3> QED
      BY <2>3, <3>1, <3>2, <3>3
  <2> QED
    BY <2>2, <2>3
<1>8. \A i \in 1..Len(chain) : prog[start + i] = chain[i]
  BY DEF Embedded
<1>9. n \in 0..M
  BY <1>1
<1>10. CASE gate = NoGate
  <2>1. prog[p] = RetK("eperm")
    <3> HIDE DEF q, chain
    <3> QED
      BY <1>6, <1>7, <1>8, <1>10
  <2> HIDE DEF p, q, chain, M, out
  <2>2. out = "eperm"
    BY <1>2, <1>3, <1>9, <2>1, Zenon
  <2> QED
    BY <1>10, <2>2 DEF out, M
<1>11. CASE gate # NoGate
  <2>1. /\ prog[p] = JeqK(openat, 0, 5) /\ prog[p + 1] = LdAbs("arg0")
        /\ prog[p + 2] = JeqK(gate, 0, 3) /\ prog[p + 3] = LdAbs("arg2")
        /\ prog[p + 4] = JeqK(ReadFlags, 0, 1)
        /\ prog[p + 5] = RetK("allow") /\ prog[p + 6] = RetK("eperm")
    <3> HIDE DEF q, chain
    <3>1. \A i \in 0..6 : prog[start + (q + i)] = chain[q + i]
      BY <1>7, <1>8, <1>11
    <3>2. \A i \in 0..6 : start + (q + i) = p + i
      BY <1>1
    <3>3. \A i \in 0..6 : prog[p + i] = chain[q + i]
      BY <3>1, <3>2
    <3>4. p + 0 = p /\ q + 0 = q
      BY <1>1
    <3>5. /\ prog[p] = chain[q] /\ prog[p + 1] = chain[q + 1] /\ prog[p + 2] = chain[q + 2]
          /\ prog[p + 3] = chain[q + 3] /\ prog[p + 4] = chain[q + 4]
          /\ prog[p + 5] = chain[q + 5] /\ prog[p + 6] = chain[q + 6]
      <4>1. 0 \in 0..6 /\ 1 \in 0..6 /\ 2 \in 0..6 /\ 3 \in 0..6 /\ 4 \in 0..6 /\ 5 \in 0..6
            /\ 6 \in 0..6
        OBVIOUS
      <4> HIDE DEF p
      <4> QED
        BY <3>3, <3>4, <4>1, Zenon
    <3> HIDE DEF p
    <3> QED
      BY <1>6, <1>11, <3>5, Zenon
  <2> DEFINE At(m, a, b) == r[m].pc = a /\ r[m].acc = b
  <2>2. \A m \in 0..(M - 1) : \A a, b, k, j :
           At(m, a, b) /\ prog[a] = JeqK(k, 0, j) /\ b = k => At(m + 1, a + 1 + 0, b)
    <3> TAKE m \in 0..(M - 1)
    <3> TAKE a, b, k, j
    <3> HAVE At(m, a, b) /\ prog[a] = JeqK(k, 0, j) /\ b = k
    <3>1. prog[r[m].pc] = JeqK(k, 0, j) /\ r[m].acc = k
      OBVIOUS
    <3>2. r[m + 1].pc = r[m].pc + 1 + 0 /\ r[m + 1].acc = r[m].acc
      <4> HIDE DEF At
      <4> QED BY <1>4, <3>1, ZenonT(30)
    <3> QED
      BY <3>2
  <2>13. \A m \in 0..(M - 1) : \A a, b, k, j :
           At(m, a, b) /\ prog[a] = JeqK(k, 0, j) /\ b # k => At(m + 1, a + 1 + j, b)
    <3> TAKE m \in 0..(M - 1)
    <3> TAKE a, b, k, j
    <3> HAVE At(m, a, b) /\ prog[a] = JeqK(k, 0, j) /\ b # k
    <3>1. prog[r[m].pc] = JeqK(k, 0, j) /\ r[m].acc # k
      OBVIOUS
    <3>2. r[m + 1].pc = r[m].pc + 1 + j /\ r[m + 1].acc = r[m].acc
      <4> HIDE DEF At
      <4> QED BY <1>4, <3>1, ZenonT(30)
    <3> QED
      BY <3>2
  <2>3. \A m \in 0..(M - 1) : \A a, b, f : At(m, a, b) /\ prog[a] = LdAbs(f)
           => At(m + 1, a + 1, call[f])
    BY <1>5, Zenon
  <2>4. \A m \in 0..M : \A a, b, v : At(m, a, b) /\ prog[a] = RetK(v) => out = v
    <3> HIDE DEF out
    <3> QED BY <1>3, Zenon
  <2>5. At(n, p, call.nr)
    BY <1>2
  <2> DEFINE p1 == p + 1
             p2 == p + 2
             p3 == p + 3
             p4 == p + 4
             p5 == p + 5
             p6 == p + 6
             m1 == n + 1
             m2 == m1 + 1
             m3 == m2 + 1
             m4 == m3 + 1
             m5 == m4 + 1
  <2>6. /\ p + 1 + 0 = p1 /\ p + 1 + 5 = p6 /\ p1 + 1 = p2 /\ p2 + 1 + 0 = p3
        /\ p2 + 1 + 3 = p6 /\ p3 + 1 = p4 /\ p4 + 1 + 0 = p5 /\ p4 + 1 + 1 = p6
    BY <1>1
  <2>7. /\ n \in 0..(M - 1) /\ m1 \in 0..(M - 1) /\ m2 \in 0..(M - 1) /\ m3 \in 0..(M - 1)
        /\ m4 \in 0..(M - 1) /\ m1 \in 0..M /\ m3 \in 0..M /\ m5 \in 0..M
    BY <1>1, <1>11
  <2>8. call["arg0"] = call.arg0 /\ call["arg2"] = call.arg2
    OBVIOUS
  <2>9. /\ prog[p] = JeqK(openat, 0, 5) /\ prog[p1] = LdAbs("arg0")
        /\ prog[p2] = JeqK(gate, 0, 3) /\ prog[p3] = LdAbs("arg2")
        /\ prog[p4] = JeqK(ReadFlags, 0, 1)
        /\ prog[p5] = RetK("allow") /\ prog[p6] = RetK("eperm")
    BY <2>1
  <2>10. n + 1 = m1 /\ m1 + 1 = m2 /\ m2 + 1 = m3 /\ m3 + 1 = m4 /\ m4 + 1 = m5
    OBVIOUS
  <2> HIDE DEF p, q, chain, M, out, At, p1, p2, p3, p4, p5, p6, m1, m2, m3, m4, m5
  <2>11. CASE call.nr # openat
    <3>1. At(m1, p6, call.nr)
      BY <2>13, <2>5, <2>6, <2>7, <2>9, <2>10, <2>11, Zenon
    <3>2. out = "eperm"
      BY <2>4, <2>7, <2>9, <3>1, Zenon
    <3> QED
      BY <2>11, <3>2 DEF out, M
  <2>12. CASE call.nr = openat
    <3>1. At(m1, p1, call.nr)
      BY <2>2, <2>5, <2>6, <2>7, <2>9, <2>10, <2>12, Zenon
    <3>2. At(m2, p2, call.arg0)
      BY <2>3, <2>6, <2>7, <2>8, <2>9, <2>10, <3>1, Zenon
    <3>3. CASE call.arg0 # gate
      <4>1. At(m3, p6, call.arg0)
        BY <2>13, <2>6, <2>7, <2>9, <2>10, <3>2, <3>3, Zenon
      <4>2. out = "eperm"
        BY <2>4, <2>7, <2>9, <4>1, Zenon
      <4> QED
        BY <3>3, <4>2 DEF out, M
    <3>4. CASE call.arg0 = gate
      <4>1. At(m3, p3, call.arg0)
        BY <2>2, <2>6, <2>7, <2>9, <2>10, <3>2, <3>4, Zenon
      <4>2. At(m4, p4, call.arg2)
        BY <2>3, <2>6, <2>7, <2>8, <2>9, <2>10, <4>1, Zenon
      <4>3. CASE call.arg2 = ReadFlags
        <5>1. At(m5, p5, call.arg2)
          BY <2>2, <2>6, <2>7, <2>9, <2>10, <4>2, <4>3, Zenon
        <5>2. out = "allow"
          BY <2>4, <2>7, <2>9, <5>1, Zenon
        <5> QED
          BY <1>11, <2>12, <3>4, <4>3, <5>2 DEF out, M
      <4>4. CASE call.arg2 # ReadFlags
        <5>1. At(m5, p6, call.arg2)
          BY <2>13, <2>6, <2>7, <2>9, <2>10, <4>2, <4>4, ZenonT(30)
        <5>2. out = "eperm"
          BY <2>4, <2>7, <2>9, <5>1, Zenon
        <5> QED
          BY <4>4, <5>2 DEF out, M
      <4> QED BY <4>3, <4>4
    <3> QED BY <3>3, <3>4
  <2> QED BY <2>11, <2>12
<1> QED
  BY <1>10, <1>11

(* A run at the start of a chain ends as that chain's table and gate say. *)
LEMMA ChainRun ==
    ASSUME NEW prog, WellFormed(prog), NEW call \in AllCalls, NEW r, IsRun(r, prog, call),
           NEW list \in Seq(Nat), NEW openat \in Nat, NEW gate \in Nat, NEW start \in Nat,
           Embedded(prog, start, AllowlistChain(list, openat, gate)),
           NEW n \in Nat, n + 1 + Len(list) <= Len(prog),
           gate # NoGate => n + 1 + Len(list) + 6 <= Len(prog),
           r[n].pc = start + 1
    PROVE  prog[r[Len(prog)].pc].field =
               IF \/ Listed(list, call.nr)
                  \/ gate # NoGate /\ call.nr = openat /\ call.arg0 = gate /\ call.arg2 = ReadFlags
               THEN "allow" ELSE "eperm"
<1> DEFINE M == Len(prog)
           N == Len(list)
           m == n + 1
           e == m + N
<1>1. M \in Nat /\ N \in Nat /\ n \in 0..(M - 1) /\ m \in Nat /\ e \in Nat /\ e \in 0..M
  BY DEF WellFormed
<1>2. prog[start + 1] = LdAbs("nr")
  <2> DEFINE chain == AllowlistChain(list, openat, gate)
  <2>1. chain[1] = LdAbs("nr") /\ Len(chain) = AllowlistChainLen(list, gate)
    BY ChainShape
  <2>2. 1 \in 1..Len(chain)
    BY <1>1, <2>1 DEF AllowlistChainLen
  <2> QED
    BY <2>1, <2>2 DEF Embedded
<1>3. r[m].pc = start + 2 /\ r[m].acc = call.nr
  <2> DEFINE p == start + 1
             f == "nr"
  <2>1. r[n].pc = p /\ prog[p] = LdAbs(f) /\ p + 1 = start + 2 /\ call[f] = call.nr
    BY <1>2
  <2> HIDE DEF p, f
  <2>2. r[n + 1].pc = p + 1 /\ r[n + 1].acc = call[f]
    BY <1>1, <2>1, RunLoads
  <2> QED
    BY <2>1, <2>2
<1>4. \/ Listed(list, call.nr) /\ prog[r[e].pc] = RetK("allow")
      \/ ~ Listed(list, call.nr) /\ r[e].pc = start + 2 * N + 2 /\ r[e].acc = call.nr
  <2>1. m \in Nat /\ m + Len(list) <= Len(prog)
    BY <1>1
  <2> HIDE DEF m
  <2> QED
    BY <1>3, <2>1, ListRun
<1>5. CASE Listed(list, call.nr) /\ prog[r[e].pc] = RetK("allow")
  <2>1. prog[r[M].pc].field = "allow"
    <3> HIDE DEF e
    <3> QED
      BY <1>1, <1>5, RunReturns
  <2> QED
    BY <1>5, <2>1
<1>6. CASE ~ Listed(list, call.nr) /\ r[e].pc = start + 2 * N + 2 /\ r[e].acc = call.nr
  <2>1. e \in Nat /\ e <= Len(prog) /\ (gate # NoGate => e + 6 <= Len(prog))
    BY <1>1
  <2> HIDE DEF e
  <2>2. prog[r[M].pc].field =
           IF gate # NoGate /\ call.nr = openat /\ call.arg0 = gate /\ call.arg2 = ReadFlags
           THEN "allow" ELSE "eperm"
    BY <1>6, <2>1, GateRun
  <2> QED
    BY <1>6, <2>2
<1> QED
  BY <1>4, <1>5, <1>6

(* Where a chain lies in a program made of three parts. *)
LEMMA CatEmbeds ==
    ASSUME NEW a \in Seq(Insns), NEW b \in Seq(Insns), NEW c \in Seq(Insns)
    PROVE  LET prog == a \o b \o c
           IN  /\ prog \in Seq(Insns) /\ Len(prog) = Len(a) + Len(b) + Len(c)
               /\ \A i \in 1..Len(a) : prog[i] = a[i]
               /\ Embedded(prog, Len(a), b)
               /\ Embedded(prog, Len(a) + Len(b), c)
<1> DEFINE ab == a \o b
           prog == ab \o c
<1>1. /\ ab \in Seq(Insns) /\ Len(ab) = Len(a) + Len(b)
      /\ \A i \in 1..Len(a) : ab[i] = a[i]
      /\ \A i \in 1..Len(b) : ab[Len(a) + i] = b[i]
  BY CatAt
<1> HIDE DEF ab
<1>2. /\ prog \in Seq(Insns) /\ Len(prog) = Len(ab) + Len(c)
      /\ \A i \in 1..Len(ab) : prog[i] = ab[i]
      /\ \A i \in 1..Len(c) : prog[Len(ab) + i] = c[i]
  BY <1>1, CatAt
<1> HIDE DEF prog
<1>3. Len(a) \in Nat /\ Len(b) \in Nat /\ Len(c) \in Nat
  OBVIOUS
<1>4. /\ \A i \in 1..Len(a) : i \in 1..Len(ab)
      /\ \A i \in 1..Len(b) : Len(a) + i \in 1..Len(ab)
  BY <1>1, <1>3
<1>5. \A i \in 1..Len(a) : prog[i] = a[i]
  BY <1>1, <1>2, <1>4
<1>6. Embedded(prog, Len(a), b)
  <2>1. Len(a) + Len(b) <= Len(prog)
    BY <1>1, <1>2, <1>3
  <2>2. \A i \in 1..Len(b) : prog[Len(a) + i] = b[i]
    BY <1>1, <1>2, <1>4
  <2> QED
    BY <2>1, <2>2 DEF Embedded
<1>7. Embedded(prog, Len(a) + Len(b), c)
  BY <1>1, <1>2, <1>3 DEF Embedded
<1> QED
  BY <1>1, <1>2, <1>5, <1>6, <1>7 DEF prog, ab

(* Within the chains of a program no instruction leaves the program. *)
LEMMA EmbeddedStays ==
    ASSUME NEW prog \in Seq(Insns), NEW chain, WellFormed(chain), NEW start \in Nat,
           Embedded(prog, start, chain), NEW pc \in (start + 1)..(start + Len(chain))
    PROVE  /\ prog[pc].op = "ld" => pc + 1 <= Len(prog) /\ prog[pc].field \in CallFields
           /\ prog[pc].op = "jeq" => /\ pc + 1 + prog[pc].jt <= Len(prog)
                                     /\ pc + 1 + prog[pc].jf <= Len(prog)
<1> DEFINE i == pc - start
           insn == chain[i]
<1>1. Len(chain) \in Nat /\ Len(prog) \in Nat /\ start + Len(chain) <= Len(prog)
  BY DEF WellFormed, Embedded
<1>2. i \in 1..Len(chain) /\ start + i = pc /\ i \in Nat
  BY <1>1
<1>3. prog[start + i] = insn
  <2> HIDE DEF i
  <2> QED
    BY <1>2 DEF Embedded
<1>4. prog[pc] = insn
  BY <1>2, <1>3
<1>5. insn \in Insns
  <2> HIDE DEF i
  <2> QED
    BY <1>2 DEF WellFormed
<1>6. /\ insn.op = "ld" => i + 1 <= Len(chain) /\ insn.field \in CallFields
      /\ insn.op = "jeq" => i + 1 + insn.jt <= Len(chain) /\ i + 1 + insn.jf <= Len(chain)
  <2> HIDE DEF i
  <2> QED
    BY <1>2 DEF WellFormed
<1>7. insn.jt \in Nat /\ insn.jf \in Nat
  BY <1>5 DEF Insns
<1> HIDE DEF insn
<1>8. insn.op = "ld" => pc + 1 <= Len(prog) /\ insn.field \in CallFields
  BY <1>1, <1>6
<1>9. insn.op = "jeq" => pc + 1 + insn.jt <= Len(prog) /\ pc + 1 + insn.jf <= Len(prog)
  BY <1>1, <1>6, <1>7
<1> QED
  BY <1>4, <1>8, <1>9

(* The assembled program: its four dispatch instructions and the two chains. *)
LEMMA FilterShape ==
    ASSUME NEW gate \in Nat
    PROVE  LET prog == BuildFilterProgram(gate)
               first == AllowlistChainLen(X86Syscalls, gate)
           IN  /\ prog \in Seq(Insns)
               /\ Len(prog) = 4 + first + AllowlistChainLen(AarchSyscalls, gate)
               /\ prog[1] = LdAbs("arch") /\ prog[2] = JeqK(X86, 2, 0)
               /\ prog[3] = JeqK(Aarch, 1 + first, 0) /\ prog[4] = RetK("kill")
               /\ Embedded(prog, 4, AllowlistChain(X86Syscalls, X86Openat, gate))
               /\ Embedded(prog, 4 + first, AllowlistChain(AarchSyscalls, AarchOpenat, gate))
<1> DEFINE first == AllowlistChainLen(X86Syscalls, gate)
           b == AllowlistChain(X86Syscalls, X86Openat, gate)
           c == AllowlistChain(AarchSyscalls, AarchOpenat, gate)
           i1 == LdAbs("arch")
           i2 == JeqK(X86, 2, 0)
           i3 == JeqK(Aarch, 1 + first, 0)
           i4 == RetK("kill")
           a == <<i1, i2, i3, i4>>
           prog == a \o b \o c
<1>1. b \in Seq(Insns) /\ Len(b) = first
  BY FilterAssumption, ChainShape
<1>2. c \in Seq(Insns) /\ Len(c) = AllowlistChainLen(AarchSyscalls, gate)
  BY FilterAssumption, ChainShape
<1>3. first \in Nat
  BY FilterAssumption DEF AllowlistChainLen
<1>4. BuildFilterProgram(gate) = prog
  <2>1. 4 - 2 = 2 /\ 4 + first - 3 = 1 + first
    BY <1>3
  <2> HIDE DEF first
  <2> QED
    BY <2>1 DEF BuildFilterProgram, first
<1>5. i1 \in Insns /\ i2 \in Insns /\ i3 \in Insns /\ i4 \in Insns
  <2>1. "arch" \in CallFields /\ "kill" \in Verdicts
    BY DEF CallFields, Verdicts
  <2>2. X86 \in Nat /\ Aarch \in Nat /\ 2 \in Nat /\ 0 \in Nat /\ 1 + first \in Nat
    BY <1>3 DEF X86, Aarch
  <2> HIDE DEF first
  <2> QED
    BY <2>1, <2>2, InsnsTyped
<1> HIDE DEF first, b, c, i1, i2, i3, i4
<1>6. a \in Seq(Insns) /\ Len(a) = 4 /\ a[1] = i1 /\ a[2] = i2 /\ a[3] = i3 /\ a[4] = i4
  BY <1>5
<1> HIDE DEF a
<1>7. /\ prog \in Seq(Insns) /\ Len(prog) = Len(a) + Len(b) + Len(c)
      /\ \A i \in 1..Len(a) : prog[i] = a[i]
      /\ Embedded(prog, Len(a), b)
      /\ Embedded(prog, Len(a) + Len(b), c)
  BY <1>1, <1>2, <1>6, CatEmbeds
<1> HIDE DEF prog
<1>8. prog[1] = i1 /\ prog[2] = i2 /\ prog[3] = i3 /\ prog[4] = i4
  BY <1>6, <1>7
<1> QED
  BY <1>1, <1>2, <1>4, <1>6, <1>7, <1>8 DEF first, b, c, i1, i2, i3, i4

(* The kernel takes the program: it passes its check. *)
LEMMA FilterWellFormed ==
    ASSUME NEW gate \in Nat
    PROVE  WellFormed(BuildFilterProgram(gate))
<1> DEFINE prog == BuildFilterProgram(gate)
           b == AllowlistChain(X86Syscalls, X86Openat, gate)
           c == AllowlistChain(AarchSyscalls, AarchOpenat, gate)
           F == AllowlistChainLen(X86Syscalls, gate)
           G == AllowlistChainLen(AarchSyscalls, gate)
           Stays(insn, pc) ==
              /\ insn.op = "ld" => pc + 1 <= Len(prog) /\ insn.field \in CallFields
              /\ insn.op = "jeq" => pc + 1 + insn.jt <= Len(prog) /\ pc + 1 + insn.jf <= Len(prog)
<1>1. /\ prog \in Seq(Insns)
      /\ Len(prog) = 4 + F + G
      /\ prog[1] = LdAbs("arch") /\ prog[2] = JeqK(X86, 2, 0)
      /\ prog[3] = JeqK(Aarch, 1 + F, 0) /\ prog[4] = RetK("kill")
      /\ Embedded(prog, 4, b) /\ Embedded(prog, 4 + F, c)
  BY FilterShape
<1>2. WellFormed(b) /\ WellFormed(c)
  BY FilterAssumption, ChainWellFormed
<1>3. F \in Nat /\ G \in Nat /\ F >= 2 /\ G >= 2
  BY FilterAssumption DEF AllowlistChainLen
<1>4. Len(b) = F /\ Len(c) = G
  BY FilterAssumption, ChainShape
<1> HIDE DEF prog, b, c, F, G
<1>5. \A pc \in 1..Len(prog) : Stays(prog[pc], pc)
  <2> SUFFICES ASSUME NEW pc \in 1..Len(prog) PROVE Stays(prog[pc], pc)
    OBVIOUS
  <2>1. CASE pc = 1
    BY <1>1, <1>3, <2>1 DEF LdAbs, CallFields
  <2>2. CASE pc = 2
    BY <1>1, <1>3, <2>2 DEF JeqK
  <2>3. CASE pc = 3
    BY <1>1, <1>3, <2>3 DEF JeqK
  <2>4. CASE pc = 4
    BY <1>1, <2>4 DEF RetK
  <2>5. CASE pc \in (4 + 1)..(4 + F)
    BY <1>1, <1>2, <1>4, <2>5, EmbeddedStays
  <2>6. CASE pc \in ((4 + F) + 1)..((4 + F) + G)
    <3> DEFINE s == 4 + F
    <3>1. s \in Nat
      BY <1>3
    <3> HIDE DEF s
    <3> QED
      BY <1>1, <1>2, <1>4, <2>6, <3>1, EmbeddedStays DEF s
  <2>7. \/ pc = 1 \/ pc = 2 \/ pc = 3 \/ pc = 4 \/ pc \in (4 + 1)..(4 + F)
        \/ pc \in ((4 + F) + 1)..((4 + F) + G)
    BY <1>1, <1>3
  <2> HIDE DEF Stays
  <2> QED
    BY <2>1, <2>2, <2>3, <2>4, <2>5, <2>6, <2>7
<1> QED
  BY <1>1, <1>5 DEF WellFormed, prog

(* What the filter decides, for every call: the run through the dispatch     *)
(* into the chain of the call's architecture.                                *)
LEMMA FilterVerdict ==
    ASSUME NEW gate \in Nat, NEW call \in AllCalls
    PROVE  Verdict(BuildFilterProgram(gate), call) = Reference(gate, call)
<1> DEFINE prog == BuildFilterProgram(gate)
           M == Len(prog)
           F == AllowlistChainLen(X86Syscalls, gate)
           G == AllowlistChainLen(AarchSyscalls, gate)
           b == AllowlistChain(X86Syscalls, X86Openat, gate)
           c == AllowlistChain(AarchSyscalls, AarchOpenat, gate)
<1>1. /\ prog \in Seq(Insns) /\ M = 4 + F + G
      /\ prog[1] = LdAbs("arch") /\ prog[2] = JeqK(X86, 2, 0)
      /\ prog[3] = JeqK(Aarch, 1 + F, 0) /\ prog[4] = RetK("kill")
      /\ Embedded(prog, 4, b) /\ Embedded(prog, 4 + F, c)
  BY FilterShape
<1>2. WellFormed(prog)
  BY FilterWellFormed
<1>3. /\ F \in Nat /\ G \in Nat /\ M \in Nat
      /\ F >= 2 + 2 * Len(X86Syscalls) /\ G >= 2 + 2 * Len(AarchSyscalls)
      /\ gate # NoGate => F >= 8 + 2 * Len(X86Syscalls) /\ G >= 8 + 2 * Len(AarchSyscalls)
      /\ Len(X86Syscalls) \in Nat /\ Len(AarchSyscalls) \in Nat
  <2>1. Len(X86Syscalls) \in Nat /\ Len(AarchSyscalls) \in Nat
    BY FilterAssumption
  <2> QED
    BY <1>1, <2>1 DEF AllowlistChainLen
<1> HIDE DEF prog, b, c, F, G
<1>4. prog # << >>
  BY <1>1, <1>3
<1>5. PICK r : IsRun(r, prog, call) /\ Verdict(prog, call) = prog[r[M].pc].field
  BY <1>2, <1>4, VerdictRun
<1> DEFINE out == prog[r[M].pc].field
<1>6. r[0].pc = 1
  BY <1>5 DEF IsRun
<1>7. r[1].pc = 2 /\ r[1].acc = call.arch
  <2> DEFINE n == 0
             p == 1
             f == "arch"
  <2>1. n \in 0..(M - 1) /\ r[n].pc = p /\ prog[p] = LdAbs(f)
    BY <1>1, <1>3, <1>6
  <2>2. n + 1 = 1 /\ p + 1 = 2 /\ call[f] = call.arch
    OBVIOUS
  <2> HIDE DEF n, p, f
  <2>3. r[n + 1].pc = p + 1 /\ r[n + 1].acc = call[f]
    BY <1>2, <1>5, <2>1, RunLoads
  <2> QED
    BY <2>2, <2>3
<1>8. /\ call.arch = X86 => r[2].pc = 5
      /\ call.arch # X86 => r[2].pc = 3
      /\ r[2].acc = call.arch
  <2> DEFINE n == 1
             k == X86
             jt == 2
             jf == 0
  <2>1. n \in 0..(M - 1) /\ r[n].pc = 2 /\ prog[r[n].pc] = JeqK(k, jt, jf)
    BY <1>1, <1>3, <1>7
  <2>2. n + 1 = 2 /\ 2 + 1 + jt = 5 /\ 2 + 1 + jf = 3 /\ r[n].acc = call.arch
    BY <1>7
  <2> HIDE DEF n, k, jt, jf
  <2>3. /\ r[n].acc = k => r[n + 1].pc = r[n].pc + 1 + jt
        /\ r[n].acc # k => r[n + 1].pc = r[n].pc + 1 + jf
        /\ r[n + 1].acc = r[n].acc
    BY <1>2, <1>5, <2>1, RunJumps
  <2> QED
    BY <2>1, <2>2, <2>3 DEF k
<1>9. CASE call.arch = X86
  <2> DEFINE n == 2
             start == 4
  <2>1. /\ n \in Nat /\ n + 1 + Len(X86Syscalls) <= Len(prog)
        /\ gate # NoGate => n + 1 + Len(X86Syscalls) + 6 <= Len(prog)
    BY <1>1, <1>3
  <2>2. start \in Nat /\ r[n].pc = start + 1 /\ Embedded(prog, start, b)
    BY <1>1, <1>8, <1>9
  <2> HIDE DEF n, start
  <2>3. out = IF \/ Listed(X86Syscalls, call.nr)
                 \/ gate # NoGate /\ call.nr = X86Openat /\ call.arg0 = gate /\ call.arg2 = ReadFlags
              THEN "allow" ELSE "eperm"
    BY <1>2, <1>5, <2>1, <2>2, FilterAssumption, ChainRun DEF b
  <2> QED
    BY <1>5, <1>9, <2>3 DEF Reference, Listed, prog, X86, OtherArch
<1>10. CASE call.arch # X86
  <2>1. /\ call.arch = Aarch => r[3].pc = 4 + F + 1
        /\ call.arch # Aarch => r[3].pc = 4
    <3> DEFINE n == 2
               k == Aarch
               jt == 1 + F
               jf == 0
    <3>1. n \in 0..(M - 1) /\ r[n].pc = 3 /\ prog[r[n].pc] = JeqK(k, jt, jf)
      BY <1>1, <1>3, <1>8, <1>10
    <3>2. n + 1 = 3 /\ 3 + 1 + jt = 4 + F + 1 /\ 3 + 1 + jf = 4 /\ r[n].acc = call.arch
      BY <1>3, <1>8
    <3> HIDE DEF n, k, jt, jf
    <3>3. /\ r[n].acc = k => r[n + 1].pc = r[n].pc + 1 + jt
          /\ r[n].acc # k => r[n + 1].pc = r[n].pc + 1 + jf
          /\ r[n + 1].acc = r[n].acc
      BY <1>2, <1>5, <3>1, RunJumps
    <3> QED
      BY <3>1, <3>2, <3>3 DEF k
  <2>2. CASE call.arch = Aarch
    <3> DEFINE n == 3
               start == 4 + F
    <3>1. /\ n \in Nat /\ n + 1 + Len(AarchSyscalls) <= Len(prog)
          /\ gate # NoGate => n + 1 + Len(AarchSyscalls) + 6 <= Len(prog)
      BY <1>1, <1>3
    <3>2. start \in Nat /\ r[n].pc = start + 1 /\ Embedded(prog, start, c)
      BY <1>1, <1>3, <2>1, <2>2
    <3> HIDE DEF n, start
    <3>3. out = IF \/ Listed(AarchSyscalls, call.nr)
                   \/ gate # NoGate /\ call.nr = AarchOpenat /\ call.arg0 = gate /\ call.arg2 = ReadFlags
                THEN "allow" ELSE "eperm"
      BY <1>2, <1>5, <3>1, <3>2, FilterAssumption, ChainRun DEF c
    <3> QED
      BY <1>5, <2>2, <3>3 DEF Reference, Listed, prog, X86, Aarch, OtherArch
  <2>3. CASE call.arch # Aarch
    <3> DEFINE n == 3
               v == "kill"
    <3>1. n \in 0..M /\ prog[r[n].pc] = RetK(v)
      BY <1>1, <1>3, <2>1, <2>3
    <3> HIDE DEF n, v
    <3>2. out = v
      BY <1>2, <1>5, <3>1, RunReturns
    <3>3. call.arch = OtherArch
      BY <1>10, <2>3 DEF AllCalls, Arches
    <3> QED
      BY <1>5, <3>2, <3>3 DEF Reference, prog, v
  <2> QED BY <2>2, <2>3
<1> QED
  BY <1>9, <1>10

(* The broker runs the filter its tables and its session gate describe: the  *)
(* program build_filter_program assembles, once installed, decides every     *)
(* call of every architecture as the reference does.                         *)
THEOREM FilterDecides == Spec => []FilterExact
<1>1. Calls \subseteq AllCalls
  BY FilterAssumption DEF Calls, AllCalls, SysIoctl, SysSocket, ProcDirfd, AtFdCwd,
     ReadFlags, WriteFlags
<1>2. \A s \in Starts : Gate(s) \in Nat
  BY DEF Gate, NoGate, ProcDirfd
<1>3. FreezeInv => FilterExact
  <2> SUFFICES ASSUME FreezeInv, NEW s \in Starts, srv[s] = "probe", filter[s] # << >>,
                      NEW call \in Calls
               PROVE  Verdict(filter[s], call) = Reference(Gate(s), call)
    BY DEF FilterExact
  <2>1. filter[s] = BuildFilterProgram(Gate(s))
    BY DEF FreezeInv, FilterOnTheWay
  <2>2. call \in AllCalls /\ Gate(s) \in Nat
    BY <1>1, <1>2
  <2> QED
    BY <2>1, <2>2, FilterVerdict
<1> QED
  BY <1>3, FreezeInvariant, PTL
=============================================================================

---------------------------- MODULE SeccompFilter ----------------------------
(* The seccomp program the runtime broker freezes itself with               *)
(* (ferrokeyd/src/sandbox.rs): how it is assembled, how the kernel runs it,  *)
(* and the probes that prove it is enforced.  Syscall numbers, descriptors   *)
(* and flag words are small naturals; the jump offsets are the code's.       *)
EXTENDS Integers, Sequences

CONSTANTS X86Syscalls,      \* X86_64_SYSCALLS
          AarchSyscalls,    \* AARCH64_SYSCALLS
          X86Openat, AarchOpenat,
          HostArch          \* the architecture the broker was built for

X86 == 1
Aarch == 2
OtherArch == 3
Arches == {X86, Aarch, OtherArch}

(* Descriptor and flag words of an openat call. *)
AtFdCwd == 100
ProcDirfd == 7
ReadFlags == 2
WriteFlags == 1
NoGate == 0

(* One classic-BPF instruction (struct BpfInsn and its three constructors). *)
LdAbs(field) == [op |-> "ld", k |-> 0, field |-> field, jt |-> 0, jf |-> 0]
JeqK(k, jt, jf) == [op |-> "jeq", k |-> k, field |-> "none", jt |-> jt, jf |-> jf]
RetK(verdict) == [op |-> "ret", k |-> 0, field |-> verdict, jt |-> 0, jf |-> 0]

(* LD nr, two instructions for each syscall, and the terminator. *)
AllowlistChainLen(syscalls, gate) ==
    1 + 2 * Len(syscalls) + (IF gate # NoGate THEN 7 ELSE 1)

(* The gate's jumps count from the end of the block, one too short. *)
AllowlistChainShort(syscalls, openat, gate) ==
    <<LdAbs("nr")>>
    \o [n \in 1..(2 * Len(syscalls)) |->
            IF n % 2 = 1 THEN JeqK(syscalls[(n + 1) \div 2], 0, 1) ELSE RetK("allow")]
    \o (IF gate = NoGate
        THEN <<RetK("eperm")>>
        ELSE << JeqK(openat, 0, 5), LdAbs("arg0"), JeqK(gate, 0, 2), LdAbs("arg2"),
                JeqK(ReadFlags, 0, 1), RetK("allow"), RetK("eperm") >>)

(* The chain of one architecture; with a session gate the openat entry is    *)
(* appended as a block of its own, whose EPERM closes the chain.             *)
AllowlistChain(syscalls, openat, gate) ==
    <<LdAbs("nr")>>
    \o [n \in 1..(2 * Len(syscalls)) |->
            IF n % 2 = 1 THEN JeqK(syscalls[(n + 1) \div 2], 0, 1) ELSE RetK("allow")]
    \o (IF gate = NoGate
        THEN <<RetK("eperm")>>
        ELSE << JeqK(openat, 0, 5), LdAbs("arg0"), JeqK(gate, 0, 3), LdAbs("arg2"),
                JeqK(ReadFlags, 0, 1), RetK("allow"), RetK("eperm") >>)

(* Syscall numbers are u32; the offset to the second chain has to fit a byte *)
(* (build_filter_program panics otherwise).                                  *)
ASSUME FilterAssumption ==
    /\ X86Syscalls \in Seq(Nat) /\ AarchSyscalls \in Seq(Nat)
    /\ X86Openat \in Nat /\ AarchOpenat \in Nat
    /\ AllowlistChainLen(X86Syscalls, ProcDirfd) + 1 <= 255

(* Dispatch on the architecture, then one chain after the other; a jump      *)
(* offset counts from the instruction behind the jump.                       *)
BuildFilterProgram(gate) ==
    << LdAbs("arch"),
       JeqK(X86, 4 - 2, 0),
       JeqK(Aarch, 4 + AllowlistChainLen(X86Syscalls, gate) - 3, 0),
       RetK("kill") >>
    \o AllowlistChain(X86Syscalls, X86Openat, gate)
    \o AllowlistChain(AarchSyscalls, AarchOpenat, gate)

(* The kernel's run of a program on one call.  One instruction: where the    *)
(* run goes on and with which accumulator; a return stays.                   *)
RunStates(prog) == [pc : 1..Len(prog), acc : Nat]

Execute(prog, call) ==
    [m \in RunStates(prog) |->
        LET insn == prog[m.pc]
        IN  CASE insn.op = "ld" -> [pc |-> m.pc + 1, acc |-> call[insn.field]]
              [] insn.op = "jeq" ->
                    [pc |-> m.pc + 1 + (IF m.acc = insn.k THEN insn.jt ELSE insn.jf), acc |-> m.acc]
              [] insn.op = "ret" -> m]

(* Jumps only go forward: a program has returned after as many instructions  *)
(* as it has.  No program: nothing is filtered.                              *)
Verdict(prog, call) ==
    LET run[n \in 0..Len(prog)] ==
            IF n = 0 THEN [pc |-> 1, acc |-> 0] ELSE Execute(prog, call)[run[n - 1]]
    IN  IF prog = << >> THEN "allow" ELSE prog[run[Len(prog)].pc].field

(* The calls a broker on this host can make. *)
HostCall(nr, dirfd, flags) == [arch |-> HostArch, nr |-> nr, arg0 |-> dirfd, arg2 |-> flags]
HostOpenat == IF HostArch = X86 THEN X86Openat ELSE AarchOpenat
SysIoctl == 90
SysSocket == 91

(* One probe: the call came back EPERM.  The forbidden calls are made with   *)
(* arguments the kernel refuses with another errno, or grants, when no       *)
(* filter answers first.                                                     *)
ProbeDenied(prog, call) == Verdict(prog, call) = "eperm"

(* prove_enforced and ProbeReport::all_denied: ioctl, socket and openat are  *)
(* refused; with a gate the lookup passes in its exact shape only.           *)
ProbesAllDenied(prog, gate) ==
    /\ ProbeDenied(prog, HostCall(SysIoctl, 0, 0))
    /\ ProbeDenied(prog, HostCall(SysSocket, 0, 0))
    /\ ProbeDenied(prog, HostCall(HostOpenat, AtFdCwd, WriteFlags))
    /\ gate # NoGate =>
          /\ ~ ProbeDenied(prog, HostCall(HostOpenat, gate, ReadFlags))
          /\ ProbeDenied(prog, HostCall(HostOpenat, gate, WriteFlags))
          /\ ProbeDenied(prog, HostCall(HostOpenat, AtFdCwd, ReadFlags))

(* What the filter is for, without instructions: an allowlisted call of a    *)
(* known architecture, or the gated lookup; a foreign architecture dies.     *)
Reference(gate, call) ==
    LET list == IF call.arch = X86 THEN X86Syscalls ELSE AarchSyscalls
        openat == IF call.arch = X86 THEN X86Openat ELSE AarchOpenat
    IN  IF call.arch = OtherArch THEN "kill"
        ELSE IF \/ \E n \in 1..Len(list) : list[n] = call.nr
                \/ /\ gate # NoGate
                   /\ call.nr = openat /\ call.arg0 = gate /\ call.arg2 = ReadFlags
             THEN "allow" ELSE "eperm"

(* Every call the two tables and the probes can tell apart. *)
Calls == [arch : Arches,
          nr : {X86Syscalls[n] : n \in 1..Len(X86Syscalls)}
               \cup {AarchSyscalls[n] : n \in 1..Len(AarchSyscalls)}
               \cup {X86Openat, AarchOpenat, SysIoctl, SysSocket},
          arg0 : {ProcDirfd, AtFdCwd},
          arg2 : {ReadFlags, WriteFlags}]
=============================================================================

---------------------------- MODULE SyscallFilter ----------------------------
(***************************************************************************)
(* willie-linux/src/sandbox/seccomp.rs: the classic-BPF program, how it is *)
(* assembled from blocks and labels, and how the kernel runs it (external).*)
(*                                                                         *)
(* The audit architecture is the machine number alone, and a verdict its   *)
(* name: their upper bits do not fit TLC's integers.  An argument is its   *)
(* low word, the only half the program loads.                              *)
(***************************************************************************)
EXTENDS Naturals, Sequences

AUDIT_ARCH_X86_64 == 62
X32_SYSCALL_BIT == 2^30
SYS_ioctl == 16
SYS_socket == 41
SYS_prctl == 157
DENIED == <<101, 310, 311, 438, 321, 425, 426, 427, 298, 323, 317, 165, 166, 155,
            442, 428, 429, 430, 431, 432, 433, 272, 308, 175, 313, 176, 246, 320,
            248, 249, 250>>
TIOCSTI == 21522
PR_SET_SECCOMP == 22
AF_NETLINK == 16
AF_PACKET == 17
SOCK_RAW == 3
SOCK_PACKET == 10
SOCK_TYPE_MASK == 256       \* one past the mask: the low byte is kept
NETLINK_ROUTE == 0

-----------------------------------------------------------------------------
Insn(code, k, jt, jf) == [code |-> code, k |-> k, jt |-> jt, jf |-> jf]
Ld(field) == Insn("ld", field, "next", "next")
Ret(verdict) == Insn("ret", verdict, "next", "next")
Jeq(k, jt, jf) == Insn("jeq", k, jt, jf)

ioctl_block == <<Ld("arg1"), Jeq(TIOCSTI, "notify", "allow")>>
socket_block == <<Ld("arg0"),
                  Jeq(AF_PACKET, "notify", "next"),
                  Jeq(AF_NETLINK, "next", "socket_type"),
                  Ld("arg2"),
                  Jeq(NETLINK_ROUTE, "allow", "notify")>>

\* Seeded fault: the flags of a socket's type are not masked off.
socket_type_unmasked == <<Ld("arg1"),
                          Jeq(SOCK_RAW, "notify", "next"),
                          Jeq(SOCK_PACKET, "notify", "allow")>>
socket_type_block == <<Ld("arg1"),
                       Insn("and", SOCK_TYPE_MASK, "next", "next"),
                       Jeq(SOCK_RAW, "notify", "next"),
                       Jeq(SOCK_PACKET, "notify", "allow")>>
prctl_block == <<Ld("arg0"), Jeq(PR_SET_SECCOMP, "notify", "allow")>>


entry_block == <<Ld("arch"),
                 Jeq(AUDIT_ARCH_X86_64, "next", "kill"),
                 Ld("nr"),
                 Insn("jge", X32_SYSCALL_BIT, "kill", "next")>>
               \o [i \in DOMAIN DENIED |-> Jeq(DENIED[i], "notify", "next")]
               \o <<Jeq(SYS_ioctl, "ioctl", "next"),
                    Jeq(SYS_socket, "socket", "next"),
                    Jeq(SYS_prctl, "prctl", "next"),
                    Ret("allow")>>
verdict_block == <<Ret("allow"), Ret("notify"), Ret("kill")>>
items == entry_block \o ioctl_block \o socket_block \o socket_type_block
         \o prctl_block \o verdict_block

\* Where the labels are placed, counting instructions from zero.
mark == LET ioctl == Len(entry_block)
            socket == ioctl + Len(ioctl_block)
            socket_type == socket + Len(socket_block)
            prctl == socket_type + Len(socket_type_block)
            allow == prctl + Len(prctl_block)
        IN  [ioctl |-> ioctl, socket |-> socket, socket_type |-> socket_type,
             prctl |-> prctl, allow |-> allow, notify |-> allow + 1, kill |-> allow + 2]
\* The distance from the instruction after `at`; 255 when it has no encoding.
offset(at, label) ==
    IF label = "next" THEN 0
    ELSE IF mark[label] \in (at + 1)..(at + 256) THEN mark[label] - (at + 1) ELSE 255
\* The program, position p holding instruction p - 1.
program ==
    [p \in DOMAIN items |->
        [items[p] EXCEPT !.jt = offset(p - 1, items[p].jt),
                         !.jf = offset(p - 1, items[p].jf)]]

-----------------------------------------------------------------------------
(* What the kernel makes of a call: the program run on it (external).       *)

\* The words of seccomp_data that the program may load.
SystemCalls == [arch: Nat, nr: Nat, arg0: Nat, arg1: Nat, arg2: Nat]

\* One instruction.  Running past the end is refused at the installation.
execute(prog, call, s) ==
    LET i == prog[s.at]
        taken == IF i.code = "jeq" THEN s.acc = i.k ELSE s.acc >= i.k
    IN  IF s.out # "none" THEN s
        ELSE IF s.at > Len(prog) THEN [s EXCEPT !.out = "refused"]
        ELSE IF i.code = "ret" THEN [s EXCEPT !.out = i.k]
        ELSE IF i.code = "ld" THEN [s EXCEPT !.at = @ + 1, !.acc = call[i.k]]
        ELSE IF i.code = "and" THEN [s EXCEPT !.at = @ + 1, !.acc = @ % i.k]
        ELSE [s EXCEPT !.at = @ + 1 + (IF taken THEN i.jt ELSE i.jf)]

\* Every jump goes forward: no run is longer than the program.
verdict(prog, call) ==
    LET run[n \in 0..Len(prog) + 1] ==
            IF n = 0 THEN [at |-> 1, acc |-> 0, out |-> "none"]
            ELSE execute(prog, call, run[n - 1])
    IN  run[Len(prog) + 1].out

-----------------------------------------------------------------------------
(* What the filter is meant to say, without a program.                      *)
Refuses(call) ==
    \/ \E i \in DOMAIN DENIED : call.nr = DENIED[i]
    \/ call.nr = SYS_ioctl /\ call.arg1 = TIOCSTI
    \/ call.nr = SYS_prctl /\ call.arg0 = PR_SET_SECCOMP
    \/ /\ call.nr = SYS_socket
       /\ IF call.arg0 = AF_NETLINK
            THEN call.arg2 # NETLINK_ROUTE
            ELSE \/ call.arg0 = AF_PACKET
                 \/ call.arg1 % 256 \in {SOCK_RAW, SOCK_PACKET}
Intended(call) ==
    IF call.arch # AUDIT_ARCH_X86_64 \/ call.nr >= X32_SYSCALL_BIT THEN "kill"
    ELSE IF Refuses(call) THEN "notify" ELSE "allow"
=============================================================================

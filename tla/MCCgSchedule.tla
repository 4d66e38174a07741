---------------------------- MODULE MCCgSchedule ----------------------------
(***************************************************************************)
(* A model of schedule() for TLC: two variables, a fixed ILI table, and   *)
(* every routine of three blocks of one statement each, drawn from a menu *)
(* of stores, fences, calls, a block copy and clear, a free, jumps and a  *)
(* return, followed by a block holding the routine's exit.                *)
(***************************************************************************)
EXTENDS CgSchedule

CONSTANTS a1, a2

MCAddr == {a1, a2}

\* Every variable has an NME of its own.
NmeDistinct == [a \in MCAddr |-> a]
\* Both variables share one NME, as elements of one array do when the
\* subscripts are not constants.
NmeShared == [a \in MCAddr |-> a1]

\* The values loads read; only the properties of fma_rewrite look at them.
MCInitVal == [a \in MCAddr |-> 0]

Ld(a)      == [op |-> "ld", a |-> a, l |-> 0, r |-> 0]
Node(o, l) == [op |-> o, a |-> 0, l |-> l, r |-> 0]
St(a, v)   == [op |-> "st", a |-> a, l |-> v, r |-> 0]
Target(o, l, b) == [op |-> o, a |-> b, l |-> l, r |-> 0]
\* A fence of memory order mo for all threads.
Fence(mo) == [op |-> "fence", a |-> 0, l |-> 0, r |-> 0, mo |-> mo, scope |-> "system"]

(***************************************************************************)
(*  1 LD a1          6 ST a1 <- 3      11 FENCE release  16 JMP block 3   *)
(*  2 LD a2          7 ST a2 <- 4      12 JSR            17 MV 4          *)
(*  3 ADD 1 2        8 ST a1 <- 5      13 DFR 12         18 EXIT          *)
(*  4 CSE 3          9 ST a2 <- 1      14 FREE 3         19 ICON          *)
(*  5 CSE 1         10 FENCE acquire   15 CJMPZ 4 blk 2  20 ST a1 <- 19   *)
(* 21 SMOVE a1 -> a2, 2 units, align 8   22 JSR __c_bzero a1, 16 bytes    *)
(***************************************************************************)
MCIL ==
  << Ld(a1), Ld(a2), [op |-> "add", a |-> 0, l |-> 1, r |-> 2],
     Node("cse", 3), Node("cse", 1),
     St(a1, 3), St(a2, 4), St(a1, 5), St(a2, 1),
     Fence("acquire"), Fence("release"),
     Node("jsr", 0), Node("dfr", 12), Node("free", 3),
     Target("cbr", 4, 2), Target("jmp", 0, 3), Node("mv", 4),
     Node("exit", 0), Node("con", 0), St(a1, 19),
     [op |-> "smove", a |-> a2, src |-> a1, len |-> 2, align |-> 8, l |-> 0, r |-> 0],
     [op |-> "bzero", a |-> a1, len |-> 16, l |-> 0, r |-> 0] >>

S(x, d) == [ili |-> x, del |-> d]

\* The statements a block may hold.
Menu ==
  {S(6, TRUE), S(6, FALSE), S(7, TRUE), S(8, TRUE), S(9, TRUE), S(20, TRUE)}
  \cup {S(x, FALSE) : x \in {10, 11, 13, 14, 15, 16, 21, 22}}

\* The move of the return value sits in the block before the exit block.
LastMenu == Menu \cup {S(17, FALSE)}

\* The exit block, with or without the label RETURN statements jump to.
ExitBlock(l) == [lab |-> l, tail |-> FALSE, stmts |-> <<S(18, FALSE)>>]

\* Every jump targets a block whose label is a branch target.
Targeted(p) ==
  \A k \in DOMAIN p : \A i \in DOMAIN p[k].stmts :
    MCIL[p[k].stmts[i].ili].op \in {"cbr", "jmp"}
      => p[MCIL[p[k].stmts[i].ili].a].lab = "join"

MCRoutines ==
  { <<[lab |-> l1, tail |-> FALSE, stmts |-> <<s1>>],
      [lab |-> l2, tail |-> FALSE, stmts |-> <<s2>>],
      [lab |-> l3, tail |-> FALSE, stmts |-> <<s3>>], ExitBlock(l4)>> :
      l1 \in {"none"}, l2 \in {"none", "unref", "join"},
      l3 \in {"none", "unref", "join"}, l4 \in {"none", "join"},
      s1 \in Menu, s2 \in Menu, s3 \in LastMenu }

MCPrograms == {p \in MCRoutines : Targeted(p)}

=============================================================================

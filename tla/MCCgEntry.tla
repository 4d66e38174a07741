------------------------------ MODULE MCCgEntry ------------------------------
(***************************************************************************)
(* A model of schedule() for routines with several entries and a switch:  *)
(* two variables and the choice argument, and every routine of an entry   *)
(* block, two more blocks that may be entries, and the exit block, each   *)
(* with one statement from a menu of stores, a switch and a fence.        *)
(***************************************************************************)
EXTENDS CgSchedule

CONSTANTS a1, a2

MCAddr == {a1, a2, Choice}
NmeDistinct == [a \in MCAddr |-> a]
MCInitVal == [a \in MCAddr |-> 0]

Ld(a)    == [op |-> "ld", a |-> a, l |-> 0, r |-> 0]
St(a, v) == [op |-> "st", a |-> a, l |-> v, r |-> 0]

(***************************************************************************)
(*  1 LD a1          5 ST a2 <- 3                                          *)
(*  2 LD a2          6 JMPM on 1, default block 4, 1 -> block 3, 2 -> 4    *)
(*  3 ADD 1 2        7 FENCE release                                       *)
(*  4 ST a1 <- 3     8 EXIT                                                *)
(***************************************************************************)
MCIL ==
  << Ld(a1), Ld(a2), [op |-> "add", a |-> 0, l |-> 1, r |-> 2],
     St(a1, 3), St(a2, 3),
     [op |-> "jmpm", a |-> 4, l |-> 1, r |-> 0, sw |-> <<<<1, 3>>, <<2, 4>>>>],
     [op |-> "fence", a |-> 0, l |-> 0, r |-> 0, mo |-> "release", scope |-> "system"],
     [op |-> "exit", a |-> 0, l |-> 0, r |-> 0] >>

S(x) == [ili |-> x, del |-> FALSE]

Menu == {S(x) : x \in {4, 5, 6, 7}}

\* A switch targets blocks whose label is a branch target.
Targeted(p) ==
  \A k \in DOMAIN p : \A i \in DOMAIN p[k].stmts :
    MCIL[p[k].stmts[i].ili].op = "jmpm" => p[3].lab = "join"

MCRoutines ==
  { <<[lab |-> "entry", tail |-> t1, stmts |-> <<s1>>],
      [lab |-> l2, tail |-> FALSE, stmts |-> <<s2>>],
      [lab |-> l3, tail |-> FALSE, stmts |-> <<s3>>],
      [lab |-> "join", tail |-> FALSE, stmts |-> <<S(8)>>]>> :
      t1 \in BOOLEAN, l2 \in {"entry", "none", "join"}, l3 \in {"entry", "join"},
      s1 \in Menu, s2 \in Menu, s3 \in Menu }

MCPrograms == {p \in MCRoutines : Targeted(p)}

=============================================================================

----------------------------- MODULE MCCgAtomic -----------------------------
(***************************************************************************)
(* A model of schedule() for the atomic operations: two variables, an ILI *)
(* table of plain and atomic loads and stores, fences, atomicrmw and a    *)
(* cmpxchg with its components, and every routine of one block of three   *)
(* statements followed by the exit block.                                  *)
(***************************************************************************)
EXTENDS CgSchedule

CONSTANTS a1, a2

MCAddr == {a1, a2}
NmeDistinct == [a \in MCAddr |-> a]
MCInitVal == [a \in MCAddr |-> 0]

Ld(a)    == [op |-> "ld", a |-> a, l |-> 0, r |-> 0]
St(a, v) == [op |-> "st", a |-> a, l |-> v, r |-> 0]
\* An atomic ILI: its opcode, address, links, order and scope.
At(o, a, l, r, mo, sc) ==
  [op |-> o, a |-> a, l |-> l, r |-> r, mo |-> mo, fmo |-> "relaxed",
   scope |-> sc, aop |-> "add", vol |-> FALSE, weak |-> FALSE]

(***************************************************************************)
(*  1 LD a1                      10 ST a2 <- 9                            *)
(*  2 LD a2                      11 CMPXCHG a1 cmp 2 new 1 acq_rel/consume*)
(*  3 ST a1 <- 2                 12 CMPXCHG_SUCCESS 11                    *)
(*  4 ST a2 <- 1                 13 CMPXCHG_OLD 11                        *)
(*  5 FENCE seq_cst              14 ST a2 <- 12                           *)
(*  6 FENCE release, 1 thread    15 ST a1 <- 13                           *)
(*  7 ATOMICRMW add a2, 1 seq_cst 16 atomic ST a2 <- 1 release, 1 thread  *)
(*  8 ATOMICRMW xchg a1, 2 relaxed, 1 thread          17 EXIT             *)
(*  9 ATOMICLD a1 consume, 1 thread                                       *)
(***************************************************************************)
MCIL ==
  << Ld(a1), Ld(a2), St(a1, 2), St(a2, 1),
     At("fence", 0, 0, 0, "seq_cst", "system"),
     At("fence", 0, 0, 0, "release", "singlethread"),
     At("rmw", a2, 1, 0, "seq_cst", "system"),
     [At("rmw", a1, 2, 0, "relaxed", "singlethread") EXCEPT !.aop = "xchg"],
     At("ald", a1, 0, 0, "consume", "singlethread"),
     St(a2, 9),
     [At("cx", a1, 2, 1, "acq_rel", "system") EXCEPT !.fmo = "consume"],
     [op |-> "cxok", a |-> 0, l |-> 11, r |-> 0],
     [op |-> "cxold", a |-> 0, l |-> 11, r |-> 0],
     St(a2, 12), St(a1, 13),
     At("ast", a2, 1, 0, "release", "singlethread"),
     [op |-> "exit", a |-> 0, l |-> 0, r |-> 0] >>

\* The cmpxchg has single-thread scope.
MCILScope == [MCIL EXCEPT ![11].scope = "singlethread"]

\* The atomic store stores the value loaded from its own address.
MCILCancel == [MCIL EXCEPT ![16].l = 2]

S(x) == [ili |-> x, del |-> FALSE]

Menu == {S(x) : x \in {3, 4, 5, 6, 7, 8, 10, 11, 12, 13, 14, 15, 16}}

MCRoutines ==
  { << [lab |-> "none", tail |-> FALSE, stmts |-> <<s1, s2, s3>>],
       [lab |-> "none", tail |-> FALSE, stmts |-> <<S(17)>>] >> :
      s1 \in Menu, s2 \in Menu, s3 \in Menu }

=============================================================================

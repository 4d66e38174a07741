----------------------------- MODULE MCPgNewfil -----------------------------
(***************************************************************************)
(* Two processes of one program (so one call-site address), in a 6-bit   *)
(* long and a 1-bit int (IntBits in PgNewfil.cfg), each making two       *)
(* calls, with two seeds; tempnam returns the one name t1.                *)
(***************************************************************************)
EXTENDS PgNewfil

CONSTANTS p1, p2, t1

MCProcs == {p1, p2}
MCPid == p1 :> 1 @@ p2 :> 2
MCAddrBits == p1 :> 3 @@ p2 :> 3
MCSeeds == {5, 2}
MCBuilds == {"unix", "tempnam"}
MCTempNames == {t1}

=============================================================================

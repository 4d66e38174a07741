------------------------------ MODULE MCFsync3f ------------------------------
(***************************************************************************)
(* FSYNC checked on two units, two disk files, a console and a stdout     *)
(* with no OS handle, on both builds, with a device that may fail.       *)
(***************************************************************************)
EXTENDS Fsync3f, TLC

CONSTANTS u1, u6, f1, f2, con, gui

MCUnits == {u1, u6}
MCFiles == {f1, f2, con, gui}
MCKind == (f1 :> "disk" @@ f2 :> "disk") @@ (con :> "tty" @@ gui :> "nohandle")
MCPlatforms == {"posix", "windows"}

=============================================================================

------------------------------ MODULE MCPnpmHost ------------------------------
(***************************************************************************)
(* PnpmHost with two workers, one upload and two pids.                     *)
(***************************************************************************)
EXTENDS PnpmHost

CONSTANTS w1, w2, up
MCWorkers == {w1, w2}
MCUploads == {up}
MCPids == {1, 2}
AllCareful == {"upload.end"}
=============================================================================

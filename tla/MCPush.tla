------------------------------- MODULE MCPush -------------------------------
(* A small instance of Push.                                                 *)
EXTENDS Push

(* A push of any kind beside a force push, a backup or a restore. *)
MCKindsOf == [c \in Cmds |-> IF c = "c1" THEN Pushes ELSE {"force_head", "backup", "overwriting_backup", "restore"}]
=============================================================================

----------------------------- MODULE MCRewrite -----------------------------
(* Small instances of Rewrite.                                               *)
EXTENDS Rewrite

MCRefs == <<Main, "dev">>
MCSpanning == [c \in Cmds |-> IF c = "c1" THEN Spanning ELSE {"recipe", "author", "squash", "file"}]
=============================================================================

----------------------------- MODULE MCWorktree -----------------------------
(* A small instance of Worktree.                                             *)
EXTENDS Worktree

To(old, new) == [old |-> old, new |-> new]
MCWrites == {None, {1, 2}}
MCLands == {None, {1}}
MCMoves == {<<To("f", "n")>>, <<To("f", "n"), To("g", "m")>>}
=============================================================================

------------------------------- MODULE Branch -------------------------------
(***************************************************************************)
(* What the commit family promises of one branch.  The branch is the       *)
(* sequence of the trees on its first-parent history, a tree being the set *)
(* of changes it holds.  Every run of commit, amend or reword takes effect *)
(* at one instant, on the tip the branch has at that instant, or not at    *)
(* all: nothing anybody else put on the branch is lost to it.  Git used    *)
(* beside safegit moves the branch as it likes.                            *)
(***************************************************************************)
EXTENDS Naturals, Sequences

CONSTANTS Run, Change

VARIABLES
  branch,   \* the trees of the branch, the tip last; <<>> is unborn
  outcome   \* what became of each run: open, landed or failed

bvars == <<branch, outcome>>

Tip(b) == IF b = <<>> THEN {} ELSE b[Len(b)]
Rest(b) == SubSeq(b, 1, Len(b) - 1)

Init ==
  /\ branch \in Seq(SUBSET Change)
  /\ outcome = [s \in Run |-> "open"]

Settle(s, how) ==
  /\ outcome[s] = "open"
  /\ outcome' = [outcome EXCEPT ![s] = how]

Commit(s) ==
  /\ Settle(s, "landed")
  /\ branch' = Append(branch, Tip(branch) \cup {s})

Amend(s) ==
  /\ Settle(s, "landed")
  /\ branch # <<>>
  /\ branch' = Append(Rest(branch), Tip(branch) \cup {s})

Reword(s) ==
  /\ Settle(s, "landed")
  /\ branch # <<>>
  /\ branch' = branch

Fail(s) == Settle(s, "failed") /\ UNCHANGED branch

Elsewhere ==
  /\ UNCHANGED outcome
  /\ \/ \E c \in Change : branch' = Append(branch, Tip(branch) \cup {c})
     \/ branch # <<>> /\ branch' = Rest(branch)

Next == Elsewhere \/ \E s \in Run : Commit(s) \/ Amend(s) \/ Reword(s) \/ Fail(s)

BranchSpec == Init /\ [][Next]_bvars
=============================================================================

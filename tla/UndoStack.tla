----------------------------- MODULE UndoStack -----------------------------
(***************************************************************************)
(* What `safegit undo --count n' promises of one branch: the operations a  *)
(* session performed on it and has not undone form a stack, and an undo    *)
(* takes the n latest of them back, leaving the branch where it stood      *)
(* before the n-th.  Whatever else moves the branch leaves the stacks      *)
(* alone, and an undo whose latest operation is not the branch's tip is    *)
(* refused.  Nothing more is promised to a session in `exempt'.            *)
(***************************************************************************)
EXTENDS Naturals, Sequences

CONSTANTS
  Session, \* safegit sessions
  Tip,     \* commits
  NoTip    \* where a branch that does not exist stands

VARIABLES
  tip,    \* where the branch stands
  stack,  \* the operations of each session that stand, the latest last
  undone, \* how many operations each session has been told are undone
  exempt  \* the sessions the promise no longer holds for

svars == <<tip, stack, undone, exempt>>

Place == Tip \cup {NoTip}

Init ==
  /\ tip \in Place
  /\ stack = [s \in Session |-> <<>>]
  /\ undone = [s \in Session |-> 0]
  /\ exempt = {}

Perform(s) ==
  /\ tip' \in Tip
  /\ stack' = [stack EXCEPT ![s] = Append(@, [before |-> tip, after |-> tip'])]
  /\ UNCHANGED <<undone, exempt>>

Undo(s, n) ==
  /\ tip = stack[s][Len(stack[s])].after
  /\ tip' = stack[s][Len(stack[s]) - n + 1].before
  /\ stack' = [stack EXCEPT ![s] = SubSeq(@, 1, Len(@) - n)]
  /\ undone' = [undone EXCEPT ![s] = @ + n]
  /\ UNCHANGED exempt

(* Git moves the branch, or an operation nobody hears of; or a rewrite of  *)
(* the history voids what a session has on its stack.                      *)
Move ==
  /\ tip' \in Place
  /\ stack' = stack \/ \E s \in Session : stack' = [stack EXCEPT ![s] = <<>>]
  /\ UNCHANGED <<undone, exempt>>

(* Whatever an exempt session does, it does to its own stack.              *)
Excuse(s) ==
  /\ exempt' = exempt \cup {s}
  /\ tip' \in Place
  /\ \A q \in Session \ {s} : stack'[q] = stack[q] /\ undone'[q] = undone[q]

Next ==
  \/ Move
  \/ \E s \in Session : Perform(s) \/ Excuse(s) \/ \E n \in 1 .. Len(stack[s]) : Undo(s, n)

StackSpec == Init /\ [][Next]_svars
=============================================================================

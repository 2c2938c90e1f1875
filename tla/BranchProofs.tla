---------------------------- MODULE BranchProofs ----------------------------
(***************************************************************************)
(* Proofs about what lands on one branch and what is taken off it again.   *)
(*                                                                         *)
(* CommitPipeline, for any set of runs, any worktrees, any number of       *)
(* attempts, any moves of git and any of the faults, the loss of the       *)
(* branch's lock included: what the branch keeps rests on the              *)
(* compare-and-swap alone.                                                 *)
(*                                                                         *)
(* Undo, for any sessions, any counts, and any number of commits, entries  *)
(* and moves: what an undo takes off rests on the log alone.  The log is   *)
(* read forwards by the promise and backwards by the code, and the two     *)
(* readings are shown to meet.                                             *)
(***************************************************************************)
EXTENDS CommitPipeline, Undo, FiniteSetTheorems, SequenceTheorems, TLAPS

(* A commit on top of a history extends it by itself.                      *)
LEMMA ParentOfAppend ==
  ASSUME NEW h \in Seq(Entry), NEW e \in Entry
  PROVE  /\ Append(h, e) \in Seq(Entry) /\ Append(h, e) # <<>>
         /\ Parent(Append(h, e)) = h
         /\ Tree(Append(h, e)) = e.tree
<1>1. /\ Append(h, e) \in Seq(Entry) /\ Append(h, e) # <<>>
      /\ Len(Append(h, e)) = Len(h) + 1
      /\ \A i \in 1 .. Len(h) : Append(h, e)[i] = h[i]
      /\ Append(h, e)[Len(h) + 1] = e
  BY AppendProperties
<1>2. Tree(Append(h, e)) = e.tree
  BY <1>1 DEF Tree
<1>3. Parent(Append(h, e)) = SubSeq(Append(h, e), 1, Len(h))
  BY <1>1 DEF Parent
<1>4. /\ SubSeq(Append(h, e), 1, Len(h)) \in Seq(Entry)
      /\ Len(SubSeq(Append(h, e), 1, Len(h))) = Len(h)
      /\ \A i \in 1 .. Len(h) : SubSeq(Append(h, e), 1, Len(h))[i] = h[i]
  <2>1. Len(h) \in Nat /\ \A i \in 1 .. Len(h) : Append(h, e)[i] \in Entry
    BY <1>1, ElementOfSeq
  <2>2. QED
    BY <1>1, <2>1, SubSeqProperties
<1>5. SubSeq(Append(h, e), 1, Len(h)) = h
  BY <1>4, SeqEqual
<1>6. QED
  BY <1>1, <1>2, <1>3, <1>5

(* Dropping the tip of a history leaves a history.                         *)
LEMMA ParentType ==
  ASSUME NEW h \in Seq(Entry)
  PROVE  /\ Parent(h) \in Seq(Entry)
         /\ h # <<>> => /\ Len(Parent(h)) = Len(h) - 1
                        /\ \A i \in 1 .. Len(h) - 1 : Parent(h)[i] = h[i]
                        /\ h[Len(h)] \in Entry /\ Len(h) \in Nat \ {0}
<1>1. Len(h) \in Nat /\ (h # <<>> => Len(h) # 0)
  BY LenProperties, EmptySeq
<1>2. \A i \in 1 .. Len(h) : h[i] \in Entry
  BY ElementOfSeq
<1>3. \A i \in 1 .. Len(h) - 1 : h[i] \in Entry
  BY <1>1, <1>2
<1>4. DEFINE n == Len(h) - 1
<1>5. /\ SubSeq(h, 1, n) \in Seq(Entry)
      /\ Len(SubSeq(h, 1, n)) = IF 1 <= n THEN n - 1 + 1 ELSE 0
      /\ \A i \in 1 .. n - 1 + 1 : SubSeq(h, 1, n)[i] = h[1 + i - 1]
  BY <1>1, <1>3, SubSeqProperties
<1>6. n \in Int /\ n - 1 + 1 = n /\ (h # <<>> => n \in Nat /\ Len(h) \in Nat \ {0})
  BY <1>1
<1>7. h # <<>> => Len(SubSeq(h, 1, n)) = n
  BY <1>5, <1>6
<1>8. \A i \in 1 .. n : SubSeq(h, 1, n)[i] = h[i]
  BY <1>5, <1>6
<1>9. h # <<>> => h[Len(h)] \in Entry
  BY <1>1, <1>2
<1>10. QED
  BY <1>5, <1>6, <1>7, <1>8, <1>9 DEF Parent

(* A tree holds changes, a message records changes.                        *)
LEMMA HistoryTypes ==
  ASSUME NEW h \in Seq(Entry)
  PROVE  /\ Tree(h) \in SUBSET Change
         /\ h # <<>> => Letter(h) \in Message
BY ParentType DEF Tree, Letter, Entry

(* What an attempt builds is a history.                                    *)
LEMMA BuiltType ==
  ASSUME TypeOK, NEW s \in Run, Rewrites(s) => base[s] # <<>>
  PROVE  /\ Onto(s) \in Seq(Entry)
         /\ NewTree(s) \in SUBSET Change
         /\ Inferred(s) \in SUBSET Change
         /\ FinalMessage(s) \in Message
         /\ Built(s) \in Seq(Entry)
<1>1. base[s] \in Seq(Entry) /\ message[s] \in Message \cup {NoMessage}
  BY DEF TypeOK
<1>2. Onto(s) \in Seq(Entry)
  BY <1>1, ParentType DEF Onto
<1>3. NewTree(s) \in SUBSET Change
  BY <1>1, HistoryTypes DEF NewTree, Change
<1>4. Inferred(s) \in SUBSET Change /\ Carried(s) \in SUBSET Change
  BY <1>1, <1>3, HistoryTypes DEF Inferred, Witnessed, Carried, Message
<1>5. Composed(s) \in Message
  BY <1>1, <1>4, HistoryTypes DEF Composed, Message, Rewrites
<1>6. FinalMessage(s) \in Message
  BY <1>1, <1>5 DEF FinalMessage
<1>7. [tree |-> NewTree(s), message |-> FinalMessage(s)] \in Entry
  BY <1>3, <1>6 DEF Entry
<1>8. QED
  BY <1>2, <1>3, <1>4, <1>6, <1>7, ParentOfAppend DEF Built

-----------------------------------------------------------------------------
(* It holds before any run has begun.                                      *)
LEMMA InitPInv == Init => PInv
<1>1. SUFFICES ASSUME Init PROVE PInv
  OBVIOUS
<1>2. ref \in Seq(Entry)
  <2>1. <<>> \in Seq(Entry)
    OBVIOUS
  <2>2. DEFINE e == [tree |-> {}, message |-> [text |-> Git, records |-> {}]]
  <2>3. e \in Entry
    BY DEF Entry, Message
  <2>4. ref \in {<<>>, <<e>>}
    BY <1>1 DEF Init
  <2>5. HIDE DEF e
  <2>6. <<e>> \in Seq(Entry)
    BY <2>3
  <2>7. QED
    BY <2>1, <2>4, <2>6
<1>3. TypeOK
  BY <1>1, <1>2, PipelineConstants DEF Init, TypeOK, Verdicts
<1>4. \A s \in Run : RunInv(s)
  BY <1>1, PipelineConstants
     DEF Init, RunInv, PastBuild, PastUpdate, Landed, Range, PhaseB, Reported
<1>5. LandsOnce
  BY <1>1 DEF Init, LandsOnce
<1>6. QED
  BY <1>3, <1>4, <1>5 DEF PInv

(* What a step leaves alone in a run keeps that run's invariant.           *)
LEMMA Undisturbed ==
  ASSUME NEW s, RunInv(s),
         pc'[s] = pc[s], kind'[s] = kind[s], attempt'[s] = attempt[s],
         base'[s] = base[s], new'[s] = new[s], message'[s] = message[s],
         minted'[s] = minted[s], verdict'[s] = verdict[s],
         Landed(s)' <=> Landed(s)
  PROVE  RunInv(s)'
BY DEF RunInv, PastBuild, PastUpdate, Fits, Rewrites, Onto, NewTree, Inferred, Carried

(* What an attempt built keeps fitting while the attempt is not begun anew.*)
LEMMA StillFits ==
  ASSUME NEW s, Fits(s),
         kind'[s] = kind[s], base'[s] = base[s], new'[s] = new[s],
         message'[s] = message[s], minted'[s] = minted[s]
  PROVE  Fits(s)'
BY DEF Fits, Rewrites, Onto, NewTree, Inferred, Carried

(* A step that ends a run which has not landed, as a failure.              *)
LEMMA Failing ==
  ASSUME PInv, NEW s \in Run, NEW v \in Verdicts \ ({"none"} \cup Reported),
         Active(s), pc[s] \notin {"append", "reconcile", "post"},
         Finish(s, v), UNCHANGED <<kind, attempt, base, new, message, minted, landings>>
  PROVE  (\A q \in Run : RunInv(q)') /\ LandsOnce'
<1>1. pc \in [Run -> {"idle", "lock", "done", "crashed"} \cup PhaseA \cup PhaseB]
      /\ verdict \in [Run -> Verdicts]
  BY DEF PInv, TypeOK
<1>2. ~Landed(s) /\ RunInv(s)
  BY <1>1 DEF PInv, RunInv, PastUpdate, Active, PhaseA, PhaseB, Verdicts, Reported
<1>3. RunInv(s)'
  BY <1>1, <1>2 DEF RunInv, PastBuild, PastUpdate, Finish, Goto, Landed, PhaseA, PhaseB,
     Verdicts, Reported
<1>4. ASSUME NEW q \in Run, q # s PROVE RunInv(q)'
  BY <1>1, <1>4, Undisturbed DEF PInv, Finish, Goto, Landed
<1>5. QED
  BY <1>3, <1>4 DEF PInv, LandsOnce

(* A sequence held by a function grows within its type.                    *)
LEMMA AppendAt ==
  ASSUME NEW D, NEW R, NEW f \in [D -> Seq(R)], NEW d \in D, NEW r \in R
  PROVE  [f EXCEPT ![d] = Append(@, r)] \in [D -> Seq(R)]
<1>1. Append(f[d], r) \in Seq(R)
  BY AppendProperties
<1>2. DEFINE T == Seq(R)
             a == Append(f[d], r)
<1>3. f \in [D -> T] /\ a \in T
  BY <1>1
<1>4. HIDE DEF T, a
<1>5. [f EXCEPT ![d] = a] \in [D -> T]
  BY <1>3
<1>6. QED
  BY <1>5 DEF T, a

(* Every step keeps the types: no attempt starts beyond the last one, and  *)
(* what is built, appended or moved by git is a history again.             *)
LEMMA TypeStep == PInv /\ [Next]_vars => TypeOK'
<1>1. SUFFICES ASSUME PInv, [Next]_vars PROVE TypeOK'
  OBVIOUS
<1>2. TypeOK
  BY <1>1 DEF PInv
<1>3. ASSUME NEW s \in Run, NEW k \in Kinds, Begin(s, k) PROVE TypeOK'
  BY <1>2, <1>3 DEF TypeOK, Begin, Goto, mine, shared, PhaseA, PhaseB
<1>4. ASSUME NEW s \in Run, Resolve(s) PROVE TypeOK'
  <2>1. attempt[s] + 1 \in 0 .. CASMaxAttempts
    BY <1>1, <1>2, <1>4, PipelineConstants DEF Resolve, PInv, RunInv, TypeOK
  <2>2. attempt' \in [Run -> 0 .. CASMaxAttempts] /\ base' \in [Run -> Seq(Entry)]
    <3>1. attempt' = attempt \/ attempt' = [attempt EXCEPT ![s] = attempt[s] + 1]
      BY <1>4 DEF Resolve
    <3>2. base' = base \/ base' = [base EXCEPT ![s] = ref]
      BY <1>4 DEF Resolve
    <3>3. ref \in Seq(Entry) /\ attempt \in [Run -> 0 .. CASMaxAttempts] /\ base \in [Run -> Seq(Entry)]
      BY <1>2 DEF TypeOK
    <3>4. QED
      BY <2>1, <3>1, <3>2, <3>3
  <2>3. verdict' \in [Run -> Verdicts] /\ lock' \in Run \cup {Git}
    BY <1>2, <1>4 DEF TypeOK, Resolve, Finish, Unlock, Verdicts
  <2>4. pc' \in [Run -> {"idle", "lock", "done", "crashed"} \cup PhaseA \cup PhaseB]
    <3>1. pc' = [pc EXCEPT ![s] = "done"] \/ pc' = [pc EXCEPT ![s] = "stage"]
      BY <1>4 DEF Resolve, Goto, Finish
    <3>2. pc \in [Run -> {"idle", "lock", "done", "crashed"} \cup PhaseA \cup PhaseB]
      BY <1>2 DEF TypeOK
    <3>3. QED
      BY <3>1, <3>2 DEF PhaseA
  <2>5. UNCHANGED <<ref, kind, new, hooks, message, minted, log, landings, gitMoves, spurious>>
    BY <1>4 DEF Resolve, shared
  <2>6. QED
    BY <1>2, <2>2, <2>3, <2>4, <2>5 DEF TypeOK
<1>5. ASSUME NEW s \in Run, Stage(s) PROVE TypeOK'
  <2>1. UNCHANGED hooks \/ RunHook(s, "pre-commit")
    BY <1>5 DEF Stage
  <2>2. hooks' \in [Run -> Seq(Hooks)]
    <3>1. hooks \in [Run -> Seq(Hooks)] /\ "pre-commit" \in Hooks
      BY <1>2 DEF TypeOK, Hooks
    <3>2. [hooks EXCEPT ![s] = Append(@, "pre-commit")] \in [Run -> Seq(Hooks)]
      BY <3>1, AppendAt
    <3>3. QED
      BY <2>1, <3>1, <3>2 DEF RunHook
  <2>3. QED
    BY <1>2, <1>5, <2>2 DEF TypeOK, Stage, Goto, Finish, Unlock, shared, PhaseA, PhaseB, Verdicts
<1>6. ASSUME NEW s \in Run, Refuse(s) PROVE TypeOK'
  BY <1>2, <1>6 DEF TypeOK, Refuse, Goto, Finish, Unlock, mine, shared, PhaseA, PhaseB, Verdicts
<1>7. ASSUME NEW s \in Run, Build(s) PROVE TypeOK'
  <2>1. UNCHANGED hooks \/ RunHook(s, "commit-msg")
    BY <1>7 DEF Build
  <2>2. hooks' \in [Run -> Seq(Hooks)]
    <3>1. hooks \in [Run -> Seq(Hooks)] /\ "commit-msg" \in Hooks
      BY <1>2 DEF TypeOK, Hooks
    <3>2. [hooks EXCEPT ![s] = Append(@, "commit-msg")] \in [Run -> Seq(Hooks)]
      BY <3>1, AppendAt
    <3>3. QED
      BY <2>1, <3>1, <3>2 DEF RunHook
  <2>3. Rewrites(s) => base[s] # <<>>
    BY <1>1, <1>7 DEF PInv, RunInv, Build
  <2>4. /\ Inferred(s) \in SUBSET Change
        /\ FinalMessage(s) \in Message
        /\ Built(s) \in Seq(Entry)
    BY <1>2, <2>3, BuiltType
  <2>5. /\ message' \in [Run -> Message \cup {NoMessage}]
        /\ new' \in [Run -> Seq(Entry)]
        /\ minted' \in [Run -> SUBSET Change]
    <3>1. DEFINE H == Seq(Entry)
                 b == Built(s)
                 M == Message \cup {NoMessage}
                 f == FinalMessage(s)
    <3>2. b \in H /\ f \in M /\ new \in [Run -> H] /\ message \in [Run -> M]
      BY <1>2, <2>4 DEF TypeOK
    <3>3. /\ UNCHANGED new \/ new' = [new EXCEPT ![s] = b]
          /\ UNCHANGED message \/ message' = [message EXCEPT ![s] = f]
      BY <1>7 DEF Build
    <3>4. HIDE DEF H, b, M, f
    <3>5. new' \in [Run -> H] /\ message' \in [Run -> M]
      BY <3>2, <3>3
    <3>6. minted' \in [Run -> SUBSET Change]
      BY <1>2, <1>7, <2>4 DEF TypeOK, Build
    <3>7. QED
      BY <3>5, <3>6 DEF H, M
  <2>6. /\ UNCHANGED <<ref, kind, attempt, base, log, landings, gitMoves, spurious>>
        /\ \/ Goto(s, "lock") /\ UNCHANGED <<verdict, lock>>
           \/ Finish(s, "hook")
    BY <1>7 DEF Build, shared
  <2>7. QED
    BY <1>2, <2>2, <2>5, <2>6 DEF TypeOK, Goto, Finish, Unlock, shared, PhaseA, PhaseB, Verdicts
<1>8. ASSUME NEW s \in Run, TakeLock(s) PROVE TypeOK'
  BY <1>2, <1>8 DEF TypeOK, TakeLock, Goto, mine, shared, PhaseB
<1>9. ASSUME NEW s \in Run, LockTimeout(s) PROVE TypeOK'
  BY <1>2, <1>9 DEF TypeOK, LockTimeout, Goto, Finish, Unlock, mine, shared, Verdicts
<1>10. ASSUME NEW s \in Run, Check(s) PROVE TypeOK'
  BY <1>2, <1>10 DEF TypeOK, Check, Retry, Goto, Finish, Unlock, mine, shared, PhaseA, PhaseB,
     Verdicts
<1>11. ASSUME NEW s \in Run, Update(s) PROVE TypeOK'
  <2>1. pc' \in [Run -> {"idle", "lock", "done", "crashed"} \cup PhaseA \cup PhaseB]
    BY <1>2, <1>11 DEF TypeOK, Update, Goto, PhaseB
  <2>2. ref' \in Seq(Entry) /\ landings' \in Seq(Run)
    BY <1>2, <1>11, AppendProperties DEF TypeOK, Update
  <2>3. UNCHANGED <<lock, mine, verdict, log, gitMoves, spurious>>
    BY <1>11 DEF Update
  <2>4. QED
    BY <1>2, <2>1, <2>2, <2>3 DEF TypeOK, mine
<1>12. ASSUME NEW s \in Run, UpdateMiss(s) PROVE TypeOK'
  BY <1>2, <1>12 DEF TypeOK, UpdateMiss, Retry, Goto, Finish, Unlock, mine, shared, PhaseA,
     PhaseB, Verdicts
<1>13. ASSUME NEW s \in Run, UpdateFails(s) PROVE TypeOK'
  BY <1>2, <1>13 DEF TypeOK, UpdateFails, Goto, Finish, Unlock, mine, shared, Verdicts
<1>14. ASSUME NEW s \in Run, AppendLog(s) PROVE TypeOK'
  <2>1. log' \in [Range(Worktree) -> Seq(Run)]
    <3>1. UNCHANGED log \/ log' = [log EXCEPT ![Worktree[s]] = Append(@, s)]
      BY <1>14 DEF AppendLog
    <3>2. Worktree[s] \in Range(Worktree)
      BY PipelineConstants DEF Range
    <3>3. [log EXCEPT ![Worktree[s]] = Append(@, s)] \in [Range(Worktree) -> Seq(Run)]
      BY <1>2, <3>2, AppendAt DEF TypeOK
    <3>4. QED
      BY <1>2, <3>1, <3>3 DEF TypeOK
  <2>2. QED
    BY <1>2, <1>14, <2>1 DEF TypeOK, AppendLog, Goto, mine, PhaseB
<1>15. ASSUME NEW s \in Run, Reconcile(s) PROVE TypeOK'
  BY <1>2, <1>15 DEF TypeOK, Reconcile, Goto, Finish, Unlock, mine, shared, PhaseB, Verdicts
<1>16. ASSUME NEW s \in Run, PostCommit(s) PROVE TypeOK'
  <2>1. hooks' \in [Run -> Seq(Hooks)]
    BY <1>2, <1>16, AppendAt DEF TypeOK, PostCommit, RunHook, Hooks
  <2>2. QED
    BY <1>2, <1>16, <2>1 DEF TypeOK, PostCommit, Goto, Finish, Unlock, shared, Verdicts
<1>17. ASSUME NEW s \in Run, Crash(s) PROVE TypeOK'
  BY <1>2, <1>17 DEF TypeOK, Crash, Goto, mine, shared
<1>18. CASE LoseLock
  BY <1>2, <1>18 DEF TypeOK, LoseLock, mine, shared
<1>19. CASE GitMove
  <2>1. ref' \in Seq(Entry)
    <3>1. ASSUME NEW c \in GitChanges
          PROVE  [tree |-> Tree(ref) \cup {c}, message |-> [text |-> Git, records |-> {}]] \in Entry
      BY <1>2, HistoryTypes DEF TypeOK, Entry, Message, Change
    <3>2. Parent(ref) \in Seq(Entry)
      BY <1>2, ParentType DEF TypeOK
    <3>3. ref \in Seq(Entry)
      BY <1>2 DEF TypeOK
    <3>4. QED
      BY <1>19, <3>1, <3>2, <3>3, ParentOfAppend DEF GitMove
  <2>2. gitMoves' = gitMoves + 1 /\ UNCHANGED <<lock, pc, mine, verdict, log, landings, spurious>>
    BY <1>19 DEF GitMove
  <2>3. QED
    BY <1>2, <2>1, <2>2 DEF TypeOK, mine
<1>20. CASE UNCHANGED vars
  BY <1>2, <1>20 DEF TypeOK, vars, mine, shared
<1>21. QED
  BY <1>1, <1>3, <1>4, <1>5, <1>6, <1>7, <1>8, <1>9, <1>10, <1>11, <1>12, <1>13, <1>14,
     <1>15, <1>16, <1>17, <1>18, <1>19, <1>20 DEF Next, RunStep, Work

(* Every step keeps what it left alone, and the run that took it.          *)
LEMMA RunsStep == PInv /\ [Next]_vars => (\A q \in Run : RunInv(q)') /\ LandsOnce'
<1>1. SUFFICES ASSUME PInv, [Next]_vars PROVE (\A q \in Run : RunInv(q)') /\ LandsOnce'
  OBVIOUS
<1>2. /\ TypeOK /\ LandsOnce /\ \A q \in Run : RunInv(q)
      /\ pc \in [Run -> {"idle", "lock", "done", "crashed"} \cup PhaseA \cup PhaseB]
      /\ verdict \in [Run -> Verdicts]
      /\ landings \in Seq(Run)
  BY <1>1 DEF PInv, TypeOK
<1>3. ASSUME NEW s \in Run, UNCHANGED landings, RunInv(s)',
             \A q \in Run \ {s} : /\ pc'[q] = pc[q] /\ kind'[q] = kind[q]
                                  /\ attempt'[q] = attempt[q] /\ base'[q] = base[q]
                                  /\ new'[q] = new[q] /\ message'[q] = message[q]
                                  /\ minted'[q] = minted[q] /\ verdict'[q] = verdict[q]
      PROVE  (\A q \in Run : RunInv(q)') /\ LandsOnce'
  BY <1>2, <1>3, Undisturbed DEF Landed, LandsOnce
<1>4. ASSUME NEW s \in Run, NEW k \in Kinds, Begin(s, k)
      PROVE  (\A q \in Run : RunInv(q)') /\ LandsOnce'
  <2>1. ~Landed(s) /\ attempt[s] = 0 /\ verdict[s] = "none"
    BY <1>2, <1>4 DEF RunInv, Begin, PastUpdate, Reported, PhaseB
  <2>2. RunInv(s)'
    BY <1>2, <1>4, <2>1, PipelineConstants
       DEF RunInv, Begin, Goto, PastBuild, PastUpdate, Landed, PhaseB, Reported, shared
  <2>3. QED
    BY <1>2, <1>3, <1>4, <2>2 DEF Begin, Goto, TypeOK, shared
<1>5. ASSUME NEW s \in Run, Resolve(s) PROVE (\A q \in Run : RunInv(q)') /\ LandsOnce'
  <2>1. CASE ref = <<>> /\ Rewrites(s)
    BY <1>1, <1>5, <2>1, Failing
       DEF Resolve, Active, PhaseA, Verdicts, Reported, shared
  <2>2. CASE ~(ref = <<>> /\ Rewrites(s))
    <3>1. ~Landed(s) /\ verdict[s] = "none"
      BY <1>2, <1>5 DEF RunInv, Resolve, PastUpdate, Reported, Verdicts
    <3>2. base'[s] = ref /\ pc'[s] = "stage"
      BY <1>2, <1>5, <2>2 DEF Resolve, Goto, TypeOK
    <3>3. RunInv(s)'
      BY <1>5, <2>2, <3>1, <3>2
         DEF RunInv, Resolve, PastBuild, PastUpdate, Landed, PhaseB, Reported, Rewrites, shared
    <3>4. QED
      BY <1>2, <1>3, <1>5, <2>2, <3>3 DEF Resolve, Goto, TypeOK, shared
  <2>3. QED
    BY <2>1, <2>2
<1>6. ASSUME NEW s \in Run, Stage(s) PROVE (\A q \in Run : RunInv(q)') /\ LandsOnce'
  <2>1. CASE Finish(s, "hook") \/ Finish(s, "refused")
    BY <1>1, <1>6, <2>1, Failing DEF Stage, Active, PhaseA, Verdicts, Reported, shared
  <2>2. CASE Goto(s, "build") /\ UNCHANGED <<verdict, lock>>
    <3>1. RunInv(s)'
      BY <1>2, <1>6, <2>2
         DEF RunInv, Stage, Goto, PastBuild, PastUpdate, Landed, PhaseB, Reported, Rewrites, shared
    <3>2. QED
      BY <1>2, <1>3, <1>6, <2>2, <3>1 DEF Stage, Goto, TypeOK, shared
  <2>3. QED
    BY <1>6, <2>1, <2>2 DEF Stage
<1>7. ASSUME NEW s \in Run, Refuse(s) PROVE (\A q \in Run : RunInv(q)') /\ LandsOnce'
  BY <1>1, <1>7, Failing DEF Refuse, Active, PhaseA, Verdicts, Reported, mine, shared
<1>8. ASSUME NEW s \in Run, Build(s) PROVE (\A q \in Run : RunInv(q)') /\ LandsOnce'
  <2>1. ~Landed(s) /\ verdict[s] = "none" /\ (Rewrites(s) => base[s] # <<>>)
    BY <1>2, <1>8 DEF RunInv, Build, PastUpdate, Reported, Verdicts
  <2>2. minted'[s] = Inferred(s)
    BY <1>2, <1>8 DEF Build, TypeOK, WitnessChanged
  <2>3. CASE Finish(s, "hook") /\ UNCHANGED <<message, new>>
    <3>1. RunInv(s)'
      BY <1>2, <1>8, <2>1, <2>3
         DEF RunInv, Build, Finish, Goto, PastBuild, PastUpdate, Landed, PhaseB, Reported,
             Verdicts, shared
    <3>2. QED
      BY <1>2, <1>3, <1>8, <2>3, <3>1 DEF Build, Finish, Goto, TypeOK, shared
  <2>4. CASE /\ Goto(s, "lock") /\ UNCHANGED <<verdict, lock>>
             /\ message' = [message EXCEPT ![s] = FinalMessage(s)]
             /\ new' = [new EXCEPT ![s] = Built(s)]
    <3>1. /\ message'[s] = FinalMessage(s) /\ FinalMessage(s) \in Message
          /\ new'[s] = Built(s)
      BY <1>2, <2>1, <2>4, BuiltType DEF TypeOK
    <3>2. UNCHANGED <<kind, base, attempt, landings>>
      BY <1>8 DEF Build, shared
    <3>3. Fits(s)'
      BY <2>1, <2>2, <3>1, <3>2 DEF Fits, Built, Rewrites, Onto, NewTree, Inferred, Carried
    <3>4. RunInv(s)'
      BY <1>2, <2>1, <2>4, <3>2, <3>3
         DEF RunInv, Goto, PastUpdate, Landed, PhaseB, Reported
    <3>5. QED
      BY <1>2, <1>3, <1>8, <2>4, <3>4 DEF Build, Goto, TypeOK, shared
  <2>5. QED
    BY <1>8, <2>3, <2>4 DEF Build
<1>9. ASSUME NEW s \in Run, TakeLock(s) PROVE (\A q \in Run : RunInv(q)') /\ LandsOnce'
  <2>1. Fits(s)'
    BY <1>2, <1>9, StillFits DEF RunInv, PastBuild, TakeLock, mine
  <2>2. RunInv(s)'
    BY <1>2, <1>9, <2>1
       DEF RunInv, TakeLock, Goto, PastUpdate, Landed, PhaseB, Reported, mine, shared
  <2>3. QED
    BY <1>2, <1>3, <1>9, <2>2 DEF TakeLock, Goto, mine, shared
<1>10. ASSUME NEW s \in Run, LockTimeout(s) PROVE (\A q \in Run : RunInv(q)') /\ LandsOnce'
  BY <1>1, <1>10, Failing DEF LockTimeout, Active, Verdicts, Reported, mine, shared
<1>11. ASSUME NEW s \in Run, pc[s] \in {"check", "update"}, Retry(s),
              UNCHANGED <<mine, landings>>
       PROVE  (\A q \in Run : RunInv(q)') /\ LandsOnce'
  <2>1. CASE attempt[s] = CASMaxAttempts
    BY <1>1, <1>11, <2>1, Failing DEF Retry, Active, PhaseB, Verdicts, Reported, mine
  <2>2. CASE attempt[s] # CASMaxAttempts
    <3>1. attempt[s] < CASMaxAttempts
      BY <1>2, <2>2, PipelineConstants DEF TypeOK
    <3>2. ~Landed(s) /\ verdict[s] = "none"
      BY <1>2, <1>11 DEF RunInv, PastUpdate, Reported, Verdicts
    <3>3. RunInv(s)'
      BY <1>2, <1>11, <2>2, <3>1, <3>2
         DEF RunInv, Retry, Goto, PastBuild, PastUpdate, Landed, PhaseB, Reported, mine
    <3>4. QED
      BY <1>2, <1>3, <1>11, <2>2, <3>3 DEF Retry, Goto, mine
  <2>3. QED
    BY <2>1, <2>2
<1>12. ASSUME NEW s \in Run, Check(s) PROVE (\A q \in Run : RunInv(q)') /\ LandsOnce'
  <2>1. CASE Goto(s, "update") /\ UNCHANGED <<verdict, lock>>
    <3>1. Fits(s)'
      BY <1>2, <1>12, StillFits DEF RunInv, PastBuild, Check, PhaseB, mine
    <3>2. RunInv(s)'
      BY <1>2, <1>12, <2>1, <3>1
         DEF RunInv, Check, Goto, PastUpdate, Landed, PhaseB, Reported, mine, shared
    <3>3. QED
      BY <1>2, <1>3, <1>12, <2>1, <3>2 DEF Check, Goto, mine, shared
  <2>2. CASE Finish(s, "refused")
    BY <1>1, <1>12, <2>2, Failing DEF Check, Active, PhaseB, Verdicts, Reported, mine, shared
  <2>3. CASE Retry(s)
    BY <1>11, <1>12, <2>3 DEF Check, shared
  <2>4. QED
    BY <1>12, <2>1, <2>2, <2>3 DEF Check
<1>13. ASSUME NEW s \in Run, Update(s) PROVE (\A q \in Run : RunInv(q)') /\ LandsOnce'
  <2>1. ~Landed(s) /\ verdict[s] = "none"
    BY <1>2, <1>13 DEF RunInv, Update, PastUpdate, Reported, Verdicts
  <2>2. /\ Len(landings) \in Nat /\ landings' = Append(landings, s)
        /\ DOMAIN landings = 1 .. Len(landings)
        /\ DOMAIN landings' = 1 .. Len(landings) + 1
        /\ \A i \in 1 .. Len(landings) : landings'[i] = landings[i]
        /\ landings'[Len(landings) + 1] = s
    BY <1>2, <1>13, AppendProperties, LenProperties DEF Update
  <2>3. /\ \A q : Landed(q)' <=> Landed(q) \/ q = s
        /\ Landed(s)'
    BY <2>2 DEF Landed, Range
  <2>4. LandsOnce'
    BY <1>2, <2>1, <2>2 DEF LandsOnce, Landed, Range
  <2>5. Fits(s)'
    BY <1>2, <1>13, StillFits DEF RunInv, PastBuild, Update, PhaseB, mine
  <2>6. RunInv(s)'
    BY <1>2, <1>13, <2>1, <2>3, <2>5
       DEF RunInv, Update, Goto, PastUpdate, PhaseB, Reported, mine
  <2>7. ASSUME NEW q \in Run, q # s PROVE RunInv(q)'
    BY <1>2, <1>13, <2>3, <2>7, Undisturbed DEF Update, Goto, mine
  <2>8. QED
    BY <2>4, <2>6, <2>7
<1>14. ASSUME NEW s \in Run, UpdateMiss(s) PROVE (\A q \in Run : RunInv(q)') /\ LandsOnce'
  BY <1>11, <1>14 DEF UpdateMiss, shared
<1>15. ASSUME NEW s \in Run, UpdateFails(s) PROVE (\A q \in Run : RunInv(q)') /\ LandsOnce'
  BY <1>1, <1>15, Failing DEF UpdateFails, Active, PhaseB, Verdicts, Reported, mine, shared
<1>16. ASSUME NEW s \in Run, AppendLog(s) PROVE (\A q \in Run : RunInv(q)') /\ LandsOnce'
  <2>1. Fits(s)'
    BY <1>2, <1>16, StillFits DEF RunInv, PastBuild, AppendLog, PhaseB, mine
  <2>2. RunInv(s)'
    BY <1>2, <1>16, <2>1
       DEF RunInv, AppendLog, Goto, PastUpdate, Landed, PhaseB, Reported, mine
  <2>3. QED
    BY <1>2, <1>3, <1>16, <2>2 DEF AppendLog, Goto, mine
<1>17. ASSUME NEW s \in Run, Reconcile(s) \/ PostCommit(s)
       PROVE  (\A q \in Run : RunInv(q)') /\ LandsOnce'
  <2>1. /\ pc[s] \in {"reconcile", "post"}
        /\ UNCHANGED <<kind, attempt, base, new, message, minted, landings>>
        /\ \/ Goto(s, "post") /\ UNCHANGED verdict
           \/ Finish(s, "stands")
           \/ Finish(s, "committed")
    BY <1>17 DEF Reconcile, PostCommit, mine, shared
  <2>2. Fits(s)' /\ Landed(s) /\ verdict[s] = "none"
    BY <1>2, <2>1, StillFits DEF RunInv, PastBuild, PastUpdate, PhaseB
  <2>3. RunInv(s)'
    BY <1>2, <2>1, <2>2
       DEF RunInv, Goto, Finish, PastUpdate, Landed, PhaseB, Reported, Verdicts
  <2>4. QED
    BY <1>2, <1>3, <2>1, <2>3 DEF Goto, Finish
<1>18. ASSUME NEW s \in Run, Crash(s) PROVE (\A q \in Run : RunInv(q)') /\ LandsOnce'
  <2>1. PastBuild(s)' => Fits(s)'
    BY <1>2, <1>18, StillFits DEF RunInv, PastBuild, Crash, Goto, Landed, PhaseB, mine, shared
  <2>2. verdict[s] = "none"
    BY <1>2, <1>18 DEF RunInv, Crash, Active, PhaseA, PhaseB
  <2>3. RunInv(s)'
    BY <1>2, <1>18, <2>1, <2>2 DEF RunInv, Crash, Goto, mine
  <2>4. QED
    BY <1>2, <1>3, <1>18, <2>3 DEF Crash, Goto, mine, shared
<1>19. CASE LoseLock \/ GitMove \/ UNCHANGED vars
  <2>1. UNCHANGED <<pc, kind, attempt, base, new, message, minted, verdict, landings>>
    BY <1>19 DEF LoseLock, GitMove, vars, mine, shared
  <2>2. QED
    BY <1>2, <2>1, Undisturbed DEF Landed, LandsOnce
<1>20. QED
  BY <1>1, <1>4, <1>5, <1>6, <1>7, <1>8, <1>9, <1>10, <1>12, <1>13, <1>14, <1>15,
     <1>16, <1>17, <1>18, <1>19 DEF Next, RunStep, Work

-----------------------------------------------------------------------------
(* The theorems.                                                           *)

(* The inductive invariant holds of every behaviour.                       *)
THEOREM Invariance == Spec => []PInv
<1>1. Init => PInv
  BY InitPInv
<1>2. PInv /\ [Next]_vars => PInv'
  BY TypeStep, RunsStep DEF PInv
<1>3. QED
  BY <1>1, <1>2, PTL DEF Spec

(* No step leaves the types; no run makes more attempts than               *)
(* casMaxAttempts.                                                         *)
THEOREM TypeCorrect == Spec => []TypeOK
<1>1. PInv => TypeOK
  BY DEF PInv
<1>2. QED
  BY <1>1, Invariance, PTL

(* A run reports a commit exactly when its update moved the ref, and its   *)
(* update moves the ref at most once, whatever failed or was retried.      *)
THEOREM VerdictHolds == Spec => []VerdictIsTrue
<1>1. PInv => VerdictIsTrue
  BY DEF PInv, LandsOnce, VerdictIsTrue, RunInv, PastUpdate
<1>2. QED
  BY <1>1, Invariance, PTL

(* The move records minted in the first attempt are witnessed by the delta *)
(* of the commit that landed, on whatever tip the last attempt built it.   *)
THEOREM MintedRecordsStand == Spec => []MintedRecordsHold
<1>1. ASSUME PInv, NEW s \in Run, Landed(s)
      PROVE  minted[s] \subseteq Witnessed(Tree(Parent(new[s])), Tree(new[s]))
  <2>1. Fits(s) /\ TypeOK
    BY <1>1 DEF PInv, RunInv, PastBuild
  <2>2. Onto(s) \in Seq(Entry) /\ NewTree(s) \in SUBSET Change
    BY <1>1, <2>1, BuiltType DEF Fits
  <2>3. [tree |-> NewTree(s), message |-> message[s]] \in Entry
    BY <2>1, <2>2 DEF Fits, Entry
  <2>4. Parent(new[s]) = Onto(s) /\ Tree(new[s]) = NewTree(s)
    BY <2>1, <2>2, <2>3, ParentOfAppend DEF Fits
  <2>5. QED
    BY <2>1, <2>4 DEF Fits, Inferred
<1>2. PInv => MintedRecordsHold
  BY <1>1 DEF MintedRecordsHold
<1>3. QED
  BY <1>2, Invariance, PTL

-----------------------------------------------------------------------------
(* The pipeline keeps the promise of Branch.                               *)

(* What the mapping makes of a history, its tip and its parent.            *)
LEMMA TreesType ==
  ASSUME NEW h \in Seq(Entry)
  PROVE  /\ Trees(h) \in Seq(SUBSET Change)
         /\ Len(Trees(h)) = Len(h) /\ DOMAIN Trees(h) = 1 .. Len(h)
         /\ \A i \in 1 .. Len(h) : Trees(h)[i] = h[i].tree
         /\ (Trees(h) = <<>>) <=> (h = <<>>)
         /\ Promise!Tip(Trees(h)) = Tree(h)
<1>1. Len(h) \in Nat /\ DOMAIN h = 1 .. Len(h) /\ \A i \in 1 .. Len(h) : h[i] \in Entry
  BY LenProperties, ElementOfSeq
<1>2. /\ DOMAIN Trees(h) = 1 .. Len(h)
      /\ Trees(h) = [i \in 1 .. Len(h) |-> h[i].tree]
      /\ \A i \in 1 .. Len(h) : Trees(h)[i] = h[i].tree /\ h[i].tree \in SUBSET Change
  BY <1>1 DEF Trees, Entry
<1>3. Trees(h) \in [1 .. Len(h) -> SUBSET Change]
  BY <1>2
<1>4. Trees(h) \in Seq(SUBSET Change) /\ Len(Trees(h)) = Len(h)
  BY <1>1, <1>3, <1>2, LenProperties, SeqDef
<1>5. (Trees(h) = <<>>) <=> (h = <<>>)
  <2>1. \A T, g : g \in Seq(T) => ((g = <<>>) <=> (Len(g) = 0))
    BY EmptySeq
  <2>2. QED
    BY <1>4, <2>1
<1>6. Promise!Tip(Trees(h)) = Tree(h)
  <2>1. CASE h = <<>>
    BY <1>5, <2>1 DEF Tree, Promise!Tip
  <2>2. CASE h # <<>>
    <3>1. Len(h) \in 1 .. Len(h)
      BY <1>1, <2>2, EmptySeq
    <3>2. Promise!Tip(Trees(h)) = Trees(h)[Len(h)]
      BY <1>4, <1>5, <2>2 DEF Promise!Tip
    <3>3. QED
      BY <1>2, <2>2, <3>1, <3>2 DEF Tree
  <2>3. QED
    BY <2>1, <2>2
<1>7. QED
  BY <1>2, <1>4, <1>5, <1>6

(* The mapping takes a commit on top to a tree on top.                     *)
LEMMA TreesOfAppend ==
  ASSUME NEW h \in Seq(Entry), NEW e \in Entry
  PROVE  Trees(Append(h, e)) = Append(Trees(h), e.tree)
<1>1. e.tree \in SUBSET Change /\ Append(h, e) \in Seq(Entry)
  BY AppendProperties DEF Entry
<1>2. /\ Trees(Append(h, e)) \in Seq(SUBSET Change)
      /\ Append(Trees(h), e.tree) \in Seq(SUBSET Change)
      /\ Trees(h) \in Seq(SUBSET Change)
  BY <1>1, TreesType, AppendProperties
<1>3. /\ Len(h) \in Nat /\ Len(Trees(h)) = Len(h)
      /\ Len(Append(h, e)) = Len(h) + 1
      /\ Len(Trees(Append(h, e))) = Len(h) + 1
      /\ Len(Append(Trees(h), e.tree)) = Len(h) + 1
  <2>1. Len(h) \in Nat /\ Len(Append(h, e)) = Len(h) + 1
    BY LenProperties, AppendProperties
  <2>2. Len(Trees(h)) = Len(h) /\ Len(Trees(Append(h, e))) = Len(Append(h, e))
    BY <1>1, TreesType
  <2>3. Len(Append(Trees(h), e.tree)) = Len(Trees(h)) + 1
    BY <1>1, <1>2, AppendProperties
  <2>4. QED
    BY <2>1, <2>2, <2>3
<1>4. ASSUME NEW i \in 1 .. Len(Trees(Append(h, e)))
      PROVE  Trees(Append(h, e))[i] = Append(Trees(h), e.tree)[i]
  <2>1. i \in 1 .. Len(h) + 1
    BY <1>3, <1>4
  <2>2. Trees(Append(h, e))[i] = Append(h, e)[i].tree
    BY <1>1, <1>3, <2>1, TreesType
  <2>3. CASE i = Len(h) + 1
    BY <1>1, <1>2, <1>3, <2>2, <2>3, AppendProperties
  <2>4. CASE i \in 1 .. Len(h)
    <3>1. Append(h, e)[i] = h[i] /\ Append(Trees(h), e.tree)[i] = Trees(h)[i]
      BY <1>1, <1>2, <1>3, <2>4, AppendProperties
    <3>2. QED
      BY <2>2, <2>4, <3>1, TreesType
  <2>5. QED
    BY <1>3, <2>1, <2>3, <2>4
<1>5. QED
  BY <1>2, <1>3, <1>4, SeqEqual

(* The mapping takes the parent of a tip to the rest of the branch.        *)
LEMMA TreesOfParent ==
  ASSUME NEW h \in Seq(Entry), h # <<>>
  PROVE  Trees(Parent(h)) = Promise!Rest(Trees(h))
<1>1. /\ Parent(h) \in Seq(Entry) /\ Len(Parent(h)) = Len(h) - 1
      /\ \A i \in 1 .. Len(h) - 1 : Parent(h)[i] = h[i]
      /\ Len(h) \in Nat \ {0}
  BY ParentType
<1>2. /\ Trees(h) \in Seq(SUBSET Change) /\ Len(Trees(h)) = Len(h)
      /\ \A i \in 1 .. Len(h) : Trees(h)[i] = h[i].tree
      /\ Trees(Parent(h)) \in Seq(SUBSET Change) /\ Len(Trees(Parent(h))) = Len(h) - 1
      /\ \A i \in 1 .. Len(h) - 1 : Trees(Parent(h))[i] = Parent(h)[i].tree
  BY <1>1, TreesType
<1>3. DEFINE n == Len(h) - 1
<1>4. \A i \in 1 .. n : Trees(h)[i] \in SUBSET Change
  BY <1>1, <1>2, ElementOfSeq
<1>5. /\ SubSeq(Trees(h), 1, n) \in Seq(SUBSET Change)
      /\ Len(SubSeq(Trees(h), 1, n)) = IF 1 <= n THEN n - 1 + 1 ELSE 0
      /\ \A i \in 1 .. n - 1 + 1 : SubSeq(Trees(h), 1, n)[i] = Trees(h)[1 + i - 1]
  BY <1>1, <1>4, SubSeqProperties
<1>6. n \in Nat /\ n - 1 + 1 = n
  BY <1>1
<1>7. Len(SubSeq(Trees(h), 1, n)) = n
  BY <1>5, <1>6
<1>8. \A i \in 1 .. n : SubSeq(Trees(h), 1, n)[i] = Trees(Parent(h))[i]
  BY <1>1, <1>2, <1>5, <1>6
<1>9. SubSeq(Trees(h), 1, n) = Trees(Parent(h))
  BY <1>2, <1>5, <1>7, <1>8, SeqEqual
<1>10. QED
  BY <1>2, <1>9 DEF Promise!Rest

(* A history is its parent and its tip.                                    *)
LEMMA TreesWhole ==
  ASSUME NEW h \in Seq(Entry), h # <<>>
  PROVE  Append(Promise!Rest(Trees(h)), Tree(h)) = Trees(h)
<1>1. Parent(h) \in Seq(Entry) /\ h[Len(h)] \in Entry /\ Len(h) \in Nat \ {0}
  BY ParentType
<1>2. Append(Parent(h), h[Len(h)]) = h
  <2>1. /\ Append(Parent(h), h[Len(h)]) \in Seq(Entry)
        /\ Len(Append(Parent(h), h[Len(h)])) = Len(Parent(h)) + 1
        /\ \A i \in 1 .. Len(Parent(h)) : Append(Parent(h), h[Len(h)])[i] = Parent(h)[i]
        /\ Append(Parent(h), h[Len(h)])[Len(Parent(h)) + 1] = h[Len(h)]
    BY <1>1, AppendProperties
  <2>2. Len(Parent(h)) = Len(h) - 1 /\ \A i \in 1 .. Len(h) - 1 : Parent(h)[i] = h[i]
    BY ParentType
  <2>3. \A i \in 1 .. Len(h) : Append(Parent(h), h[Len(h)])[i] = h[i]
    BY <1>1, <2>1, <2>2
  <2>4. Len(Append(Parent(h), h[Len(h)])) = Len(h)
    BY <1>1, <2>1, <2>2
  <2>5. QED
    BY <2>1, <2>3, <2>4, SeqEqual
<1>3. Trees(Append(Parent(h), h[Len(h)])) = Append(Trees(Parent(h)), h[Len(h)].tree)
  BY <1>1, TreesOfAppend
<1>4. QED
  BY <1>2, <1>3, TreesOfParent DEF Tree

(* A run that is open settles, and nobody else does.                       *)
LEMMA Settles ==
  ASSUME NEW s \in Run, NEW v, Outcome(s) = "open", Outcome(s)' = v,
         \A q \in Run \ {s} : Outcome(q)' = Outcome(q)
  PROVE  Promise!Settle(s, v)
BY DEF Promise!Settle

(* Nothing the promise speaks of has changed.                              *)
LEMMA Stutters ==
  ASSUME UNCHANGED ref, \A q \in Run : Outcome(q)' = Outcome(q)
  PROVE  UNCHANGED Promise!bvars
<1>1. Trees(ref)' = Trees(ref)
  BY DEF Trees
<1>2. [s \in Run |-> Outcome(s)]' = [s \in Run |-> Outcome(s)]
  OBVIOUS
<1>3. QED
  BY <1>1, <1>2 DEF Promise!bvars

(* The branch begins as any branch may, with every run open.               *)
LEMMA InitMaps == Init => Promise!Init
<1>1. SUFFICES ASSUME Init PROVE Promise!Init
  OBVIOUS
<1>2. Trees(ref) \in Seq(SUBSET Change)
  BY <1>1, InitPInv, TreesType DEF PInv, TypeOK
<1>3. \A s \in Run : Outcome(s) = "open"
  BY <1>1 DEF Init, Outcome, Landed, Range
<1>4. QED
  BY <1>2, <1>3 DEF Promise!Init

(* A run that ends without having landed fails.                            *)
LEMMA Fails ==
  ASSUME PInv, NEW s \in Run, Active(s), UNCHANGED <<ref, landings>>,
         pc[s] \notin {"append", "reconcile", "post"} \/ Landed(s),
         NEW to \in {"done", "crashed"}, Goto(s, to)
  PROVE  Promise!Fail(s) \/ UNCHANGED Promise!bvars
<1>1. pc \in [Run -> {"idle", "lock", "done", "crashed"} \cup PhaseA \cup PhaseB]
  BY DEF PInv, TypeOK
<1>2. \A q \in Run \ {s} : Outcome(q)' = Outcome(q)
  BY <1>1 DEF Goto, Outcome, Landed
<1>3. CASE Landed(s)
  <2>1. Outcome(s)' = Outcome(s)
    BY <1>3 DEF Outcome, Landed
  <2>2. QED
    BY <1>2, <2>1, Stutters
<1>4. CASE ~Landed(s)
  <2>1. Outcome(s) = "open" /\ Outcome(s)' = "failed"
    BY <1>1, <1>4 DEF Goto, Outcome, Landed, Active, PhaseA, PhaseB
  <2>2. Trees(ref)' = Trees(ref)
    BY DEF Trees
  <2>3. QED
    BY <1>2, <2>1, <2>2, Settles DEF Promise!Fail
<1>5. QED
  BY <1>3, <1>4

(* A step from one working place to another is nobody's business.          *)
LEMMA Works ==
  ASSUME PInv, NEW s \in Run, pc[s] = "idle" \/ Active(s), UNCHANGED <<ref, landings>>,
         NEW to \in {"lock"} \cup PhaseA \cup PhaseB, Goto(s, to)
  PROVE  UNCHANGED Promise!bvars
<1>1. pc \in [Run -> {"idle", "lock", "done", "crashed"} \cup PhaseA \cup PhaseB]
  BY DEF PInv, TypeOK
<1>2. \A q \in Run : Outcome(q)' = Outcome(q)
  BY <1>1 DEF Goto, Outcome, Landed, Active, PhaseA, PhaseB
<1>3. QED
  BY <1>2, Stutters

(* The update lands the run on the tip the branch has at that instant.     *)
LEMMA Lands ==
  ASSUME PInv, NEW s \in Run, Update(s)
  PROVE  Promise!Commit(s) \/ Promise!Amend(s) \/ Promise!Reword(s)
<1>1. /\ TypeOK /\ RunInv(s)
      /\ pc \in [Run -> {"idle", "lock", "done", "crashed"} \cup PhaseA \cup PhaseB]
      /\ ref \in Seq(Entry) /\ landings \in Seq(Run)
      /\ kind[s] \in {"commit", "amend", "restate", "reword"}
  BY PipelineConstants DEF PInv, TypeOK
<1>2. ref = base[s] /\ ref' = new[s] /\ pc[s] = "update"
  BY DEF Update
<1>3. Promise!Settle(s, "landed")
  <2>1. ~Landed(s)
    BY <1>1, <1>2 DEF RunInv, PastUpdate, Reported, Verdicts
  <2>2. /\ Len(landings) \in Nat /\ landings' = Append(landings, s)
        /\ DOMAIN landings = 1 .. Len(landings)
        /\ DOMAIN landings' = 1 .. Len(landings) + 1
        /\ \A i \in 1 .. Len(landings) : landings'[i] = landings[i]
        /\ landings'[Len(landings) + 1] = s
    BY <1>1, AppendProperties, LenProperties DEF Update
  <2>3. /\ \A q : Landed(q)' <=> Landed(q) \/ q = s
        /\ Landed(s)'
    BY <2>2 DEF Landed, Range
  <2>4. Outcome(s) = "open" /\ Outcome(s)' = "landed"
    BY <1>2, <2>1, <2>3 DEF Outcome
  <2>5. \A q \in Run \ {s} : Outcome(q)' = Outcome(q)
    BY <1>1, <2>3 DEF Update, Goto, Outcome
  <2>6. QED
    BY <2>4, <2>5, Settles
<1>4. Fits(s)
  BY <1>1, <1>2 DEF RunInv, PastBuild, PhaseB
<1>5. Onto(s) \in Seq(Entry) /\ NewTree(s) \in SUBSET Change
  BY <1>1, <1>4, BuiltType DEF Fits
<1>6. Trees(ref)' = Append(Trees(Onto(s)), NewTree(s))
  <2>1. [tree |-> NewTree(s), message |-> message[s]] \in Entry
    BY <1>4, <1>5 DEF Fits, Entry
  <2>2. Trees(new[s]) = Append(Trees(Onto(s)), NewTree(s))
    BY <1>4, <1>5, <2>1, TreesOfAppend DEF Fits
  <2>3. QED
    BY <1>2, <2>2 DEF Trees
<1>7. Promise!Tip(Trees(ref)) = Tree(ref) /\ ((Trees(ref) = <<>>) <=> (ref = <<>>))
  BY <1>1, TreesType
<1>8. CASE kind[s] = "commit"
  <2>1. Trees(ref)' = Append(Trees(ref), Promise!Tip(Trees(ref)) \cup {s})
    BY <1>2, <1>6, <1>7, <1>8 DEF Onto, Rewrites, NewTree
  <2>2. QED
    BY <1>3, <2>1 DEF Promise!Commit
<1>9. CASE kind[s] # "commit"
  <2>1. ref # <<>> /\ Onto(s) = Parent(ref) /\ Trees(ref) # <<>>
    BY <1>2, <1>4, <1>7, <1>9 DEF Fits, Onto, Rewrites
  <2>2. Trees(Onto(s)) = Promise!Rest(Trees(ref))
    BY <1>1, <2>1, TreesOfParent
  <2>3. CASE kind[s] = "reword"
    <3>1. Trees(ref)' = Append(Promise!Rest(Trees(ref)), Tree(ref))
      BY <1>2, <1>6, <2>2, <2>3 DEF NewTree
    <3>2. Trees(ref)' = Trees(ref)
      BY <1>1, <2>1, <3>1, TreesWhole
    <3>3. QED
      BY <1>3, <2>1, <3>2 DEF Promise!Reword
  <2>4. CASE kind[s] # "reword"
    <3>1. Trees(ref)' = Append(Promise!Rest(Trees(ref)), Promise!Tip(Trees(ref)) \cup {s})
      BY <1>2, <1>6, <1>7, <2>2, <2>4 DEF NewTree
    <3>2. QED
      BY <1>3, <2>1, <3>1 DEF Promise!Amend
  <2>5. QED
    BY <2>3, <2>4
<1>10. QED
  BY <1>8, <1>9

(* What git does beside safegit is the promise's Elsewhere.                *)
LEMMA GitMaps ==
  ASSUME PInv, GitMove
  PROVE  Promise!Elsewhere
<1>1. ref \in Seq(Entry) /\ Promise!Tip(Trees(ref)) = Tree(ref)
      /\ ((Trees(ref) = <<>>) <=> (ref = <<>>)) /\ Tree(ref) \in SUBSET Change
  BY TreesType, HistoryTypes DEF PInv, TypeOK
<1>2. [s \in Run |-> Outcome(s)]' = [s \in Run |-> Outcome(s)]
  BY DEF GitMove, Outcome, Landed
<1>3. ASSUME NEW c \in GitChanges,
             ref' = Append(ref, [tree |-> Tree(ref) \cup {c},
                                 message |-> [text |-> Git, records |-> {}]])
      PROVE  c \in Change /\ Trees(ref)' = Append(Trees(ref), Promise!Tip(Trees(ref)) \cup {c})
  <2>1. DEFINE e == [tree |-> Tree(ref) \cup {c}, message |-> [text |-> Git, records |-> {}]]
  <2>2. c \in Change /\ e \in Entry
    BY <1>1 DEF Change, Entry, Message
  <2>3. Trees(Append(ref, e)) = Append(Trees(ref), e.tree)
    BY <1>1, <2>2, TreesOfAppend
  <2>4. Trees(ref)' = Trees(Append(ref, e))
    BY <1>3 DEF Trees
  <2>5. QED
    BY <1>1, <2>2, <2>3, <2>4
<1>4. ASSUME ref # <<>>, ref' = Parent(ref)
      PROVE  Trees(ref)' = Promise!Rest(Trees(ref))
  <2>1. Trees(ref)' = Trees(Parent(ref))
    BY <1>4 DEF Trees
  <2>2. QED
    BY <1>1, <1>4, <2>1, TreesOfParent
<1>5. QED
  BY <1>1, <1>2, <1>3, <1>4 DEF GitMove, Promise!Elsewhere

(* Every step of the pipeline is a step of the promise or none.            *)
LEMMA StepMaps == PInv /\ [Next]_vars => [Promise!Next]_(Promise!bvars)
<1>1. SUFFICES ASSUME PInv, [Next]_vars
               PROVE  Promise!Next \/ UNCHANGED Promise!bvars
  OBVIOUS
<1>2. ASSUME NEW s \in Run, NEW k \in Kinds, Begin(s, k) PROVE UNCHANGED Promise!bvars
  BY <1>1, <1>2, Works DEF Begin, PhaseA, shared
<1>3. ASSUME NEW s \in Run, Active(s), UNCHANGED <<ref, landings>>,
             pc[s] \notin {"append", "reconcile", "post"} \/ Landed(s),
             \/ \E to \in {"lock"} \cup PhaseA \cup PhaseB : Goto(s, to)
             \/ \E to \in {"done", "crashed"} : Goto(s, to)
      PROVE  Promise!Fail(s) \/ UNCHANGED Promise!bvars
  BY <1>1, <1>3, Works, Fails
<1>4. ASSUME NEW s \in Run, Work(s), ~Update(s)
      PROVE  Promise!Fail(s) \/ UNCHANGED Promise!bvars
  <2>1. Active(s) /\ UNCHANGED <<ref, landings>>
    BY <1>4 DEF Work, Resolve, Stage, Refuse, Build, TakeLock, LockTimeout, Check, Retry,
       UpdateMiss, UpdateFails, AppendLog, Reconcile, PostCommit, Active, PhaseA, PhaseB,
       mine, shared
  <2>2. \/ \E to \in {"lock"} \cup PhaseA \cup PhaseB : Goto(s, to)
        \/ \E to \in {"done", "crashed"} : Goto(s, to)
    BY <1>4 DEF Work, Resolve, Stage, Refuse, Build, TakeLock, LockTimeout, Check, Retry,
       UpdateMiss, UpdateFails, AppendLog, Reconcile, PostCommit, Finish, PhaseA, PhaseB
  <2>3. pc[s] \notin {"append", "reconcile", "post"} \/ Landed(s)
    BY <1>1 DEF PInv, RunInv, PastUpdate
  <2>4. QED
    BY <1>3, <2>1, <2>2, <2>3
<1>5. ASSUME NEW s \in Run, Crash(s)
      PROVE  Promise!Fail(s) \/ UNCHANGED Promise!bvars
  <2>1. pc[s] \notin {"append", "reconcile", "post"} \/ Landed(s)
    BY <1>1 DEF PInv, RunInv, PastUpdate
  <2>2. QED
    BY <1>3, <1>5, <2>1 DEF Crash, shared
<1>6. ASSUME NEW s \in Run, RunStep(s)
      PROVE  Promise!Next \/ UNCHANGED Promise!bvars
  BY <1>1, <1>2, <1>4, <1>5, <1>6, Lands DEF RunStep, Promise!Next
<1>7. CASE LoseLock \/ UNCHANGED vars
  <2>1. UNCHANGED <<ref, pc, landings>>
    BY <1>7 DEF LoseLock, vars, shared
  <2>2. \A q \in Run : Outcome(q)' = Outcome(q)
    BY <2>1 DEF Outcome, Landed
  <2>3. QED
    BY <2>1, <2>2, Stutters
<1>8. CASE GitMove
  BY <1>1, <1>8, GitMaps DEF Promise!Next
<1>9. QED
  BY <1>1, <1>6, <1>7, <1>8 DEF Next

(* Every run of commit, amend or reword takes effect at one instant on the *)
(* tip the branch has then, or not at all, and nothing another session or  *)
(* git put on the branch is lost to it: with any number of runs, worktrees *)
(* and retries, with crashes, and even when the branch's lock is lost.     *)
THEOREM PipelineImplementsBranch == Spec => ImplementsBranch
<1>1. Init => Promise!Init
  BY InitMaps
<1>2. PInv /\ [Next]_vars => [Promise!Next]_(Promise!bvars)
  BY StepMaps
<1>3. QED
  BY <1>1, <1>2, Invariance, PTL DEF Spec, ImplementsBranch, Promise!BranchSpec

-----------------------------------------------------------------------------
(***************************************************************************)
(* Undo.                                                                   *)
(***************************************************************************)
(* A set of numbers that has a member has a least one.                       *)
LEMMA LeastNatural ==
  ASSUME NEW S \in SUBSET Nat, S # {}
  PROVE  \E n \in S : \A m \in S : n <= m
<1> DEFINE Below(m) == {k \in Nat : k < m}
           T == {Below(m) : m \in S}
<1>1. \A m \in Nat : Below(m) \in FiniteSubsetsOf(Nat)
  <2> TAKE m \in Nat
  <2>1. IsFiniteSet(0..m)
    BY FS_Interval
  <2>2. Below(m) \in SUBSET (0..m)
    OBVIOUS
  <2>3. IsFiniteSet(Below(m))
    BY <2>1, <2>2, FS_Subset
  <2> QED
    BY <2>3 DEF FiniteSubsetsOf
<1>2. T \subseteq FiniteSubsetsOf(Nat) /\ T # {}
  BY <1>1
<1>3. \E x \in T : \A y \in T : <<y, x>> \notin StrictSubsetOrdering(Nat)
  <2> HIDE DEF T
  <2> QED
    BY <1>2, FS_StrictSubsetOrderingWellFounded, WFMin
<1>4. PICK n \in S : \A m \in S : <<Below(m), Below(n)>> \notin StrictSubsetOrdering(Nat)
  BY <1>3
<1>5. ASSUME NEW m \in S, ~(n <= m)
      PROVE  <<Below(m), Below(n)>> \in StrictSubsetOrdering(Nat)
  <2>1. Below(m) \subseteq Below(n) /\ Below(n) \subseteq Nat
    BY <1>5
  <2>2. m \in Below(n) /\ m \notin Below(m)
    BY <1>5
  <2> QED
    BY <2>1, <2>2 DEF StrictSubsetOrdering
<1> QED
  BY <1>4, <1>5

(* What is computed one step after another has a value after each.           *)
Computes(f, n, S, a, g) == f \in [0..n -> S] /\ f = [i \in 0..n |-> IF i = 0 THEN a ELSE g[i][f[i - 1]]]
LEMMA Recursion ==
  ASSUME NEW n \in Nat, NEW S, NEW a \in S, NEW g \in [1..n -> [S -> S]]
  PROVE  \E f : Computes(f, n, S, a, g)
<1> DEFINE Goes(f, k) == f \in [0..k -> S] /\ f[0] = a /\ \A i \in 1..k : f[i] = g[i][f[i - 1]]
           B == {k \in 0..n : ~(\E f : Goes(f, k))}
<1>1. B = {}
  <2> SUFFICES ASSUME B # {} PROVE FALSE
    OBVIOUS
  <2>1. B \in SUBSET Nat
    OBVIOUS
  <2>2. PICK k \in B : \A m \in B : k <= m
    <3> HIDE DEF B
    <3> QED
      BY <2>1, LeastNatural
  <2>3. k \in 0..n /\ ~(\E f : Goes(f, k))
    BY <2>2
  <2>4. CASE k = 0
    <3>1. Goes([i \in 0..0 |-> a], 0)
      OBVIOUS
    <3> HIDE DEF Goes
    <3> QED
      BY <3>1, <2>3, <2>4
  <2>5. CASE k # 0
    <3>1. k - 1 \in 0..n /\ ~(k <= k - 1)
      BY <2>3, <2>5
    <3>2. PICK f : Goes(f, k - 1)
      <4>1. k - 1 \notin B
        BY <3>1, <2>2
      <4> QED
        BY <4>1, <3>1
    <3> DEFINE h == [i \in 0..k |-> IF i = k THEN g[k][f[k - 1]] ELSE f[i]]
    <3>3. f \in [0..(k - 1) -> S] /\ f[0] = a /\ \A i \in 1..(k - 1) : f[i] = g[i][f[i - 1]]
      BY <3>2
    <3>4. g[k][f[k - 1]] \in S
      <4>1. k \in 1..n /\ k - 1 \in 0..(k - 1)
        BY <2>3, <2>5
      <4>2. f[k - 1] \in S /\ g[k] \in [S -> S]
        BY <4>1, <3>3
      <4> QED
        BY <4>2
    <3>5. h \in [0..k -> S]
      <4> SUFFICES ASSUME NEW i \in 0..k PROVE (IF i = k THEN g[k][f[k - 1]] ELSE f[i]) \in S
        OBVIOUS
      <4>1. i # k => i \in 0..(k - 1)
        BY <2>3
      <4> QED
        BY <4>1, <3>3, <3>4
    <3>6. h[0] = a
      BY <2>3, <2>5, <3>3
    <3>7. ASSUME NEW i \in 1..k
          PROVE  h[i] = g[i][h[i - 1]]
      <4>1. i \in 0..k /\ i - 1 \in 0..k /\ i - 1 # k
        BY <2>3
      <4>2. h[i - 1] = f[i - 1] /\ h[i] = IF i = k THEN g[k][f[k - 1]] ELSE f[i]
        BY <4>1
      <4>3. i # k => i \in 1..(k - 1)
        BY <2>3
      <4> HIDE DEF h
      <4> QED
        BY <4>2, <4>3, <3>3
    <3>8. Goes(h, k)
      BY <3>5, <3>6, <3>7
    <3> HIDE DEF h, Goes
    <3> QED
      BY <3>8, <2>3
  <2> QED
    BY <2>4, <2>5
<1>2. PICK f : Goes(f, n)
  <2>1. n \in 0..n
    OBVIOUS
  <2>2. n \notin B
    <3> HIDE DEF B
    <3> QED
      BY <1>1
  <2> HIDE DEF Goes
  <2> QED
    BY <2>1, <2>2
<1>3. f = [i \in 0..n |-> IF i = 0 THEN a ELSE g[i][f[i - 1]]]
  <2>1. f = [i \in 0..n |-> f[i]]
    BY <1>2
  <2>2. \A i \in 0..n : f[i] = IF i = 0 THEN a ELSE g[i][f[i - 1]]
    BY <1>2
  <2> QED
    BY <2>1, <2>2
<1> QED
  BY <1>2, <1>3 DEF Computes

(* What is computed so depends on nothing but the start and the steps taken. *)
Alike(f, h, n) == \A i \in 0..n : f[i] = h[i]
LEMMA SameRecursion ==
  ASSUME NEW n \in Nat, NEW f, NEW h, f[0] = h[0], \A i \in 1..n : f[i - 1] = h[i - 1] => f[i] = h[i]
  PROVE  Alike(f, h, n)
<1> DEFINE B == {k \in 0..n : f[k] # h[k]}
<1> SUFFICES ASSUME B # {} PROVE FALSE
  BY DEF Alike
<1>1. B \in SUBSET Nat
  OBVIOUS
<1>2. PICK k \in B : \A m \in B : k <= m
  <2> HIDE DEF B
  <2> QED
    BY <1>1, LeastNatural
<1>3. k \in 0..n /\ f[k] # h[k]
  BY <1>2
<1>4. k \in 1..n
  BY <1>3
<1>5. k - 1 \in 0..n /\ ~(k <= k - 1)
  BY <1>4
<1>6. k - 1 \notin B
  BY <1>5, <1>2
<1>7. f[k - 1] = h[k - 1]
  BY <1>5, <1>6
<1> QED
  BY <1>3, <1>4, <1>7

---------------------------------------------------------------------------
(* What an entry of the log is, whatever has been made since.                *)
Item  == [op : Ops, session : Session, tip : Nat, before : Nat, count : Nat \ {0}]
Frame == [before : Nat, after : Nat]

(* An operation is put on what stands, and an undo takes it off.             *)
LEMMA PerformedOK ==
  ASSUME NEW st \in Seq(Frame), NEW e \in Item
  PROVE  Performed(st, e) \in Seq(Frame)
<1>1. [before |-> e.before, after |-> e.tip] \in Frame
  BY DEF Item, Frame
<1>2. Append(st, [before |-> e.before, after |-> e.tip]) \in Seq(Frame)
  BY <1>1, AppendProperties
<1>3. SubSeq(st, 1, Len(st) - e.count) \in Seq(Frame)
  <2>1. Len(st) \in Nat /\ Len(st) - e.count \in Int /\ Len(st) - e.count <= Len(st)
    BY LenProperties DEF Item
  <2>2. \A i \in 1..(Len(st) - e.count) : st[i] \in Frame
    <3>1. \A i \in 1..(Len(st) - e.count) : i \in 1..Len(st)
      BY <2>1
    <3> QED
      BY <3>1, ElementOfSeq
  <2> QED
    BY <2>1, <2>2, SubSeqProperties
<1>4. <<>> \in Seq(Frame)
  BY EmptySeq
<1> QED
  BY <1>2, <1>3, <1>4 DEF Performed

(* What stands after each entry.                                             *)
LEMMA StandingIs ==
  ASSUME NEW L \in Seq(Item)
  PROVE  /\ Standing(L) \in [0..Len(L) -> [Session -> Seq(Frame)]]
         /\ Standing(L)[0] = [s \in Session |-> <<>>]
         /\ \A i \in 1..Len(L) : Standing(L)[i] =
               [Standing(L)[i - 1] EXCEPT ![L[i].session] = Performed(Standing(L)[i - 1][L[i].session], L[i])]
<1> DEFINE n == Len(L)
           S == [Session -> Seq(Frame)]
           a == [s \in Session |-> <<>>]
           step(i, st) == [st EXCEPT ![L[i].session] = Performed(@, L[i])]
           g == [i \in 1..n |-> [st \in S |-> step(i, st)]]
           F(st) == [i \in 0..n |-> IF i = 0 THEN a ELSE step(i, st[i - 1])]
<1>1. n \in Nat /\ \A i \in 1..n : L[i] \in Item
  BY LenProperties, ElementOfSeq
<1>2. a \in S
  BY EmptySeq
<1>3. ASSUME NEW i \in 1..n, NEW st \in S
      PROVE  step(i, st) \in S
  <2>1. L[i].session \in Session
    BY <1>1 DEF Item
  <2>2. Performed(st[L[i].session], L[i]) \in Seq(Frame)
    BY <1>1, <2>1, PerformedOK
  <2> QED
    BY <2>1, <2>2
<1>4. g \in [1..n -> [S -> S]]
  BY <1>3
<1>5. PICK f : Computes(f, n, S, a, g)
  <2> HIDE DEF n, S, a, g
  <2> QED
    BY <1>1, <1>2, <1>4, Recursion
<1>6. f = F(f)
  <2>1. ASSUME NEW i \in 0..n, i # 0
        PROVE  g[i][f[i - 1]] = step(i, f[i - 1])
    <3>1. i \in 1..n /\ i - 1 \in 0..n
      BY <1>1, <2>1
    <3>2. f[i - 1] \in S
      BY <3>1, <1>5 DEF Computes
    <3> QED
      BY <3>1, <3>2
  <2> HIDE DEF step, g
  <2> QED
    BY <1>5, <2>1 DEF Computes
<1>7. Standing(L) = CHOOSE st : st = F(st)
  BY DEF Standing
<1>8. Standing(L) = F(Standing(L))
  <2> HIDE DEF F
  <2> QED
    BY <1>6, <1>7
<1>9. Standing(L)[0] = a /\ \A i \in 1..n : Standing(L)[i] = step(i, Standing(L)[i - 1])
  <2> DEFINE X == Standing(L)
  <2>1. X = F(X)
    BY <1>8
  <2> HIDE DEF X
  <2>2. X = [i \in 0..n |-> IF i = 0 THEN a ELSE step(i, X[i - 1])]
    BY <2>1
  <2> HIDE DEF F, step, a
  <2>3. X[0] = a /\ \A i \in 1..n : X[i] = step(i, X[i - 1])
    BY <1>1, <2>2
  <2> QED
    BY <2>3 DEF X
<1>10. f[0] = a /\ \A i \in 1..n : f[i] = step(i, f[i - 1])
  <2>1. f = [i \in 0..n |-> IF i = 0 THEN a ELSE step(i, f[i - 1])]
    BY <1>6
  <2> HIDE DEF F, step, a
  <2> QED
    BY <1>1, <2>1
<1>11. \A i \in 0..n : f[i] = Standing(L)[i]
  <2> DEFINE X == Standing(L)
  <2>1. X[0] = a /\ \A i \in 1..n : X[i] = step(i, X[i - 1])
    BY <1>9
  <2> HIDE DEF X, step, a, n
  <2>2. ASSUME NEW i \in 1..n, f[i - 1] = X[i - 1]
        PROVE  f[i] = X[i]
    BY <1>10, <2>1, <2>2
  <2>3. f[0] = X[0]
    BY <1>10, <2>1
  <2>4. Alike(f, X, n)
    BY <1>1, <2>2, <2>3, SameRecursion
  <2> QED
    BY <2>4 DEF X, Alike
<1>12. Standing(L) \in [0..n -> S]
  <2>1. \A i \in 0..n : Standing(L)[i] \in S
    BY <1>5, <1>11 DEF Computes
  <2>2. Standing(L) = [i \in 0..n |-> Standing(L)[i]]
    <3> DEFINE X == Standing(L)
    <3>1. X = F(X)
      BY <1>8
    <3> HIDE DEF X
    <3>2. X = [i \in 0..n |-> IF i = 0 THEN a ELSE step(i, X[i - 1])]
      BY <3>1
    <3> HIDE DEF F, step, a, n
    <3>3. X = [i \in 0..n |-> X[i]]
      BY <3>2
    <3> QED
      BY <3>3 DEF X
  <2> HIDE DEF n, S
  <2> QED
    BY <2>1, <2>2
<1> QED
  BY <1>9, <1>12

(* How many each session has been told are undone, after each entry.         *)
LEMMA ToldIs ==
  ASSUME NEW L \in Seq(Item)
  PROVE  /\ Told(L) \in [0..Len(L) -> [Session -> Nat]]
         /\ Told(L)[0] = [s \in Session |-> 0]
         /\ \A i \in 1..Len(L) : Told(L)[i] =
               [Told(L)[i - 1] EXCEPT ![L[i].session] =
                  Told(L)[i - 1][L[i].session] + (IF L[i].op = "undo" THEN L[i].count ELSE 0)]
<1> DEFINE n == Len(L)
           S == [Session -> Nat]
           a == [s \in Session |-> 0]
           step(i, st) == [st EXCEPT ![L[i].session] = @ + (IF L[i].op = "undo" THEN L[i].count ELSE 0)]
           g == [i \in 1..n |-> [st \in S |-> step(i, st)]]
           F(st) == [i \in 0..n |-> IF i = 0 THEN a ELSE step(i, st[i - 1])]
<1>1. n \in Nat /\ \A i \in 1..n : L[i] \in Item
  BY LenProperties, ElementOfSeq
<1>2. a \in S
  OBVIOUS
<1>3. ASSUME NEW i \in 1..n, NEW st \in S
      PROVE  step(i, st) \in S
  <2>1. L[i].session \in Session /\ L[i].count \in Nat
    BY <1>1 DEF Item
  <2>2. st[L[i].session] + (IF L[i].op = "undo" THEN L[i].count ELSE 0) \in Nat
    BY <2>1
  <2> QED
    BY <2>1, <2>2
<1>4. g \in [1..n -> [S -> S]]
  BY <1>3
<1>5. PICK f : Computes(f, n, S, a, g)
  <2> HIDE DEF n, S, a, g
  <2> QED
    BY <1>1, <1>2, <1>4, Recursion
<1>6. f = F(f)
  <2>1. ASSUME NEW i \in 0..n, i # 0
        PROVE  g[i][f[i - 1]] = step(i, f[i - 1])
    <3>1. i \in 1..n /\ i - 1 \in 0..n
      BY <1>1, <2>1
    <3>2. f[i - 1] \in S
      BY <3>1, <1>5 DEF Computes
    <3> QED
      BY <3>1, <3>2
  <2> HIDE DEF step, g
  <2> QED
    BY <1>5, <2>1 DEF Computes
<1>7. Told(L) = CHOOSE st : st = F(st)
  BY DEF Told
<1>8. Told(L) = F(Told(L))
  <2> HIDE DEF F
  <2> QED
    BY <1>6, <1>7
<1>9. Told(L)[0] = a /\ \A i \in 1..n : Told(L)[i] = step(i, Told(L)[i - 1])
  <2> DEFINE X == Told(L)
  <2>1. X = F(X)
    BY <1>8
  <2> HIDE DEF X
  <2>2. X = [i \in 0..n |-> IF i = 0 THEN a ELSE step(i, X[i - 1])]
    BY <2>1
  <2> HIDE DEF F, step, a
  <2>3. X[0] = a /\ \A i \in 1..n : X[i] = step(i, X[i - 1])
    BY <1>1, <2>2
  <2> QED
    BY <2>3 DEF X
<1>10. f[0] = a /\ \A i \in 1..n : f[i] = step(i, f[i - 1])
  <2>1. f = [i \in 0..n |-> IF i = 0 THEN a ELSE step(i, f[i - 1])]
    BY <1>6
  <2> HIDE DEF F, step, a
  <2> QED
    BY <1>1, <2>1
<1>11. \A i \in 0..n : f[i] = Told(L)[i]
  <2> DEFINE X == Told(L)
  <2>1. X[0] = a /\ \A i \in 1..n : X[i] = step(i, X[i - 1])
    BY <1>9
  <2> HIDE DEF X, step, a, n
  <2>2. ASSUME NEW i \in 1..n, f[i - 1] = X[i - 1]
        PROVE  f[i] = X[i]
    BY <1>10, <2>1, <2>2
  <2>3. f[0] = X[0]
    BY <1>10, <2>1
  <2>4. Alike(f, X, n)
    BY <1>1, <2>2, <2>3, SameRecursion
  <2> QED
    BY <2>4 DEF X, Alike
<1>12. Told(L) \in [0..n -> S]
  <2>1. \A i \in 0..n : Told(L)[i] \in S
    BY <1>5, <1>11 DEF Computes
  <2>2. Told(L) = [i \in 0..n |-> Told(L)[i]]
    <3> DEFINE X == Told(L)
    <3>1. X = F(X)
      BY <1>8
    <3> HIDE DEF X
    <3>2. X = [i \in 0..n |-> IF i = 0 THEN a ELSE step(i, X[i - 1])]
      BY <3>1
    <3> HIDE DEF F, step, a, n
    <3>3. X = [i \in 0..n |-> X[i]]
      BY <3>2
    <3> QED
      BY <3>3 DEF X
  <2> HIDE DEF n, S
  <2> QED
    BY <2>1, <2>2
<1> QED
  BY <1>9, <1>12

(* Where the walk is after each number of the latest entries.                *)
WalkState == [live : Seq(Item), cancelled : Nat, barred : BOOLEAN]

LEMMA VisitOK ==
  ASSUME NEW w \in WalkState, NEW e \in Item, NEW count
  PROVE  Visit(w, e, count) \in WalkState
<1>1. w.live \in Seq(Item) /\ w.cancelled \in Nat /\ w.barred \in BOOLEAN
  BY DEF WalkState
<1>2. Append(w.live, e) \in Seq(Item)
  BY <1>1, AppendProperties
<1>3. w.cancelled > 0 => w.cancelled - 1 \in Nat
  BY <1>1
<1>4. w.barred \/ Len(w.live) = count => Visit(w, e, count) = w
  BY DEF Visit
<1>5. [w EXCEPT !.cancelled = w.cancelled + 1] \in WalkState
  BY <1>1 DEF WalkState
<1>6. [w EXCEPT !.barred = TRUE] \in WalkState
  BY <1>1 DEF WalkState
<1>7. w.cancelled > 0 => [w EXCEPT !.cancelled = w.cancelled - 1] \in WalkState
  BY <1>1, <1>3 DEF WalkState
<1>8. [w EXCEPT !.live = Append(w.live, e)] \in WalkState
  BY <1>1, <1>2 DEF WalkState
<1> QED
  BY <1>4, <1>5, <1>6, <1>7, <1>8 DEF Visit

(* One of the latest entries after another, each seen when it is heard.      *)
Seen(w, e, s, bypass, count) == IF Heard(e, s, bypass) THEN Visit(w, e, count) ELSE w
LEMMA WalkingIs ==
  ASSUME oplog \in Seq(Item), NEW s, NEW bypass, NEW count
  PROVE  /\ Walking(s, bypass, count) \in [0..Len(oplog) -> WalkState]
         /\ Walking(s, bypass, count)[0] = [live |-> <<>>, cancelled |-> 0, barred |-> FALSE]
         /\ \A i \in 1..Len(oplog) : Walking(s, bypass, count)[i] =
               Seen(Walking(s, bypass, count)[i - 1], oplog[Len(oplog) + 1 - i], s, bypass, count)
<1> DEFINE n == Len(oplog)
           S == WalkState
           a == [live |-> <<>>, cancelled |-> 0, barred |-> FALSE]
           step(i, st) == Seen(st, oplog[Len(oplog) + 1 - i], s, bypass, count)
           g == [i \in 1..n |-> [st \in S |-> step(i, st)]]
           F(st) == [i \in 0..n |-> IF i = 0 THEN a ELSE step(i, st[i - 1])]
<1>1. n \in Nat /\ \A i \in 1..n : oplog[n + 1 - i] \in Item
  <2>1. n \in Nat /\ \A i \in 1..n : n + 1 - i \in 1..n
    BY LenProperties
  <2> QED
    BY <2>1, ElementOfSeq
<1>2. a \in S
  BY EmptySeq DEF WalkState
<1>3. ASSUME NEW i \in 1..n, NEW st \in S
      PROVE  step(i, st) \in S
  <2> HIDE DEF n
  <2>1. Visit(st, oplog[n + 1 - i], count) \in S
    BY <1>1, VisitOK
  <2> QED
    BY <2>1 DEF Seen, n
<1>4. g \in [1..n -> [S -> S]]
  BY <1>3
<1>5. PICK f : Computes(f, n, S, a, g)
  <2> HIDE DEF n, S, a, g
  <2> QED
    BY <1>1, <1>2, <1>4, Recursion
<1>6. f = F(f)
  <2>1. ASSUME NEW i \in 0..n, i # 0
        PROVE  g[i][f[i - 1]] = step(i, f[i - 1])
    <3>1. i \in 1..n /\ i - 1 \in 0..n
      BY <1>1, <2>1
    <3>2. f[i - 1] \in S
      BY <3>1, <1>5 DEF Computes
    <3> QED
      BY <3>1, <3>2
  <2> HIDE DEF step, g
  <2> QED
    BY <1>5, <2>1 DEF Computes
<1>7. Walking(s, bypass, count) = CHOOSE st : st = F(st)
  BY DEF Walking, Seen
<1>8. Walking(s, bypass, count) = F(Walking(s, bypass, count))
  <2> HIDE DEF F
  <2> QED
    BY <1>6, <1>7
<1>9. Walking(s, bypass, count)[0] = a /\ \A i \in 1..n : Walking(s, bypass, count)[i] = step(i, Walking(s, bypass, count)[i - 1])
  <2> DEFINE X == Walking(s, bypass, count)
  <2>1. X = F(X)
    BY <1>8
  <2> HIDE DEF X
  <2>2. X = [i \in 0..n |-> IF i = 0 THEN a ELSE step(i, X[i - 1])]
    BY <2>1
  <2> HIDE DEF F, step, a, n
  <2>3. X[0] = a /\ \A i \in 1..n : X[i] = step(i, X[i - 1])
    BY <1>1, <2>2
  <2> QED
    BY <2>3 DEF X
<1>10. f[0] = a /\ \A i \in 1..n : f[i] = step(i, f[i - 1])
  <2>1. f = [i \in 0..n |-> IF i = 0 THEN a ELSE step(i, f[i - 1])]
    BY <1>6
  <2> HIDE DEF F, step, a, n
  <2> QED
    BY <1>1, <2>1
<1>11. \A i \in 0..n : f[i] = Walking(s, bypass, count)[i]
  <2> DEFINE X == Walking(s, bypass, count)
  <2>1. X[0] = a /\ \A i \in 1..n : X[i] = step(i, X[i - 1])
    BY <1>9
  <2> HIDE DEF X, step, a, n
  <2>2. ASSUME NEW i \in 1..n, f[i - 1] = X[i - 1]
        PROVE  f[i] = X[i]
    BY <1>10, <2>1, <2>2
  <2>3. f[0] = X[0]
    BY <1>10, <2>1
  <2>4. Alike(f, X, n)
    BY <1>1, <2>2, <2>3, SameRecursion
  <2> QED
    BY <2>4 DEF X, Alike
<1>12. Walking(s, bypass, count) \in [0..n -> S]
  <2>1. \A i \in 0..n : Walking(s, bypass, count)[i] \in S
    BY <1>5, <1>11 DEF Computes
  <2>2. Walking(s, bypass, count) = [i \in 0..n |-> Walking(s, bypass, count)[i]]
    <3> DEFINE X == Walking(s, bypass, count)
    <3>1. X = F(X)
      BY <1>8
    <3> HIDE DEF X
    <3>2. X = [i \in 0..n |-> IF i = 0 THEN a ELSE step(i, X[i - 1])]
      BY <3>1
    <3> HIDE DEF F, step, a, n
    <3>3. X = [i \in 0..n |-> X[i]]
      BY <3>2
    <3> QED
      BY <3>3 DEF X
  <2> HIDE DEF n, S
  <2> QED
    BY <2>1, <2>2
<1> QED
  BY <1>9, <1>12

---------------------------------------------------------------------------
(* What holds at first and at each number if at the one before, holds at all.*)
LEMMA StepByStep ==
  ASSUME NEW n \in Nat, NEW B, 0 \in B, \A i \in 1..n : i - 1 \in B => i \in B
  PROVE  \A i \in 0..n : i \in B
<1> DEFINE f == [i \in 0..n |-> IF i \in B THEN 1 ELSE 0]
           h == [i \in 0..n |-> 1]
<1>1. f[0] = h[0]
  OBVIOUS
<1>2. ASSUME NEW i \in 1..n, f[i - 1] = h[i - 1]
      PROVE  f[i] = h[i]
  <2>1. i \in 0..n /\ i - 1 \in 0..n
    OBVIOUS
  <2>2. i - 1 \in B
    BY <2>1, <1>2
  <2> QED
    BY <2>1, <2>2
<1>3. \A i \in 0..n : f[i] = h[i]
  <2> HIDE DEF f, h
  <2>1. Alike(f, h, n)
    BY <1>1, <1>2, SameRecursion
  <2> QED
    BY <2>1 DEF Alike
<1> QED
  BY <1>3

(* A sequence over a set is one over each larger set.                        *)
LEMMA WiderSeq ==
  ASSUME NEW A, NEW B, A \subseteq B, NEW q \in Seq(A)
  PROVE  q \in Seq(B)
<1>1. Len(q) \in Nat /\ q \in [1..Len(q) -> A]
  BY LenProperties
<1>2. q \in [1..Len(q) -> B]
  BY <1>1
<1> QED
  BY <1>1, <1>2, SeqDef

(* What is appended to a log changes nothing of what stood before it.        *)
LEMMA StandingAppend ==
  ASSUME NEW L \in Seq(Item), NEW e \in Item
  PROVE  /\ \A i \in 0..Len(L) : Standing(Append(L, e))[i] = Standing(L)[i]
         /\ Standing(Append(L, e))[Len(Append(L, e))] =
              [Standing(L)[Len(L)] EXCEPT ![e.session] = Performed(Standing(L)[Len(L)][e.session], e)]
<1> DEFINE n == Len(L)
           M == Append(L, e)
           X == Standing(L)
           Y == Standing(M)
<1>1. n \in Nat /\ M \in Seq(Item) /\ Len(M) = n + 1 /\ M[n + 1] = e /\ \A i \in 1..n : M[i] = L[i]
  BY LenProperties, AppendProperties
<1>2. /\ X[0] = [s \in Session |-> <<>>]
      /\ \A i \in 1..n : X[i] = [X[i - 1] EXCEPT ![L[i].session] = Performed(X[i - 1][L[i].session], L[i])]
  BY StandingIs
<1>3. /\ Y[0] = [s \in Session |-> <<>>]
      /\ \A i \in 1..Len(M) : Y[i] = [Y[i - 1] EXCEPT ![M[i].session] = Performed(Y[i - 1][M[i].session], M[i])]
  <2> HIDE DEF M
  <2> QED
    BY <1>1, StandingIs
<1> HIDE DEF n, M, X, Y
<1>4. ASSUME NEW i \in 1..n, Y[i - 1] = X[i - 1]
      PROVE  Y[i] = X[i]
  <2>1. i \in 1..Len(M) /\ M[i] = L[i]
    BY <1>1
  <2>2. Y[i] = [Y[i - 1] EXCEPT ![M[i].session] = Performed(Y[i - 1][M[i].session], M[i])]
    BY <2>1, <1>3
  <2>3. X[i] = [X[i - 1] EXCEPT ![L[i].session] = Performed(X[i - 1][L[i].session], L[i])]
    BY <1>2
  <2> QED
    BY <2>1, <2>2, <2>3, <1>4
<1>5. \A i \in 0..n : Y[i] = X[i]
  <2>1. Y[0] = X[0]
    BY <1>2, <1>3
  <2>2. n \in Nat
    BY <1>1
  <2>3. \A i \in 1..n : Y[i - 1] = X[i - 1] => Y[i] = X[i]
    BY <1>4
  <2>4. Alike(Y, X, n)
    BY <2>1, <2>2, <2>3, SameRecursion
  <2> QED
    BY <2>4 DEF Alike
<1>6. Y[Len(M)] = [X[n] EXCEPT ![e.session] = Performed(X[n][e.session], e)]
  <2>1. n + 1 \in 1..Len(M) /\ (n + 1) - 1 = n /\ n \in 0..n
    BY <1>1
  <2>2. Y[n + 1] = [Y[n] EXCEPT ![M[n + 1].session] = Performed(Y[n][M[n + 1].session], M[n + 1])]
    BY <2>1, <1>3
  <2> QED
    BY <2>1, <2>2, <1>1, <1>5
<1> QED
  BY <1>5, <1>6 DEF n, M, X, Y

LEMMA ToldAppend ==
  ASSUME NEW L \in Seq(Item), NEW e \in Item
  PROVE  Told(Append(L, e))[Len(Append(L, e))] =
           [Told(L)[Len(L)] EXCEPT ![e.session] =
              Told(L)[Len(L)][e.session] + (IF e.op = "undo" THEN e.count ELSE 0)]
<1> DEFINE n == Len(L)
           M == Append(L, e)
           X == Told(L)
           Y == Told(M)
           more(d) == IF d.op = "undo" THEN d.count ELSE 0
<1>1. n \in Nat /\ M \in Seq(Item) /\ Len(M) = n + 1 /\ M[n + 1] = e /\ \A i \in 1..n : M[i] = L[i]
  BY LenProperties, AppendProperties
<1>2. /\ X[0] = [s \in Session |-> 0]
      /\ \A i \in 1..n : X[i] = [X[i - 1] EXCEPT ![L[i].session] = X[i - 1][L[i].session] + more(L[i])]
  BY ToldIs
<1>3. /\ Y[0] = [s \in Session |-> 0]
      /\ \A i \in 1..Len(M) : Y[i] = [Y[i - 1] EXCEPT ![M[i].session] = Y[i - 1][M[i].session] + more(M[i])]
  <2> HIDE DEF M
  <2> QED
    BY <1>1, ToldIs
<1>4. more(e) = IF e.op = "undo" THEN e.count ELSE 0
  OBVIOUS
<1> HIDE DEF n, M, X, Y, more
<1>5. ASSUME NEW i \in 1..n, Y[i - 1] = X[i - 1]
      PROVE  Y[i] = X[i]
  <2>1. i \in 1..Len(M) /\ M[i] = L[i]
    BY <1>1
  <2>2. Y[i] = [Y[i - 1] EXCEPT ![M[i].session] = Y[i - 1][M[i].session] + more(M[i])]
    BY <2>1, <1>3
  <2>3. X[i] = [X[i - 1] EXCEPT ![L[i].session] = X[i - 1][L[i].session] + more(L[i])]
    BY <1>2
  <2> QED
    BY <2>1, <2>2, <2>3, <1>5
<1>6. \A i \in 0..n : Y[i] = X[i]
  <2>1. Y[0] = X[0]
    BY <1>2, <1>3
  <2>2. n \in Nat
    BY <1>1
  <2>3. \A i \in 1..n : Y[i - 1] = X[i - 1] => Y[i] = X[i]
    BY <1>5
  <2>4. Alike(Y, X, n)
    BY <2>1, <2>2, <2>3, SameRecursion
  <2> QED
    BY <2>4 DEF Alike
<1>7. Y[Len(M)] = [X[n] EXCEPT ![e.session] = X[n][e.session] + more(e)]
  <2>1. n + 1 \in 1..Len(M) /\ (n + 1) - 1 = n /\ n \in 0..n
    BY <1>1
  <2>2. Y[n + 1] = [Y[n] EXCEPT ![M[n + 1].session] = Y[n][M[n + 1].session] + more(M[n + 1])]
    BY <2>1, <1>3
  <2> QED
    BY <2>1, <2>2, <1>1, <1>6
<1> QED
  BY <1>4, <1>7 DEF n, M, X, Y

(* Every operation a walk takes back is one that the log records as made,    *)
(* in the session it is walked for unless it was told otherwise.             *)
LEMMA WalkHears ==
  ASSUME oplog \in Seq(Item), NEW s, NEW bypass, NEW count
  PROVE  /\ Walk(s, bypass, count) \in WalkState
         /\ \A i \in 1..Len(Walk(s, bypass, count).live) : \E j \in 1..Len(oplog) :
              /\ Walk(s, bypass, count).live[i] = oplog[j]
              /\ Heard(oplog[j], s, bypass) /\ oplog[j].op \in Undoable
<1> DEFINE n == Len(oplog)
           W == Walking(s, bypass, count)
           Good(w) == \A i \in 1..Len(w.live) : \E j \in 1..n :
                        w.live[i] = oplog[j] /\ Heard(oplog[j], s, bypass) /\ oplog[j].op \in Undoable
           B == {k \in 0..n : Good(W[k])}
<1>1. n \in Nat
  BY LenProperties
<1>2. /\ W \in [0..n -> WalkState]
      /\ W[0] = [live |-> <<>>, cancelled |-> 0, barred |-> FALSE]
      /\ \A i \in 1..n : W[i] = Seen(W[i - 1], oplog[n + 1 - i], s, bypass, count)
  BY WalkingIs
<1> HIDE DEF W
<1>3. Good(W[0])
  <2>1. W[0].live = <<>> /\ Len(<<>>) = 0
    BY <1>2
  <2> QED
    BY <2>1
<1>4. ASSUME NEW k \in 1..n, Good(W[k - 1])
      PROVE  Good(W[k])
  <2> DEFINE e == oplog[n + 1 - k]
             w == W[k - 1]
  <2>1. k - 1 \in 0..n /\ n + 1 - k \in 1..n
    BY <1>1
  <2>2. w \in WalkState /\ W[k] = Seen(w, e, s, bypass, count)
    BY <2>1, <1>2
  <2>3. CASE W[k].live = w.live
    <3>1. Good(w)
      BY <1>4
    <3> HIDE DEF w
    <3>2. ASSUME NEW i \in 1..Len(W[k].live)
          PROVE  \E j \in 1..n : W[k].live[i] = oplog[j] /\ Heard(oplog[j], s, bypass) /\ oplog[j].op \in Undoable
      <4>1. PICK j \in 1..n : w.live[i] = oplog[j] /\ Heard(oplog[j], s, bypass) /\ oplog[j].op \in Undoable
        BY <2>3, <3>1, <3>2
      <4> QED
        BY <2>3, <4>1
    <3> QED
      BY <3>2
  <2>4. CASE W[k].live # w.live
    <3> HIDE DEF w, e
    <3>1. Heard(e, s, bypass) /\ W[k] = Visit(w, e, count)
      BY <2>2, <2>4 DEF Seen
    <3>2. e.op \in Undoable /\ W[k] = [w EXCEPT !.live = Append(w.live, e)]
      BY <3>1, <2>2, <2>4 DEF Visit, WalkState
    <3>3. w.live \in Seq(Item) /\ W[k].live = Append(w.live, e)
      BY <3>2, <2>2 DEF WalkState
    <3>4. e \in Item
      BY <2>1, ElementOfSeq DEF e
    <3>5. /\ Len(W[k].live) = Len(w.live) + 1 /\ W[k].live[Len(w.live) + 1] = e /\ Len(w.live) \in Nat
          /\ \A i \in 1..Len(w.live) : W[k].live[i] = w.live[i]
      BY <3>3, <3>4, AppendProperties, LenProperties
    <3>6. Good(w)
      BY <1>4 DEF w
    <3>7. ASSUME NEW i \in 1..Len(W[k].live)
          PROVE  \E j \in 1..n : W[k].live[i] = oplog[j] /\ Heard(oplog[j], s, bypass) /\ oplog[j].op \in Undoable
      <4>1. CASE i = Len(w.live) + 1
        <5>1. W[k].live[i] = oplog[n + 1 - k] /\ Heard(oplog[n + 1 - k], s, bypass) /\ oplog[n + 1 - k].op \in Undoable
          BY <4>1, <3>1, <3>2, <3>5 DEF e
        <5> QED
          BY <5>1, <2>1
      <4>2. CASE i # Len(w.live) + 1
        <5>1. i \in 1..Len(w.live) /\ W[k].live[i] = w.live[i]
          BY <4>2, <3>5
        <5>2. PICK j \in 1..n : w.live[i] = oplog[j] /\ Heard(oplog[j], s, bypass) /\ oplog[j].op \in Undoable
          BY <5>1, <3>6
        <5> QED
          BY <5>1, <5>2
      <4> QED
        BY <4>1, <4>2
    <3> QED
      BY <3>7
  <2> QED
    BY <2>3, <2>4
<1>5. \A k \in 0..n : k \in B
  <2>1. 0 \in B
    BY <1>1, <1>3
  <2>2. \A k \in 1..n : k - 1 \in B => k \in B
    <3> TAKE k \in 1..n
    <3>1. k \in 0..n
      OBVIOUS
    <3> HIDE DEF Good
    <3> QED
      BY <1>4, <3>1
  <2> HIDE DEF B, n
  <2> QED
    BY <1>1, <2>1, <2>2, StepByStep
<1>6. Good(W[n]) /\ W[n] \in WalkState
  BY <1>1, <1>2, <1>5
<1> QED
  BY <1>6 DEF W, Walk

---------------------------------------------------------------------------
(* What a step does to the commits and to the log, whichever step it is.     *)
Grows == parent' = parent \/ (Len(parent) < MaxCommits /\ \E p \in Place : parent' = Append(parent, p))
LogGrows == oplog' = oplog \/ (\E e \in LogEntry' : oplog' = Append(oplog, e))

UndoTypeInv ==
  /\ UndoTypeOK
  /\ parent \in Seq(Nat) /\ Len(parent) <= MaxCommits
  /\ plan # NoPlan => stopped = 0

LEMMA UndoTypes ==
  ASSUME UndoTypeInv
  PROVE  /\ Made = 1..Len(parent) /\ Place = 0..Len(parent) /\ Len(parent) \in Nat
         /\ LogEntry \subseteq Item /\ oplog \in Seq(Item) /\ oplog \in Seq(LogEntry) /\ NoPlan \in [session : {0}, count : {0}, bypass : {FALSE}, pin : {0}, target : {0}]
<1>1. Len(parent) \in Nat /\ Made = 1..Len(parent)
  BY LenProperties DEF UndoTypeInv, Made
<1>2. Place = 0..Len(parent)
  BY <1>1 DEF Place
<1>3. Counts \cup {1} \subseteq Nat \ {0}
  BY UndoConstants
<1>4. LogEntry \subseteq Item
  <2>1. Place \subseteq Nat
    BY <1>2
  <2> HIDE DEF Place
  <2> QED
    BY <1>3, <2>1 DEF LogEntry, Item
<1>5. oplog \in Seq(LogEntry)
  BY DEF UndoTypeInv, UndoTypeOK
<1>6. oplog \in Seq(Item)
  BY <1>4, <1>5, WiderSeq
<1> QED
  BY <1>1, <1>2, <1>4, <1>5, <1>6 DEF NoPlan

(* A commit once made stays as it was.                                       *)
LEMMA Grown ==
  ASSUME UndoTypeInv, Grows
  PROVE  /\ parent' \in Seq(Nat) /\ Len(parent') <= MaxCommits /\ Len(parent') \in Nat
         /\ Made' = 1..Len(parent') /\ Place' = 0..Len(parent') /\ Len(parent) <= Len(parent')
         /\ Made \subseteq Made' /\ Place \subseteq Place' /\ LogEntry \subseteq LogEntry'
         /\ \A c \in Made : parent'[c] = parent[c]
         /\ \A c \in Made' : parent'[c] \in 0..c - 1
<1> DEFINE n == Len(parent)
<1>1. n \in Nat /\ Made = 1..n /\ Place = 0..n /\ parent \in Seq(Nat) /\ n <= MaxCommits
  BY UndoTypes DEF UndoTypeInv
<1>2. \A c \in 1..n : parent[c] \in 0..c - 1
  BY <1>1 DEF UndoTypeInv, UndoTypeOK
<1>3. /\ parent' \in Seq(Nat) /\ Len(parent') <= MaxCommits /\ Len(parent') \in Nat /\ n <= Len(parent')
      /\ \A c \in 1..n : parent'[c] = parent[c]
      /\ \A c \in 1..Len(parent') : parent'[c] \in 0..c - 1
  <2>1. CASE parent' = parent
    BY <2>1, <1>1, <1>2
  <2>2. CASE Len(parent) < MaxCommits /\ \E p \in Place : parent' = Append(parent, p)
    <3>1. PICK p \in 0..n : parent' = Append(parent, p)
      BY <2>2, <1>1
    <3>2. MaxCommits \in Nat /\ n + 1 <= MaxCommits
      BY <1>1, <2>2, UndoConstants
    <3>3. /\ parent' \in Seq(Nat) /\ Len(parent') = n + 1 /\ parent'[n + 1] = p
          /\ \A c \in 1..n : parent'[c] = parent[c]
      <4>1. p \in Nat
        BY <1>1
      <4> QED
        BY <3>1, <4>1, <1>1, AppendProperties
    <3> QED
      BY <1>1, <1>2, <3>2, <3>3
  <2> QED
    BY <2>1, <2>2 DEF Grows
<1>4. Made' = 1..Len(parent')
  BY <1>3, LenProperties DEF Made
<1>5. Place' = 0..Len(parent')
  BY <1>3, <1>4 DEF Place
<1>6. Made \subseteq Made' /\ Place \subseteq Place'
  BY <1>1, <1>3, <1>4, <1>5
<1>7. LogEntry \subseteq LogEntry'
  <2> HIDE DEF Place
  <2> QED
    BY <1>6 DEF LogEntry
<1> QED
  BY <1>1, <1>3, <1>4, <1>5, <1>6, <1>7

LEMMA LogGrown ==
  ASSUME UndoTypeInv, Grows, LogGrows
  PROVE  oplog' \in Seq(LogEntry')
<1>1. oplog \in Seq(LogEntry) /\ LogEntry \subseteq LogEntry'
  BY UndoTypes, Grown
<1> DEFINE E == LogEntry'
<1> HIDE DEF E
<1>2. oplog \in Seq(E)
  BY <1>1, WiderSeq DEF E
<1>3. oplog' = oplog \/ \E e \in E : oplog' = Append(oplog, e)
  BY DEF LogGrows, E
<1>4. oplog' \in Seq(E)
  BY <1>2, <1>3, AppendProperties
<1> QED
  BY <1>4 DEF E

(* What is recorded is an entry, or nothing is.                              *)
LEMMA RecordedEntry ==
  ASSUME UndoTypeInv, Grows, tip' \in Place', NEW op \in Ops, NEW s \in Session, NEW before \in Place,
         NEW count \in Counts \cup {1}, Records(op, s, before, count)
  PROVE  LogGrows /\ lapsed' \in BOOLEAN
<1>1. lapsed \in BOOLEAN
  BY DEF UndoTypeInv, UndoTypeOK
<1>2. before \in Place'
  BY Grown
<1>3. [op |-> op, session |-> s, tip |-> tip', before |-> before, count |-> count] \in LogEntry'
  BY <1>2 DEF LogEntry
<1> QED
  BY <1>1, <1>3 DEF Records, Logs, LogGrows

LEMMA MadeGrows ==
  ASSUME UndoTypeInv, NEW p \in Place, Make(p)
  PROVE  Grows /\ tip' = Len(parent') /\ tip' \in Made' /\ tip' \in Place' /\ Len(parent') = Len(parent) + 1
<1>1. Grows
  BY DEF Make, Grows
<1>2. Len(parent') = Len(parent) + 1 /\ Len(parent) \in Nat
  <2>1. Place \subseteq Nat
    BY UndoTypes
  <2>2. parent \in Seq(Nat)
    BY DEF UndoTypeInv
  <2> QED
    BY <2>1, <2>2, AppendProperties, LenProperties DEF Make
<1>3. Made' = 1..Len(parent') /\ Place' = 0..Len(parent')
  BY <1>1, Grown
<1> QED
  BY <1>1, <1>2, <1>3 DEF Make

LEMMA ParentPlace ==
  ASSUME UndoTypeInv, tip # 0
  PROVE  tip \in Made /\ parent[tip] \in Place
<1>1. tip \in Place /\ \A c \in Made : parent[c] \in 0..c - 1
  BY DEF UndoTypeInv, UndoTypeOK
<1>2. Made = 1..Len(parent) /\ Place = 0..Len(parent) /\ Len(parent) \in Nat
  BY UndoTypes
<1> QED
  BY <1>1, <1>2

(* What a plan says is a session, a count and commits that were made.        *)
Planned == [session : Session, count : Counts, bypass : Bypassing, pin : Made, target : Place]
LEMMA PlanTyped ==
  ASSUME UndoTypeInv, NEW s \in Session, NEW count \in Counts, NEW bypass \in Bypassing, PlanUndo(s, count, bypass)
  PROVE  /\ plan' = [session |-> s, count |-> count, bypass |-> bypass, pin |-> tip,
                     target |-> Walk(s, bypass, count).live[count].before]
         /\ plan' \in Planned /\ Walk(s, bypass, count).live[1].tip = tip
<1> DEFINE w == Walk(s, bypass, count)
<1>1. oplog \in Seq(Item) /\ oplog \in Seq(LogEntry)
  BY UndoTypes
<1>2. tip # 0 /\ tip = w.live[1].tip /\ Len(w.live) = count
  BY DEF PlanUndo, Accounted
<1>3. count \in 1..Len(w.live)
  BY <1>2, UndoConstants
<1>4. PICK j \in 1..Len(oplog) : w.live[count] = oplog[j]
  BY <1>1, <1>3, WalkHears
<1>5. oplog[j] \in LogEntry
  BY <1>1, ElementOfSeq
<1>6. w.live[count].before \in Place
  BY <1>4, <1>5 DEF LogEntry
<1>7. tip \in Made
  BY <1>2, ParentPlace
<1>8. plan' = [session |-> s, count |-> count, bypass |-> bypass, pin |-> tip, target |-> w.live[count].before]
  BY <1>2 DEF PlanUndo
<1> HIDE DEF w
<1>9. plan' \in Planned
  BY <1>6, <1>7, <1>8 DEF Planned
<1> QED
  BY <1>2, <1>8, <1>9 DEF w

(* Every step grows the commits and the log, and says what an undo decided.  *)
LEMMA UndoTypeNext ==
  ASSUME UndoTypeInv, [UndoNext]_undoVars
  PROVE  UndoTypeInv' /\ Grows /\ LogGrows
<1>1. /\ tip \in Place /\ stopped \in Place /\ outside \in Nat /\ lapsed \in BOOLEAN
      /\ loose \subseteq Session /\ (plan = NoPlan \/ plan \in Planned) /\ (plan # NoPlan => stopped = 0)
  BY DEF UndoTypeInv, UndoTypeOK, Planned
<1>2. Place = 0..Len(parent) /\ Len(parent) \in Nat /\ Made = 1..Len(parent)
  BY UndoTypes
<1> DEFINE Fine == /\ Grows /\ LogGrows
                   /\ tip' \in Place' /\ stopped' \in Place' /\ outside' \in Nat /\ lapsed' \in BOOLEAN
                   /\ loose' \subseteq Session /\ (plan' = plan \/ plan' = NoPlan \/ plan' \in Planned)
                   /\ (plan' # NoPlan => stopped' = 0)
<1>3. ASSUME Fine
      PROVE  UndoTypeInv' /\ Grows /\ LogGrows
  <2>1. Grows /\ LogGrows
    BY <1>3
  <2>2. oplog' \in Seq(LogEntry')
    BY <2>1, LogGrown
  <2>3. /\ parent' \in Seq(Nat) /\ Len(parent') <= MaxCommits /\ Made \subseteq Made' /\ Place \subseteq Place'
        /\ \A c \in Made' : parent'[c] \in 0..c - 1
    BY <2>1, Grown
  <2>4. plan' = NoPlan \/ plan' \in Planned'
    <3> HIDE DEF NoPlan, Place, Made
    <3>1. Planned \subseteq Planned'
      BY <2>3 DEF Planned
    <3> QED
      BY <3>1, <1>1, <1>3
  <2>5. NoPlan' = NoPlan
    BY DEF NoPlan
  <2>6. UndoTypeOK'
    BY <1>3, <2>2, <2>3, <2>4, <2>5 DEF UndoTypeOK, Planned
  <2> QED
    BY <1>3, <2>1, <2>3, <2>5, <2>6 DEF UndoTypeInv
<1> HIDE DEF Fine
<1>4. parent' = parent => Grows /\ Place' = Place /\ Made' = Made
  BY DEF Grows, Place, Made
<1>5. oplog' = oplog => LogGrows
  BY DEF LogGrows
<1>6. Grows => Place \subseteq Place' /\ Place' = 0..Len(parent') /\ Len(parent') \in Nat
  BY Grown
<1>7. {"commit", "replace", "guarded", "rewrite", "undo"} \subseteq Ops
  BY DEF Ops
<1>8. ASSUME NEW s \in Session, Commit(s)
      PROVE  Fine
  <2>1. Grows /\ tip' \in Place'
    BY <1>1, <1>8, MadeGrows DEF Commit
  <2>2. Records("commit", s, tip, 1)
    BY <1>8 DEF Commit
  <2>3. LogGrows /\ lapsed' \in BOOLEAN
    BY <1>1, <1>7, <2>1, <2>2, RecordedEntry
  <2> QED
    BY <1>1, <1>6, <1>8, <2>1, <2>3 DEF Commit, Fine
<1>9. ASSUME NEW s \in Session, Replace(s)
      PROVE  Fine
  <2>1. parent[tip] \in Place
    BY <1>9, ParentPlace DEF Replace
  <2>2. Grows /\ tip' \in Place'
    BY <2>1, <1>9, MadeGrows DEF Replace
  <2>3. Records("replace", s, tip, 1)
    BY <1>9 DEF Replace
  <2>4. LogGrows /\ lapsed' \in BOOLEAN
    BY <1>1, <1>7, <2>2, <2>3, RecordedEntry
  <2> QED
    BY <1>1, <1>6, <1>9, <2>2, <2>4 DEF Replace, Fine
<1>10. ASSUME NEW s \in Session, Guard(s)
       PROVE  Fine
  <2>1. Grows /\ tip' \in Place'
    <3>1. CASE Make(tip)
      BY <1>1, <3>1, MadeGrows
    <3>2. CASE tip' \in Made \ {tip} /\ UNCHANGED parent
      BY <1>2, <1>4, <3>2
    <3> QED
      BY <1>10, <3>1, <3>2 DEF Guard
  <2>2. Records("guarded", s, tip, 1)
    BY <1>10 DEF Guard
  <2>3. LogGrows /\ lapsed' \in BOOLEAN
    BY <1>1, <1>7, <2>1, <2>2, RecordedEntry
  <2> QED
    BY <1>1, <1>6, <1>10, <2>1, <2>3 DEF Guard, Fine
<1>11. ASSUME NEW s \in Session, GuardRefused(s)
       PROVE  Fine
  <2>1. Grows /\ Place' = Place
    BY <1>4, <1>11 DEF GuardRefused
  <2>2. [op |-> "guarded", session |-> s, tip |-> 0, before |-> tip, count |-> 1] \in LogEntry'
    BY <1>1, <1>2, <1>7, <2>1 DEF LogEntry
  <2>3. LogGrows
    BY <1>11, <2>2 DEF GuardRefused, Logs, LogGrows
  <2> QED
    BY <1>1, <1>6, <1>11, <2>1, <2>3 DEF GuardRefused, Fine
<1>12. ASSUME NEW s \in Session, RebaseStop(s)
       PROVE  Fine
  <2>1. PICK p \in Place : parent' = Append(parent, p) /\ Len(parent) < MaxCommits
    BY <1>12 DEF RebaseStop
  <2>2. Grows
    BY <2>1 DEF Grows
  <2>3. stopped' \in Place' /\ tip \in Place'
    BY <1>1, <1>6, <1>12, <2>2 DEF RebaseStop
  <2>4. [op |-> "guarded", session |-> s, tip |-> stopped', before |-> tip, count |-> 1] \in LogEntry'
    BY <1>7, <2>3 DEF LogEntry
  <2>5. LogGrows
    BY <1>12, <2>4 DEF RebaseStop, Logs, LogGrows
  <2>6. plan = NoPlan
    BY <1>12 DEF RebaseStop, Idle
  <2> QED
    BY <1>1, <1>12, <2>2, <2>3, <2>5, <2>6 DEF RebaseStop, Fine
<1>13. ASSUME NEW s \in Session, Rewrite(s)
       PROVE  Fine
  <2>1. 0 \in Place
    BY <1>2
  <2>2. Grows /\ tip' \in Place'
    BY <2>1, <1>13, MadeGrows DEF Rewrite
  <2>3. LogGrows /\ lapsed' \in BOOLEAN
    <3>1. CASE Records("rewrite", s, tip, 1)
      BY <1>1, <1>7, <2>2, <3>1, RecordedEntry
    <3>2. CASE oplog' = oplog /\ lapsed' = TRUE
      BY <1>5, <3>2
    <3> QED
      BY <1>13, <3>1, <3>2 DEF Rewrite
  <2> QED
    BY <1>1, <1>6, <1>13, <2>2, <2>3 DEF Rewrite, Fine
<1>14. ASSUME NEW s \in Session, NEW count \in Counts, NEW bypass \in Bypassing, PlanUndo(s, count, bypass)
       PROVE  Fine
  <2>1. plan' \in Planned /\ stopped = 0
    BY <1>14, PlanTyped DEF PlanUndo, Idle
  <2> QED
    BY <1>1, <1>4, <1>5, <1>14, <2>1 DEF PlanUndo, Fine
<1>15. ASSUME RebaseEnd
       PROVE  Fine
  <2>1. stopped # 0 /\ plan = NoPlan
    BY <1>1, <1>15 DEF RebaseEnd
  <2> QED
    BY <1>1, <1>2, <1>4, <1>5, <1>15, <2>1 DEF RebaseEnd, Fine
<1>16. ASSUME RestoreBackup
       PROVE  Fine
  <2>1. Grows /\ tip' \in Place'
    BY <1>1, <1>16, MadeGrows DEF RestoreBackup
  <2> QED
    BY <1>1, <1>5, <1>6, <1>16, <2>1 DEF RestoreBackup, Fine
<1>17. ASSUME LandUndo
       PROVE  Fine
  <2>1. plan \in Planned /\ Grows /\ Place' = Place
    BY <1>1, <1>4, <1>17 DEF LandUndo
  <2>2. plan.session \in Session /\ plan.count \in Counts \cup {1} /\ tip' \in Place'
    BY <2>1, <1>17 DEF LandUndo, Planned
  <2>3. Records("undo", plan.session, tip, plan.count)
    BY <1>17 DEF LandUndo
  <2>4. LogGrows /\ lapsed' \in BOOLEAN
    BY <1>1, <1>7, <2>1, <2>2, <2>3, RecordedEntry
  <2>5. loose' \subseteq Session
    BY <1>1, <1>17, <2>2 DEF LandUndo
  <2> QED
    BY <1>1, <1>17, <2>1, <2>2, <2>4, <2>5 DEF LandUndo, Fine
<1>18. ASSUME MissUndo
       PROVE  Fine
  BY <1>1, <1>4, <1>5, <1>18 DEF MissUndo, Fine
<1>19. ASSUME Outside
       PROVE  Fine
  <2>1. Grows /\ tip' \in Place'
    <3>1. CASE Make(tip)
      BY <1>1, <3>1, MadeGrows
    <3>2. CASE tip # 0 /\ Make(parent[tip])
      BY <3>2, ParentPlace, MadeGrows
    <3>3. CASE tip' \in Made \ {tip} /\ UNCHANGED parent
      BY <1>2, <1>4, <3>3
    <3> QED
      BY <1>19, <3>1, <3>2, <3>3 DEF Outside
  <2> QED
    BY <1>1, <1>5, <1>6, <1>19, <2>1 DEF Outside, Fine
<1>20. ASSUME UNCHANGED undoVars
       PROVE  Fine
  BY <1>1, <1>4, <1>5, <1>20 DEF undoVars, Fine
<1> QED
  BY <1>3, <1>8, <1>9, <1>10, <1>11, <1>12, <1>13, <1>14, <1>15, <1>16, <1>17, <1>18, <1>19, <1>20 DEF UndoNext, Step

LEMMA UndoTypeStart ==
  ASSUME UndoInit
  PROVE  UndoTypeInv
<1>1. parent \in Seq(Nat) /\ Len(parent) \in {0, 1} /\ \A c \in 1..Len(parent) : parent[c] = 0
  <2>1. CASE parent = <<>>
    BY <2>1, EmptySeq
  <2>2. CASE parent = <<0>>
    BY <2>2
  <2> QED
    BY <2>1, <2>2 DEF UndoInit
<1>2. Made = 1..Len(parent)
  BY <1>1 DEF Made
<1>3. Place = 0..Len(parent)
  BY <1>1, <1>2 DEF Place
<1>4. \A c \in Made : parent[c] \in 0..c - 1
  BY <1>1, <1>2
<1>5. oplog \in Seq(LogEntry)
  BY EmptySeq DEF UndoInit
<1>6. Len(parent) <= MaxCommits
  BY <1>1, UndoConstants
<1>7. tip \in Place /\ stopped \in Place
  BY <1>1, <1>3 DEF UndoInit
<1> QED
  BY <1>1, <1>4, <1>5, <1>6, <1>7 DEF UndoInit, UndoTypeInv, UndoTypeOK

(* Everything undo and the bypass check keep is of its type, for every       *)
(* number of commits, entries and moves: no entry, plan or detached head     *)
(* names a commit that was never made, and no commit is its own ancestor.    *)
THEOREM UndoTypeCorrect == UndoSpec => []UndoTypeOK
<1>1. UndoInit => UndoTypeInv
  BY UndoTypeStart
<1>2. UndoTypeInv /\ [UndoNext]_undoVars => UndoTypeInv'
  BY UndoTypeNext
<1>3. UndoTypeInv => UndoTypeOK
  BY DEF UndoTypeInv
<1> QED
  BY <1>1, <1>2, <1>3, PTL DEF UndoSpec

---------------------------------------------------------------------------
(* The latest of some positions is one of them.                              *)
LEMMA LatestPosition ==
  ASSUME NEW n \in Nat, NEW S \in SUBSET (1..n), S # {}
  PROVE  Max(S) \in S /\ \A i \in S : i <= Max(S)
<1> DEFINE T == {n - i : i \in S}
<1>1. T \in SUBSET Nat /\ T # {}
  OBVIOUS
<1>2. PICK k \in T : \A j \in T : k <= j
  <2> HIDE DEF T
  <2> QED
    BY <1>1, LeastNatural
<1>3. n - k \in S /\ \A i \in S : n - k >= i
  <2>1. PICK m \in S : k = n - m
    BY <1>2
  <2>2. n - k = m
    BY <2>1
  <2>3. ASSUME NEW i \in S
        PROVE  n - k >= i
    <3>1. n - i \in T
      OBVIOUS
    <3>2. k <= n - i
      BY <3>1, <1>2
    <3> QED
      BY <3>2, <2>1
  <2> QED
    BY <2>1, <2>2, <2>3
<1>4. Max(S) = CHOOSE x \in S : \A y \in S : x >= y
  BY DEF Max
<1>5. Max(S) \in S /\ \A y \in S : Max(S) >= y
  BY <1>3, <1>4
<1> QED
  BY <1>5

(* What the log says of the branch once an entry has been appended to it.    *)
Tells(e)     == e.tip # 0 \/ Deletes(e)
Telling(L)   == {i \in DOMAIN L : Tells(L[i])}
LatestRef(L) == IF Telling(L) = {} THEN 0 ELSE L[Max(Telling(L))].tip

LEMMA LatestAppend ==
  ASSUME NEW L \in Seq(Item), NEW e \in Item
  PROVE  LatestRef(Append(L, e)) = IF Tells(e) THEN e.tip ELSE LatestRef(L)
<1> DEFINE n == Len(L)
           M == Append(L, e)
<1>1. /\ n \in Nat /\ M \in Seq(Item) /\ Len(M) = n + 1 /\ M[n + 1] = e /\ \A i \in 1..n : M[i] = L[i]
      /\ DOMAIN L = 1..n
  BY LenProperties, AppendProperties
<1>2. DOMAIN M = 1..(n + 1)
  <2> HIDE DEF M
  <2> QED
    BY <1>1, LenProperties
<1> HIDE DEF n, M
<1>3. Telling(L) \in SUBSET (1..n) /\ Telling(M) \in SUBSET (1..(n + 1))
  BY <1>1, <1>2 DEF Telling
<1>4. CASE Tells(e)
  <2>1. n + 1 \in Telling(M)
    BY <1>1, <1>2, <1>4 DEF Telling
  <2>2. Max(Telling(M)) \in 1..(n + 1) /\ n + 1 <= Max(Telling(M))
    <3>1. n + 1 \in Nat /\ Telling(M) # {}
      BY <1>1, <2>1
    <3>2. Max(Telling(M)) \in Telling(M) /\ \A i \in Telling(M) : i <= Max(Telling(M))
      BY <1>3, <3>1, LatestPosition
    <3> QED
      BY <1>3, <2>1, <3>2
  <2>3. Max(Telling(M)) = n + 1
    BY <1>1, <2>2
  <2> QED
    BY <1>1, <1>4, <2>1, <2>3 DEF LatestRef, M
<1>5. CASE ~Tells(e)
  <2>1. Telling(M) = Telling(L)
    <3>1. \A i \in 1..(n + 1) : i = n + 1 \/ i \in 1..n
      BY <1>1
    <3>2. \A i \in 1..n : i \in 1..(n + 1)
      BY <1>1
    <3> QED
      BY <1>1, <1>2, <1>5, <3>1, <3>2 DEF Telling
  <2>2. Telling(L) # {} => Max(Telling(L)) \in 1..n
    <3>1. ASSUME Telling(L) # {}
          PROVE  Max(Telling(L)) \in Telling(L)
      BY <1>1, <1>3, <3>1, LatestPosition
    <3> QED
      BY <1>3, <3>1
  <2> QED
    BY <1>1, <1>5, <2>1, <2>2 DEF LatestRef, M
<1> QED
  BY <1>4, <1>5

(* What is recorded tells where the branch stands.                           *)
LEMMA RecordedTells ==
  ASSUME UndoTypeInv, Grows, tip' \in Place', NEW op \in Ops, NEW s \in Session, NEW before \in Place,
         NEW count \in Counts \cup {1}, Records(op, s, before, count),
         tip' # 0 \/ op = "undo", ~lapsed'
  PROVE  LatestRef(oplog') = tip'
<1> DEFINE e == [op |-> op, session |-> s, tip |-> tip', before |-> before, count |-> count]
<1>1. oplog' = Append(oplog, e)
  BY DEF Records, Logs
<1>2. oplog \in Seq(Item)
  BY UndoTypes
<1>3. e \in Item
  <2>1. Place \subseteq Nat /\ Place' \subseteq Nat
    BY UndoTypes, Grown
  <2>2. count \in Nat \ {0}
    BY UndoConstants
  <2> QED
    BY <2>1, <2>2 DEF Item
<1>4. e.tip = tip' /\ e.op = op
  OBVIOUS
<1>5. Tells(e)
  BY <1>4 DEF Tells, Deletes
<1> HIDE DEF e
<1>6. LatestRef(Append(oplog, e)) = e.tip
  BY <1>2, <1>3, <1>5, LatestAppend
<1> QED
  BY <1>1, <1>4, <1>6

LEMMA BypassNext ==
  ASSUME UndoTypeInv, NoFalseBypass, [UndoNext]_undoVars
  PROVE  NoFalseBypass'
<1>1. LastRefUpdate = LatestRef(oplog) /\ LastRefUpdate' = LatestRef(oplog')
  BY DEF LastRefUpdate, LatestRef, Telling, Tells
<1>2. ~lapsed /\ outside = 0 => ~(stopped = 0 /\ LatestRef(oplog) # 0 /\ tip # LatestRef(oplog))
  BY <1>1 DEF NoFalseBypass, BypassReported
<1>3. /\ tip \in Place /\ (plan = NoPlan \/ plan \in Planned) /\ Place = 0..Len(parent) /\ Len(parent) \in Nat
      /\ outside \in Nat /\ lapsed \in BOOLEAN /\ Made = 1..Len(parent)
  BY UndoTypes DEF UndoTypeInv, UndoTypeOK, Planned
<1> DEFINE Told0 == ~lapsed' /\ outside' = 0 => ~(stopped' = 0 /\ LatestRef(oplog') # 0 /\ tip' # LatestRef(oplog'))
<1>4. ASSUME Told0
      PROVE  NoFalseBypass'
  BY <1>1, <1>4 DEF NoFalseBypass, BypassReported
<1>5. Grows
  BY UndoTypeNext
<1>6. tip' \in Place'
  BY UndoTypeNext DEF UndoTypeInv, UndoTypeOK
<1>7. {"commit", "replace", "guarded", "rewrite", "undo"} \subseteq Ops
  BY DEF Ops
<1>8. ASSUME ~lapsed' => LatestRef(oplog') = tip'
      PROVE  Told0
  BY <1>8
<1>9. ASSUME UNCHANGED <<tip, oplog, stopped, outside, lapsed>>
      PROVE  Told0
  BY <1>2, <1>9
<1>10. ASSUME NEW s \in Session, Commit(s)
       PROVE  Told0
  <2>1. Records("commit", s, tip, 1) /\ tip' # 0
    BY <1>3, <1>10, MadeGrows DEF Commit
  <2> QED
    BY <1>3, <1>5, <1>6, <1>7, <1>8, <2>1, RecordedTells
<1>11. ASSUME NEW s \in Session, Replace(s)
       PROVE  Told0
  <2>1. parent[tip] \in Place
    BY <1>11, ParentPlace DEF Replace
  <2>2. Records("replace", s, tip, 1) /\ tip' # 0
    BY <1>3, <1>11, <2>1, MadeGrows DEF Replace
  <2> QED
    BY <1>3, <1>5, <1>6, <1>7, <1>8, <2>2, RecordedTells
<1>12. ASSUME NEW s \in Session, Guard(s)
       PROVE  Told0
  <2>1. Records("guarded", s, tip, 1)
    BY <1>12 DEF Guard
  <2>2. tip' # 0
    <3>1. CASE Make(tip)
      BY <1>3, <3>1, MadeGrows
    <3>2. CASE tip' \in Made \ {tip}
      BY <1>3, <3>2
    <3> QED
      BY <1>12, <3>1, <3>2 DEF Guard
  <2> QED
    BY <1>3, <1>5, <1>6, <1>7, <1>8, <2>1, <2>2, RecordedTells
<1>13. ASSUME NEW s \in Session, GuardRefused(s)
       PROVE  Told0
  <2> DEFINE e == [op |-> "guarded", session |-> s, tip |-> 0, before |-> tip, count |-> 1]
  <2>1. oplog' = Append(oplog, e) /\ UNCHANGED <<tip, stopped, outside, lapsed>>
    BY <1>13 DEF GuardRefused, Logs
  <2>2. e \in Item
    BY <1>3, <1>7 DEF Item
  <2>3. ~Tells(e)
    BY DEF Tells, Deletes
  <2>4. oplog \in Seq(Item)
    BY UndoTypes
  <2> HIDE DEF e
  <2>5. LatestRef(oplog') = LatestRef(oplog)
    BY <2>1, <2>2, <2>3, <2>4, LatestAppend
  <2> QED
    BY <1>2, <2>1, <2>5
<1>14. ASSUME NEW s \in Session, RebaseStop(s)
       PROVE  Told0
  <2>1. PICK p \in Place : parent' = Append(parent, p)
    BY <1>14 DEF RebaseStop
  <2>2. parent \in Seq(Nat) /\ p \in Nat
    BY <1>3 DEF UndoTypeInv
  <2>3. Len(parent') = Len(parent) + 1
    BY <2>1, <2>2, AppendProperties
  <2>4. stopped' # 0
    BY <1>3, <1>14, <2>3 DEF RebaseStop
  <2> QED
    BY <2>4
<1>15. ASSUME NEW s \in Session, Rewrite(s)
       PROVE  Told0
  <2>1. tip' # 0
    <3>1. 0 \in Place
      BY <1>3
    <3> QED
      BY <1>3, <1>15, <3>1, MadeGrows DEF Rewrite
  <2>2. CASE Records("rewrite", s, tip, 1)
    BY <1>3, <1>5, <1>6, <1>7, <1>8, <2>1, <2>2, RecordedTells
  <2>3. CASE lapsed'
    BY <2>3
  <2> QED
    BY <1>15, <2>2, <2>3 DEF Rewrite
<1>16. ASSUME NEW s \in Session, NEW count \in Counts, NEW bypass \in Bypassing, PlanUndo(s, count, bypass)
       PROVE  Told0
  BY <1>9, <1>16 DEF PlanUndo
<1>17. ASSUME RebaseEnd \/ RestoreBackup
       PROVE  Told0
  BY <1>17 DEF RebaseEnd, RestoreBackup
<1>18. ASSUME LandUndo
       PROVE  Told0
  <2>1. Records("undo", plan.session, tip, plan.count) /\ plan \in Planned
    BY <1>3, <1>18 DEF LandUndo
  <2>2. plan.session \in Session /\ plan.count \in Counts \cup {1}
    BY <2>1 DEF Planned
  <2> QED
    BY <1>3, <1>5, <1>6, <1>7, <1>8, <2>1, <2>2, RecordedTells
<1>19. ASSUME MissUndo
       PROVE  Told0
  BY <1>9, <1>19 DEF MissUndo
<1>20. ASSUME Outside
       PROVE  Told0
  BY <1>3, <1>20 DEF Outside
<1>21. ASSUME UNCHANGED undoVars
       PROVE  Told0
  BY <1>9, <1>21 DEF undoVars
<1> HIDE DEF Told0
<1> QED
  BY <1>4, <1>10, <1>11, <1>12, <1>13, <1>14, <1>15, <1>16, <1>17, <1>18, <1>19, <1>20, <1>21 DEF UndoNext, Step

(* While git and other worktrees leave the branch alone and no entry is      *)
(* missing, doctor finds the branch where the newest entry that tells of it  *)
(* has it: no operation of safegit's, refused, undone or undone down to the  *)
(* deletion of the branch, is reported as somebody's use of raw git.         *)
THEOREM NoFalseBypassHolds == UndoSpec => []NoFalseBypass
<1>1. UndoInit => UndoTypeInv
  BY UndoTypeStart
<1>2. UndoInit => NoFalseBypass
  <2> SUFFICES ASSUME UndoInit PROVE NoFalseBypass
    OBVIOUS
  <2>1. {i \in DOMAIN oplog : oplog[i].tip # 0 \/ Deletes(oplog[i])} = {}
    BY DEF UndoInit
  <2> QED
    BY <2>1 DEF LastRefUpdate, NoFalseBypass, BypassReported
<1>3. UndoTypeInv /\ [UndoNext]_undoVars => UndoTypeInv'
  BY UndoTypeNext
<1>4. UndoTypeInv /\ NoFalseBypass /\ [UndoNext]_undoVars => NoFalseBypass'
  BY BypassNext
<1> QED
  BY <1>1, <1>2, <1>3, <1>4, PTL DEF UndoSpec

---------------------------------------------------------------------------
(* The history of a commit is not changed by what is made after it.          *)
LEMMA UndoLineGrows ==
  ASSUME UndoTypeInv, Grows, NEW c \in Place
  PROVE  (Line(c))' = Line(c)
<1> DEFINE n == Len(parent)
           Closed(S) == c \in S /\ \A e \in S \ {0} : parent[e] \in S
           ClosedN(S) == c \in S /\ \A e \in S \ {0} : parent'[e] \in S
<1>1. /\ n \in Nat /\ Made = 1..n /\ Place = 0..n
      /\ Made \subseteq Made' /\ Place \subseteq Place' /\ \A d \in Made : parent'[d] = parent[d]
  BY UndoTypes, Grown
<1>2. \A d \in Made : parent[d] \in Place
  <2>1. \A d \in Made : parent[d] \in 0..d - 1
    BY DEF UndoTypeInv, UndoTypeOK
  <2> QED
    BY <1>1, <2>1
<1> HIDE DEF n
<1>3. Line(c) = {d \in Made : \A S \in SUBSET Place : Closed(S) => d \in S}
  BY DEF Line
<1>4. (Line(c))' = {d \in Made' : \A S \in SUBSET Place' : ClosedN(S) => d \in S}
  BY DEF Line
<1>5. \A d : d \in Place \ {0} => d \in Made
  BY <1>1
<1>6. ASSUME NEW d \in Line(c)
      PROVE  d \in (Line(c))'
  <2>1. d \in Made' /\ d \in Made
    BY <1>1, <1>3
  <2>2. ASSUME NEW S \in SUBSET Place', ClosedN(S)
        PROVE  d \in S
    <3> DEFINE T == S \cap Place
    <3>1. c \in T
      BY <2>2
    <3>2. ASSUME NEW e \in T \ {0}
          PROVE  parent[e] \in T
      <4>1. e \in Made /\ e \in S \ {0}
        BY <1>5, <3>2
      <4> QED
        BY <4>1, <1>1, <1>2, <2>2
    <3>3. T \in SUBSET Place /\ Closed(T)
      BY <3>1, <3>2
    <3> HIDE DEF Closed
    <3>4. d \in T
      BY <3>3, <1>3
    <3> QED
      BY <3>4
  <2> HIDE DEF ClosedN
  <2> QED
    BY <2>1, <2>2, <1>4
<1>7. ASSUME NEW d \in (Line(c))'
      PROVE  d \in Line(c)
  <2>1. ASSUME NEW S \in SUBSET Place, Closed(S)
        PROVE  d \in S
    <3>1. ASSUME NEW e \in S \ {0}
          PROVE  parent'[e] \in S
      <4>1. e \in Made
        BY <1>5, <3>1
      <4> QED
        BY <4>1, <1>1, <2>1
    <3>2. S \in SUBSET Place' /\ ClosedN(S)
      BY <1>1, <2>1, <3>1
    <3> HIDE DEF ClosedN
    <3> QED
      BY <3>2, <1>4
  <2>2. d \in Made
    <3>1. Place \in SUBSET Place /\ Closed(Place)
      BY <1>2, <1>5
    <3>2. d \in Place /\ d \in Made'
      BY <2>1, <3>1, <1>4
    <3>3. 0 \notin Made'
      <4>1. Made' = 1..Len(parent')
        BY Grown
      <4> QED
        BY <4>1
    <3> QED
      BY <3>2, <3>3, <1>5
  <2> HIDE DEF Closed
  <2> QED
    BY <2>1, <2>2, <1>3
<1> QED
  BY <1>6, <1>7

(* What an undo in progress will take off is in the log, and stays in it:    *)
(* while it is in progress nothing writes the log.                           *)
PlannedRecorded ==
  plan # NoPlan => FirstParentRange(plan.target, plan.pin) \subseteq Recorded(plan.session, plan.bypass)

LEMMA PlannedRecordedNext ==
  ASSUME UndoTypeInv, PlannedRecorded, [UndoNext]_undoVars
  PROVE  PlannedRecorded'
<1>1. CASE \E s \in Session, count \in Counts, bypass \in Bypassing : PlanUndo(s, count, bypass)
  <2>1. PICK s \in Session, count \in Counts, bypass \in Bypassing : PlanUndo(s, count, bypass)
    BY <1>1
  <2> DEFINE w == Walk(s, bypass, count)
             target == w.live[count].before
  <2>2. plan' = [session |-> s, count |-> count, bypass |-> bypass, pin |-> tip, target |-> target]
    BY <2>1, PlanTyped
  <2>3. FirstParentRange(target, tip) \subseteq {w.live[i].tip : i \in DOMAIN w.live}
    BY <2>1 DEF PlanUndo, Accounted
  <2>4. {w.live[i].tip : i \in DOMAIN w.live} \subseteq Recorded(s, bypass)
    <3>1. oplog \in Seq(Item)
      BY UndoTypes
    <3>2. w \in WalkState /\ \A i \in 1..Len(w.live) : \E j \in 1..Len(oplog) :
            w.live[i] = oplog[j] /\ Heard(oplog[j], s, bypass) /\ oplog[j].op \in Undoable
      BY <3>1, WalkHears
    <3> HIDE DEF w
    <3>3. DOMAIN w.live = 1..Len(w.live) /\ DOMAIN oplog = 1..Len(oplog)
      BY <3>1, <3>2, LenProperties DEF WalkState
    <3>4. ASSUME NEW i \in DOMAIN w.live
          PROVE  w.live[i].tip \in Recorded(s, bypass)
      <4>1. PICK j \in 1..Len(oplog) : w.live[i] = oplog[j] /\ Heard(oplog[j], s, bypass) /\ oplog[j].op \in Undoable
        BY <3>2, <3>3
      <4> QED
        BY <3>3, <4>1 DEF Recorded
    <3> QED
      BY <3>4
  <2>5. UNCHANGED <<parent, oplog>>
    BY <2>1 DEF PlanUndo
  <2> HIDE DEF w, target
  <2>6. plan'.target = target /\ plan'.pin = tip /\ plan'.session = s /\ plan'.bypass = bypass
    BY <2>2
  <2>7. FirstParentRange(target, tip) \subseteq Recorded(s, bypass)
    BY <2>3, <2>4
  <2>8. (Recorded(plan.session, plan.bypass))' = Recorded(s, bypass)
    BY <2>5, <2>6 DEF Recorded, Heard
  <2>9. (FirstParentRange(plan.target, plan.pin))' = FirstParentRange(target, tip)
    BY <2>5, <2>6 DEF FirstParentRange, Line, Place, Made
  <2> QED
    BY <2>7, <2>8, <2>9 DEF PlannedRecorded
<1>2. CASE ~(\E s \in Session, count \in Counts, bypass \in Bypassing : PlanUndo(s, count, bypass))
  <2>1. plan' = NoPlan \/ (plan' = plan /\ (plan # NoPlan => oplog' = oplog))
    BY <1>2 DEF UndoNext, Step, Commit, Replace, Guard, GuardRefused, RebaseStop, Rewrite, RebaseEnd, RestoreBackup,
                LandUndo, MissUndo, Outside, undoVars, Idle
  <2>2. NoPlan' = NoPlan
    BY DEF NoPlan
  <2>3. CASE plan # NoPlan /\ plan' = plan /\ oplog' = oplog
    <3>1. plan.target \in Place /\ plan.pin \in Place
      BY <2>3 DEF UndoTypeInv, UndoTypeOK, Place
    <3>2. Grows
      BY UndoTypeNext
    <3>3. \A c \in Place : (Line(c))' = Line(c)
      BY <3>2, UndoLineGrows
    <3>4. (Line(plan.target))' = Line(plan.target) /\ (Line(plan.pin))' = Line(plan.pin)
      BY <2>3, <3>1, <3>3
    <3>5. (FirstParentRange(plan.target, plan.pin))' = FirstParentRange(plan.target, plan.pin)
      BY <3>4 DEF FirstParentRange
    <3>6. (Recorded(plan.session, plan.bypass))' = Recorded(plan.session, plan.bypass)
      BY <2>3 DEF Recorded, Heard
    <3> QED
      BY <2>3, <3>5, <3>6 DEF PlannedRecorded
  <2> QED
    BY <2>1, <2>2, <2>3 DEF PlannedRecorded
<1> QED
  BY <1>1, <1>2

(* Whatever happens between an undo's look at the branch and its update of   *)
(* it, the commits it takes off are ones the log records as safegit's own,   *)
(* and its own session's unless it was told to bypass the session.           *)
THEOREM UndoTakesOnlyRecordedHolds == UndoSpec => UndoTakesOnlyRecorded
<1>1. UndoInit => UndoTypeInv /\ PlannedRecorded
  BY UndoTypeStart DEF UndoInit, PlannedRecorded
<1>2. UndoTypeInv /\ PlannedRecorded /\ [UndoNext]_undoVars => UndoTypeInv' /\ PlannedRecorded'
  BY UndoTypeNext, PlannedRecordedNext
<1>3. PlannedRecorded /\ [UndoNext]_undoVars =>
        [LandUndo => FirstParentRange(tip', tip) \subseteq Recorded(plan.session, plan.bypass)]_undoVars
  BY DEF LandUndo, PlannedRecorded
<1> QED
  BY <1>1, <1>2, <1>3, PTL DEF UndoSpec, UndoTakesOnlyRecorded

---------------------------------------------------------------------------
(* The undo entries of a session that undoes its own operations one at a     *)
(* time each take one operation off, and find one to take.                   *)
UndoneAlone ==
  \A i \in 1..Len(oplog) : oplog[i].op = "undo" /\ oplog[i].session \notin loose =>
    oplog[i].count = 1 /\ Standing(oplog)[i - 1][oplog[i].session] # <<>>

(* Backwards from the end of the log, the walk comes first to the operation  *)
(* that a reading forwards leaves on top.                                    *)
LEMMA WalkFindsTop ==
  ASSUME oplog \in Seq(Item), UndoneAlone, NEW s \in Session, s \notin loose, NEW bypass, ~bypass,
         ~Walk(s, bypass, 1).barred, Len(Walk(s, bypass, 1).live) = 1
  PROVE  LET st == Standing(oplog)[Len(oplog)][s]
             e  == Walk(s, bypass, 1).live[1]
         IN  Len(st) > 0 /\ st[Len(st)] = [before |-> e.before, after |-> e.tip]
<1> DEFINE n == Len(oplog)
           W == Walking(s, bypass, 1)
           V == [j \in 0..n |-> Standing(oplog)[j][s]]
           top == V[n]
           Found(w) == Len(w.live) = 1 /\ Len(top) > 0 /\ top[Len(top)] = [before |-> w.live[1].before, after |-> w.live[1].tip]
           Under(w, q) == /\ Len(w.live) = 0 /\ ~w.barred /\ Len(top) = Len(q) - w.cancelled
                          /\ \A i \in 1..Len(top) : top[i] = q[i]
           Good(k) == W[k].barred \/ Found(W[k]) \/ Under(W[k], V[n - k])
           B == {k \in 0..n : Good(k)}
<1>1. n \in Nat /\ \A j \in 1..n : oplog[j] \in Item
  BY LenProperties, ElementOfSeq
<1>2. /\ W \in [0..n -> WalkState]
      /\ W[0] = [live |-> <<>>, cancelled |-> 0, barred |-> FALSE]
      /\ \A i \in 1..n : W[i] = Seen(W[i - 1], oplog[n + 1 - i], s, bypass, 1)
  BY WalkingIs
<1>3. /\ V \in [0..n -> Seq(Frame)]
      /\ \A j \in 1..n : V[j] = IF oplog[j].session = s THEN Performed(V[j - 1], oplog[j]) ELSE V[j - 1]
  <2> DEFINE X == Standing(oplog)
  <2>1. /\ X \in [0..n -> [Session -> Seq(Frame)]]
        /\ \A j \in 1..n : X[j] = [X[j - 1] EXCEPT ![oplog[j].session] = Performed(X[j - 1][oplog[j].session], oplog[j])]
    BY StandingIs
  <2> HIDE DEF X
  <2>2. V = [j \in 0..n |-> X[j][s]]
    BY DEF X
  <2> HIDE DEF V, n
  <2>3. V \in [0..n -> Seq(Frame)]
    BY <2>1, <2>2
  <2>4. ASSUME NEW j \in 1..n
        PROVE  V[j] = IF oplog[j].session = s THEN Performed(V[j - 1], oplog[j]) ELSE V[j - 1]
    <3>1. j \in 0..n /\ j - 1 \in 0..n
      BY <1>1
    <3>2. X[j - 1] \in [Session -> Seq(Frame)] /\ oplog[j].session \in Session
      BY <1>1, <2>1, <3>1 DEF Item
    <3>3. X[j] = [X[j - 1] EXCEPT ![oplog[j].session] = Performed(X[j - 1][oplog[j].session], oplog[j])]
      BY <2>1
    <3>4. V[j] = X[j][s] /\ V[j - 1] = X[j - 1][s]
      BY <2>2, <3>1
    <3> QED
      BY <3>2, <3>3, <3>4
  <2> QED
    BY <2>3, <2>4
<1>4. \A j \in 1..n : oplog[j].op = "undo" /\ oplog[j].session = s => oplog[j].count = 1 /\ V[j - 1] # <<>>
  <2> TAKE j \in 1..n
  <2>1. j - 1 \in 0..n
    BY <1>1
  <2>2. V[j - 1] = Standing(oplog)[j - 1][s]
    BY <2>1
  <2> QED
    BY <2>2 DEF UndoneAlone
<1> HIDE DEF W, V
<1>5. top \in Seq(Frame) /\ Len(top) \in Nat
  <2>1. top \in Seq(Frame)
    BY <1>1, <1>3
  <2> QED
    BY <2>1, LenProperties
<1>6. Good(0)
  <2>1. W[0].live = <<>> /\ Len(<<>>) = 0 /\ ~W[0].barred /\ W[0].cancelled = 0 /\ n - 0 = n
    BY <1>1, <1>2
  <2> QED
    BY <1>5, <2>1
<1>7. ASSUME NEW k \in 1..n, Good(k - 1)
      PROVE  Good(k)
  <2> DEFINE j == n + 1 - k
             e == oplog[j]
             w == W[k - 1]
             q == V[j]
             p == V[j - 1]
  <2>1. j \in 1..n /\ j \in 0..n /\ j - 1 \in 0..n /\ n - (k - 1) = j /\ n - k = j - 1 /\ k - 1 \in 0..n
    BY <1>1
  <2>2. w \in WalkState /\ W[k] = Seen(w, e, s, bypass, 1)
    BY <2>1, <1>2
  <2>3. q \in Seq(Frame) /\ p \in Seq(Frame) /\ q = IF e.session = s THEN Performed(p, e) ELSE p
    BY <2>1, <1>3
  <2>4. e \in Item /\ (e.op = "undo" /\ e.session = s => e.count = 1 /\ p # <<>>)
    BY <2>1, <1>1, <1>4
  <2>5. w.barred \/ Found(w) \/ Under(w, q)
    BY <1>7, <2>1
  <2> SUFFICES W[k].barred \/ Found(W[k]) \/ Under(W[k], p)
    BY <2>1
  <2> DEFINE u == W[k]
  <2> HIDE DEF e, w, q, p, j, u, top
  <2>6. u = Seen(w, e, s, bypass, 1)
    BY <2>2 DEF u
  <2>7. w.cancelled \in Nat /\ w.live \in Seq(Item) /\ w.barred \in BOOLEAN
    BY <2>2 DEF WalkState
  <2>8. Len(p) \in Nat /\ Len(q) \in Nat
    BY <2>3, LenProperties
  <2>9. CASE w.barred \/ Found(w)
    <3>1. u = w
      BY <2>6, <2>9 DEF Seen, Visit
    <3> QED
      BY <2>9, <3>1 DEF u
  <2>10. CASE Under(w, q) /\ e.session # s
    <3>1. u = w /\ q = p
      BY <2>3, <2>6, <2>10 DEF Seen, Heard
    <3> QED
      BY <2>10, <3>1 DEF u
  <2>11. CASE Under(w, q) /\ e.session = s
    <3>1. u = Visit(w, e, 1) /\ q = Performed(p, e)
      BY <2>3, <2>6, <2>11 DEF Seen, Heard
    <3>2. Len(w.live) = 0 /\ ~w.barred /\ Len(top) = Len(q) - w.cancelled /\ \A i \in 1..Len(top) : top[i] = q[i]
      BY <2>11
    <3>3. CASE e.op = "undo"
      <4>1. u = [w EXCEPT !.cancelled = w.cancelled + 1]
        BY <3>1, <3>2, <3>3 DEF Visit
      <4>2. u.live = w.live /\ u.cancelled = w.cancelled + 1 /\ u.barred = w.barred
        BY <2>2, <4>1 DEF WalkState
      <4>3. q = SubSeq(p, 1, Len(p) - 1) /\ Len(p) # 0
        <5>1. "undo" \notin Undoable
          BY DEF Undoable
        <5>2. q = SubSeq(p, 1, Len(p) - 1)
          BY <2>4, <2>11, <3>1, <3>3, <5>1 DEF Performed
        <5> QED
          BY <2>3, <2>4, <2>11, <3>3, <5>2, EmptySeq
      <4>4. Len(q) = Len(p) - 1 /\ \A i \in 1..(Len(p) - 1) : q[i] = p[i]
        <5>1. Len(p) - 1 \in Int /\ Len(p) - 1 <= Len(p) /\ 1 \in Int
          BY <2>8
        <5>2. \A i \in 1..(Len(p) - 1) : p[i] \in Frame
          <6>1. \A i \in 1..(Len(p) - 1) : i \in 1..Len(p)
            BY <2>8
          <6> QED
            BY <2>3, <6>1, ElementOfSeq
        <5> DEFINE m == Len(p) - 1
        <5>3. m \in Int /\ (1 <= m \/ m = 0)
          <6>1. Len(p) # 0
            BY <4>3
          <6>2. m = Len(p) - 1
            OBVIOUS
          <6>3. Len(p) \in Nat
            BY <2>8
          <6> HIDE DEF m
          <6> QED
            BY <6>1, <6>2, <6>3
        <5>4. \A i \in 1..m : p[i] \in Frame
          BY <5>2
        <5> HIDE DEF m
        <5>5. /\ Len(SubSeq(p, 1, m)) = IF 1 <= m THEN m - 1 + 1 ELSE 0
              /\ \A i \in 1..(m - 1 + 1) : SubSeq(p, 1, m)[i] = p[1 + i - 1]
          BY <5>3, <5>4, SubSeqProperties
        <5>6. Len(q) = m /\ \A i \in 1..m : q[i] = p[i]
          BY <4>3, <5>3, <5>5 DEF m
        <5> QED
          BY <5>6 DEF m
      <4>5. \A i \in 1..Len(top) : top[i] = p[i]
        <5>1. \A i \in 1..Len(top) : i \in 1..(Len(p) - 1)
          BY <1>5, <2>7, <2>8, <3>2, <4>4
        <5> QED
          BY <3>2, <4>4, <5>1
      <4>6. Under(u, p)
        BY <2>7, <2>8, <3>2, <4>2, <4>4, <4>5
      <4> QED
        BY <4>6 DEF u
    <3>4. CASE e.op = "rewrite"
      <4>1. u = [w EXCEPT !.barred = TRUE]
        BY <3>1, <3>2, <3>4 DEF Visit
      <4>2. u.barred
        BY <2>2, <4>1 DEF WalkState
      <4> QED
        BY <4>2 DEF u
    <3>5. CASE e.op \notin {"undo", "rewrite"} /\ e.op \notin Undoable
      <4>1. u = w /\ q = p
        BY <3>1, <3>2, <3>5 DEF Visit, Performed
      <4> QED
        BY <2>11, <4>1 DEF u
    <3>6. CASE e.op \in Undoable
      <4>1. e.op # "undo" /\ e.op # "rewrite"
        BY <3>6 DEF Undoable
      <4> DEFINE fr == [before |-> e.before, after |-> e.tip]
      <4>2. q = Append(p, fr)
        BY <3>1, <3>6 DEF Performed
      <4>3. fr \in Frame
        BY <2>4 DEF Item, Frame
      <4>4. Len(q) = Len(p) + 1 /\ q[Len(p) + 1] = fr /\ \A i \in 1..Len(p) : q[i] = p[i]
        <5> HIDE DEF fr
        <5> QED
          BY <2>3, <4>2, <4>3, AppendProperties
      <4>5. CASE w.cancelled > 0
        <5>1. u = [w EXCEPT !.cancelled = w.cancelled - 1]
          BY <3>1, <3>2, <3>6, <4>1, <4>5 DEF Visit
        <5>2. u.live = w.live /\ u.cancelled = w.cancelled - 1 /\ u.barred = w.barred
          BY <2>2, <5>1 DEF WalkState
        <5>3. \A i \in 1..Len(top) : i \in 1..Len(p)
          BY <1>5, <2>7, <2>8, <3>2, <4>4, <4>5
        <5>4. Under(u, p)
          <6>1. Len(top) = Len(p) - u.cancelled
            BY <2>7, <2>8, <3>2, <4>4, <5>2
          <6>2. \A i \in 1..Len(top) : top[i] = p[i]
            BY <3>2, <4>4, <5>3
          <6> QED
            BY <3>2, <5>2, <6>1, <6>2
        <5> QED
          BY <5>4 DEF u
      <4>6. CASE w.cancelled = 0
        <5>1. u = [w EXCEPT !.live = Append(w.live, e)]
          BY <3>1, <3>2, <3>6, <4>1, <4>6 DEF Visit
        <5>2. u.live = Append(w.live, e)
          BY <2>2, <5>1 DEF WalkState
        <5>3. Len(u.live) = 1 /\ u.live[1] = e
          BY <2>4, <2>7, <3>2, <5>2, AppendProperties
        <5>4. Len(top) = Len(p) + 1
          BY <2>8, <3>2, <4>4, <4>6
        <5>5. Len(top) > 0 /\ Len(top) \in 1..Len(top)
          BY <2>8, <5>4
        <5>6. top[Len(top)] = fr
          <6> HIDE DEF fr
          <6> QED
            BY <3>2, <4>4, <5>4, <5>5
        <5>7. Found(u)
          BY <5>3, <5>5, <5>6
        <5> QED
          BY <5>7 DEF u
      <4> QED
        BY <2>7, <4>5, <4>6
    <3> QED
      BY <3>3, <3>4, <3>5, <3>6
  <2> QED
    BY <2>5, <2>9, <2>10, <2>11
<1>8. Good(n)
  <2>1. 0 \in B /\ \A k \in 1..n : k - 1 \in B => k \in B
    <3>1. ASSUME NEW k \in 1..n, k - 1 \in B
          PROVE  k \in B
      <4> HIDE DEF Good
      <4> QED
        BY <1>7, <3>1
    <3> HIDE DEF Good
    <3> QED
      BY <1>1, <1>6, <3>1
  <2>2. \A k \in 0..n : k \in B
    <3> HIDE DEF B, n
    <3> QED
      BY <1>1, <2>1, StepByStep
  <2> HIDE DEF Good
  <2> QED
    BY <1>1, <2>2
<1>9. Walk(s, bypass, 1) = W[n]
  BY DEF Walk, W
<1>10. V[n] = Standing(oplog)[n][s]
  BY <1>1 DEF V
<1>11. Found(W[n])
  BY <1>8, <1>9
<1> QED
  BY <1>9, <1>10, <1>11

---------------------------------------------------------------------------
(* What an undo in progress will take off is what its session has on top.    *)
PlannedTop ==
  plan # NoPlan /\ plan.count = 1 /\ ~plan.bypass /\ plan.session \notin loose =>
    LET st == Standing(oplog)[Len(oplog)][plan.session]
    IN  Len(st) > 0 /\ st[Len(st)] = [before |-> plan.target, after |-> plan.pin]

(* What a step writes into the log, and which sessions it frees of the       *)
(* promise.                                                                  *)
Writes(e) ==
  /\ oplog' = Append(oplog, e)
  /\ \/ e.op \in Undoable /\ e.before = tip /\ e.tip = tip' /\ tip' # 0 /\ UNCHANGED <<loose, plan>>
     \/ e.op \in {"guarded", "rewrite"} /\ UNCHANGED <<loose, plan>>
     \/ e.op = "undo" /\ LandUndo /\ e.session = plan.session /\ e.count = plan.count
Frees == LandUndo /\ (plan.count > 1 \/ plan.bypass) /\ loose' = loose \cup {plan.session}

LEMMA WritesRecord ==
  ASSUME UndoTypeInv, Grows, tip' \in Place', NEW op \in Ops, NEW s \in Session, NEW before \in Place,
         NEW count \in Counts \cup {1}, Records(op, s, before, count)
  PROVE  oplog' = oplog \/ \E e \in Item : oplog' = Append(oplog, e) /\ e.op = op /\ e.session = s
                             /\ e.before = before /\ e.tip = tip' /\ e.count = count
<1> DEFINE e == [op |-> op, session |-> s, tip |-> tip', before |-> before, count |-> count]
<1>1. e \in Item
  <2>1. Place \subseteq Nat /\ Place' \subseteq Nat
    BY UndoTypes, Grown
  <2>2. count \in Nat \ {0}
    BY UndoConstants
  <2> QED
    BY <2>1, <2>2 DEF Item
<1>2. e.op = op /\ e.session = s /\ e.before = before /\ e.tip = tip' /\ e.count = count
  OBVIOUS
<1>3. oplog' = oplog \/ oplog' = Append(oplog, e)
  BY DEF Records, Logs
<1> HIDE DEF e
<1> QED
  BY <1>1, <1>2, <1>3

LEMMA StepWrites ==
  ASSUME UndoTypeInv, [UndoNext]_undoVars
  PROVE  \/ oplog' = oplog /\ (loose' = loose \/ Frees)
         \/ \E e \in Item : Writes(e)
<1> DEFINE Wrote == \/ oplog' = oplog /\ (loose' = loose \/ Frees)
                    \/ \E e \in Item : Writes(e)
<1>1. /\ tip \in Place /\ (plan = NoPlan \/ plan \in Planned) /\ Place = 0..Len(parent) /\ Len(parent) \in Nat
      /\ Made = 1..Len(parent)
  BY UndoTypes DEF UndoTypeInv, UndoTypeOK, Planned
<1>2. Grows
  BY UndoTypeNext
<1>3. tip' \in Place'
  BY UndoTypeNext DEF UndoTypeInv, UndoTypeOK
<1>4. {"commit", "replace", "guarded", "rewrite", "undo"} \subseteq Ops
  BY DEF Ops
<1>5. ASSUME oplog' = oplog, loose' = loose
      PROVE  Wrote
  BY <1>5
<1>6. ASSUME NEW s \in Session, NEW op \in Undoable, Records(op, s, tip, 1), tip' # 0, UNCHANGED <<loose, plan>>
      PROVE  Wrote
  <2>1. op \in Ops
    BY <1>4 DEF Undoable
  <2>2. oplog' = oplog \/ \E e \in Item : oplog' = Append(oplog, e) /\ e.op = op /\ e.session = s
                             /\ e.before = tip /\ e.tip = tip' /\ e.count = 1
    BY <1>1, <1>2, <1>3, <1>6, <2>1, WritesRecord
  <2> QED
    BY <1>6, <2>2 DEF Writes
<1>7. ASSUME NEW s \in Session, NEW op \in {"guarded", "rewrite"}, Records(op, s, tip, 1), UNCHANGED <<loose, plan>>
      PROVE  Wrote
  <2>1. op \in Ops
    BY <1>4
  <2>2. oplog' = oplog \/ \E e \in Item : oplog' = Append(oplog, e) /\ e.op = op /\ e.session = s
                             /\ e.before = tip /\ e.tip = tip' /\ e.count = 1
    BY <1>1, <1>2, <1>3, <1>7, <2>1, WritesRecord
  <2> QED
    BY <1>7, <2>2 DEF Writes
<1>8. ASSUME NEW s \in Session, NEW t \in Nat, Logs("guarded", s, tip, t, 1), UNCHANGED <<loose, plan>>
      PROVE  Wrote
  <2> DEFINE e == [op |-> "guarded", session |-> s, tip |-> t, before |-> tip, count |-> 1]
  <2>1. e \in Item /\ e.op = "guarded"
    BY <1>1, <1>4 DEF Item
  <2>2. oplog' = Append(oplog, e)
    BY <1>8 DEF Logs
  <2> HIDE DEF e
  <2>3. Writes(e)
    BY <1>8, <2>1, <2>2 DEF Writes
  <2> QED
    BY <2>1, <2>3
<1>9. ASSUME LandUndo
      PROVE  Wrote
  <2>1. plan \in Planned /\ Records("undo", plan.session, tip, plan.count)
    BY <1>1, <1>9 DEF LandUndo
  <2>2. plan.session \in Session /\ plan.count \in Counts \cup {1}
    BY <2>1 DEF Planned
  <2>3. oplog' = oplog \/ \E e \in Item : oplog' = Append(oplog, e) /\ e.op = "undo" /\ e.session = plan.session
                             /\ e.before = tip /\ e.tip = tip' /\ e.count = plan.count
    BY <1>1, <1>2, <1>3, <1>4, <2>1, <2>2, WritesRecord
  <2>4. loose' = loose \/ Frees
    BY <1>9 DEF LandUndo, Frees
  <2> QED
    BY <1>9, <2>3, <2>4 DEF Writes
<1>10. Grows => Place' = 0..Len(parent') /\ Len(parent') \in Nat
  BY Grown
<1>11. ASSUME NEW s \in Session, Commit(s)
       PROVE  Wrote
  <2>1. Records("commit", s, tip, 1) /\ tip' # 0
    BY <1>1, <1>11, MadeGrows DEF Commit
  <2> QED
    BY <1>6, <1>11, <2>1 DEF Commit, Undoable
<1>12. ASSUME NEW s \in Session, Replace(s)
       PROVE  Wrote
  <2>1. parent[tip] \in Place
    BY <1>12, ParentPlace DEF Replace
  <2>2. Records("replace", s, tip, 1) /\ tip' # 0
    BY <1>1, <1>12, <2>1, MadeGrows DEF Replace
  <2> QED
    BY <1>6, <1>12, <2>2 DEF Replace, Undoable
<1>13. ASSUME NEW s \in Session, Guard(s)
       PROVE  Wrote
  BY <1>7, <1>13 DEF Guard
<1>14. ASSUME NEW s \in Session, GuardRefused(s)
       PROVE  Wrote
  BY <1>8, <1>14 DEF GuardRefused
<1>15. ASSUME NEW s \in Session, RebaseStop(s)
       PROVE  Wrote
  <2>1. stopped' \in Nat
    BY <1>2, <1>10, <1>15 DEF RebaseStop
  <2> QED
    BY <1>8, <1>15, <2>1 DEF RebaseStop
<1>16. ASSUME NEW s \in Session, Rewrite(s)
       PROVE  Wrote
  BY <1>5, <1>7, <1>16 DEF Rewrite
<1>17. ASSUME \/ RebaseEnd \/ RestoreBackup \/ MissUndo \/ Outside \/ UNCHANGED undoVars
              \/ \E s \in Session, count \in Counts, bypass \in Bypassing : PlanUndo(s, count, bypass)
       PROVE  Wrote
  BY <1>5, <1>17 DEF RebaseEnd, RestoreBackup, MissUndo, Outside, undoVars, PlanUndo
<1> HIDE DEF Wrote
<1>18. Wrote
  BY <1>9, <1>11, <1>12, <1>13, <1>14, <1>15, <1>16, <1>17 DEF UndoNext, Step
<1> QED
  BY <1>18 DEF Wrote

LEMMA StackInvNext ==
  ASSUME UndoTypeInv, UndoneAlone, PlannedTop, [UndoNext]_undoVars
  PROVE  UndoneAlone' /\ PlannedTop'
<1> DEFINE n == Len(oplog)
<1>1. oplog \in Seq(Item) /\ n \in Nat
  <2>1. oplog \in Seq(Item)
    BY UndoTypes
  <2> QED
    BY <2>1, LenProperties
<1>2. plan = NoPlan \/ plan \in Planned
  BY DEF UndoTypeInv, UndoTypeOK, Planned
<1>3. loose \subseteq loose'
  BY StepWrites DEF Writes, Frees, LandUndo
<1>4. UndoneAlone'
  <2>1. CASE oplog' = oplog
    BY <1>3, <2>1 DEF UndoneAlone
  <2>2. ASSUME NEW e \in Item, Writes(e)
        PROVE  UndoneAlone'
    <3>1. oplog' = Append(oplog, e)
      BY <2>2 DEF Writes
    <3>2. Len(oplog') = n + 1 /\ oplog'[n + 1] = e /\ \A i \in 1..n : oplog'[i] = oplog[i]
      BY <1>1, <3>1, AppendProperties
    <3>3. \A i \in 0..n : Standing(oplog')[i] = Standing(oplog)[i]
      BY <1>1, <3>1, StandingAppend
    <3>4. ASSUME NEW i \in 1..Len(oplog'), oplog'[i].op = "undo", oplog'[i].session \notin loose'
          PROVE  oplog'[i].count = 1 /\ Standing(oplog')[i - 1][oplog'[i].session] # <<>>
      <4>1. CASE i \in 1..n
        <5>1. oplog'[i] = oplog[i] /\ Standing(oplog')[i - 1] = Standing(oplog)[i - 1]
          BY <1>1, <3>2, <3>3, <4>1
        <5> QED
          BY <1>3, <3>4, <4>1, <5>1 DEF UndoneAlone
      <4>2. CASE i = n + 1
        <5>1. oplog'[i] = e /\ Standing(oplog')[i - 1] = Standing(oplog)[n]
          BY <1>1, <3>2, <3>3, <4>2
        <5>2. e.op = "undo" /\ e.session \notin loose'
          BY <3>4, <5>1
        <5>3. LandUndo /\ e.session = plan.session /\ e.count = plan.count
          BY <2>2, <5>2 DEF Writes, Undoable
        <5>4. plan \in Planned /\ ~(plan.count > 1 \/ plan.bypass) /\ plan.session \notin loose
          BY <1>2, <1>3, <5>2, <5>3 DEF LandUndo
        <5>5. plan.count = 1
          <6>1. plan.count \in Counts /\ ~(plan.count > 1)
            BY <5>4 DEF Planned
          <6>2. Counts \subseteq Nat \ {0}
            BY UndoConstants
          <6>3. plan.count \in Nat \ {0}
            BY <6>1, <6>2
          <6> QED
            BY <6>1, <6>3
        <5>6. Len(Standing(oplog)[n][plan.session]) > 0
          BY <5>3, <5>4, <5>5 DEF PlannedTop, LandUndo
        <5>7. Standing(oplog)[n][plan.session] # <<>>
          BY <5>6
        <5> QED
          BY <5>1, <5>3, <5>5, <5>7
      <4> QED
        BY <1>1, <3>2, <4>1, <4>2
    <3> QED
      BY <3>4 DEF UndoneAlone
  <2> QED
    BY <2>1, <2>2, StepWrites
<1>5. PlannedTop'
  <2>1. CASE \E s \in Session, count \in Counts, bypass \in Bypassing : PlanUndo(s, count, bypass)
    <3>1. PICK s \in Session, count \in Counts, bypass \in Bypassing : PlanUndo(s, count, bypass)
      BY <2>1
    <3> DEFINE w == Walk(s, bypass, count)
               st == Standing(oplog)[n][s]
    <3>2. plan' = [session |-> s, count |-> count, bypass |-> bypass, pin |-> tip, target |-> w.live[count].before]
          /\ w.live[1].tip = tip
      BY <3>1, PlanTyped
    <3>3. ~w.barred /\ Len(w.live) = count /\ UNCHANGED <<oplog, loose>>
      BY <3>1 DEF PlanUndo
    <3>4. ASSUME count = 1, ~bypass, s \notin loose
          PROVE  Len(st) > 0 /\ st[Len(st)] = [before |-> w.live[1].before, after |-> w.live[1].tip]
      <4>1. ~Walk(s, bypass, 1).barred /\ Len(Walk(s, bypass, 1).live) = 1
        BY <3>3, <3>4
      <4> QED
        BY <1>1, <3>4, <4>1, WalkFindsTop
    <3> HIDE DEF w, st
    <3>5. /\ plan'.session = s /\ plan'.count = count /\ plan'.bypass = bypass /\ plan'.pin = tip
          /\ plan'.target = w.live[count].before
      BY <3>2
    <3>6. (Standing(oplog)[Len(oplog)][plan.session])' = st
      BY <3>3, <3>5 DEF st
    <3> QED
      BY <3>2, <3>3, <3>4, <3>5, <3>6 DEF PlannedTop
  <2>2. CASE ~(\E s \in Session, count \in Counts, bypass \in Bypassing : PlanUndo(s, count, bypass))
    <3>1. plan' = NoPlan \/ (plan' = plan /\ (plan # NoPlan => oplog' = oplog /\ loose' = loose))
      BY <2>2 DEF UndoNext, Step, Commit, Replace, Guard, GuardRefused, RebaseStop, Rewrite, RebaseEnd, RestoreBackup,
                  LandUndo, MissUndo, Outside, undoVars, Idle
    <3>2. NoPlan' = NoPlan
      BY DEF NoPlan
    <3> QED
      BY <3>1, <3>2 DEF PlannedTop
  <2> QED
    BY <2>1, <2>2
<1> QED
  BY <1>4, <1>5

(* Every step keeps the promise: what is recorded goes on a stack, what is   *)
(* undone comes off it, and nothing else touches one.                        *)
LEMMA StackStep ==
  ASSUME UndoTypeInv, UndoneAlone, PlannedTop, [UndoNext]_undoVars
  PROVE  StackPromise!Next
<1> DEFINE n == Len(oplog)
           st == Standing(oplog)[n]
           un == Told(oplog)[n]
           st2 == Standing(oplog')[Len(oplog')]
           un2 == Told(oplog')[Len(oplog')]
<1>1. /\ tip \in Place /\ (plan = NoPlan \/ plan \in Planned) /\ loose \subseteq Session
      /\ oplog \in Seq(Item) /\ n \in Nat /\ MaxCommits \in Nat
  <2>1. oplog \in Seq(Item)
    BY UndoTypes
  <2> QED
    BY <2>1, LenProperties, UndoConstants DEF UndoTypeInv, UndoTypeOK, Planned
<1>2. tip' \in 0..MaxCommits
  <2>1. Grows /\ tip' \in Place'
    BY UndoTypeNext DEF UndoTypeInv, UndoTypeOK
  <2> QED
    BY <1>1, <2>1, Grown
<1>3. tip' \in StackPromise!Place /\ (tip' # 0 => tip' \in 1..MaxCommits)
  BY <1>1, <1>2 DEF StackPromise!Place
<1>4. st \in [Session -> Seq(Frame)] /\ un \in [Session -> Nat]
  <2>1. n \in 0..n
    BY <1>1
  <2> QED
    BY <1>1, <2>1, StandingIs, ToldIs
<1> DEFINE Promised ==
       \/ /\ st2 = st \/ \E s \in Session : st2 = [st EXCEPT ![s] = <<>>]
          /\ un2 = un /\ loose' = loose
       \/ \E s \in Session :
            \/ /\ tip' \in 1..MaxCommits
               /\ st2 = [st EXCEPT ![s] = Append(@, [before |-> tip, after |-> tip'])]
               /\ un2 = un /\ loose' = loose
            \/ /\ loose' = loose \cup {s}
               /\ \A q \in Session \ {s} : st2[q] = st[q] /\ un2[q] = un[q]
            \/ \E m \in 1..Len(st[s]) :
                 /\ tip = st[s][Len(st[s])].after
                 /\ tip' = st[s][Len(st[s]) - m + 1].before
                 /\ st2 = [st EXCEPT ![s] = SubSeq(@, 1, Len(@) - m)]
                 /\ un2 = [un EXCEPT ![s] = @ + m]
                 /\ loose' = loose
<1>5. ASSUME Promised
      PROVE  StackPromise!Next
  BY <1>3, <1>5 DEF StackPromise!Next, StackPromise!Move, StackPromise!Perform, StackPromise!Excuse, StackPromise!Undo
<1> HIDE DEF st, un, st2, un2
<1>6. CASE oplog' = oplog /\ (loose' = loose \/ Frees)
  <2>1. st2 = st /\ un2 = un
    BY <1>6 DEF st, un, st2, un2
  <2>2. Frees => plan.session \in Session /\ loose' = loose \cup {plan.session}
    BY <1>1 DEF Frees, Planned, LandUndo
  <2>3. CASE loose' = loose
    BY <1>5, <2>1, <2>3
  <2>4. CASE Frees
    <3>1. Promised
      BY <2>1, <2>2, <2>4
    <3> QED
      BY <1>5, <3>1
  <2> QED
    BY <1>6, <2>3, <2>4
<1>7. ASSUME NEW e \in Item, Writes(e)
      PROVE  StackPromise!Next
  <2> DEFINE s == e.session
  <2>1. s \in Session /\ oplog' = Append(oplog, e)
    BY <1>7 DEF Item, Writes
  <2>2. st2 = [st EXCEPT ![s] = Performed(st[s], e)]
    BY <1>1, <2>1, StandingAppend DEF st, st2
  <2>3. un2 = [un EXCEPT ![s] = un[s] + (IF e.op = "undo" THEN e.count ELSE 0)]
    BY <1>1, <2>1, ToldAppend DEF un, un2
  <2>4. e.op # "undo" => un2 = un
    BY <1>4, <2>1, <2>3
  <2> HIDE DEF s
  <2>5. CASE e.op \in Undoable /\ e.before = tip /\ e.tip = tip' /\ tip' # 0 /\ UNCHANGED <<loose, plan>>
    <3>1. st2 = [st EXCEPT ![s] = Append(@, [before |-> tip, after |-> tip'])]
      BY <2>2, <2>5 DEF Performed
    <3>2. e.op # "undo"
      BY <2>5 DEF Undoable
    <3>3. Promised
      BY <1>3, <2>1, <2>4, <2>5, <3>1, <3>2
    <3> QED
      BY <1>5, <3>3
  <2>6. CASE e.op \in {"guarded", "rewrite"} /\ UNCHANGED <<loose, plan>>
    <3>1. Performed(st[s], e) = IF e.op = "rewrite" THEN <<>> ELSE st[s]
      BY <2>6 DEF Performed, Undoable
    <3>2. st2 = st \/ st2 = [st EXCEPT ![s] = <<>>]
      BY <1>4, <2>1, <2>2, <3>1
    <3>3. Promised
      BY <2>1, <2>4, <2>6, <3>2
    <3> QED
      BY <1>5, <3>3
  <2>7. CASE e.op = "undo" /\ LandUndo /\ s = plan.session /\ e.count = plan.count
    <3>1. plan # NoPlan /\ plan \in Planned /\ tip = plan.pin /\ tip' = plan.target
      BY <1>1, <2>7 DEF LandUndo
    <3>2. \A q \in Session \ {s} : st2[q] = st[q] /\ un2[q] = un[q]
      BY <1>4, <2>1, <2>2, <2>3
    <3>3. CASE plan.count > 1 \/ plan.bypass \/ s \in loose
      <4>1. loose' = loose \cup {s}
        BY <2>7, <3>3 DEF LandUndo
      <4>2. Promised
        BY <2>1, <3>2, <4>1
      <4> QED
        BY <1>5, <4>2
    <3>4. CASE ~(plan.count > 1 \/ plan.bypass \/ s \in loose)
      <4>1. plan.count = 1
        <5>1. plan.count \in Counts /\ ~(plan.count > 1)
          BY <3>1, <3>4 DEF Planned
        <5>2. Counts \subseteq Nat \ {0}
          BY UndoConstants
        <5>3. plan.count \in Nat \ {0}
          BY <5>1, <5>2
        <5> QED
          BY <5>1, <5>3
      <4>2. Len(st[s]) > 0 /\ st[s][Len(st[s])] = [before |-> plan.target, after |-> plan.pin]
        BY <2>7, <3>1, <3>4, <4>1 DEF PlannedTop, st
      <4>3. loose' = loose
        BY <2>7, <3>4 DEF LandUndo
      <4>4. st2 = [st EXCEPT ![s] = SubSeq(@, 1, Len(@) - 1)]
        <5>1. Performed(st[s], e) = SubSeq(st[s], 1, Len(st[s]) - 1)
          BY <2>7, <4>1 DEF Performed, Undoable
        <5> QED
          BY <2>2, <5>1
      <4>5. un2 = [un EXCEPT ![s] = @ + 1]
        BY <2>3, <2>7, <4>1
      <4>6. Len(st[s]) \in Nat
        <5>1. st[s] \in Seq(Frame)
          BY <1>4, <2>1
        <5> QED
          BY <5>1, LenProperties
      <4>7. /\ 1 \in 1..Len(st[s]) /\ tip = st[s][Len(st[s])].after
            /\ tip' = st[s][Len(st[s]) - 1 + 1].before
        BY <3>1, <4>2, <4>6
      <4>8. Promised
        BY <2>1, <4>3, <4>4, <4>5, <4>7
      <4> QED
        BY <1>5, <4>8
    <3> QED
      BY <3>3, <3>4
  <2> QED
    BY <1>7, <2>5, <2>6, <2>7 DEF Writes, s
<1> QED
  BY <1>6, <1>7, StepWrites

(* To every session that undoes its own operations one at a time, undo is a  *)
(* stack, whatever git and other sessions do to the branch, whatever entries *)
(* are lost and whatever rewrites of the history come between: it takes off  *)
(* the latest operation that stands, puts the branch where that began, and   *)
(* tells of no more than it took off.                                        *)
THEOREM UndoImplementsStack == UndoSpec => ImplementsUndoStack
<1>1. UndoInit => UndoTypeInv /\ UndoneAlone /\ PlannedTop
  <2>1. UndoInit => UndoneAlone
    BY EmptySeq DEF UndoInit, UndoneAlone
  <2>2. UndoInit => PlannedTop
    BY DEF UndoInit, PlannedTop
  <2> QED
    BY <2>1, <2>2, UndoTypeStart
<1>2. UndoInit => StackPromise!Init
  <2> SUFFICES ASSUME UndoInit PROVE StackPromise!Init
    OBVIOUS
  <2>1. UndoTypeInv
    BY UndoTypeStart
  <2>2. tip \in 0..MaxCommits /\ MaxCommits \in Nat
    <3>1. tip \in Place /\ Place = 0..Len(parent) /\ Len(parent) \in Nat /\ Len(parent) <= MaxCommits
      BY <2>1, UndoTypes DEF UndoTypeInv, UndoTypeOK
    <3>2. MaxCommits \in Nat
      BY UndoConstants
    <3> QED
      BY <3>1, <3>2
  <2>3. oplog \in Seq(Item) /\ Len(oplog) = 0
    BY EmptySeq DEF UndoInit
  <2>4. Standing(oplog)[Len(oplog)] = [s \in Session |-> <<>>] /\ Told(oplog)[Len(oplog)] = [s \in Session |-> 0]
    BY <2>3, StandingIs, ToldIs
  <2> QED
    BY <2>2, <2>4 DEF UndoInit, StackPromise!Init, StackPromise!Place
<1>3. UndoTypeInv /\ UndoneAlone /\ PlannedTop /\ [UndoNext]_undoVars =>
        /\ UndoTypeInv' /\ UndoneAlone' /\ PlannedTop'
        /\ [StackPromise!Next]_(StackPromise!svars)
  BY UndoTypeNext, StackInvNext, StackStep
<1> QED
  BY <1>1, <1>2, <1>3, PTL DEF UndoSpec, ImplementsUndoStack, StackPromise!StackSpec

=============================================================================

--------------------------- MODULE RefLockProofs ---------------------------
(***************************************************************************)
(* Proofs about RefLock for any set of processes and inodes, any           *)
(* assignment of pids and hosts, with or without start times, signals and  *)
(* unlocks.                                                                *)
(***************************************************************************)
EXTENDS RefLock, TLAPS

(* The initial states are well typed.                                      *)
LEMMA InitTypeOK == Init => TypeOK
BY LockConstants DEF Init, TypeOK, Locations, Goals, HandlerAt, Breaches

(* Every action of a process keeps every variable in its range.            *)
LEMMA StepTypeOK ==
  ASSUME TypeOK, NEW p \in Proc, Step(p)
  PROVE  TypeOK'
<1> USE LockConstants DEF TypeOK, Locations, Acquiring, Releasing, Goals, HandlerAt,
        Breaches, Goto
<1>1. CASE Start(p)
  BY <1>1, SMTT(20) DEF Start
<1>2. CASE LinkExists(p)
  BY <1>2, SMTT(20) DEF LinkExists
<1>3. CASE Register(p)
  BY <1>3, SMTT(20) DEF Register
<1>4. CASE Expire(p)
  BY <1>4, SMTT(20) DEF Expire
<1>5. CASE EndCommand(p)
  BY <1>5, SMTT(20) DEF EndCommand
<1>6. CASE Link(p)
  BY <1>6, SMTT(20) DEF Link
<1>7. CASE Judge(p)
  BY <1>7, SMTT(20) DEF Judge, Condemn
<1>8. CASE Verdict(p)
  BY <1>8, SMTT(20) DEF Verdict, Condemn, ReclaimNone, Return
<1>9. CASE OpenForReclaim(p)
  BY <1>9, SMTT(20) DEF OpenForReclaim, ReclaimRestart, Return
<1>10. CASE Flock(p)
  BY <1>10, SMTT(20) DEF Flock, ReclaimNone, Return, Close
<1>11. CASE Identify(p)
  BY <1>11, SMTT(20) DEF Identify, ReclaimRestart, Return, Close
<1>12. CASE Rejudge(p)
  <2> USE <1>12 DEF Rejudge
  <2>1. breach' \in SUBSET Breaches /\ UNCHANGED <<path, file, mine, seen, handler, raced>>
    OBVIOUS
  <2>2. /\ pc' = [pc EXCEPT ![p] = "remove"] \/ pc' = [pc EXCEPT ![p] = "wait"]
           \/ pc' = [pc EXCEPT ![p] = "idle"]
        /\ goal' = goal \/ goal' = [goal EXCEPT ![p] = "acquire"]
        /\ late' = late \/ late' = late \ {p}
        /\ fd' = fd \/ fd' = [fd EXCEPT ![p] = NoInode]
    BY DEF ReclaimNone, Return, Close
  <2> HIDE <1>12 DEF Rejudge
  <2>3. QED
    BY <2>1, <2>2
<1>13. CASE Remove(p)
  BY <1>13, SMTT(20) DEF Remove, ReclaimNone, ReclaimDone, Return, Close, Unlink, Overtaken
<1>14. CASE Poll(p)
  BY <1>14, SMTT(20) DEF Poll, Return
<1>15. CASE Release(p)
  BY <1>15, SMTT(20) DEF Release, LetGo
<1>16. CASE RelRead(p)
  BY <1>16, SMTT(20) DEF RelRead, LetGo
<1>17. CASE RelRemove(p)
  BY <1>17, SMTT(20) DEF RelRemove, LetGo, Unlink, Overtaken
<1>18. CASE ReleasePending(p)
  BY <1>18, SMTT(20) DEF ReleasePending, HandlerStep
<1>19. CASE PendingRead(p)
  BY <1>19, SMTT(20) DEF PendingRead, HandlerStep
<1>20. CASE PendingRemove(p)
  BY <1>20, SMTT(20) DEF PendingRemove, HandlerStep, Unlink, Overtaken
<1>21. CASE HandlerExit(p)
  BY <1>21, SMTT(20) DEF HandlerExit, Die, Close, HandlerStep
<1>22. CASE Crash(p)
  BY <1>22, SMTT(20) DEF Crash, Die, Close, HandlerStep
<1>23. CASE ForceRelease(p)
  BY <1>23, SMTT(20) DEF ForceRelease, Return, Unlink, Overtaken
<1>24. CASE \E g \in Goals : Begin(p, g)
  BY <1>24, SMTT(20) DEF Begin
<1> HIDE DEF TypeOK, Locations, Acquiring, Releasing, Goals, HandlerAt, Breaches, Goto
<1>25. QED
  BY <1>1, <1>2, <1>3, <1>4, <1>5, <1>6, <1>7, <1>8, <1>9, <1>10, <1>11, <1>12, <1>13, <1>14, <1>15, <1>16, <1>17, <1>18, <1>19, <1>20, <1>21, <1>22, <1>23, <1>24
  DEF Step, Progress

-----------------------------------------------------------------------------
(* A step of one process leaves the others' own state alone.               *)
LEMMA StepOthers ==
  ASSUME TypeOK, NEW p \in Proc, Step(p), NEW q \in Proc, q # p
  PROVE  /\ pc'[q] = pc[q] /\ fd'[q] = fd[q]
         /\ mine'[q] = mine[q] /\ handler'[q] = handler[q]
<1> USE DEF TypeOK, Goto
<1>1. CASE Progress(p)
  <2>1. CASE Link(p) \/ LinkExists(p) \/ Register(p) \/ Judge(p) \/ Verdict(p)
    BY <2>1 DEF Link, LinkExists, Register, Judge, Verdict, Condemn, ReclaimNone, Return
  <2>2. CASE OpenForReclaim(p) \/ Flock(p) \/ Identify(p) \/ Rejudge(p)
    BY <2>2 DEF OpenForReclaim, Flock, Identify, Rejudge, ReclaimNone, ReclaimRestart,
       Return, Close
  <2>3. CASE Remove(p) \/ Poll(p) \/ RelRead(p) \/ RelRemove(p) \/ ForceRelease(p)
    BY <2>3 DEF Remove, Poll, RelRead, RelRemove, ForceRelease, ReclaimNone, ReclaimDone,
       Return, Close, LetGo
  <2>4. QED
    BY <1>1, <2>1, <2>2, <2>3 DEF Progress
<1>2. CASE ReleasePending(p) \/ PendingRead(p) \/ PendingRemove(p) \/ HandlerExit(p) \/ Crash(p)
  BY <1>2 DEF ReleasePending, PendingRead, PendingRemove, HandlerExit, Crash, Die,
     HandlerStep, Close
<1>3. CASE Start(p) \/ (\E g \in Goals : Begin(p, g)) \/ Expire(p) \/ Release(p) \/ EndCommand(p)
  BY <1>3 DEF Start, Begin, Expire, Release, EndCommand, LetGo
<1>4. QED
  BY <1>1, <1>2, <1>3 DEF Step

(* The lock path and the records change in few actions.                    *)
LEMMA StepFiles ==
  ASSUME NEW p \in Proc, Step(p)
  PROVE  \/ UNCHANGED <<path, file>>
         \/ Link(p)
         \/ /\ Remove(p) \/ RelRemove(p) \/ PendingRemove(p) \/ ForceRelease(p)
            /\ path' = NoInode /\ file' = file
BY DEF Step, Progress, Start, Begin, LinkExists, Register, Judge, Verdict, OpenForReclaim,
   Flock, Identify, Rejudge, Poll, RelRead, Expire, Release, EndCommand, ReleasePending,
   PendingRead, HandlerExit, Crash, Die, Remove, RelRemove, PendingRemove, ForceRelease, Unlink

(* The ways out only accumulate.                                           *)
LEMMA StepBreach ==
  ASSUME NEW p \in Proc, Step(p)
  PROVE  breach \subseteq breach'
BY DEF Step, Progress, Start, Begin, Link, LinkExists, Register, Judge, Verdict,
   OpenForReclaim, Flock, Identify, Rejudge, Poll, RelRead, Expire, Release, EndCommand,
   ReleasePending, PendingRead, HandlerExit, Crash, Die, Remove, RelRemove, PendingRemove,
   ForceRelease

(* staleFromFields never condemns a process that runs: the judgement is    *)
(* sound whatever pids are reused and whatever machine the record names.   *)
THEOREM StaleIsDead ==
  ASSUME TypeOK, NEW p \in Proc, NEW rec \in Proc \cup {Corrupt}, Stale(p, rec)
  PROVE  rec = Corrupt \/ (rec \in Proc /\ ~Alive(rec))
BY LockConstants DEF Stale, Occupants

-----------------------------------------------------------------------------
(* How a process comes to hold a descriptor, and the flock on it.          *)
LEMMA StepDescriptor ==
  ASSUME TypeOK, NEW p \in Proc, Step(p)
  PROVE  /\ Flocked(p)' => /\ fd'[p] = fd[p]
                           /\ Flocked(p) \/ (pc[p] = "flock" /\ FlockFree(fd[p]))
         /\ pc'[p] = "flock" => \/ (pc[p] = "flock" /\ fd'[p] = fd[p])
                                \/ (fd'[p] = path /\ path \in Inode)
<1> USE DEF TypeOK, Goto, Flocked
<1>1. CASE Link(p) \/ LinkExists(p) \/ Register(p) \/ Judge(p) \/ Verdict(p) \/ Poll(p)
  BY <1>1 DEF Link, LinkExists, Register, Judge, Verdict, Poll, Condemn, ReclaimNone, Return
<1>2. CASE OpenForReclaim(p)
  BY <1>2 DEF OpenForReclaim, ReclaimRestart, Return
<1>11. CASE Flock(p)
  <2>1. CASE FlockFree(fd[p])
    BY <1>11, <2>1 DEF Flock
  <2>2. CASE ~FlockFree(fd[p])
    BY <1>11, <2>2 DEF Flock, ReclaimNone, Return
  <2>3. QED
    BY <2>1, <2>2
<1>3. CASE Identify(p)
  BY <1>3 DEF Identify, ReclaimRestart, Return, Close
<1>4. CASE Rejudge(p)
  <2> DEFINE verdict == Stale(p, file[fd[p]])
  <2>1. pc[p] = "rejudge" /\ ((pc'[p] = "remove" /\ fd' = fd) \/ pc'[p] \in {"wait", "idle"})
    <3>1. CASE verdict
      BY <1>4, <3>1 DEF Rejudge
    <3>2. CASE ~verdict
      BY <1>4, <3>2 DEF Rejudge, ReclaimNone, Return
    <3>3. QED
      BY <3>1, <3>2
  <2>2. QED
    BY <2>1
<1>5. CASE Remove(p)
  BY <1>5 DEF Remove, ReclaimNone, ReclaimDone, Return, Close
<1>6. CASE RelRead(p) \/ RelRemove(p) \/ ForceRelease(p)
  BY <1>6 DEF RelRead, RelRemove, ForceRelease, LetGo, Return
<1>12. CASE Release(p) \/ EndCommand(p)
  BY <1>12 DEF Release, EndCommand, LetGo
<1>7. CASE ReleasePending(p) \/ PendingRead(p) \/ PendingRemove(p) \/ Expire(p)
  BY <1>7 DEF ReleasePending, PendingRead, PendingRemove, Expire
<1>8. CASE HandlerExit(p) \/ Crash(p)
  BY <1>8 DEF HandlerExit, Crash, Die
<1>9. CASE Start(p) \/ (\E g \in Goals : Begin(p, g))
  BY <1>9 DEF Start, Begin
<1>10. QED
  BY <1>1, <1>2, <1>3, <1>4, <1>5, <1>6, <1>7, <1>8, <1>9, <1>11,
     <1>12 DEF Step, Progress

(* The flock keeps reclaimers of one file apart.                           *)
LEMMA StepReclaimers ==
  ASSUME IInv, NEW p \in Proc, Step(p)
  PROVE  OneReclaimerPerFile' /\ ReclaimersOpen'
<1>1. TypeOK /\ OneReclaimerPerFile /\ ReclaimersOpen
  BY DEF IInv
<1>2. OneReclaimerPerFile'
  <2> SUFFICES ASSUME NEW q \in Proc, NEW r \in Proc, Flocked(q)', Flocked(r)',
                      fd'[q] = fd'[r], q # r
               PROVE  FALSE
    BY DEF OneReclaimerPerFile
  <2>1. CASE q = p
    BY <1>1, <2>1, StepDescriptor, StepOthers DEF Flocked, FlockFree, OneReclaimerPerFile
  <2>2. CASE r = p
    BY <1>1, <2>2, StepDescriptor, StepOthers DEF Flocked, FlockFree, OneReclaimerPerFile
  <2>3. CASE q # p /\ r # p
    BY <1>1, <2>3, StepOthers DEF Flocked, OneReclaimerPerFile
  <2>4. QED
    BY <2>1, <2>2, <2>3
<1>3. ReclaimersOpen'
  BY <1>1, StepDescriptor, StepOthers DEF ReclaimersOpen, Flocked
<1>4. QED
  BY <1>2, <1>3

(* No process is ever unborn again, and none that is dead comes back.      *)
LEMMA StepLife ==
  ASSUME TypeOK, NEW p \in Proc, Step(p)
  PROVE  \A q \in Proc : /\ pc[q] # "unborn" => pc'[q] # "unborn"
                         /\ pc[q] = "exited" /\ handler[q] = "off" => pc'[q] = "exited"
<1> USE DEF TypeOK, Goto
<1>1. pc[p] # "unborn" => pc'[p] # "unborn"
  <2>1. CASE Progress(p)
    <3>1. CASE Link(p) \/ LinkExists(p) \/ Register(p) \/ Judge(p) \/ Verdict(p) \/ Poll(p)
      BY <3>1 DEF Link, LinkExists, Register, Judge, Verdict, Poll, Condemn, ReclaimNone, Return
    <3>2. CASE OpenForReclaim(p) \/ Flock(p) \/ Identify(p) \/ Rejudge(p) \/ Remove(p)
      BY <3>2 DEF OpenForReclaim, Flock, Identify, Rejudge, Remove, ReclaimNone,
         ReclaimRestart, ReclaimDone, Return
    <3>3. CASE RelRead(p) \/ RelRemove(p) \/ ForceRelease(p)
      BY <3>3 DEF RelRead, RelRemove, ForceRelease, LetGo, Return
    <3>4. QED
      BY <2>1, <3>1, <3>2, <3>3 DEF Progress
  <2>2. CASE Start(p) \/ (\E g \in Goals : Begin(p, g)) \/ Expire(p) \/ Release(p) \/ EndCommand(p)
    BY <2>2 DEF Start, Begin, Expire, Release, EndCommand, LetGo
  <2>3. CASE ReleasePending(p) \/ PendingRead(p) \/ PendingRemove(p) \/ HandlerExit(p) \/ Crash(p)
    BY <2>3 DEF ReleasePending, PendingRead, PendingRemove, HandlerExit, Crash, Die
  <2>4. QED
    BY <2>1, <2>2, <2>3 DEF Step
<1>2. ~(pc[p] = "exited" /\ handler[p] = "off")
  BY DEF Step, Progress, Start, Begin, Link, LinkExists, Register, Judge, Verdict,
     OpenForReclaim, Flock, Identify, Rejudge, Remove, Poll, RelRead, RelRemove,
     ForceRelease, Expire, Release, EndCommand, ReleasePending, PendingRead,
     PendingRemove, HandlerExit, Crash, Alive, Acquiring
<1>3. QED
  BY <1>1, <1>2, StepOthers

(* The handler runs only for a live process, and removes only while the    *)
(* lock is still on the pending list.                                      *)
LEMMA StepHandler ==
  ASSUME IInv, NEW p \in Proc, Step(p)
  PROVE  HandlerHasPending'
<1> USE DEF HandlerHasPending, Pending, Alive
<1>1. TypeOK /\ HandlerHasPending
  BY DEF IInv
<1>2. /\ handler'[p] \in {"read", "remove"} => pc'[p] \in {"held", "ended"}
      /\ handler'[p] # "off" => pc'[p] \notin {"unborn", "exited"}
  <2> USE <1>1 DEF TypeOK, Goto
  <2>1. CASE handler' = handler /\ pc[p] \notin {"held", "ended"}
    <3>1. pc'[p] # "exited" \/ handler'[p] = "off"
      <4>1. CASE Progress(p)
        <5>1. CASE Link(p) \/ LinkExists(p) \/ Register(p) \/ Judge(p) \/ Verdict(p) \/ Poll(p)
          BY <5>1 DEF Link, LinkExists, Register, Judge, Verdict, Poll, Condemn,
             ReclaimNone, Return
        <5>2. CASE OpenForReclaim(p) \/ Flock(p) \/ Identify(p)
          BY <5>2 DEF OpenForReclaim, Flock, Identify, ReclaimNone, ReclaimRestart, Return
        <5>5. CASE Rejudge(p) \/ Remove(p)
          BY <5>5 DEF Rejudge, Remove, ReclaimNone, ReclaimDone, Return
        <5>3. CASE RelRead(p) \/ RelRemove(p) \/ ForceRelease(p)
          BY <5>3 DEF RelRead, RelRemove, ForceRelease, LetGo, Return
        <5>4. QED
          BY <4>1, <5>1, <5>2, <5>3, <5>5 DEF Progress
      <4>2. CASE Start(p) \/ (\E g \in Goals : Begin(p, g)) \/ Expire(p)
        BY <4>2 DEF Start, Begin, Expire, Acquiring
      <4>3. CASE ReleasePending(p) \/ PendingRead(p) \/ PendingRemove(p)
        BY <4>3, <2>1 DEF ReleasePending, PendingRead, PendingRemove, Alive
      <4>4. CASE Release(p) \/ EndCommand(p)
        BY <4>4, <2>1 DEF Release, EndCommand
      <4>5. CASE HandlerExit(p) \/ Crash(p)
        BY <4>5, <2>1 DEF HandlerExit, Crash, Die, HandlerStep, Alive
      <4>6. QED
        BY <4>1, <4>2, <4>3, <4>4, <4>5 DEF Step
    <3>2. QED
      BY <2>1, <3>1, StepLife
  <2>2. CASE handler' = handler /\ pc[p] \in {"held", "ended"}
    BY <2>2 DEF Step, Progress, Start, Begin, Link, LinkExists, Register, Judge, Verdict,
       OpenForReclaim, Flock, Identify, Rejudge, Remove, Poll, RelRead, RelRemove,
       ForceRelease, Expire, Acquiring, Release, EndCommand, ReleasePending, PendingRead,
       PendingRemove, HandlerExit, Crash, Die, HandlerStep, LetGo
  <2>3. CASE handler' # handler
    <3>1. \/ ReleasePending(p) \/ PendingRead(p) \/ PendingRemove(p)
          \/ HandlerExit(p) \/ Crash(p)
      BY <2>3 DEF Step, Progress, Start, Begin, Link, LinkExists, Register, Judge, Verdict,
         OpenForReclaim, Flock, Identify, Rejudge, Remove, Poll, RelRead, RelRemove,
         ForceRelease, Expire, Release, EndCommand
    <3>2. QED
      BY <3>1 DEF ReleasePending, PendingRead, PendingRemove, HandlerExit, Crash, Die,
         HandlerStep
  <2>4. QED
    BY <2>1, <2>2, <2>3
<1>3. QED
  BY <1>1, <1>2, StepOthers

(* A record names a process that has started.                              *)
LEMMA StepFilesNameStarted ==
  ASSUME IInv, NEW p \in Proc, Step(p)
  PROVE  FilesNameStarted'
<1>1. TypeOK /\ FilesNameStarted
  BY DEF IInv
<1>2. CASE Link(p)
  <2>1. file' = [i \in Inode |-> IF i = path' THEN p ELSE file[i]]
    BY <1>1, <1>2 DEF Link, TypeOK
  <2>2. pc'[p] = "register"
    BY <1>1, <1>2 DEF Link, Goto, TypeOK
  <2>3. QED
    BY <1>1, <2>1, <2>2, StepLife DEF FilesNameStarted, TypeOK
<1>3. CASE file' = file
  BY <1>1, <1>3, StepLife DEF FilesNameStarted, TypeOK
<1>4. QED
  BY <1>2, <1>3, StepFiles

-----------------------------------------------------------------------------
(* Ownership begins with the link and is never regained otherwise.         *)
LEMMA StepOwns ==
  ASSUME IInv, NEW p \in Proc, Step(p), ~Link(p), Owns(p)'
  PROVE  Owns(p) /\ mine'[p] = mine[p]
<1> USE DEF Owns, Working, Releasing, Goto
<1>1. TypeOK /\ HandlerHasPending
  BY DEF IInv
<1>2. CASE Progress(p)
  <2> USE <1>1 DEF TypeOK
  <2>1. CASE LinkExists(p) \/ Register(p) \/ Judge(p) \/ Verdict(p) \/ Poll(p)
    BY <2>1 DEF LinkExists, Register, Judge, Verdict, Poll, Condemn, ReclaimNone, Return
  <2>2. CASE OpenForReclaim(p) \/ Flock(p) \/ Identify(p)
    BY <2>2 DEF OpenForReclaim, Flock, Identify, ReclaimNone, ReclaimRestart, Return
  <2>3. CASE Rejudge(p) \/ Remove(p)
    BY <2>3 DEF Rejudge, Remove, ReclaimNone, ReclaimDone, Return
  <2>4. CASE RelRead(p) \/ RelRemove(p) \/ ForceRelease(p)
    BY <2>4 DEF RelRead, RelRemove, ForceRelease, LetGo, Return
  <2>5. QED
    BY <1>2, <2>1, <2>2, <2>3, <2>4 DEF Progress
<1>3. CASE Start(p) \/ (\E g \in Goals : Begin(p, g)) \/ Expire(p)
  BY <1>1, <1>3 DEF Start, Begin, Expire, TypeOK
<1>4. CASE Release(p) \/ EndCommand(p)
  BY <1>1, <1>4 DEF Release, EndCommand, LetGo, TypeOK
<1>5. CASE ReleasePending(p) \/ PendingRead(p) \/ PendingRemove(p)
  BY <1>1, <1>5 DEF ReleasePending, PendingRead, PendingRemove, HandlerStep, TypeOK
<1>6. CASE HandlerExit(p) \/ Crash(p)
  BY <1>1, <1>6 DEF HandlerExit, Crash, Die, TypeOK
<1>7. QED
  BY <1>2, <1>3, <1>4, <1>5, <1>6 DEF Step

(* A reclaimer comes to its removal by a verdict on the file it holds.     *)
LEMMA StepCondemn ==
  ASSUME IInv, NEW p \in Proc, Step(p), pc'[p] = "remove"
  PROVE  \/ pc[p] = "remove" /\ UNCHANGED <<pc, fd, path, file>>
         \/ Rejudge(p) /\ Stale(p, file[fd[p]])
<1> USE DEF Goto
<1>1. TypeOK
  BY DEF IInv
<1>2. CASE Progress(p)
  <2> USE <1>1 DEF TypeOK
  <2>1. CASE Link(p) \/ LinkExists(p) \/ Register(p) \/ Judge(p) \/ Verdict(p) \/ Poll(p)
    BY <2>1 DEF Link, LinkExists, Register, Judge, Verdict, Poll, Condemn, ReclaimNone, Return
  <2>2. CASE OpenForReclaim(p) \/ Flock(p) \/ Identify(p)
    BY <2>2 DEF OpenForReclaim, Flock, Identify, ReclaimNone, ReclaimRestart, Return
  <2>3. CASE Rejudge(p)
    <3>1. CASE ~Stale(p, file[fd[p]])
      BY <2>3, <3>1 DEF Rejudge, ReclaimNone, Return
    <3>2. QED
      BY <2>3, <3>1
  <2>4. CASE Remove(p)
    BY <2>4 DEF Remove, ReclaimNone, ReclaimDone, Return
  <2>5. CASE RelRead(p) \/ RelRemove(p) \/ ForceRelease(p)
    BY <2>5 DEF RelRead, RelRemove, ForceRelease, LetGo, Return
  <2>6. QED
    BY <1>2, <2>1, <2>2, <2>3, <2>4, <2>5 DEF Progress
<1>3. CASE Start(p) \/ (\E g \in Goals : Begin(p, g)) \/ Release(p) \/ EndCommand(p)
  BY <1>1, <1>3 DEF Start, Begin, Release, EndCommand, LetGo, TypeOK
<1>4. CASE Expire(p) \/ ReleasePending(p) \/ PendingRead(p)
  BY <1>4 DEF Expire, ReleasePending, PendingRead
<1>5. CASE PendingRemove(p)
  BY <1>1, <1>5 DEF PendingRemove, IInv, HandlerHasPending, Pending
<1>6. CASE HandlerExit(p) \/ Crash(p)
  BY <1>1, <1>6 DEF HandlerExit, Crash, Die, TypeOK
<1>7. QED
  BY <1>2, <1>3, <1>4, <1>5, <1>6 DEF Step

(* While no way out is taken, owners keep their file at the path and what  *)
(* a reclaimer is about to remove is a dead process's file, still there.   *)
LEMMA StepStands ==
  ASSUME IInv, NEW p \in Proc, Step(p), breach' = {}
  PROVE  OwnerLockStands' /\ CondemnedIsDead'
<1>1. /\ TypeOK /\ OneReclaimerPerFile /\ FilesNameStarted /\ HandlerHasPending
      /\ ReclaimersOpen /\ OwnerLockStands /\ CondemnedIsDead
  BY StepBreach DEF IInv
<1>2. ASSUME NEW q \in Proc, Owns(q)
      PROVE  Alive(q) /\ path = mine[q] /\ path \in Inode /\ file[path] = q
  BY <1>1, <1>2 DEF Owns, Alive, Working, Releasing, OwnerLockStands, TypeOK
<1>3. ASSUME NEW q \in Proc, pc[q] = "remove"
      PROVE  /\ path = fd[q] /\ path \in Inode
             /\ file[path] = Corrupt \/ (file[path] \in Proc /\ pc[file[path]] = "exited")
  BY <1>1, <1>3 DEF CondemnedIsDead, TypeOK
<1>4. ASSUME NEW q \in Proc, q # p
      PROVE  /\ Owns(q)' <=> Owns(q)
             /\ mine'[q] = mine[q] /\ pc'[q] = pc[q] /\ fd'[q] = fd[q]
  BY <1>1, <1>4, StepOthers DEF Owns, Working
<1>5. CASE Link(p)
  <2>1. /\ path = NoInode /\ pc'[p] = "register" /\ path' \in Inode
        /\ mine'[p] = path' /\ file'[path'] = p
    BY <1>1, <1>5 DEF Link, Goto, TypeOK
  <2>2. \A q \in Proc : ~Owns(q) /\ pc[q] # "remove"
    BY <1>2, <1>3, <2>1, LockConstants
  <2>3. OwnerLockStands'
    BY <1>4, <2>1, <2>2, LockConstants DEF OwnerLockStands
  <2>4. CondemnedIsDead'
    BY <1>4, <2>1, <2>2 DEF CondemnedIsDead
  <2>5. QED
    BY <2>3, <2>4
<1>6. CASE UNCHANGED <<path, file>> /\ ~Link(p)
  <2>1. OwnerLockStands'
    <3> SUFFICES ASSUME NEW q \in Proc, Owns(q)'
                 PROVE  path = mine'[q] /\ path # NoInode /\ file[path] = q
      BY <1>6 DEF OwnerLockStands
    <3>1. Owns(q) /\ mine'[q] = mine[q]
      BY <1>4, <1>6, StepOwns
    <3>2. QED
      BY <1>2, <3>1, LockConstants
  <2>2. CondemnedIsDead'
    <3> SUFFICES ASSUME NEW q \in Proc, pc'[q] = "remove"
                 PROVE  /\ path = fd'[q] /\ path # NoInode
                        /\ file[path] = Corrupt \/ pc'[file[path]] = "exited"
      BY <1>6 DEF CondemnedIsDead
    <3>1. ASSUME pc[q] = "remove", fd'[q] = fd[q]
          PROVE  /\ path = fd'[q] /\ path # NoInode
                 /\ file[path] = Corrupt \/ pc'[file[path]] = "exited"
      BY <1>1, <1>3, <3>1, StepLife, LockConstants DEF HandlerHasPending, Alive, TypeOK, HandlerAt
    <3>2. CASE q # p
      BY <1>4, <3>1, <3>2
    <3>3. CASE q = p /\ Rejudge(p) /\ Stale(p, file[fd[p]])
      <4>1. path = fd[p] /\ fd' = fd /\ path \in Inode
        BY <1>1, <3>3 DEF Rejudge, ReclaimersOpen, Flocked
      <4>2. file[path] = Corrupt \/ (file[path] \in Proc /\ ~Alive(file[path]))
        BY <1>1, <3>3, <4>1, StaleIsDead DEF TypeOK
      <4>3. file[path] # Corrupt => pc[file[path]] = "exited" /\ handler[file[path]] = "off"
        BY <1>1, <4>1, <4>2 DEF FilesNameStarted, HandlerHasPending, Alive
      <4>4. QED
        BY <1>1, <3>3, <4>1, <4>2, <4>3, StepLife, LockConstants
    <3>4. QED
      BY <3>1, <3>2, <3>3, StepCondemn
  <2>3. QED
    BY <2>1, <2>2
<1>7. CASE /\ ~Link(p)
           /\ Remove(p) \/ RelRemove(p) \/ PendingRemove(p) \/ ForceRelease(p)
           /\ path' = NoInode /\ file' = file
  <2>1. \A q \in Proc : ~Owns(q)'
    <3> SUFFICES ASSUME NEW q \in Proc, Owns(q), Owns(q)'
                 PROVE  FALSE
      BY <1>4, <1>7, StepOwns
    <3>1. Alive(q) /\ path \in Inode /\ file[path] = q
      BY <1>2
    <3>2. CASE Remove(p)
      BY <1>3, <3>1, <3>2, LockConstants DEF Remove, Alive
    <3>3. CASE RelRemove(p)
      <4>1. Owns(p) /\ pc'[p] = "idle"
        BY <1>1, <3>3 DEF RelRemove, LetGo, Goto, Owns, Releasing, TypeOK
      <4>2. q = p
        BY <1>2, <3>1, <4>1
      <4>3. QED
        BY <4>1, <4>2 DEF Owns, Working, Releasing
    <3>4. CASE PendingRemove(p)
      <4>1. pc[p] = "ended" /\ handler[p] = "remove" /\ pc'[p] = "ended" /\ handler'[p] = "exiting"
        BY <1>1, <3>4 DEF PendingRemove, HandlerStep, HandlerHasPending, Pending, TypeOK
      <4>2. q = p
        BY <1>2, <3>1, <4>1 DEF Owns
      <4>3. QED
        BY <4>1, <4>2 DEF Owns, Working, Releasing
    <3>5. CASE ForceRelease(p)
      BY <3>1, <3>5, LockConstants DEF ForceRelease
    <3>6. QED
      BY <1>7, <3>2, <3>3, <3>4, <3>5
  <2>2. \A q \in Proc : pc'[q] # "remove"
    <3> SUFFICES ASSUME NEW q \in Proc, pc'[q] = "remove"
                 PROVE  FALSE
      OBVIOUS
    <3>1. q # p
      <4>1. ~Rejudge(p)
        BY <1>1, <1>7 DEF Remove, RelRemove, PendingRemove, ForceRelease, Rejudge,
           HandlerHasPending, Pending
      <4>2. pc[p] = "remove" => Remove(p)
        BY <1>1, <1>7 DEF RelRemove, PendingRemove, ForceRelease, HandlerHasPending, Pending
      <4>3. Remove(p) => pc'[p] # "remove"
        BY <1>1 DEF Remove, ReclaimNone, ReclaimDone, Return, Goto, TypeOK
      <4>4. QED
        BY <4>1, <4>2, <4>3, StepCondemn
    <3>2. pc[q] = "remove"
      BY <1>4, <3>1
    <3>3. CASE Remove(p)
      BY <1>1, <1>3, <3>1, <3>2, <3>3 DEF Remove, OneReclaimerPerFile, Flocked
    <3>4. CASE RelRemove(p) \/ PendingRemove(p)
      <4>1. Owns(p)
        BY <1>1, <3>4 DEF RelRemove, PendingRemove, Owns, Releasing, Working,
           HandlerHasPending, Pending
      <4>2. QED
        BY <1>2, <1>3, <3>2, <4>1, LockConstants DEF Alive
    <3>5. CASE ForceRelease(p)
      BY <1>3, <3>2, <3>5, LockConstants DEF ForceRelease
    <3>6. QED
      BY <1>7, <3>3, <3>4, <3>5
  <2>3. QED
    BY <2>1, <2>2 DEF OwnerLockStands, CondemnedIsDead
<1>8. QED
  BY <1>5, <1>6, <1>7, StepFiles

-----------------------------------------------------------------------------
(* Every step keeps the inductive invariant.                               *)
LEMMA NextIInv == IInv /\ [Next]_vars => IInv'
<1> SUFFICES ASSUME IInv, [Next]_vars PROVE IInv'
  OBVIOUS
<1>1. CASE UNCHANGED vars
  BY <1>1 DEF vars, IInv, TypeOK, OneReclaimerPerFile, FilesNameStarted,
     HandlerHasPending, ReclaimersOpen, OwnerLockStands, CondemnedIsDead, Owns, Working,
     Flocked, Pending, Alive
<1>2. ASSUME NEW p \in Proc, Step(p)
      PROVE  IInv'
  <2>1. TypeOK'
    BY <1>2, StepTypeOK DEF IInv
  <2>2. OneReclaimerPerFile' /\ ReclaimersOpen'
    BY <1>2, StepReclaimers
  <2>3. FilesNameStarted' /\ HandlerHasPending'
    BY <1>2, StepFilesNameStarted, StepHandler
  <2>4. breach' = {} => OwnerLockStands' /\ CondemnedIsDead'
    BY <1>2, StepStands
  <2>5. QED
    BY <2>1, <2>2, <2>3, <2>4 DEF IInv
<1>3. QED
  BY <1>1, <1>2 DEF Next

(* It holds before any process has started.                                *)
LEMMA InitIInv == Init => IInv
<1> SUFFICES ASSUME Init PROVE IInv
  OBVIOUS
<1>1. TypeOK
  BY InitTypeOK
<1>2. \A p \in Proc : pc[p] = "unborn" /\ handler[p] = "off"
  BY DEF Init
<1>3. \A i \in Inode : file[i] = Corrupt
  BY DEF Init
<1>4. OwnerLockStands /\ CondemnedIsDead /\ OneReclaimerPerFile /\ HandlerHasPending
      /\ ReclaimersOpen
  BY <1>2 DEF OwnerLockStands, CondemnedIsDead, OneReclaimerPerFile, HandlerHasPending,
     ReclaimersOpen, Owns, Working, Releasing, Flocked
<1>5. QED
  BY <1>1, <1>3, <1>4 DEF IInv, FilesNameStarted

(* The inductive invariant holds of every behaviour: unless a way out of   *)
(* exclusion is taken, an owner's file stands and a condemned one is dead. *)
THEOREM Invariance == Spec => []IInv
BY InitIInv, NextIInv, PTL DEF Spec

(* Every variable stays in its range.                                      *)
THEOREM TypeCorrect == Spec => []TypeOK
<1>1. IInv => TypeOK
  BY DEF IInv
<1>2. QED
  BY Invariance, <1>1, PTL

(* Mutual exclusion: two processes work under one lock at once only after  *)
(* a late verdict, a signal to a holder, or an unlock has freed the path.  *)
THEOREM ExclusionHolds == Spec => []ExclusionUnlessBreached
<1>1. IInv => ExclusionUnlessBreached
  BY DEF IInv, ExclusionUnlessBreached, Exclusion, OwnerLockStands, Owns
<1>2. QED
  BY Invariance, <1>1, PTL

(* A worker's lock file stays at the path until one of those happens.      *)
THEOREM WorkerLockHolds == Spec => []WorkerLockStands
<1>1. IInv => WorkerLockStands
  BY DEF IInv, WorkerLockStands, OwnerLockStands, Owns
<1>2. QED
  BY Invariance, <1>1, PTL

(* The flock admits one reclaimer to a file, whatever else happens.        *)
THEOREM OneReclaimerHolds == Spec => []OneReclaimerPerFile
<1>1. IInv => OneReclaimerPerFile
  BY DEF IInv
<1>2. QED
  BY Invariance, <1>1, PTL

-----------------------------------------------------------------------------
(* What the path names is the file its maker published, unless that is     *)
(* dead: no process lets go of a path that still names a file of its own.  *)
PathIsPublished ==
  \A p \in Proc : path # NoInode /\ file[path] = p => pc[p] = "exited" \/ mine[p] = path

(* A process forgets the file it published when the path no longer names   *)
(* it, or by its end.                                                      *)
LEMMA StepForgets ==
  ASSUME IInv, NEW p \in Proc, Step(p), ~Link(p)
  PROVE  \/ mine'[p] = mine[p]
         \/ pc'[p] = "exited"
         \/ path' = path /\ path # mine[p]
         \/ path' = path /\ (path = NoInode \/ file[path] # p)
         \/ path' = NoInode
<1> USE DEF Goto
<1>1. TypeOK
  BY DEF IInv
<1>2. CASE Release(p) \/ RelRead(p) \/ RelRemove(p)
  BY <1>2 DEF Release, RelRead, RelRemove, Unlink
<1>3. CASE HandlerExit(p) \/ Crash(p)
  BY <1>1, <1>3 DEF HandlerExit, Crash, Die, TypeOK
<1>4. QED
  BY <1>2, <1>3 DEF Step, Progress, Start, Begin, LinkExists, Register, Judge, Verdict,
     OpenForReclaim, Flock, Identify, Rejudge, Remove, Poll, ForceRelease, Expire,
     EndCommand, ReleasePending, PendingRead, PendingRemove

LEMMA StepPublished ==
  ASSUME IInv, PathIsPublished, NEW p \in Proc, Step(p)
  PROVE  PathIsPublished'
<1>1. TypeOK /\ HandlerHasPending
  BY DEF IInv
<1>2. CASE Link(p)
  <2>1. path' \in Inode /\ file'[path'] = p /\ mine'[p] = path'
    BY <1>1, <1>2 DEF Link, TypeOK
  <2>2. QED
    BY <2>1 DEF PathIsPublished
<1>3. CASE path' = NoInode
  BY <1>3 DEF PathIsPublished
<1>4. CASE ~Link(p) /\ UNCHANGED <<path, file>>
  <2> SUFFICES ASSUME NEW q \in Proc, path # NoInode, file[path] = q
               PROVE  pc'[q] = "exited" \/ mine'[q] = path
    BY <1>4 DEF PathIsPublished
  <2>1. pc[q] = "exited" \/ mine[q] = path
    BY DEF PathIsPublished
  <2>2. CASE pc[q] = "exited"
    BY <1>1, <2>2, StepLife DEF HandlerHasPending, Alive
  <2>3. CASE q # p
    BY <1>1, <2>1, <2>3, StepOthers
  <2>4. CASE q = p /\ mine[q] = path
    BY <1>4, <2>4, StepForgets
  <2>5. QED
    BY <2>1, <2>2, <2>3, <2>4
<1>5. QED
  BY <1>2, <1>3, <1>4, StepFiles

(* Who comes between the read of its record and its removal of the path    *)
(* has just found its own record there; who stays there keeps what it had  *)
(* published, and is overtaken by every removal of another's.              *)
LEMMA StepOvertaken ==
  ASSUME IInv, NEW p \in Proc, Step(p), NEW q \in Overtaken'
  PROVE  \/ /\ q \in Overtaken /\ mine'[q] = mine[q]
            /\ q \in raced => q \in raced'
            /\ path' # path => Link(p) \/ q \in raced'
         \/ /\ q = p /\ UNCHANGED <<path, file, mine>> /\ path # NoInode
            /\ file[path] = p /\ pc[p] # "exited"
<1> USE DEF Goto
<1>1. TypeOK /\ HandlerHasPending
  BY DEF IInv
<1>2. q \in Proc
  BY DEF Overtaken
<1>3. CASE q # p
  <2>1. q \in Overtaken /\ mine'[q] = mine[q]
    BY <1>1, <1>2, <1>3, StepOthers DEF Overtaken
  <2>2. CASE Remove(p) \/ RelRemove(p) \/ PendingRemove(p) \/ ForceRelease(p)
    <3>1. Unlink(p)
      BY <2>2 DEF Remove, RelRemove, PendingRemove, ForceRelease
    <3>2. QED
      BY <1>3, <2>1, <3>1 DEF Unlink
  <2>3. CASE ~(Remove(p) \/ RelRemove(p) \/ PendingRemove(p) \/ ForceRelease(p))
    <3>1. q \in raced => q \in raced'
      BY <1>3, <2>3 DEF Step, Progress, Start, Begin, Link, LinkExists, Register, Judge, Verdict,
         OpenForReclaim, Flock, Identify, Rejudge, Poll, RelRead, Expire, Release,
         EndCommand, ReleasePending, PendingRead, HandlerExit, Crash, Die
    <3>2. QED
      BY <2>1, <2>3, <3>1, StepFiles
  <2>4. QED
    BY <2>2, <2>3
<1>4. CASE q = p
  <2> USE <1>1, <1>4 DEF TypeOK
  <2>1. pc'[p] = "relremove" \/ handler'[p] = "remove"
    BY DEF Overtaken
  <2>2. CASE RelRead(p) \/ PendingRead(p)
    BY <2>1, <2>2 DEF RelRead, PendingRead, HandlerStep, LetGo, HandlerHasPending, Pending, Overtaken, Alive
  <2>3. CASE Link(p) \/ LinkExists(p) \/ Register(p) \/ Judge(p) \/ Verdict(p) \/ Poll(p)
    BY <2>1, <2>3 DEF Link, LinkExists, Register, Judge, Verdict, Poll, Condemn, ReclaimNone, Return,
       HandlerHasPending, Pending
  <2>4. CASE OpenForReclaim(p) \/ Flock(p) \/ Identify(p)
    BY <2>1, <2>4 DEF OpenForReclaim, Flock, Identify, ReclaimNone, ReclaimRestart, Return,
       HandlerHasPending, Pending
  <2>5. CASE Rejudge(p) \/ Remove(p)
    BY <2>1, <2>5 DEF Rejudge, Remove, ReclaimNone, ReclaimDone, Return, HandlerHasPending, Pending
  <2>6. CASE RelRemove(p) \/ PendingRemove(p) \/ ForceRelease(p)
    BY <2>1, <2>6 DEF RelRemove, PendingRemove, ForceRelease, LetGo, Return, HandlerStep,
       HandlerHasPending, Pending
  <2>7. CASE HandlerExit(p) \/ Crash(p)
    BY <2>1, <2>7 DEF HandlerExit, Crash, Die, HandlerStep
  <2>8. CASE Start(p) \/ (\E g \in Goals : Begin(p, g)) \/ Expire(p)
    BY <2>1, <2>8 DEF Start, Begin, Expire, Overtaken
  <2>9. CASE Release(p) \/ EndCommand(p) \/ ReleasePending(p)
    BY <2>1, <2>9 DEF Release, EndCommand, ReleasePending, LetGo, HandlerStep, Overtaken
  <2>10. QED
    BY <2>2, <2>3, <2>4, <2>5, <2>6, <2>7, <2>8, <2>9 DEF Step, Progress
<1>5. QED
  BY <1>3, <1>4

(* A releaser that nobody overtakes removes its own file: a holder that    *)
(* finishes late deletes no newcomer's, even where inodes are recycled.    *)
THEOREM ReleaseIsOfOwn == Spec => []ReleaseRemovesOnlyOwn
<1>1. Init => PathIsPublished /\ ReleaseRemovesOnlyOwn
  BY LockConstants DEF Init, PathIsPublished, ReleaseRemovesOnlyOwn, Overtaken
<1>2. IInv /\ PathIsPublished /\ ReleaseRemovesOnlyOwn /\ [Next]_vars
         => PathIsPublished' /\ ReleaseRemovesOnlyOwn'
  <2> SUFFICES ASSUME IInv, PathIsPublished, ReleaseRemovesOnlyOwn, [Next]_vars
               PROVE  PathIsPublished' /\ ReleaseRemovesOnlyOwn'
    OBVIOUS
  <2>1. CASE UNCHANGED vars
    BY <2>1 DEF vars, PathIsPublished, ReleaseRemovesOnlyOwn, Overtaken
  <2>2. ASSUME NEW p \in Proc, Step(p)
        PROVE  PathIsPublished' /\ ReleaseRemovesOnlyOwn'
    <3>1. PathIsPublished'
      BY <2>2, StepPublished
    <3>2. ASSUME NEW q \in Overtaken', q \notin raced'
          PROVE  path' = mine'[q] /\ path' # NoInode /\ file'[path'] = q
      <4>1. CASE q \in Overtaken /\ mine'[q] = mine[q] /\ q \notin raced
                 /\ (path' # path => Link(p))
        <5>1. path = mine[q] /\ path # NoInode /\ file[path] = q
          BY <4>1 DEF ReleaseRemovesOnlyOwn
        <5>2. ~Link(p)
          BY <5>1 DEF Link
        <5>3. UNCHANGED <<path, file>>
          BY <2>2, <4>1, <5>1, <5>2, StepFiles
        <5>4. QED
          BY <4>1, <5>1, <5>3
      <4>2. CASE /\ q = p /\ UNCHANGED <<path, file, mine>> /\ path # NoInode
                 /\ file[path] = p /\ pc[p] # "exited"
        BY <4>2 DEF PathIsPublished
      <4>3. QED
        BY <2>2, <3>2, <4>1, <4>2, StepOvertaken
    <3>3. QED
      BY <3>1, <3>2 DEF ReleaseRemovesOnlyOwn
  <2>3. QED
    BY <2>1, <2>2 DEF Next
<1>3. QED
  BY <1>1, <1>2, Invariance, PTL DEF Spec

-----------------------------------------------------------------------------
(* Refinement.  The views that Mutex's variables are given.                *)
Living  == {p \in Proc : Alive(p)}
Workers == {p \in Proc : Working(p)}
Owner   == IF path = NoInode THEN NoInode ELSE file[path]

(* A step while no way out is taken is a step of the abstract lock on      *)
(* these views, or changes none of them.                                   *)
LEMMA StepRefines ==
  ASSUME IInv, TypeOK', NEW p \in Proc, Step(p), breach' = {}
  PROVE  \/ UNCHANGED <<Living, Owner, Workers>>
         \/ p \notin Living /\ Living' = Living \cup {p} /\ UNCHANGED <<Owner, Workers>>
         \/ /\ p \in Living /\ Owner = NoInode /\ Owner' = p
            /\ Workers' = Workers \cup {p} /\ Living' = Living
         \/ Workers' = Workers \ {p} /\ UNCHANGED <<Living, Owner>>
         \/ /\ Owner = p /\ p \notin Workers
            /\ Owner' = NoInode /\ UNCHANGED <<Living, Workers>>
         \/ /\ Owner \notin Living
            /\ Owner' = NoInode /\ UNCHANGED <<Living, Workers>>
         \/ /\ Living' = Living \ {p} /\ Workers' = Workers \ {p} /\ Owner' = Owner
<1>1. /\ TypeOK /\ HandlerHasPending /\ OwnerLockStands /\ CondemnedIsDead
  BY StepBreach DEF IInv
<1>2. \A q \in Proc : q # p => (Alive(q)' <=> Alive(q)) /\ (Working(q)' <=> Working(q))
  BY <1>1, StepOthers DEF Alive, Working
<1>3. /\ (Alive(p)' <=> Alive(p)) => Living' = Living
      /\ (Working(p)' <=> Working(p)) => Workers' = Workers
      /\ Alive(p)' => Living' = Living \cup {p}
      /\ ~Alive(p)' => Living' = Living \ {p}
      /\ Working(p)' => Workers' = Workers \cup {p}
      /\ ~Working(p)' => Workers' = Workers \ {p}
  BY <1>2 DEF Living, Workers
<1>4. UNCHANGED <<path, file>> => Owner' = Owner
  BY DEF Owner
<1>5. CASE Link(p)
  <2>1. pc[p] = "link" /\ pc'[p] = "register" /\ path = NoInode /\ path' \in Inode /\ file'[path'] = p
    BY <1>1, <1>5 DEF Link, Goto, TypeOK
  <2>2. Owner = NoInode /\ Owner' = p
    BY <2>1, LockConstants DEF Owner
  <2>3. p \in Living /\ Living' = Living /\ Workers' = Workers \cup {p}
    BY <1>3, <2>1 DEF Living, Alive, Working
  <2>4. QED
    BY <2>2, <2>3
<1>6. CASE UNCHANGED <<path, file>>
  <2>1. Owner' = Owner
    BY <1>4, <1>6
  <2>2. CASE Alive(p) /\ ~Alive(p)'
    BY <1>3, <2>1, <2>2 DEF Alive, Working
  <2>3. CASE ~Alive(p) /\ Alive(p)'
    <3>1. ~Working(p) /\ ~Working(p)'
      <4>1. ~Working(p)
        BY <2>3 DEF Alive, Working
      <4>2. Start(p)
        BY <1>1, <2>3 DEF Step, Progress, Begin, Link, LinkExists, Register, Judge,
           Verdict, OpenForReclaim, Flock, Identify, Rejudge, Remove, Poll, RelRead,
           RelRemove, ForceRelease, Expire, Acquiring, Release, EndCommand, ReleasePending,
           PendingRead, PendingRemove, HandlerExit, Crash, HandlerHasPending, Alive
      <4>3. QED
        BY <1>1, <4>1, <4>2 DEF Start, Goto, Working, TypeOK
    <3>2. QED
      BY <1>3, <2>1, <2>3, <3>1 DEF Living
  <2>4. CASE (Alive(p) <=> Alive(p)') /\ ~Working(p)'
    BY <1>3, <2>1, <2>4
  <2>5. CASE (Alive(p) <=> Alive(p)') /\ Working(p)'
    <3>1. Working(p)
      <4>1. ~Link(p) \/ path' # path
        BY <1>1, LockConstants DEF Link, TypeOK
      <4>2. Owns(p)
        BY <1>6, <2>5, <4>1, StepOwns DEF Owns
      <4>3. CASE pc[p] \in Releasing \/ pc[p] = "ended"
        BY <1>1, <2>5, <4>3 DEF Step, Progress, Start, Begin, Link, LinkExists, Register, Judge,
           Verdict, OpenForReclaim, Flock, Identify, Rejudge, Remove, Poll, RelRead,
           RelRemove, ForceRelease, Expire, Acquiring, Releasing, Release, EndCommand,
           ReleasePending, PendingRead, PendingRemove, HandlerExit, Crash, Die, LetGo,
           Goto, Working, TypeOK
      <4>4. QED
        BY <4>2, <4>3 DEF Owns
    <3>2. QED
      BY <1>3, <2>1, <2>5, <3>1
  <2>6. QED
    BY <2>2, <2>3, <2>4, <2>5
<1>7. CASE /\ Remove(p) \/ RelRemove(p) \/ PendingRemove(p) \/ ForceRelease(p)
           /\ path' = NoInode /\ file' = file
  <2>1. Owner' = NoInode
    BY <1>7 DEF Owner
  <2>2. /\ (Alive(p)' <=> Alive(p)) /\ ~Working(p) /\ ~Working(p)'
        /\ RelRemove(p) \/ PendingRemove(p) => Owns(p)
    <3>1. CASE Remove(p)
      BY <1>1, <3>1 DEF Remove, ReclaimNone, ReclaimDone, Return, Goto, TypeOK, Alive, Working,
         RelRemove, PendingRemove, HandlerHasPending, Pending
    <3>2. CASE RelRemove(p)
      BY <1>1, <3>2 DEF RelRemove, LetGo, Goto, TypeOK, Alive, Working, Owns, Releasing
    <3>3. CASE PendingRemove(p)
      BY <1>1, <3>3 DEF PendingRemove, HandlerHasPending, Pending, TypeOK, Alive, Working, Owns
    <3>4. CASE ForceRelease(p)
      BY <1>1, <3>4 DEF ForceRelease, Return, Goto, TypeOK, Alive, Working,
         RelRemove, PendingRemove, HandlerHasPending, Pending
    <3>5. QED
      BY <1>7, <3>1, <3>2, <3>3, <3>4
  <2>3. Living' = Living /\ Workers' = Workers /\ p \notin Workers
    BY <1>3, <2>2 DEF Workers
  <2>4. CASE RelRemove(p) \/ PendingRemove(p)
    <3>1. Owner = p
      BY <1>1, <2>2, <2>4 DEF OwnerLockStands, Owner
    <3>2. QED
      BY <2>1, <2>3, <3>1
  <2>5. CASE Remove(p)
    <3>1. Owner \notin Living
      BY <1>1, <2>5, LockConstants DEF Remove, CondemnedIsDead, Owner, Living, Alive
    <3>2. QED
      BY <2>1, <2>3, <3>1
  <2>6. CASE ForceRelease(p)
    <3>1. Owner \notin Living
      BY <2>6, LockConstants DEF ForceRelease, Owner, Living
    <3>2. QED
      BY <2>1, <2>3, <3>1
  <2>7. QED
    BY <1>7, <2>4, <2>5, <2>6
<1>8. QED
  BY <1>5, <1>6, <1>7, StepFiles

(* RefLock implements Mutex: until a way out is taken the path is freed    *)
(* only by an owner that has stopped working or after its owner's death.   *)
THEOREM LockRefinesMutex == Spec => ImplementsMutex
<1>1. Init => Abstract!Init
  <2> SUFFICES ASSUME Init PROVE Abstract!Init
    OBVIOUS
  <2>1. \A p \in Proc : pc[p] = "unborn"
    BY DEF Init
  <2>2. Owner \notin Proc
    BY LockConstants DEF Init, Owner
  <2>3. QED
    BY <2>1, <2>2 DEF Init, Abstract!Init, Alive, Working, Owner
<1>2. IInv /\ IInv' /\ [Next]_vars => [Abstract!Next]_(Abstract!mvars)
  <2> SUFFICES ASSUME IInv, IInv', [Next]_vars
               PROVE  [Abstract!Next]_(Abstract!mvars)
    OBVIOUS
  <2>1. CASE UNCHANGED vars
    BY <2>1 DEF vars, Abstract!mvars, Alive, Working
  <2>2. CASE breach' # {}
    BY <2>2 DEF Abstract!Next
  <2>3. ASSUME NEW p \in Proc, Step(p), breach' = {}
        PROVE  [Abstract!Next]_(Abstract!mvars)
    <3>1. breach = {}
      BY <2>3, StepBreach
    <3>2. TypeOK'
      BY DEF IInv
    <3>3. QED
      BY <2>3, <3>1, <3>2, StepRefines
      DEF Abstract!Next, Abstract!mvars, Abstract!Kept, Abstract!Spawn, Abstract!Take,
          Abstract!Stop, Abstract!Give, Abstract!Reap, Abstract!Die, Living, Owner, Workers
  <2>4. QED
    BY <2>1, <2>2, <2>3 DEF Next
<1>3. QED
  BY <1>1, <1>2, Invariance, PTL DEF Spec, ImplementsMutex, Abstract!MutexSpec
=============================================================================

------------------------------ MODULE RefLock ------------------------------
(***************************************************************************)
(* One lock file of internal/lock: the processes that acquire it, wait for *)
(* it, reclaim it from a dead holder, release it, sweep it (doctor) and    *)
(* force it (`safegit unlock'), step by system call.                       *)
(*                                                                         *)
(* A process of the model is one process INSTANCE: it starts once and dies *)
(* once; two instances may be given the same pid, one after the other.     *)
(* The path names a file by its inode, and an inode nobody names or has    *)
(* open is free to be handed out again.  A file is written before it is    *)
(* linked and never after, so its content is its owner record, abstracted  *)
(* to the instance it names (the record's pid, host and start identity are *)
(* functions of that instance) or Corrupt (no parseable pid).              *)
(***************************************************************************)
EXTENDS Naturals, FiniteSets

CONSTANTS
  Proc,        \* process instances
  Inode,       \* inode numbers of the file system
  NoInode,     \* no such file
  Corrupt,     \* a record without a parseable pid
  PidOf,       \* the pid of each instance
  HostOf,      \* the machine each instance runs on
  StartKnown,  \* the platform reports process start times
  Signals,     \* SIGINT and SIGTERM are delivered
  Unlocks      \* operators run `safegit unlock'

ASSUME LockConstants ==
  /\ NoInode \notin Inode \cup Proc
  /\ Corrupt \notin Proc
  /\ {StartKnown, Signals, Unlocks} \subseteq BOOLEAN

VARIABLES
  pc,       \* where each process stands
  goal,     \* what it came for: acquire, sweep or unlock
  path,     \* the inode the lock path names
  file,     \* the record each inode holds
  mine,     \* the inode a process published (publication.info)
  fd,       \* the descriptor a reclaimer holds
  seen,     \* the record IsStale read
  late,     \* the processes whose deadline has passed
  handler,  \* the signal handler, or the command's closing ReleasePending
  breach,   \* history: the ways out of mutual exclusion taken so far
  raced     \* history: releasers overtaken between their read and their removal

vars == <<pc, goal, path, file, mine, fd, seen, late, handler, breach, raced>>

Acquiring == {"link", "judge", "verdict", "open", "flock", "identify",
              "rejudge", "remove", "wait"}
Releasing == {"relread", "relremove"}
Locations == Acquiring \cup Releasing \cup
             {"unborn", "idle", "register", "held", "ended", "force", "exited"}
HandlerAt == {"off", "read", "remove", "exiting"}
Goals     == {"acquire", "sweep", "unlock"}
Breaches  == {"late_verdict", "signal", "unlock"}

Alive(p)   == pc[p] \notin {"unborn", "exited"}
Working(p) == pc[p] \in {"register", "held"}

(* reclaimLocked runs with the flock of the file it has open.              *)
Flocked(p) == pc[p] \in {"identify", "rejudge", "remove"}

FlockFree(i) == \A q \in Proc : Flocked(q) => fd[q] # i

FreeInode(i) == i # path /\ \A q \in Proc : fd[q] # i

-----------------------------------------------------------------------------
(* procutil.ProcessAlive and StartTime: the instance now living at a pid.  *)
Occupants(q) ==
  {r \in Proc : Alive(r) /\ HostOf[r] = HostOf[q] /\ PidOf[r] = PidOf[q]}

(* staleFromFields: another machine's record is never stale; otherwise the *)
(* pid is dead, or lives as an instance with another start identity.       *)
Stale(p, rec) ==
  \/ rec = Corrupt
  \/ /\ HostOf[rec] = HostOf[p]
     /\ \/ Occupants(rec) = {}
        \/ StartKnown /\ rec \notin Occupants(rec)

-----------------------------------------------------------------------------
Init ==
  /\ pc = [p \in Proc |-> "unborn"]
  /\ goal = [p \in Proc |-> "acquire"]
  /\ path \in Inode \cup {NoInode}
  /\ file = [i \in Inode |-> Corrupt]
  /\ mine = [p \in Proc |-> NoInode]
  /\ fd = [p \in Proc |-> NoInode]
  /\ seen = [p \in Proc |-> Corrupt]
  /\ late = {}
  /\ handler = [p \in Proc |-> "off"]
  /\ breach = {}
  /\ raced = {}

Goto(p, to) == pc' = [pc EXCEPT ![p] = to]

(* Back to the command layer, the acquisition or the sweep over.           *)
Return(p) ==
  /\ Goto(p, "idle")
  /\ goal' = [goal EXCEPT ![p] = "acquire"]
  /\ late' = late \ {p}

(* The three outcomes of a reclamation attempt.  Only Acquire goes on.     *)
ReclaimNone(p) ==
  IF goal[p] = "acquire" THEN Goto(p, "wait") /\ UNCHANGED <<goal, late>>
                         ELSE Return(p)
(* Mutant of ReclaimRestart: the restart skips the deadline.               *)
ReclaimAgain(p) ==
  IF goal[p] = "acquire" THEN Goto(p, "link") /\ UNCHANGED <<goal, late>> ELSE Return(p)

ReclaimRestart(p) ==
  IF goal[p] = "acquire"
    THEN Goto(p, IF p \in late THEN "wait" ELSE "link") /\ UNCHANGED <<goal, late>>
    ELSE Return(p)
ReclaimDone(p) ==
  IF goal[p] = "acquire" THEN Goto(p, "link") /\ UNCHANGED <<goal, late>>
                         ELSE Return(p)

Close(p) == fd' = [fd EXCEPT ![p] = NoInode]

-----------------------------------------------------------------------------
(* A process starts under a pid no live process of its machine has.        *)
Start(p) ==
  /\ pc[p] = "unborn"
  /\ Occupants(p) = {}
  /\ Goto(p, "idle")
  /\ UNCHANGED <<goal, path, file, mine, fd, seen, late, handler, breach, raced>>

(* A command comes to the lock: to take it, to sweep it, or to force it.   *)
(* The sweep and the unlock have just seen a file at the path.             *)
Begin(p, g) ==
  /\ pc[p] = "idle"
  /\ g # "acquire" => path # NoInode
  /\ g = "unlock" => Unlocks
  /\ goal' = [goal EXCEPT ![p] = g]
  /\ Goto(p, IF g = "acquire" THEN "link" ELSE "judge")
  /\ UNCHANGED <<path, file, mine, fd, seen, late, handler, breach, raced>>

(* Mutant of Link: the record is renamed into place, whatever is there.    *)
LinkOver(p) ==
  /\ pc[p] = "link"
  /\ \E i \in Inode :
       /\ FreeInode(i)
       /\ path' = i
       /\ file' = [file EXCEPT ![i] = p]
       /\ mine' = [mine EXCEPT ![p] = i]
  /\ Goto(p, "register")
  /\ UNCHANGED <<goal, fd, seen, late, handler, breach, raced>>

(* tryCreate.  The temporary sibling is created, stat'ed and linked in one *)
(* step: nobody reads it before the link, and it keeps its inode until it. *)
Link(p) ==
  /\ pc[p] = "link" /\ path = NoInode
  /\ \E i \in Inode :
       /\ FreeInode(i)
       /\ path' = i
       /\ file' = [file EXCEPT ![i] = p]
       /\ mine' = [mine EXCEPT ![p] = i]
  /\ Goto(p, "register")
  /\ UNCHANGED <<goal, fd, seen, late, handler, breach, raced>>

LinkExists(p) ==
  /\ pc[p] = "link" /\ path # NoInode
  /\ Goto(p, "judge")
  /\ UNCHANGED <<goal, path, file, mine, fd, seen, late, handler, breach, raced>>

(* registerCleanup, which the signal handler's ReleasePending excludes.    *)
Register(p) ==
  /\ pc[p] = "register"
  /\ handler[p] \notin {"read", "remove"}
  /\ Goto(p, "held")
  /\ late' = late \ {p}
  /\ UNCHANGED <<goal, path, file, mine, fd, seen, handler, breach, raced>>

(* IsStale opens the path: a file that is gone counts as stale.  Otherwise *)
(* it reads the record here and asks about the process in the next step.   *)
Condemn(p) == Goto(p, IF goal[p] = "unlock" THEN "force" ELSE "open")

Judge(p) ==
  /\ pc[p] = "judge"
  /\ IF path = NoInode
       THEN Condemn(p) /\ UNCHANGED seen
       ELSE Goto(p, "verdict") /\ seen' = [seen EXCEPT ![p] = file[path]]
  /\ UNCHANGED <<goal, path, file, mine, fd, late, handler, breach, raced>>

Verdict(p) ==
  /\ pc[p] = "verdict"
  /\ seen' = [seen EXCEPT ![p] = Corrupt]
  /\ IF Stale(p, seen[p]) THEN Condemn(p) /\ UNCHANGED <<goal, late>>
                          ELSE ReclaimNone(p)
  /\ UNCHANGED <<path, file, mine, fd, handler, breach, raced>>

-----------------------------------------------------------------------------
(* openForReclaim: the open, then the non-blocking exclusive flock.        *)
OpenForReclaim(p) ==
  /\ pc[p] = "open"
  /\ IF path = NoInode
       THEN ReclaimRestart(p) /\ UNCHANGED fd
       ELSE Goto(p, "flock") /\ fd' = [fd EXCEPT ![p] = path] /\ UNCHANGED <<goal, late>>
  /\ UNCHANGED <<path, file, mine, seen, handler, breach, raced>>

Flock(p) ==
  /\ pc[p] = "flock"
  /\ IF FlockFree(fd[p])
       THEN Goto(p, "identify") /\ UNCHANGED <<fd, goal, late>>
       ELSE Close(p) /\ ReclaimNone(p)
  /\ UNCHANGED <<path, file, mine, seen, handler, breach, raced>>

(* Mutant of Identify: the two files are never found to be the same.       *)
IdentifyNever(p) ==
  /\ pc[p] = "identify"
  /\ Close(p) /\ ReclaimRestart(p)
  /\ UNCHANGED <<path, file, mine, seen, handler, breach, raced>>

(* reclaimLocked, first half: does the path still name the file held open? *)
Identify(p) ==
  /\ pc[p] = "identify"
  /\ IF path = fd[p]
       THEN Goto(p, "rejudge") /\ UNCHANGED <<fd, goal, late>>
       ELSE Close(p) /\ ReclaimRestart(p)
  /\ UNCHANGED <<path, file, mine, seen, handler, breach, raced>>

(* reclaimLocked, second half: staleness judged again, from the descriptor *)
(* and AFTER the identity check.  A verdict that comes when the path names *)
(* something else already is the way out recorded as "late_verdict".       *)
Rejudge(p) ==
  /\ pc[p] = "rejudge"
  /\ IF Stale(p, file[fd[p]])
       THEN /\ Goto(p, "remove")
            /\ breach' = IF path = fd[p] THEN breach ELSE breach \cup {"late_verdict"}
            /\ UNCHANGED <<fd, goal, late>>
       ELSE Close(p) /\ ReclaimNone(p) /\ UNCHANGED breach
  /\ UNCHANGED <<path, file, mine, seen, handler, raced>>

(* os.Remove works on the path, whatever it names by now.                  *)
Overtaken == {q \in Proc : pc[q] = "relremove" \/ handler[q] = "remove"}
Unlink(p) == /\ path' = NoInode
             /\ raced' = (raced \cup Overtaken) \ {p}

Remove(p) ==
  /\ pc[p] = "remove"
  /\ Unlink(p)
  /\ Close(p)
  /\ IF path = NoInode THEN ReclaimNone(p) ELSE ReclaimDone(p)
  /\ UNCHANGED <<file, mine, seen, handler, breach>>

(* The foot of Acquire's loop: the timeout, or the sleep and another try.  *)
Poll(p) ==
  /\ pc[p] = "wait"
  /\ IF p \in late THEN Return(p) ELSE Goto(p, "link") /\ UNCHANGED <<goal, late>>
  /\ UNCHANGED <<path, file, mine, fd, seen, handler, breach, raced>>

Expire(p) ==
  /\ pc[p] \in Acquiring /\ goal[p] = "acquire" /\ p \notin late
  /\ late' = late \cup {p}
  /\ UNCHANGED <<pc, goal, path, file, mine, fd, seen, handler, breach, raced>>

-----------------------------------------------------------------------------
(* releaseIfOurs, for RefLock.Release: unregisterCleanup and the stat are  *)
(* one step (nothing but the handler's own list changes in between), the   *)
(* record is read in the next and the path removed in the last.            *)
LetGo(p) == Goto(p, "idle") /\ mine' = [mine EXCEPT ![p] = NoInode]

Release(p) ==
  /\ pc[p] = "held"
  /\ handler[p] \notin {"read", "remove"}
  /\ IF path = mine[p] THEN Goto(p, "relread") /\ UNCHANGED mine
                       ELSE LetGo(p)
  /\ UNCHANGED <<goal, path, file, fd, seen, late, handler, breach, raced>>

(* Mutant of RelRead: the inode alone tells whose file it is.              *)
RelReadNot(p) ==
  /\ pc[p] = "relread"
  /\ Goto(p, "relremove")
  /\ UNCHANGED <<goal, path, file, mine, fd, seen, late, handler, breach, raced>>

RelRead(p) ==
  /\ pc[p] = "relread"
  /\ IF path # NoInode /\ file[path] = p
       THEN Goto(p, "relremove") /\ UNCHANGED mine
       ELSE LetGo(p)
  /\ UNCHANGED <<goal, path, file, fd, seen, late, handler, breach, raced>>

RelRemove(p) ==
  /\ pc[p] = "relremove"
  /\ Unlink(p)
  /\ LetGo(p)
  /\ UNCHANGED <<goal, file, fd, seen, late, handler, breach>>

(* A command that ends without unwinding leaves the lock to ReleasePending.*)
EndCommand(p) ==
  /\ pc[p] = "held"
  /\ handler[p] = "off"
  /\ Goto(p, "ended")
  /\ UNCHANGED <<goal, path, file, mine, fd, seen, late, handler, breach, raced>>

(* ReleasePending, run by the signal handler beside the main goroutine or  *)
(* at the end of a command: the stat of the one pending lock, the read of  *)
(* its record, the removal, and the end of the process.                    *)
Pending(p) == pc[p] \in {"held", "ended"}

HandlerStep(p, to) == handler' = [handler EXCEPT ![p] = to]

ReleasePending(p) ==
  /\ Alive(p) /\ handler[p] = "off"
  /\ Signals \/ pc[p] = "ended"
  /\ HandlerStep(p, IF Pending(p) /\ path = mine[p] THEN "read" ELSE "exiting")
  /\ UNCHANGED <<pc, goal, path, file, mine, fd, seen, late, breach, raced>>

PendingRead(p) ==
  /\ handler[p] = "read"
  /\ HandlerStep(p, IF path # NoInode /\ file[path] = p THEN "remove" ELSE "exiting")
  /\ UNCHANGED <<pc, goal, path, file, mine, fd, seen, late, breach, raced>>

PendingRemove(p) ==
  /\ handler[p] = "remove"
  /\ Unlink(p)
  /\ HandlerStep(p, "exiting")
  /\ breach' = IF pc[p] = "held" THEN breach \cup {"signal"} ELSE breach
  /\ UNCHANGED <<pc, goal, file, mine, fd, seen, late>>

(* The end of a process: the kernel closes its descriptors (and drops its  *)
(* flock); a lock file it still has stays behind.                          *)
Die(p) ==
  /\ Goto(p, "exited")
  /\ Close(p)
  /\ goal' = [goal EXCEPT ![p] = "acquire"]
  /\ mine' = [mine EXCEPT ![p] = NoInode]
  /\ seen' = [seen EXCEPT ![p] = Corrupt]
  /\ late' = late \ {p}
  /\ raced' = raced \ {p}
  /\ HandlerStep(p, "off")
  /\ UNCHANGED <<path, file, breach>>

HandlerExit(p) == handler[p] = "exiting" /\ Die(p)
Crash(p)       == Alive(p) /\ Die(p)

(* ForceRelease: unconditional.  It breaks exclusion when the file belongs *)
(* to a live process or a reclaimer has condemned it already.              *)
ForceRelease(p) ==
  /\ pc[p] = "force"
  /\ Unlink(p)
  /\ LET hit == /\ path # NoInode
                /\ \/ file[path] \in {q \in Proc : Alive(q)}
                   \/ \E q \in Proc : pc[q] = "remove"
     IN  breach' = IF hit THEN breach \cup {"unlock"} ELSE breach
  /\ Return(p)
  /\ UNCHANGED <<file, mine, fd, seen, handler>>

-----------------------------------------------------------------------------
(* What a live process does of itself once it has come to the lock.        *)
Progress(p) ==
  \/ Link(p) \/ LinkExists(p) \/ Register(p)
  \/ Judge(p) \/ Verdict(p)
  \/ OpenForReclaim(p) \/ Flock(p) \/ Identify(p) \/ Rejudge(p) \/ Remove(p) \/ Poll(p)
  \/ RelRead(p) \/ RelRemove(p) \/ ForceRelease(p)

Handle(p) == (pc[p] = "ended" /\ ReleasePending(p))
             \/ PendingRead(p) \/ PendingRemove(p) \/ HandlerExit(p)

Step(p) ==
  \/ Start(p) \/ (\E g \in Goals : Begin(p, g))
  \/ Progress(p) \/ Expire(p)
  \/ Release(p) \/ EndCommand(p)
  \/ ReleasePending(p) \/ PendingRead(p) \/ PendingRemove(p) \/ HandlerExit(p)
  \/ Crash(p)

Next == \E p \in Proc : Step(p)

(* The operating system runs every live process and every handler, and the *)
(* clock reaches every deadline.  Nothing makes a holder release, an       *)
(* operator act, a signal arrive or a process crash.                       *)
Fairness == \A p \in Proc : /\ WF_vars(Progress(p))
                            /\ WF_vars(Expire(p))
                            /\ WF_vars(Handle(p))

Spec == Init /\ [][Next]_vars
FairSpec == Spec /\ Fairness

-----------------------------------------------------------------------------
(* Types.                                                                  *)
TypeOK ==
  /\ pc \in [Proc -> Locations]
  /\ goal \in [Proc -> Goals]
  /\ path \in Inode \cup {NoInode}
  /\ file \in [Inode -> Proc \cup {Corrupt}]
  /\ mine \in [Proc -> Inode \cup {NoInode}]
  /\ fd \in [Proc -> Inode \cup {NoInode}]
  /\ seen \in [Proc -> Proc \cup {Corrupt}]
  /\ late \subseteq Proc
  /\ handler \in [Proc -> HandlerAt]
  /\ breach \subseteq Breaches
  /\ raced \subseteq Proc

(* Two processes work under the lock at once only after one of the three   *)
(* ways out has been taken: a reclaimer whose verdict came after the path  *)
(* had changed, a signal that frees the lock of a process still at work,   *)
(* an unlock of a live or just-condemned lock.  Every other interleaving   *)
(* of acquirers, reclaimers, releasers, sweeps and crashes excludes.       *)
(* Exclusion alone does not hold, and no run checks it (README, Findings).  *)
Exclusion == \A p, q \in Proc : Working(p) /\ Working(q) => p = q
ExclusionUnlessBreached == breach = {} => Exclusion

(* Until a way out is taken, the lock file of a process that works under   *)
(* the lock is at the path: nobody removed it, whoever judged it stale.    *)
WorkerLockStands ==
  breach = {} => \A p \in Proc :
    Working(p) => path = mine[p] /\ path # NoInode /\ file[path] = p

(* releaseIfOurs: a holder that finishes late deletes no newcomer's lock,  *)
(* inode recycled or not, unless somebody else removed the path inside the *)
(* window between its read of the record and its removal of the path.      *)
ReleaseRemovesOnlyOwn ==
  \A p \in Overtaken \ raced : path = mine[p] /\ path # NoInode /\ file[path] = p

(* The flock: no two reclaimers are past it on one file.                   *)
OneReclaimerPerFile ==
  \A p, q \in Proc : Flocked(p) /\ Flocked(q) /\ fd[p] = fd[q] => p = q

(* Acquire ends: every acquirer gets the lock, gives up or dies, however   *)
(* the lock is handed around meanwhile.                                    *)
AcquireEnds ==
  \A p \in Proc :
    (pc[p] \in Acquiring /\ goal[p] = "acquire") ~>
      (pc[p] \in {"register", "held", "idle", "exited"})

(* A dead holder's lock does not outlive the next acquirer that looks at   *)
(* it: the file leaves the path, unless that acquirer dies, or a reclaimer *)
(* it stood aside for does, or the platform cannot prove the holder dead.  *)
DeadLockAt(i) ==
  path = i /\ file[i] \in Proc /\ pc[file[i]] = "exited"
DeadLockYields ==
  \A p \in Proc, i \in Inode :
    (pc[p] = "link" /\ DeadLockAt(i) /\ \A q \in Proc : Stale(q, file[i]))
      ~> (~DeadLockAt(i) \/ \E q \in Proc : pc[q] = "exited" /\ q # file[i])

(* The inductive invariant behind the first three.  A process owns the     *)
(* file from its link to its removal of it; a file names no process that   *)
(* has not started; what a reclaimer is about to remove is at the path and *)
(* belongs to nobody alive.                                                *)
Owns(p) == \/ Working(p) \/ pc[p] \in Releasing
           \/ pc[p] = "ended" /\ handler[p] # "exiting"
OwnerLockStands ==
  \A p \in Proc : Owns(p) => path = mine[p] /\ path # NoInode /\ file[path] = p
CondemnedIsDead ==
  \A p \in Proc : pc[p] = "remove" =>
    /\ path = fd[p] /\ path # NoInode
    /\ file[path] = Corrupt \/ pc[file[path]] = "exited"
FilesNameStarted == \A i \in Inode : file[i] # Corrupt => pc[file[i]] # "unborn"
HandlerHasPending ==
  \A p \in Proc : /\ handler[p] \in {"read", "remove"} => Pending(p)
                  /\ handler[p] # "off" => Alive(p)
ReclaimersOpen ==
  \A p \in Proc : pc[p] = "flock" \/ Flocked(p) => fd[p] \in Inode

IInv ==
  /\ TypeOK /\ OneReclaimerPerFile /\ FilesNameStarted
  /\ HandlerHasPending /\ ReclaimersOpen
  /\ breach = {} => OwnerLockStands /\ CondemnedIsDead

(* The abstract lock this one implements.                                  *)
Abstract == INSTANCE Mutex WITH
  Nobody  <- NoInode,
  alive   <- {p \in Proc : Alive(p)},
  owner   <- IF path = NoInode THEN NoInode ELSE file[path],
  working <- {p \in Proc : Working(p)},
  broken  <- breach # {}

ImplementsMutex == Abstract!MutexSpec
=============================================================================

------------------------- MODULE ContainmentProofs --------------------------
(* Proofs about Containment: a signal sent through a pidfd never reaches a   *)
(* process that is not of the hook, and a run that names nothing as still    *)
(* running has left nothing running -- for every set of pids, every tree of  *)
(* processes a hook may build and every reuse of their pids.                 *)
EXTENDS Containment, FiniteSetTheorems, WellFoundedInduction, TLAPS

---------------------------------------------------------------------------
(* The invariant behind the first theorem.  Start times tell processes       *)
(* apart: what has the pid and the start time of a process of the hook is    *)
(* one, and that is all that a scan or a handle ever holds.                  *)
Ours(x) == x.kind \in {"plain", "daemon", "stuck"}

RecordOK(x) ==
    /\ x.st = "free" => x = Free
    /\ x.kind = "none" => x.st = "free"
    /\ x.kind = "stranger" => x.parent = Outside
    /\ x.kind = "earlier" => x.parent = Self /\ x.ticks = 0
    /\ Ours(x) => x.parent # Outside
    /\ x.kind \notin {"earlier", "none"} => x.ticks > 0
    /\ x.ticks <= born

OursAt(p, ticks) == ticks \in 1..born /\ (proc[p].ticks = ticks => Ours(proc[p]))

Origins   == \A p \in Pid : RecordOK(proc[p])
ReadOK    == \A p \in DOMAIN run.stats :
                /\ RecordOK(run.stats[p]) /\ run.stats[p].st # "free"
                /\ Ours(run.stats[p]) => OursAt(p, run.stats[p].ticks)
LiveOK    == \A p \in DOMAIN run.live : OursAt(p, run.live[p].ticks)
HandlesOK == \A p \in DOMAIN run.handles : OursAt(p, run.handles[p].is)

HomeInv == TypeOK /\ Origins /\ ReadOK /\ LiveOK /\ HandlesOK /\ SignalsStayHome

(* The invariant behind the second.  A living process of the hook is a child *)
(* of safegit or of a living older one; after the wait for the hook its pid  *)
(* is the hook's no more; a scan that nothing was born or died under has     *)
(* every living one as it is; a scan that found nothing means there is none; *)
(* and what a scan found is judged, one by one, before the run is over.      *)
Rooted ==
    \A p \in Kin : \/ proc[p].parent = Self
                   \/ proc[p].parent \in LiveKin /\ proc[proc[p].parent].ticks < proc[p].ticks
HookGone == run.code # "none" /\ ~run.shadowed => Hook \notin Kin
Sweeping == run.pc \in {"list", "read", "act", "kill", "reap"} /\ run.mode # "terminate"
HookAwaited == Sweeping => run.code # "none" \/ run.unstopped # {}
Sweeps   == run.pc \in {"kill", "reap"} => run.mode = "first" /\ DOMAIN run.live \subseteq run.found \cup run.unstopped
Snapshot ==
    run.pc = "read" /\ ~run.torn =>
        \A p \in LiveKin : /\ p \in run.list \cup DOMAIN run.stats
                           /\ p \in DOMAIN run.stats => run.stats[p] = proc[p]
Silent == run.unstopped = {} /\ ~run.torn /\ ~run.shadowed
NoneLeft ==
    /\ Sweeping /\ run.pc \in {"act", "kill", "reap"} /\ Silent /\ DOMAIN run.live = {} => LiveKin = {}
    /\ run.pc \in {"drain", "done"} /\ Silent => LiveKin = {}

SweepInv == Rooted /\ HookGone /\ HookAwaited /\ Sweeps /\ Snapshot /\ NoneLeft

---------------------------------------------------------------------------
(* What a step does to a pid: it keeps its process, which may end or be      *)
(* reparented, or frees it, or gives it to a new one.                        *)
Kept(x, y) ==
    \/ y = Free
    \/ /\ x.st # "free" /\ y.group = x.group /\ y.ticks = x.ticks /\ y.kind = x.kind
       /\ y.st = x.st \/ y.st = "zombie"
       /\ y.parent = x.parent \/ (y.parent = Self /\ x.parent \in Pid)

LEMMA FreeOK == Free \in PidRecord
BY DEF Free, PidRecord

LEMMA PidsOK == /\ Hook \in Pid /\ Self \notin Pid /\ Outside \notin Pid /\ Self # Outside
                /\ \A p \in Pid : p \in Nat
BY ContainmentConstants DEF Hook, Self, Outside

(* What is taken is one of the three kinds of process.                       *)
LEMMA KeptOK ==
  ASSUME NEW x \in PidRecord, RecordOK(x)
  PROVE  /\ Kept(x, x)
         /\ x.st = "free" \/ Ours(x) \/ x.kind \in {"stranger", "earlier"}
BY DEF PidRecord, RecordOK, Kept, Ours

LEMMA ExitedKeeps ==
  ASSUME TypeOK, Origins, NEW dying \in SUBSET Pid
  PROVE  /\ Exited(dying) \in [Pid -> PidRecord]
         /\ \A p \in Pid : /\ Kept(proc[p], Exited(dying)[p])
                           /\ p \notin dying => Exited(dying)[p].st = proc[p].st
                           /\ Exited(dying)[p] # Free => Exited(dying)[p].parent \notin dying
                           /\ p \notin dying /\ proc[p].parent \notin dying => Exited(dying)[p] = proc[p]
<1> DEFINE E == Exited(dying)
<1>1. ASSUME NEW p \in Pid
      PROVE  /\ E[p] \in PidRecord /\ Kept(proc[p], E[p])
             /\ p \notin dying => E[p].st = proc[p].st
             /\ E[p] # Free => E[p].parent \notin dying
             /\ p \notin dying /\ proc[p].parent \notin dying => E[p] = proc[p]
  <2>1. proc[p] \in PidRecord /\ RecordOK(proc[p])
    BY DEF TypeOK, Origins
  <2>2. CASE proc[p].st = "free" \/ (p \in dying /\ proc[p].kind = "stranger")
    BY <2>1, <2>2, FreeOK DEF Exited, Kept, RecordOK, Free
  <2>3. CASE ~(proc[p].st = "free" \/ (p \in dying /\ proc[p].kind = "stranger"))
    <3>1. E[p] = [proc[p] EXCEPT !.st = IF p \in dying THEN "zombie" ELSE @,
                                 !.parent = IF @ \in dying THEN Self ELSE @]
      BY <2>3 DEF Exited
    <3>2. E[p].parent \notin dying
      BY <2>1, <3>1, PidsOK DEF PidRecord
    <3>3. QED
      BY <2>1, <2>3, <3>1, <3>2, PidsOK DEF Kept, PidRecord
  <2>4. QED
    BY <2>2, <2>3
<1>2. QED
  BY <1>1 DEF Exited

LEMMA WaitedKeeps ==
  ASSUME TypeOK, Origins, NEW ps
  PROVE  /\ Waited(ps) \in [Pid -> PidRecord]
         /\ \A p \in Pid : /\ Kept(proc[p], Waited(ps)[p])
                           /\ proc[p].st # "zombie" => Waited(ps)[p] = proc[p]
                           /\ Waited(ps)[p] = proc[p] \/ Waited(ps)[p] = Free
BY KeptOK, FreeOK DEF TypeOK, Origins, Waited, Kept

(* A step keeps every process but those it frees, and bears at most one, of  *)
(* the hook only if a process of the hook is alive.                          *)
Bears(x, y) ==
    /\ x.st = "free" /\ y.st = "live" /\ y.ticks = born + 1
    /\ \/ y.kind = "stranger" /\ y.parent = Outside
       \/ Ours(y) /\ y.parent \in LiveKin

LEMMA ProcStep ==
  ASSUME TypeOK, Origins, [Next]_vars
  PROVE  /\ proc' \in [Pid -> PidRecord] /\ born' \in Nat /\ born <= born'
         /\ \A p \in Pid : Kept(proc[p], proc'[p]) \/ (Bears(proc[p], proc'[p]) /\ born' = born + 1)
<1> DEFINE Goal == /\ proc' \in [Pid -> PidRecord] /\ born' \in Nat /\ born <= born'
                   /\ \A p \in Pid : Kept(proc[p], proc'[p]) \/ (Bears(proc[p], proc'[p]) /\ born' = born + 1)
<1>0. /\ proc \in [Pid -> PidRecord] /\ born \in Nat
      /\ \A p \in Pid : proc[p] \in PidRecord /\ RecordOK(proc[p]) /\ Kept(proc[p], proc[p])
  <2>1. /\ proc \in [Pid -> PidRecord] /\ born \in Nat
        /\ \A p \in Pid : proc[p] \in PidRecord /\ RecordOK(proc[p])
    BY DEF TypeOK, Origins
  <2>2. QED
    BY <2>1, KeptOK
<1>1. CASE UNCHANGED <<proc, born>>
  BY <1>0, <1>1
<1>2. ASSUME NEW dying \in SUBSET Pid, proc' = Exited(dying), born' = born
      PROVE  Goal
  <2> DEFINE E == Exited(dying)
  <2>1. E \in [Pid -> PidRecord] /\ \A p \in Pid : Kept(proc[p], E[p])
    BY ExitedKeeps
  <2> HIDE DEF E
  <2>2. QED
    BY <1>0, <1>2, <2>1 DEF E
<1>3. ASSUME NEW ps, proc' = Waited(ps), born' = born
      PROVE  Goal
  <2> DEFINE W == Waited(ps)
  <2>1. W \in [Pid -> PidRecord] /\ \A p \in Pid : Kept(proc[p], W[p])
    BY WaitedKeeps
  <2> HIDE DEF W
  <2>2. QED
    BY <1>0, <1>3, <2>1 DEF W
<1>4. ASSUME NEW p \in Pid, proc' = [proc EXCEPT ![p] = Free], born' = born
      PROVE  Goal
  BY <1>0, <1>4, FreeOK DEF Kept
<1>5. ASSUME NEW p \in Pid, NEW q \in Pid, NEW kind \in Kinds, Forks(p, q, kind)
      PROVE  Goal
  <2> DEFINE new == Process(p, IF kind = "daemon" THEN q ELSE proc[p].group, born + 1, kind)
  <2>1. /\ proc[q].st = "free" /\ p \in LiveKin /\ born' = born + 1
        /\ proc' = [proc EXCEPT ![q] = new]
    BY <1>5 DEF Forks, Unused
  <2>2. new \in PidRecord /\ Bears(proc[q], new)
    BY <1>0, <2>1, ContainmentConstants, PidsOK DEF PidRecord, Process, Ours, Bears
  <2> HIDE DEF new
  <2>3. QED
    BY <1>0, <2>1, <2>2
<1>6. ASSUME NEW q \in Pid, StrangerStarts(q)
      PROVE  Goal
  <2> DEFINE new == Process(Outside, q, born + 1, "stranger")
  <2>1. /\ proc[q].st = "free" /\ born' = born + 1
        /\ proc' = [proc EXCEPT ![q] = new]
    BY <1>6 DEF StrangerStarts, Unused
  <2>2. new \in PidRecord /\ Bears(proc[q], new)
    BY <1>0, <2>1, PidsOK DEF PidRecord, Process, Bears
  <2> HIDE DEF new
  <2>3. QED
    BY <1>0, <2>1, <2>2
<1>7. CASE World
  <2>1. ASSUME NEW p \in Pid, Exits(p) \/ Collects(p)
        PROVE  Goal
    BY <1>2, <1>4, <2>1 DEF Exits, Collects
  <2>2. QED
    BY <1>5, <1>6, <1>7, <2>1 DEF World
<1>8. CASE KillGroup
  BY <1>2, <1>8 DEF KillGroup, Killed, Taken
<1>9. CASE KillFound
  <2>1. Reached(run.handles, DOMAIN run.live) \subseteq Pid
    BY DEF TypeOK, IsOf, Reached
  <2>2. QED
    BY <1>2, <1>9, <2>1 DEF KillFound, Killed
<1>10. ASSUME NEW p \in Pid, Reap(p)
       PROVE  Goal
  <2>1. \/ proc' = proc \/ proc' = Waited({p})
        \/ \E dying \in SUBSET Pid : proc' = Exited(dying)
    BY <1>10 DEF Reap, Killed
  <2>2. born' = born
    BY <1>10 DEF Reap
  <2>3. QED
    BY <1>1, <1>2, <1>3, <2>1, <2>2
<1>11. CASE Read \/ NothingFound \/ ReapZombies
  BY <1>3, <1>11 DEF Read, NothingFound, ReapZombies
<1>12. CASE WaitHook
  BY <1>4, <1>12, PidsOK DEF WaitHook
<1>13. CASE Tick \/ HookEnds \/ TimesOut \/ HookStopped \/ GiveUpOnHook \/ List \/ Terminate \/ Patience
            \/ Record \/ Drain
  BY <1>1, <1>13 DEF Tick, HookEnds, TimesOut, HookStopped, GiveUpOnHook, List, Terminate, Patience,
     Record, Drain
<1>14. QED
  BY <1>1, <1>7, <1>8, <1>9, <1>10, <1>11, <1>12, <1>13 DEF Next, Safegit, vars
---------------------------------------------------------------------------
(* A pid and a start time that are of the hook's stay so: nothing that is    *)
(* born later has that start time.                                           *)
LEMMA OursStays ==
  ASSUME TypeOK, Origins, [Next]_vars, NEW p \in Pid, NEW t, OursAt(p, t)
  PROVE  OursAt(p, t)'
<1>1. /\ born \in Nat /\ born' \in Nat /\ born <= born'
      /\ proc[p] \in PidRecord /\ proc'[p] \in PidRecord
      /\ Kept(proc[p], proc'[p]) \/ (Bears(proc[p], proc'[p]) /\ born' = born + 1)
  BY ProcStep DEF TypeOK
<1>2. QED
  BY <1>1 DEF OursAt, Kept, Bears, Free, Ours, PidRecord

(* What is true of what was read of a process stays true, and is of what     *)
(* the process becomes.                                                      *)
LEMMA RecordsStay ==
  ASSUME TypeOK, Origins, [Next]_vars
  PROVE  /\ Origins'
         /\ \A x \in PidRecord : RecordOK(x) => RecordOK(x)'
<1>1. /\ born \in Nat /\ born' \in Nat /\ born <= born'
      /\ \A p \in Pid : /\ proc[p] \in PidRecord /\ proc'[p] \in PidRecord /\ RecordOK(proc[p])
                        /\ Kept(proc[p], proc'[p]) \/ (Bears(proc[p], proc'[p]) /\ born' = born + 1)
  BY ProcStep DEF TypeOK, Origins
<1>2. \A x \in PidRecord : RecordOK(x) => RecordOK(x)'
  BY <1>1 DEF RecordOK, PidRecord
<1>3. ASSUME NEW p \in Pid
      PROVE  RecordOK(proc[p])'
  <2>1. CASE Kept(proc[p], proc'[p])
    BY <1>1, <2>1, PidsOK DEF RecordOK, Kept, Free, Ours, PidRecord
  <2>2. CASE Bears(proc[p], proc'[p]) /\ born' = born + 1
    BY <1>1, <2>2, PidsOK DEF RecordOK, Bears, Ours, PidRecord, LiveKin, Kin, Taken
  <2>3. QED
    BY <1>1, <2>1, <2>2
<1>4. QED
  BY <1>2, <1>3 DEF Origins

(* Steps that read nothing and open nothing.                                 *)
LEMMA HomeKept ==
  ASSUME HomeInv, [Next]_vars, run'.stats \in {run.stats, <<>>}, run'.live \in {run.live, <<>>},
         run'.handles \in {run.handles, <<>>}
  PROVE  Origins' /\ ReadOK' /\ LiveOK' /\ HandlesOK'
<1>1. /\ TypeOK /\ Origins
      /\ \A p \in DOMAIN run.stats : p \in Pid /\ run.stats[p] \in PidRecord
      /\ DOMAIN run.live \subseteq Pid /\ DOMAIN run.handles \subseteq Pid
  BY DEF HomeInv, TypeOK, IsOf
<1>2. ReadOK'
  <2>1. CASE run'.stats = <<>>
    BY <2>1 DEF ReadOK
  <2>2. CASE run'.stats = run.stats
    <3>1. ASSUME NEW p \in DOMAIN run.stats
          PROVE  /\ RecordOK(run.stats[p])' /\ run.stats[p].st # "free"
                 /\ Ours(run.stats[p]) => OursAt(p, run.stats[p].ticks)'
      <4>1. /\ RecordOK(run.stats[p]) /\ run.stats[p].st # "free"
            /\ Ours(run.stats[p]) => OursAt(p, run.stats[p].ticks)
        BY DEF HomeInv, ReadOK
      <4>2. QED
        BY <1>1, <2>2, <4>1, OursStays, RecordsStay
    <3>2. QED
      BY <2>2, <3>1 DEF ReadOK
  <2>3. QED
    BY <2>1, <2>2
<1>3. LiveOK'
  <2>1. CASE run'.live = <<>>
    BY <2>1 DEF LiveOK
  <2>2. CASE run'.live = run.live
    <3>1. ASSUME NEW p \in DOMAIN run.live
          PROVE  OursAt(p, run.live[p].ticks)'
      <4>1. OursAt(p, run.live[p].ticks)
        BY DEF HomeInv, LiveOK
      <4>2. QED
        BY <1>1, <2>2, <4>1, OursStays
    <3>2. QED
      BY <2>2, <3>1 DEF LiveOK
  <2>3. QED
    BY <2>1, <2>2
<1>4. HandlesOK'
  <2>1. CASE run'.handles = <<>>
    BY <2>1 DEF HandlesOK
  <2>2. CASE run'.handles = run.handles
    <3>1. ASSUME NEW p \in DOMAIN run.handles
          PROVE  OursAt(p, run.handles[p].is)'
      <4>1. OursAt(p, run.handles[p].is)
        BY DEF HomeInv, HandlesOK
      <4>2. QED
        BY <1>1, <2>2, <4>1, OursStays
    <3>2. QED
      BY <2>2, <3>1 DEF HandlesOK
  <2>3. QED
    BY <2>1, <2>2
<1>5. QED
  BY <1>1, <1>2, <1>3, <1>4, RecordsStay
(* What safegit remembers, well formed.                                      *)
RunOK(r) ==
    /\ DOMAIN r = DOMAIN Started
    /\ r.pc \in {"running", "list", "read", "act", "kill", "reap", "await term", "await kill", "drain", "done"}
    /\ r.mode \in {"none", "first", "group", "terminate"} /\ r.code \in {"none", "ok", "bad"} /\ r.now \in 0..Cap
    /\ r.torn \in BOOLEAN /\ r.shadowed \in BOOLEAN
    /\ r.list \subseteq Pid /\ r.found \subseteq Pid /\ r.unstopped \subseteq Pid
    /\ IsOf(r.stats, PidRecord) /\ IsOf(r.live, [ticks : Nat, group : Nat])
    /\ IsOf(r.handles, [is : Nat, ticks : Nat])

LEMMA TypeParts ==
  TypeOK <=> proc \in [Pid -> PidRecord] /\ born \in Nat /\ astray \in BOOLEAN /\ RunOK(run)
BY DEF TypeOK, RunOK

LEMMA NothingIsOf == ASSUME NEW values PROVE IsOf(<<>>, values)
BY DEF IsOf

LEMMA OpenedOK ==
  ASSUME TypeOK, NEW ps \in SUBSET DOMAIN run.live
  PROVE  /\ DOMAIN Opened(ps) \subseteq ps
         /\ IsOf(Opened(ps), [is : Nat, ticks : Nat])
         /\ \A p \in DOMAIN Opened(ps) : /\ p \in Taken /\ Opened(ps)[p].is = proc[p].ticks
                                         /\ Opened(ps)[p].is = run.live[p].ticks
<1>1. \A p \in DOMAIN run.live : p \in Pid /\ run.live[p].ticks \in Nat
  BY DEF TypeOK, IsOf
<1>2. \A p \in Pid : proc[p].ticks \in Nat
  BY DEF TypeOK, PidRecord
<1>3. DOMAIN Opened(ps) = {q \in ps : Openable(q, run.live[q].ticks)}
  BY DEF Opened
<1>4. \A p \in DOMAIN Opened(ps) : /\ p \in ps /\ p \in Taken /\ proc[p].ticks = run.live[p].ticks
                                   /\ Opened(ps)[p] = [is |-> proc[p].ticks, ticks |-> run.live[p].ticks]
  BY <1>3 DEF Opened, Openable
<1>5. IsOf(Opened(ps), [is : Nat, ticks : Nat])
  <2>1. Opened(ps) = [p \in DOMAIN Opened(ps) |-> [is |-> proc[p].ticks, ticks |-> run.live[p].ticks]]
    BY <1>3 DEF Opened
  <2>2. \A p \in DOMAIN Opened(ps) : [is |-> proc[p].ticks, ticks |-> run.live[p].ticks] \in [is : Nat, ticks : Nat]
    BY <1>1, <1>2, <1>3
  <2> DEFINE D == DOMAIN Opened(ps)
             R(p) == [is |-> proc[p].ticks, ticks |-> run.live[p].ticks]
  <2>3. [p \in D |-> R(p)] \in [D -> [is : Nat, ticks : Nat]]
    <3>1. \A p \in D : R(p) \in [is : Nat, ticks : Nat]
      BY <2>2
    <3> HIDE DEF D, R
    <3>2. QED
      BY <3>1
  <2>4. QED
    BY <1>1, <1>3, <2>1, <2>3 DEF IsOf
<1>6. QED
  BY <1>3, <1>4, <1>5

LEMMA RecordedOK ==
  ASSUME TypeOK
  PROVE  /\ IsOf(Recorded, [is : Nat, ticks : Nat])
         /\ \A p \in DOMAIN Recorded :
               \/ p \in DOMAIN run.handles /\ Recorded[p] = run.handles[p]
               \/ p \in DOMAIN run.live /\ Recorded[p].is = run.live[p].ticks
<1> DEFINE kept == {p \in DOMAIN run.handles : p \notin DOMAIN run.live \/ run.handles[p].ticks = run.live[p].ticks}
           new  == Opened(DOMAIN run.live \ kept)
           H    == [p \in kept \cup DOMAIN new |-> IF p \in kept THEN run.handles[p] ELSE new[p]]
<1>1. Recorded = H
  BY DEF Recorded
<1>2. /\ IsOf(new, [is : Nat, ticks : Nat])
      /\ \A p \in DOMAIN new : p \in DOMAIN run.live /\ new[p].is = run.live[p].ticks
  BY OpenedOK
<1>3. IsOf(run.handles, [is : Nat, ticks : Nat])
  BY DEF TypeOK
<1>4. kept \subseteq DOMAIN run.handles
  OBVIOUS
<1> HIDE DEF kept, new
<1>5. IsOf(H, [is : Nat, ticks : Nat])
  BY <1>2, <1>3, <1>4 DEF IsOf
<1>6. \A p \in DOMAIN H : \/ p \in DOMAIN run.handles /\ H[p] = run.handles[p]
                          \/ p \in DOMAIN run.live /\ H[p].is = run.live[p].ticks
  BY <1>2, <1>4
<1>7. QED
  BY <1>1, <1>5, <1>6

(* What a scan returns is of the hook: the least set that holds those of     *)
(* safegit's children that are neither the hook nor older, and the children  *)
(* of its own, is part of the set of all that are of the hook.               *)
LEMMA BelowOurs ==
  ASSUME TypeOK, NEW stats, IsOf(stats, PidRecord),
         \A p \in DOMAIN stats : RecordOK(stats[p]) /\ stats[p].st # "free"
  PROVE  Below(stats) \subseteq DOMAIN stats /\ \A p \in Below(stats) : Ours(stats[p])
<1> DEFINE S == {p \in Alive(stats) : Ours(stats[p])}
<1>1. \A p \in Alive(stats) : /\ p \in DOMAIN stats /\ p \in Pid /\ stats[p] \in PidRecord
                              /\ RecordOK(stats[p]) /\ stats[p].st # "free"
  BY DEF Alive, IsOf
<1>2. \A p \in Alive(stats) : stats[p].parent \in Pid \/ (stats[p].parent = Self /\ stats[p].ticks >= 1)
                                => Ours(stats[p])
  BY <1>1, PidsOK DEF RecordOK, PidRecord, Ours
<1>3. Roots(stats) \subseteq S
  BY <1>2, PidsOK DEF Roots, Adopted
<1>4. \A c \in Alive(stats) : stats[c].parent \in S => c \in S
  BY <1>1, <1>2
<1>5. S \in SUBSET Alive(stats)
  OBVIOUS
<1> HIDE DEF S
<1>6. Below(stats) \subseteq S
  BY <1>3, <1>4, <1>5 DEF Below
<1>7. QED
  BY <1>1, <1>6 DEF S, Below
(* The steps that read or open nothing.                                      *)
LEMMA RunStep ==
  ASSUME TypeOK, World \/ Tick \/ WaitHook \/ HookEnds \/ TimesOut \/ HookStopped \/ KillGroup \/ GiveUpOnHook
                 \/ Patience \/ NothingFound \/ KillFound \/ (\E p \in Pid : Reap(p)) \/ ReapZombies \/ Drain
                 \/ UNCHANGED run
  PROVE  /\ RunOK(run')
         /\ run'.stats = run.stats /\ run'.live \in {run.live, <<>>} /\ run'.handles \in {run.handles, <<>>}
<1> DEFINE Goal == /\ RunOK(run') /\ run'.stats = run.stats /\ run'.live \in {run.live, <<>>}
                   /\ run'.handles \in {run.handles, <<>>}
<1>1. RunOK(run) /\ IsOf(<<>>, [ticks : Nat, group : Nat]) /\ IsOf(<<>>, [is : Nat, ticks : Nat])
  BY TypeParts, NothingIsOf
<1>2. CASE UNCHANGED run
  BY <1>1, <1>2
<1>3. CASE World
  BY <1>1, <1>2, <1>3, ZenonT(30) DEF World, Forks, Exits, Collects, StrangerStarts, Tears, RunOK, Started
<1>4. CASE Tick
  <2>1. run.now \in 0..3 /\ run.now < 3
    BY <1>1, <1>4 DEF Tick, RunOK, Cap
  <2>2. run.now + 1 \in 0..Cap
    BY <2>1 DEF Cap
  <2>3. QED
    BY <1>1, <1>4, <2>2 DEF Tick, RunOK, Started
<1>5. CASE WaitHook \/ HookEnds \/ TimesOut
  BY <1>1, <1>5 DEF WaitHook, HookEnds, TimesOut, Stop, RunOK, Started
<1>6. CASE HookStopped
  BY <1>1, <1>6 DEF HookStopped, SweepNext, RunOK, Started
<1>7. CASE KillGroup
  BY <1>1, <1>7 DEF KillGroup, RunOK, Started
<1>8. CASE GiveUpOnHook
  BY <1>1, <1>8, PidsOK DEF GiveUpOnHook, SweepNext, RunOK, Started
<1>9. CASE Patience
  BY <1>1, <1>9 DEF Patience, Clear, RunOK, Started
<1>10. CASE NothingFound \/ KillFound
  BY <1>1, <1>10 DEF NothingFound, KillFound, RunOK, Started
<1>11. ASSUME NEW p \in Pid, Reap(p)
       PROVE  Goal
  <2>1. \/ UNCHANGED run
        \/ \E killed \in BOOLEAN : run' = Judged(p, killed)
    BY <1>11 DEF Reap
  <2>2. ASSUME NEW killed \in BOOLEAN, run' = Judged(p, killed)
        PROVE  Goal
    BY <1>1, <2>2 DEF Judged, RunOK, Started
  <2>3. QED
    BY <1>2, <2>1, <2>2
<1>12. CASE ReapZombies
  BY <1>1, <1>12 DEF ReapZombies, Clear, RunOK, Started
<1>13. CASE Drain
  BY <1>1, <1>13 DEF Drain, RunOK, Started
<1>14. QED
  BY <1>2, <1>3, <1>4, <1>5, <1>6, <1>7, <1>8, <1>9, <1>10, <1>11, <1>12, <1>13

(* The steps that read or open something.                                    *)
LEMMA ListStep ==
  ASSUME HomeInv, List
  PROVE  /\ RunOK(run') /\ ReadOK' /\ run'.live = run.live /\ run'.handles = run.handles
<1>1. RunOK(run) /\ proc \in [Pid -> PidRecord] /\ UNCHANGED <<proc, born>>
  BY TypeParts DEF HomeInv, List
<1>2. PICK k : run' = [run EXCEPT !.pc = "read", !.torn = FALSE, !.list = {p \in Taken : p > k},
                                  !.stats = [p \in {q \in Taken : q <= k} |-> proc[p]]]
  BY DEF List
<1> DEFINE Q == {q \in Taken : q <= k}
           stats == [p \in Q |-> proc[p]]
<1>3. /\ run'.stats = stats /\ run'.pc = "read" /\ run'.torn = FALSE /\ run'.list = {p \in Taken : p > k}
      /\ DOMAIN run' = DOMAIN run
      /\ \A f \in DOMAIN Started \ {"stats", "pc", "torn", "list"} : run'[f] = run[f]
  BY <1>1, <1>2 DEF RunOK, Started
<1>4. Q \subseteq Pid /\ \A p \in Q : proc[p].st # "free"
  BY DEF Taken
<1> HIDE DEF Q
<1>5. IsOf(stats, PidRecord)
  BY <1>1, <1>4 DEF IsOf
<1>6. RunOK(run')
  BY <1>1, <1>3, <1>5 DEF RunOK, Started, Taken
<1>7. ASSUME NEW p \in Q
      PROVE  /\ RecordOK(proc[p]) /\ proc[p].st # "free"
             /\ Ours(proc[p]) => OursAt(p, proc[p].ticks)
  <2>1. RecordOK(proc[p]) /\ proc[p] \in PidRecord /\ born \in Nat /\ proc[p].st # "free"
    BY <1>1, <1>4 DEF HomeInv, Origins, TypeOK
  <2>2. QED
    BY <2>1 DEF OursAt, RecordOK, Ours, PidRecord
<1>8. ReadOK'
  <2>1. DOMAIN run'.stats = Q /\ \A p \in Q : run'.stats[p] = proc[p]
    BY <1>3
  <2>2. QED
    BY <1>1, <1>7, <2>1 DEF ReadOK, RecordOK, OursAt
<1>9. QED
  BY <1>3, <1>6, <1>8 DEF Started

LEMMA ReadStep ==
  ASSUME HomeInv, Read
  PROVE  /\ RunOK(run') /\ LiveOK' /\ run'.stats = <<>> /\ run'.handles = run.handles
<1> DEFINE D == DOMAIN run.stats \cup (run.list \cap Taken)
           stats == [p \in D |-> IF p \in DOMAIN run.stats THEN run.stats[p] ELSE proc[p]]
           live == [p \in Below(stats) |-> [ticks |-> stats[p].ticks, group |-> stats[p].group]]
<1>1. /\ RunOK(run) /\ proc \in [Pid -> PidRecord] /\ born \in Nat /\ TypeOK
      /\ IsOf(run.stats, PidRecord)
  BY TypeParts DEF HomeInv, RunOK
<1>2. run' = [run EXCEPT !.pc = "act", !.list = {}, !.stats = <<>>, !.live = live]
  BY DEF Read
<1>3. born' = born
  BY DEF Read
<1>4. ASSUME NEW p \in D
      PROVE  /\ p \in Pid /\ stats[p] \in PidRecord /\ RecordOK(stats[p]) /\ stats[p].st # "free"
             /\ Ours(stats[p]) => OursAt(p, stats[p].ticks)
  <2>1. CASE p \in DOMAIN run.stats
    <3>1. stats[p] = run.stats[p]
      BY <2>1
    <3>2. p \in Pid /\ run.stats[p] \in PidRecord
      BY <1>1, <2>1 DEF IsOf
    <3>3. /\ RecordOK(run.stats[p]) /\ run.stats[p].st # "free"
          /\ Ours(run.stats[p]) => OursAt(p, run.stats[p].ticks)
      BY <2>1 DEF HomeInv, ReadOK
    <3>4. QED
      BY <3>1, <3>2, <3>3
  <2>2. CASE p \notin DOMAIN run.stats
    <3>1. stats[p] = proc[p] /\ p \in Taken
      BY <2>2
    <3>2. p \in Pid /\ proc[p] \in PidRecord /\ RecordOK(proc[p]) /\ proc[p].st # "free"
      BY <1>1, <3>1 DEF Taken, HomeInv, Origins
    <3>3. Ours(proc[p]) => OursAt(p, proc[p].ticks)
      BY <1>1, <3>2 DEF OursAt, RecordOK, Ours, PidRecord
    <3>4. QED
      BY <3>1, <3>2, <3>3
  <2>3. QED
    BY <2>1, <2>2
<1>5. DOMAIN stats = D
  OBVIOUS
<1> HIDE DEF stats, D
<1>6. IsOf(stats, PidRecord)
  <2>1. stats = [p \in D |-> stats[p]]
    BY <1>5 DEF stats
  <2>2. [p \in D |-> stats[p]] \in [D -> PidRecord]
    BY <1>4
  <2>3. QED
    BY <1>4, <1>5, <2>1, <2>2 DEF IsOf
<1>7. Below(stats) \subseteq D /\ \A p \in Below(stats) : Ours(stats[p])
  BY <1>1, <1>4, <1>5, <1>6, BelowOurs
<1>8. /\ DOMAIN live = Below(stats)
      /\ \A p \in Below(stats) : live[p].ticks = stats[p].ticks /\ live[p] \in [ticks : Nat, group : Nat]
  BY <1>4, <1>7 DEF PidRecord
<1>9. IsOf(live, [ticks : Nat, group : Nat])
  <2> DEFINE B == Below(stats)
             R(p) == [ticks |-> stats[p].ticks, group |-> stats[p].group]
  <2>1. \A p \in B : R(p) \in [ticks : Nat, group : Nat]
    BY <1>4, <1>7 DEF PidRecord
  <2>2. B \subseteq Pid
    BY <1>4, <1>7
  <2> HIDE DEF B, R
  <2>3. [p \in B |-> R(p)] \in [B -> [ticks : Nat, group : Nat]]
    BY <2>1
  <2>4. live = [p \in B |-> R(p)]
    BY DEF B, R
  <2>5. QED
    BY <2>2, <2>3, <2>4 DEF IsOf
<1> HIDE DEF live
<1>10. /\ RunOK(run') /\ run'.stats = <<>> /\ run'.handles = run.handles /\ run'.live = live
  <2>1. IsOf(<<>>, PidRecord)
    BY NothingIsOf
  <2>2. QED
    BY <1>1, <1>2, <1>9, <2>1 DEF RunOK, Started
<1>11. ASSUME NEW p \in Below(stats), NEW t, t = live[p].ticks
       PROVE  OursAt(p, t)'
  <2>1. OursAt(p, t) /\ p \in Pid
    BY <1>4, <1>7, <1>8, <1>11
  <2>2. [Next]_vars /\ Origins
    BY DEF Next, Safegit, HomeInv
  <2>3. QED
    BY <1>1, <2>1, <2>2, OursStays
<1>12. LiveOK'
  <2>1. DOMAIN run'.live = Below(stats) /\ \A p \in Below(stats) : run'.live[p].ticks = live[p].ticks
    BY <1>8, <1>10
  <2>2. ASSUME NEW p \in DOMAIN run'.live
        PROVE  OursAt(p, run.live[p].ticks)'
    BY <1>11, <2>1 DEF OursAt
  <2>3. QED
    BY <2>2 DEF LiveOK
<1>13. QED
  BY <1>10, <1>12
LEMMA SignalHome ==
  ASSUME HomeInv, NEW ps \in SUBSET Pid, \A p \in ps : OursAt(p, proc[p].ticks), Signal(ps)
  PROVE  astray' = FALSE
BY DEF Signal, HomeInv, SignalsStayHome, OursAt, Ours

LEMMA TerminateStep ==
  ASSUME HomeInv, Terminate
  PROVE  /\ RunOK(run') /\ astray' = FALSE
         /\ run'.stats = run.stats /\ run'.live = <<>> /\ run'.handles = run.handles
<1> DEFINE ps == {p \in DOMAIN run.live : run.live[p].group # Hook}
           opened == Opened(ps)
<1>1. TypeOK /\ RunOK(run) /\ DOMAIN run.live \subseteq Pid /\ IsOf(<<>>, [ticks : Nat, group : Nat])
  BY TypeParts, NothingIsOf DEF HomeInv, RunOK, IsOf
<1>2. /\ DOMAIN opened \subseteq ps
      /\ \A p \in DOMAIN opened : proc[p].ticks = run.live[p].ticks
  BY <1>1, OpenedOK
<1>3. \A p \in DOMAIN opened : p \in Pid /\ OursAt(p, proc[p].ticks)
  BY <1>1, <1>2 DEF HomeInv, LiveOK
<1>4. Signal(DOMAIN opened) /\ run' = [Clear(run) EXCEPT !.pc = "await term", !.found = DOMAIN opened]
  BY DEF Terminate
<1> HIDE DEF opened
<1>5. astray' = FALSE
  BY <1>3, <1>4, SignalHome
<1>6. QED
  BY <1>1, <1>3, <1>4, <1>5 DEF Clear, RunOK, Started

LEMMA RecordStep ==
  ASSUME HomeInv, Record
  PROVE  /\ RunOK(run') /\ astray' = FALSE /\ HandlesOK'
         /\ run'.stats = run.stats /\ run'.live = run.live
<1>1. /\ TypeOK /\ RunOK(run) /\ DOMAIN run.live \subseteq Pid
      /\ UNCHANGED <<proc, born>>
  BY TypeParts DEF HomeInv, RunOK, IsOf, Record
<1>2. /\ IsOf(Recorded, [is : Nat, ticks : Nat])
      /\ \A p \in DOMAIN Recorded : \/ p \in DOMAIN run.handles /\ Recorded[p] = run.handles[p]
                                    \/ p \in DOMAIN run.live /\ Recorded[p].is = run.live[p].ticks
  BY <1>1, RecordedOK
<1>3. \A p \in DOMAIN Recorded : p \in Pid /\ OursAt(p, Recorded[p].is)
  BY <1>2 DEF HomeInv, LiveOK, HandlesOK, IsOf
<1>4. \A p \in Reached(Recorded, DOMAIN run.live) : p \in Pid /\ OursAt(p, proc[p].ticks)
  BY <1>1, <1>3 DEF Reached
<1>5. /\ Signal(Reached(Recorded, DOMAIN run.live))
      /\ run' = [run EXCEPT !.handles = Recorded, !.found = @ \cup DOMAIN run.live, !.pc = AfterScan(DOMAIN run.live)]
  BY DEF Record
<1>6. astray' = FALSE
  BY <1>4, <1>5, SignalHome
<1> DEFINE H == Recorded
<1>7. /\ IsOf(H, [is : Nat, ticks : Nat])
      /\ run' = [run EXCEPT !.handles = H, !.found = @ \cup DOMAIN run.live, !.pc = AfterScan(DOMAIN run.live)]
      /\ \A p \in DOMAIN H : OursAt(p, H[p].is)
  BY <1>2, <1>3, <1>5
<1>8. AfterScan(DOMAIN run.live) \in {"list", "kill", "reap"}
  BY DEF AfterScan
<1> HIDE DEF H
<1>9. /\ RunOK(run') /\ run'.stats = run.stats /\ run'.live = run.live /\ run'.handles = H
  BY <1>1, <1>7, <1>8 DEF RunOK, Started
<1>10. HandlesOK'
  BY <1>1, <1>7, <1>9 DEF HandlesOK, OursAt
<1>11. QED
  BY <1>6, <1>9, <1>10

LEMMA HomeStep == HomeInv /\ [Next]_vars => HomeInv'
<1> SUFFICES ASSUME HomeInv, [Next]_vars
             PROVE  HomeInv'
  OBVIOUS
<1>1. /\ TypeOK /\ Origins /\ astray = FALSE
      /\ DOMAIN run.live \subseteq Pid /\ DOMAIN run.handles \subseteq Pid
  BY DEF HomeInv, TypeOK, SignalsStayHome, IsOf
<1>2. proc' \in [Pid -> PidRecord] /\ born' \in Nat
  BY <1>1, ProcStep
<1> DEFINE Goal == /\ RunOK(run') /\ astray' = FALSE
                   /\ Origins' /\ ReadOK' /\ LiveOK' /\ HandlesOK'
<1>3. \/ List \/ Read \/ Terminate \/ Record
      \/ KillFound \/ (\E p \in Pid : Reap(p))
      \/ World \/ Tick \/ WaitHook \/ HookEnds \/ TimesOut \/ HookStopped \/ KillGroup \/ GiveUpOnHook
      \/ Patience \/ NothingFound \/ ReapZombies \/ Drain \/ UNCHANGED vars
  BY DEF Next, Safegit
<1>4. ASSUME List
      PROVE  Goal
  <2>1. astray' = FALSE /\ Origins'
    BY <1>1, <1>4, RecordsStay DEF List
  <2>2. RunOK(run') /\ ReadOK' /\ run'.live = run.live /\ run'.handles = run.handles
    BY <1>4, ListStep
  <2>3. LiveOK' /\ HandlesOK'
    BY <1>1, <1>4, <2>2 DEF HomeInv, LiveOK, HandlesOK, OursAt, List
  <2>4. QED
    BY <2>1, <2>2, <2>3
<1>5. ASSUME Read
      PROVE  Goal
  <2>1. astray' = FALSE /\ Origins'
    BY <1>1, <1>5, RecordsStay DEF Read
  <2>2. RunOK(run') /\ LiveOK' /\ run'.stats = <<>> /\ run'.handles = run.handles
    BY <1>5, ReadStep
  <2>3. ReadOK'
    BY <2>2 DEF ReadOK
  <2>4. HandlesOK'
    <3>1. ASSUME NEW p \in DOMAIN run.handles
          PROVE  OursAt(p, run.handles[p].is)'
      <4>1. OursAt(p, run.handles[p].is) /\ p \in Pid
        BY <1>1 DEF HomeInv, HandlesOK
      <4>2. QED
        BY <1>1, <2>2, <4>1, OursStays
    <3>2. QED
      BY <2>2, <3>1 DEF HandlesOK
  <2>5. QED
    BY <2>1, <2>2, <2>3, <2>4
<1>6. ASSUME Terminate
      PROVE  Goal
  <2>1. /\ RunOK(run') /\ astray' = FALSE
        /\ run'.stats = run.stats /\ run'.live = <<>> /\ run'.handles = run.handles
    BY <1>6, TerminateStep
  <2>2. Origins' /\ ReadOK' /\ LiveOK' /\ HandlesOK'
    BY <2>1, HomeKept
  <2>3. QED
    BY <2>1, <2>2
<1>7. ASSUME Record
      PROVE  Goal
  <2>1. /\ RunOK(run') /\ astray' = FALSE /\ HandlesOK'
        /\ run'.stats = run.stats /\ run'.live = run.live /\ UNCHANGED <<proc, born>>
    BY <1>7, RecordStep DEF Record
  <2>2. Origins'
    BY <1>1, RecordsStay
  <2>3. ReadOK' /\ LiveOK'
    BY <2>1 DEF HomeInv, ReadOK, LiveOK, OursAt, RecordOK
  <2>4. QED
    BY <2>1, <2>2, <2>3
<1>8. ASSUME \/ World \/ Tick \/ WaitHook \/ HookEnds \/ TimesOut \/ HookStopped \/ KillGroup \/ GiveUpOnHook
             \/ Patience \/ NothingFound \/ KillFound \/ (\E p \in Pid : Reap(p)) \/ ReapZombies \/ Drain
             \/ UNCHANGED vars,
             astray' = FALSE
      PROVE  Goal
  <2>1. \/ World \/ Tick \/ WaitHook \/ HookEnds \/ TimesOut \/ HookStopped \/ KillGroup \/ GiveUpOnHook
        \/ Patience \/ NothingFound \/ KillFound \/ (\E p \in Pid : Reap(p)) \/ ReapZombies \/ Drain
        \/ UNCHANGED run
    BY <1>8 DEF vars
  <2>2. /\ RunOK(run')
        /\ run'.stats = run.stats /\ run'.live \in {run.live, <<>>} /\ run'.handles \in {run.handles, <<>>}
    BY <1>1, <2>1, RunStep
  <2>3. QED
    BY <1>8, <2>2, HomeKept
<1>9. ASSUME KillFound
      PROVE  Goal
  <2>1. \A p \in Reached(run.handles, DOMAIN run.live) : p \in Pid /\ OursAt(p, proc[p].ticks)
    BY <1>1 DEF Reached, HomeInv, HandlesOK
  <2>2. astray' = FALSE
    BY <1>9, <2>1, SignalHome DEF KillFound
  <2>3. QED
    BY <1>8, <1>9, <2>2
<1>10. ASSUME NEW p \in Pid, Reap(p)
       PROVE  Goal
  <2> DEFINE reached == {q \in {p} \cap DOMAIN run.handles : proc[q].ticks = run.handles[q].is}
  <2>1. \A q \in reached : q \in Pid /\ OursAt(q, proc[q].ticks)
    BY DEF HomeInv, HandlesOK
  <2>2. UNCHANGED astray \/ Signal(reached)
    BY <1>10 DEF Reap
  <2> HIDE DEF reached
  <2>3. astray' = FALSE
    BY <1>1, <2>1, <2>2, SignalHome
  <2>4. QED
    BY <1>8, <1>10, <2>3
<1>11. ASSUME \/ World \/ Tick \/ WaitHook \/ HookEnds \/ TimesOut \/ HookStopped \/ KillGroup \/ GiveUpOnHook
              \/ Patience \/ NothingFound \/ ReapZombies \/ Drain \/ UNCHANGED vars
       PROVE  Goal
  <2>1. UNCHANGED astray
    BY <1>11 DEF World, Forks, Exits, Collects, StrangerStarts, Tick, WaitHook, HookEnds, TimesOut, HookStopped,
       KillGroup, GiveUpOnHook, Patience, NothingFound, ReapZombies, Drain, vars
  <2>2. QED
    BY <1>1, <1>8, <1>11, <2>1
<1>12. Goal
  BY <1>3, <1>4, <1>5, <1>6, <1>7, <1>9, <1>10, <1>11
<1>13. QED
  BY <1>2, <1>12, TypeParts DEF HomeInv, SignalsStayHome, TypeOK, RunOK

LEMMA HomeInit == Init => HomeInv
<1> SUFFICES ASSUME Init
             PROVE  HomeInv
  OBVIOUS
<1>1. PICK earlier \in SUBSET {2} :
          proc = [p \in Pid |-> IF p = Hook THEN Process(Self, Hook, 1, "plain")
                                ELSE IF p \in earlier THEN Process(Self, p, 0, "earlier") ELSE Free]
  BY DEF Init
<1>2. born = 1 /\ run = Started /\ astray = FALSE
  BY DEF Init
<1>3. ASSUME NEW p \in Pid
      PROVE  proc[p] \in PidRecord /\ RecordOK(proc[p])
  BY <1>1, <1>2, FreeOK, PidsOK DEF RecordOK, PidRecord, Process, Free, Ours
<1>4. proc \in [Pid -> PidRecord]
  BY <1>1, <1>3
<1>5. RunOK(run)
  BY <1>2, NothingIsOf DEF RunOK, Started, Cap
<1>6. ReadOK /\ LiveOK /\ HandlesOK
  BY <1>2 DEF ReadOK, LiveOK, HandlesOK, Started
<1>7. QED
  BY <1>2, <1>3, <1>4, <1>5, <1>6, TypeParts DEF HomeInv, Origins, SignalsStayHome

LEMMA HomeAlways == Spec => []HomeInv
BY HomeInit, HomeStep, PTL DEF Spec

(* The processes, what was read of them and what safegit remembers are well  *)
(* formed in every state.                                                    *)
THEOREM TypeCorrect == Spec => []TypeOK
BY HomeAlways, PTL DEF HomeInv

(* SignalsStayHome holds in every reachable state: whatever reads, forks,    *)
(* ends and reuses of pids come between, a signal that contain_linux.go sends *)
(* through a pidfd reaches a process of the hook or none.                    *)
THEOREM SignalsStay == Spec => []SignalsStayHome
BY HomeAlways, PTL DEF HomeInv
---------------------------------------------------------------------------
(* The second theorem.  What a step may do to the processes of the hook.     *)
LEMMA Changes ==
  ASSUME HomeInv, [Next]_vars
  PROVE  \/ \E dying \in SUBSET Pid : /\ proc' = Exited(dying)
                                      /\ run.pc = "read" => dying \cap Kin = {} \/ run'.torn
         \/ \A p \in Pid : proc'[p] = proc[p] \/ (proc[p].st = "zombie" /\ proc'[p] = Free)
         \/ \E p, q \in Pid, kind \in Kinds : Forks(p, q, kind)
         \/ \E q \in Pid : StrangerStarts(q)
<1> DEFINE Goal == \/ \E dying \in SUBSET Pid : /\ proc' = Exited(dying)
                                                /\ run.pc = "read" => dying \cap Kin = {} \/ run'.torn
                   \/ \A p \in Pid : proc'[p] = proc[p] \/ (proc[p].st = "zombie" /\ proc'[p] = Free)
                   \/ \E p, q \in Pid, kind \in Kinds : Forks(p, q, kind)
                   \/ \E q \in Pid : StrangerStarts(q)
<1>1. TypeOK /\ RunOK(run) /\ proc \in [Pid -> PidRecord] /\ DOMAIN run.live \subseteq Pid
  BY TypeParts DEF HomeInv, RunOK, IsOf
<1>2. ASSUME UNCHANGED proc \/ \E ps : proc' = Waited(ps)
      PROVE  Goal
  BY <1>1, <1>2 DEF Waited
<1>3. ASSUME NEW ps \in SUBSET Pid, proc' = Killed(ps), run.pc # "read"
      PROVE  Goal
  BY <1>3 DEF Killed
<1>4. ASSUME NEW p \in Pid, Exits(p)
      PROVE  Goal
  <2>1. proc' = Exited({p})
    BY <1>4 DEF Exits
  <2>2. run.pc = "read" => {p} \cap Kin = {} \/ run'.torn
    BY <1>1, <1>4 DEF Exits, Tears, RunOK, Started
  <2>3. QED
    BY <2>1, <2>2
<1>5. ASSUME NEW p \in Pid, Collects(p)
      PROVE  Goal
  BY <1>1, <1>5 DEF Collects
<1>6. ASSUME World
      PROVE  Goal
  BY <1>4, <1>5, <1>6 DEF World
<1>7. ASSUME WaitHook
      PROVE  Goal
  BY <1>1, <1>7 DEF WaitHook
<1>8. ASSUME KillGroup
      PROVE  Goal
  BY <1>3, <1>8 DEF KillGroup, Taken
<1>9. ASSUME KillFound
      PROVE  Goal
  <2>1. Reached(run.handles, DOMAIN run.live) \subseteq Pid
    BY <1>1 DEF Reached
  <2>2. QED
    BY <1>3, <1>9, <2>1 DEF KillFound
<1>10. ASSUME NEW p \in Pid, Reap(p)
       PROVE  Goal
  <2>1. \/ UNCHANGED proc \/ proc' = Waited({p})
        \/ \E ps \in SUBSET {p} : proc' = Killed(ps)
    BY <1>10 DEF Reap
  <2>2. run.pc # "read"
    BY <1>10 DEF Reap
  <2>3. QED
    BY <1>2, <1>3, <2>1, <2>2
<1>11. ASSUME Read \/ NothingFound \/ ReapZombies
       PROVE  Goal
  BY <1>2, <1>11 DEF Read, NothingFound, ReapZombies
<1>12. ASSUME \/ Tick \/ HookEnds \/ TimesOut \/ HookStopped \/ GiveUpOnHook \/ List \/ Terminate \/ Patience
              \/ Record \/ Drain \/ UNCHANGED vars
       PROVE  Goal
  BY <1>2, <1>12 DEF Tick, HookEnds, TimesOut, HookStopped, GiveUpOnHook, List, Terminate, Patience,
     Record, Drain, vars
<1>13. QED
  BY <1>6, <1>7, <1>8, <1>9, <1>10, <1>11, <1>12 DEF Next, Safegit

(* Every living process of the hook stays below safegit or an older one; if  *)
(* none lives none is born; one that takes the pid the hook had is noticed;  *)
(* and while /proc is read one that is not noticed changes nothing.          *)
LEMMA KinStep ==
  ASSUME HomeInv, Rooted, [Next]_vars
  PROVE  /\ Rooted'
         /\ LiveKin = {} => LiveKin' = {}
         /\ Hook \in Kin' => Hook \in Kin \/ run'.shadowed
         /\ run.pc = "read" /\ ~run'.torn => \A p \in LiveKin' : p \in LiveKin /\ proc'[p] = proc[p]
<1> DEFINE Goal == /\ Rooted'
                   /\ LiveKin = {} => LiveKin' = {}
                   /\ Hook \in Kin' => Hook \in Kin \/ run'.shadowed
                   /\ run.pc = "read" /\ ~run'.torn => \A p \in LiveKin' : p \in LiveKin /\ proc'[p] = proc[p]
<1>1. /\ TypeOK /\ Origins /\ RunOK(run) /\ proc \in [Pid -> PidRecord] /\ born \in Nat
      /\ \A p \in Pid : proc[p].ticks <= born /\ proc[p].ticks \in Nat
  BY TypeParts DEF HomeInv, Origins, RecordOK, PidRecord
<1>2. ASSUME NEW dying \in SUBSET Pid, proc' = Exited(dying),
             run.pc = "read" => dying \cap Kin = {} \/ run'.torn
      PROVE  Goal
  <2>1. \A p \in Pid : /\ Kept(proc[p], proc'[p])
                       /\ p \notin dying => proc'[p].st = proc[p].st
                       /\ proc'[p] # Free => proc'[p].parent \notin dying
                       /\ p \notin dying /\ proc[p].parent \notin dying => proc'[p] = proc[p]
    BY <1>1, <1>2, ExitedKeeps
  <2>2. \A p \in Kin' : p \in Kin /\ p \in Pid /\ proc'[p].ticks = proc[p].ticks /\ proc'[p].kind = proc[p].kind
    BY <2>1 DEF Kin, Taken, Kept, Free
  <2>3. \A p \in LiveKin' : p \in LiveKin
    BY <2>1, <2>2 DEF LiveKin, Kept, Free
  <2>4. \A p \in LiveKin : p \notin dying => p \in LiveKin' /\ proc'[p].ticks = proc[p].ticks
    BY <2>1 DEF LiveKin, Kin, Taken, Kept, Free
  <2>5. ASSUME NEW p \in Kin'
        PROVE  \/ proc'[p].parent = Self
               \/ proc'[p].parent \in LiveKin' /\ proc'[proc'[p].parent].ticks < proc'[p].ticks
    <3>1. /\ p \in Kin /\ p \in Pid /\ proc'[p].ticks = proc[p].ticks /\ proc'[p].st # "free"
          /\ Kept(proc[p], proc'[p]) /\ proc'[p] # Free /\ proc'[p].parent \notin dying
      BY <2>1, <2>2, <2>5 DEF Kin, Taken, Free
    <3>2. proc'[p].parent = Self \/ proc'[p].parent = proc[p].parent
      BY <3>1 DEF Kept
    <3>3. CASE proc'[p].parent = proc[p].parent /\ proc[p].parent # Self
      <4>1. proc[p].parent \in LiveKin /\ proc[proc[p].parent].ticks < proc[p].ticks
        BY <3>1, <3>3 DEF Rooted
      <4>2. QED
        BY <2>4, <3>1, <3>3, <4>1
    <3>4. QED
      BY <3>2, <3>3
  <2>6. ASSUME run.pc = "read", ~run'.torn, NEW p \in LiveKin'
        PROVE  p \in LiveKin /\ proc'[p] = proc[p]
    <3>1. p \in LiveKin /\ p \in Kin /\ p \in Pid /\ dying \cap Kin = {}
      BY <1>2, <2>3, <2>6 DEF LiveKin, Kin, Taken
    <3>2. proc[p].parent = Self \/ proc[p].parent \in LiveKin
      BY <3>1 DEF Rooted
    <3>3. proc[p].parent \notin dying
      BY <3>1, <3>2, PidsOK DEF LiveKin
    <3>4. QED
      BY <2>1, <3>1, <3>3
  <2>7. Rooted'
    BY <2>5 DEF Rooted
  <2>8. QED
    BY <2>2, <2>3, <2>6, <2>7
<1>3. ASSUME \A p \in Pid : proc'[p] = proc[p] \/ (proc[p].st = "zombie" /\ proc'[p] = Free)
      PROVE  Goal
  <2>1. \A p \in Kin' : p \in Kin /\ proc'[p] = proc[p]
    BY <1>3 DEF Kin, Taken, Free
  <2>2. \A p \in Pid : p \in LiveKin <=> p \in LiveKin'
    BY <1>3 DEF LiveKin, Kin, Taken, Free
  <2>3. \A p \in LiveKin' : p \in LiveKin /\ p \in Pid /\ proc'[p] = proc[p]
    BY <2>1, <2>2 DEF LiveKin, Kin, Taken
  <2>4. \A p \in LiveKin : p \in LiveKin' /\ proc'[p] = proc[p]
    BY <2>2, <2>3 DEF LiveKin, Kin, Taken
  <2>5. ASSUME NEW p \in Kin'
        PROVE  \/ proc'[p].parent = Self
               \/ proc'[p].parent \in LiveKin' /\ proc'[proc'[p].parent].ticks < proc'[p].ticks
    BY <2>1, <2>4 DEF Rooted
  <2>6. Rooted'
    BY <2>5 DEF Rooted
  <2>7. QED
    BY <2>1, <2>3, <2>6
<1>4. ASSUME NEW r \in Pid, NEW q \in Pid, NEW kind \in Kinds, Forks(r, q, kind)
      PROVE  Goal
  <2> DEFINE new == Process(r, IF kind = "daemon" THEN q ELSE proc[r].group, born + 1, kind)
  <2>1. /\ r \in LiveKin /\ proc[q].st = "free" /\ proc' = [proc EXCEPT ![q] = new]
        /\ run' = [Tears EXCEPT !.shadowed = @ \/ q = Hook]
    BY <1>4 DEF Forks, Unused
  <2>2. new.parent = r /\ new.ticks = born + 1
    BY DEF Process
  <2> HIDE DEF new
  <2>3. proc'[q] = new /\ \A p \in Pid \ {q} : proc'[p] = proc[p]
    BY <1>1, <2>1
  <2>4. \A p \in Kin' : p # q => p \in Kin
    BY <2>3 DEF Kin, Taken
  <2>5. q \notin LiveKin /\ \A p \in LiveKin : p \in LiveKin' /\ p \in Pid \ {q}
    BY <2>1, <2>3 DEF LiveKin, Kin, Taken
  <2>6. ASSUME NEW p \in Kin'
        PROVE  \/ proc'[p].parent = Self
               \/ proc'[p].parent \in LiveKin' /\ proc'[proc'[p].parent].ticks < proc'[p].ticks
    <3>1. CASE p = q
      BY <1>1, <2>1, <2>2, <2>3, <2>5, <3>1
    <3>2. CASE p # q
      <4>1. p \in Kin /\ p \in Pid /\ proc'[p] = proc[p]
        BY <2>3, <2>4, <3>2 DEF Kin, Taken
      <4>2. QED
        BY <2>3, <2>5, <4>1 DEF Rooted
    <3>3. QED
      BY <3>1, <3>2
  <2>7. Rooted'
    BY <2>6 DEF Rooted
  <2>8. (q = Hook => run'.shadowed) /\ (run.pc = "read" => run'.torn)
    BY <1>1, <2>1 DEF Tears, RunOK, Started
  <2>9. QED
    BY <2>1, <2>4, <2>7, <2>8
<1>5. ASSUME NEW q \in Pid, StrangerStarts(q)
      PROVE  Goal
  <2> DEFINE new == Process(Outside, q, born + 1, "stranger")
  <2>1. proc[q].st = "free" /\ proc' = [proc EXCEPT ![q] = new]
    BY <1>5 DEF StrangerStarts, Unused
  <2>2. proc'[q].kind = "stranger" /\ \A p \in Pid \ {q} : proc'[p] = proc[p]
    BY <1>1, <2>1 DEF Process
  <2>3. \A p \in Kin' : p \in Kin /\ p \in Pid \ {q} /\ proc'[p] = proc[p]
    BY <2>2 DEF Kin, Taken
  <2>4. \A p \in LiveKin : p \in LiveKin' /\ p \in Pid \ {q} /\ proc'[p] = proc[p]
    BY <2>1, <2>2 DEF LiveKin, Kin, Taken
  <2>5. \A p \in LiveKin' : p \in LiveKin /\ proc'[p] = proc[p]
    BY <2>3 DEF LiveKin
  <2>6. ASSUME NEW p \in Kin'
        PROVE  \/ proc'[p].parent = Self
               \/ proc'[p].parent \in LiveKin' /\ proc'[proc'[p].parent].ticks < proc'[p].ticks
    BY <2>3, <2>4 DEF Rooted
  <2>7. Rooted'
    BY <2>6 DEF Rooted
  <2>8. QED
    BY <2>3, <2>5, <2>7
<1>6. QED
  BY <1>2, <1>3, <1>4, <1>5, Changes
(* The natural numbers are well founded.                                     *)
LEMMA NaturalOrder ==
  \E R : IsWellFoundedOn(R, Nat) /\ \A m, n \in Nat : m < n => <<m, n>> \in R
<1> DEFINE R == OpToRel(<, Nat)
<1>1. IsWellFoundedOn(R, Nat)
  BY NatLessThanWellFounded
<1>2. \A m, n \in Nat : m < n => <<m, n>> \in R
  BY DEF OpToRel
<1> HIDE DEF R
<1>3. QED
  BY <1>1, <1>2, Zenon

LEMMA LeastNatural ==
  ASSUME NEW T \in SUBSET Nat, T # {}
  PROVE  \E n \in T : \A m \in T : ~(m < n)
<1>1. PICK R : IsWellFoundedOn(R, Nat) /\ \A m, n \in Nat : m < n => <<m, n>> \in R
  BY NaturalOrder
<1>2. PICK n \in T : \A m \in T : <<m, n>> \notin R
  <2>1. IsWellFoundedOn(R, Nat) /\ T \subseteq Nat
    BY <1>1
  <2>2. QED
    BY <2>1, WFMin
<1>3. ASSUME NEW m \in T, m < n
      PROVE  FALSE
  <2>1. <<m, n>> \in R
    BY <1>1, <1>3, Zenon
  <2>2. QED
    BY <1>2, <2>1, Zenon
<1>4. QED
  BY <1>3

(* A scan that nothing was born or died under and that found nothing: the    *)
(* oldest living process of the hook would be a child of safegit, and found. *)
LEMMA EmptyScan ==
  ASSUME HomeInv, SweepInv, Read, run.mode # "terminate", Silent, DOMAIN run'.live = {}
  PROVE  LiveKin = {}
<1> DEFINE D == DOMAIN run.stats \cup (run.list \cap Taken)
           stats == [p \in D |-> IF p \in DOMAIN run.stats THEN run.stats[p] ELSE proc[p]]
           live == [p \in Below(stats) |-> [ticks |-> stats[p].ticks, group |-> stats[p].group]]
<1>1. /\ RunOK(run) /\ proc \in [Pid -> PidRecord] /\ Origins /\ run.pc = "read"
  BY TypeParts DEF HomeInv, Read
<1>2. run' = [run EXCEPT !.pc = "act", !.list = {}, !.stats = <<>>, !.live = live]
  BY DEF Read
<1>3. Below(stats) = {}
  <2> DEFINE B == Below(stats)
             R(p) == [ticks |-> stats[p].ticks, group |-> stats[p].group]
             L == [p \in B |-> R(p)]
  <2>1. run'.live = L
    BY <1>1, <1>2 DEF RunOK, Started
  <2> HIDE DEF B, R
  <2>2. DOMAIN L = B
    OBVIOUS
  <2>3. QED
    BY <2>1, <2>2 DEF B
<1>4. Hook \notin LiveKin
  BY <1>1 DEF SweepInv, HookAwaited, HookGone, Sweeping, Silent, LiveKin
<1>5. ASSUME NEW p \in LiveKin
      PROVE  p \in D /\ stats[p] = proc[p]
  <2>1. p \in run.list \cup DOMAIN run.stats /\ (p \in DOMAIN run.stats => run.stats[p] = proc[p]) /\ p \in Taken
    BY <1>1, <1>5 DEF SweepInv, Snapshot, Silent, LiveKin, Kin
  <2>2. QED
    BY <2>1
<1>6. ASSUME LiveKin # {}
      PROVE  FALSE
  <2> DEFINE T == {proc[p].ticks : p \in LiveKin}
  <2>1. \A p \in LiveKin : /\ p \in Pid /\ p \in Kin /\ proc[p] \in PidRecord /\ RecordOK(proc[p])
                           /\ proc[p].st = "live" /\ proc[p].kind \notin {"stranger", "earlier"}
    BY <1>1 DEF LiveKin, Kin, Taken, Origins
  <2>2. \A p \in LiveKin : proc[p].ticks \in Nat /\ proc[p].ticks >= 1
    BY <2>1 DEF RecordOK, PidRecord
  <2>3. T \in SUBSET Nat /\ T # {}
    BY <1>6, <2>2
  <2>4. PICK n \in T : \A m \in T : ~(m < n)
    <3> HIDE DEF T
    <3>1. QED
      BY <2>3, LeastNatural
  <2>5. PICK p \in LiveKin : n = proc[p].ticks
    OBVIOUS
  <2>6. proc[p].parent = Self
    <3>1. \/ proc[p].parent = Self
          \/ proc[p].parent \in LiveKin /\ proc[proc[p].parent].ticks < proc[p].ticks
      BY <2>1 DEF SweepInv, Rooted
    <3>2. QED
      BY <2>4, <2>5, <3>1
  <2>7. p \in Alive(stats) /\ p \in Adopted(stats)
    BY <1>4, <1>5, <2>1, <2>2, <2>6 DEF Alive, IsZombie, Adopted
  <2> HIDE DEF stats
  <2>8. p \in Below(stats)
    BY <2>7 DEF Below, Roots
  <2>9. QED
    BY <1>3, <2>8
<1>7. QED
  BY <1>6

(* How the sweep moves on: where each of its states comes from, and that no  *)
(* step takes back what was learnt of the hook or named as still running.    *)
LEMMA Moves ==
  ASSUME HomeInv, [Next]_vars
  PROVE  /\ run'.code = run.code \/ WaitHook
         /\ run.unstopped # {} => run'.unstopped # {}
         /\ run.shadowed => run'.shadowed
         /\ run.torn => run'.torn \/ List
         /\ Sweeping' => Sweeping \/ run.code # "none" \/ run'.unstopped # {}
         /\ run'.pc \in {"kill", "reap"} =>
               \/ Record \/ \E p \in Pid : Reap(p)
               \/ /\ run'.pc = run.pc /\ run'.mode = run.mode /\ run'.live = run.live
                  /\ run'.found = run.found /\ run'.unstopped = run.unstopped
         /\ run'.pc = "read" => List \/ (run.pc = "read" /\ run'.list = run.list /\ run'.stats = run.stats)
         /\ run'.pc \in {"act", "kill", "reap"} =>
               \/ Read
               \/ run.pc \in {"act", "kill", "reap"} /\ run'.mode = run.mode /\ run'.live = run.live
         /\ run'.pc \in {"drain", "done"} => run.pc \in {"drain", "done"} \/ NothingFound \/ ReapZombies
<1> DEFINE Goal ==
         /\ run'.code = run.code \/ WaitHook
         /\ run.unstopped # {} => run'.unstopped # {}
         /\ run.shadowed => run'.shadowed
         /\ run.torn => run'.torn \/ List
         /\ Sweeping' => Sweeping \/ run.code # "none" \/ run'.unstopped # {}
         /\ run'.pc \in {"kill", "reap"} =>
               \/ Record \/ \E p \in Pid : Reap(p)
               \/ /\ run'.pc = run.pc /\ run'.mode = run.mode /\ run'.live = run.live
                  /\ run'.found = run.found /\ run'.unstopped = run.unstopped
         /\ run'.pc = "read" => List \/ (run.pc = "read" /\ run'.list = run.list /\ run'.stats = run.stats)
         /\ run'.pc \in {"act", "kill", "reap"} =>
               \/ Read
               \/ run.pc \in {"act", "kill", "reap"} /\ run'.mode = run.mode /\ run'.live = run.live
         /\ run'.pc \in {"drain", "done"} => run.pc \in {"drain", "done"} \/ NothingFound \/ ReapZombies
<1>1. RunOK(run)
  BY TypeParts DEF HomeInv
<1>2. ASSUME UNCHANGED run
      PROVE  Goal
  BY <1>2 DEF Sweeping
<1>3. ASSUME World
      PROVE  Goal
  <2>1. run' \in {run, Tears} \/ \E q \in Pid : run' = [Tears EXCEPT !.shadowed = @ \/ q = Hook]
    BY <1>3 DEF World, Forks, Exits, Collects, StrangerStarts
  <2>2. /\ \A f \in DOMAIN Started \ {"torn", "shadowed"} : run'[f] = run[f]
        /\ (run.torn => run'.torn) /\ (run.shadowed => run'.shadowed)
    BY <1>1, <2>1 DEF Tears, RunOK, Started
  <2>3. QED
    BY <2>2 DEF Sweeping, Started
<1>4. ASSUME Tick \/ WaitHook
      PROVE  Goal
  BY <1>1, <1>4 DEF Tick, WaitHook, RunOK, Started, Sweeping
<1>5. ASSUME HookEnds \/ TimesOut
      PROVE  Goal
  BY <1>1, <1>5 DEF HookEnds, TimesOut, Stop, RunOK, Started, Sweeping
<1>6. ASSUME HookStopped
      PROVE  Goal
  BY <1>1, <1>6 DEF HookStopped, SweepNext, RunOK, Started, Sweeping
<1>7. ASSUME KillGroup
      PROVE  Goal
  BY <1>1, <1>7 DEF KillGroup, RunOK, Started, Sweeping
<1>8. ASSUME GiveUpOnHook
      PROVE  Goal
  BY <1>1, <1>8 DEF GiveUpOnHook, SweepNext, RunOK, Started, Sweeping
<1>9. ASSUME List
      PROVE  Goal
  <2>1. PICK list, stats : run' = [run EXCEPT !.pc = "read", !.torn = FALSE, !.list = list, !.stats = stats]
    BY <1>9 DEF List
  <2>2. run.pc = "list"
    BY <1>9 DEF List
  <2>3. QED
    BY <1>1, <1>9, <2>1, <2>2 DEF RunOK, Started, Sweeping
<1>10. ASSUME Read
       PROVE  Goal
  <2>1. PICK live : run' = [run EXCEPT !.pc = "act", !.list = {}, !.stats = <<>>, !.live = live]
    BY <1>10 DEF Read
  <2>2. run.pc = "read"
    BY <1>10 DEF Read
  <2>3. QED
    BY <1>1, <1>10, <2>1, <2>2 DEF RunOK, Started, Sweeping
<1>11. ASSUME Terminate
       PROVE  Goal
  <2>1. PICK found : run' = [Clear(run) EXCEPT !.pc = "await term", !.found = found]
    BY <1>11 DEF Terminate
  <2>2. QED
    BY <1>1, <2>1 DEF Clear, RunOK, Started, Sweeping
<1>12. ASSUME Patience
       PROVE  Goal
  <2>1. PICK mode \in {"group", "first"} : run' = [Clear(run) EXCEPT !.pc = "list", !.mode = mode]
    BY <1>12 DEF Patience
  <2>2. run.pc = "act" /\ run.mode = "group"
    BY <1>12 DEF Patience
  <2>3. QED
    BY <1>1, <2>1, <2>2 DEF Clear, RunOK, Started, Sweeping
<1>13. ASSUME NothingFound
       PROVE  Goal
  BY <1>1, <1>13 DEF NothingFound, RunOK, Started, Sweeping
<1>14. ASSUME Record
       PROVE  Goal
  <2>1. PICK handles, found, pc : /\ run' = [run EXCEPT !.handles = handles, !.found = found, !.pc = pc]
                                  /\ pc \in {"list", "kill", "reap"}
    BY <1>14 DEF Record, AfterScan
  <2>2. run.pc = "act"
    BY <1>14 DEF Record
  <2>3. QED
    BY <1>1, <1>14, <2>1, <2>2 DEF RunOK, Started, Sweeping
<1>15. ASSUME KillFound
       PROVE  Goal
  <2>1. run' = [run EXCEPT !.pc = "list"] /\ run.pc = "kill"
    BY <1>15 DEF KillFound
  <2>2. QED
    BY <1>1, <2>1 DEF RunOK, Started, Sweeping
<1>16. ASSUME NEW p \in Pid, Reap(p)
       PROVE  Goal
  <2>1. run.pc = "reap" /\ (UNCHANGED run \/ \E killed \in BOOLEAN : run' = Judged(p, killed))
    BY <1>16 DEF Reap
  <2>2. ASSUME NEW killed \in BOOLEAN, run' = Judged(p, killed)
        PROVE  Goal
    BY <1>1, <1>16, <2>1, <2>2 DEF Judged, RunOK, Started, Sweeping
  <2>3. QED
    BY <1>2, <2>1, <2>2
<1>17. ASSUME ReapZombies
       PROVE  Goal
  BY <1>1, <1>17 DEF ReapZombies, Clear, RunOK, Started, Sweeping
<1>18. ASSUME Drain
       PROVE  Goal
  <2>1. PICK unknown : run' = [run EXCEPT !.pc = "done", !.unknown = unknown]
    <3>1. run' = [run EXCEPT !.pc = "done"] => run' = [run EXCEPT !.pc = "done", !.unknown = run.unknown]
      BY <1>1 DEF RunOK, Started
    <3>2. QED
      BY <1>18, <3>1 DEF Drain
  <2>2. run.pc = "drain"
    BY <1>18 DEF Drain
  <2>3. QED
    BY <1>1, <2>1, <2>2 DEF RunOK, Started, Sweeping
<1>19. QED
  <2>1. UNCHANGED vars => UNCHANGED run
    BY DEF vars
  <2>2. QED
    BY <1>2, <1>3, <1>4, <1>5, <1>6, <1>7, <1>8, <1>9, <1>10, <1>11, <1>12, <1>13, <1>14, <1>15, <1>16, <1>17,
       <1>18, <2>1 DEF Next, Safegit
LEMMA SweepStep == HomeInv /\ SweepInv /\ [Next]_vars => SweepInv'
<1> SUFFICES ASSUME HomeInv, SweepInv, [Next]_vars
             PROVE  SweepInv'
  OBVIOUS
<1>1. /\ RunOK(run) /\ proc \in [Pid -> PidRecord]
      /\ Rooted /\ HookGone /\ HookAwaited /\ Sweeps /\ Snapshot /\ NoneLeft
  BY TypeParts DEF HomeInv, SweepInv
<1>2. /\ Rooted'
      /\ LiveKin = {} => LiveKin' = {}
      /\ Hook \in Kin' => Hook \in Kin \/ run'.shadowed
      /\ run.pc = "read" /\ ~run'.torn => \A p \in LiveKin' : p \in LiveKin /\ proc'[p] = proc[p]
  BY <1>1, KinStep
<1>3. /\ run'.code = run.code \/ WaitHook
      /\ run.unstopped # {} => run'.unstopped # {}
      /\ run.shadowed => run'.shadowed
      /\ run.torn => run'.torn \/ List
      /\ Sweeping' => Sweeping \/ run.code # "none" \/ run'.unstopped # {}
  BY Moves
<1>4. /\ run'.pc \in {"kill", "reap"} =>
            \/ Record \/ \E p \in Pid : Reap(p)
            \/ /\ run'.pc = run.pc /\ run'.mode = run.mode /\ run'.live = run.live
               /\ run'.found = run.found /\ run'.unstopped = run.unstopped
      /\ run'.pc = "read" => List \/ (run.pc = "read" /\ run'.list = run.list /\ run'.stats = run.stats)
      /\ run'.pc \in {"act", "kill", "reap"} =>
            \/ Read
            \/ run.pc \in {"act", "kill", "reap"} /\ run'.mode = run.mode /\ run'.live = run.live
      /\ run'.pc \in {"drain", "done"} => run.pc \in {"drain", "done"} \/ NothingFound \/ ReapZombies
  BY Moves
<1>5. WaitHook => run'.code # "none" /\ Hook \notin Kin'
  <2>1. ASSUME WaitHook
        PROVE  run'.code # "none" /\ Hook \notin Kin'
    <3>1. PICK code \in {"ok", "bad"} : run' = [run EXCEPT !.code = code]
      BY <2>1 DEF WaitHook
    <3>2. proc' = [proc EXCEPT ![Hook] = Free]
      BY <2>1 DEF WaitHook
    <3>3. run'.code # "none"
      BY <1>1, <3>1 DEF RunOK, Started
    <3>4. proc'[Hook].st = "free"
      BY <1>1, <3>2, PidsOK DEF Free
    <3>5. QED
      BY <3>3, <3>4 DEF Kin, Taken
  <2>2. QED
    BY <2>1
<1>6. HookGone'
  BY <1>1, <1>2, <1>3, <1>5 DEF HookGone
<1>7. HookAwaited'
  BY <1>1, <1>3, <1>5 DEF HookAwaited
<1>8. Sweeps'
  <2>1. ASSUME Record
        PROVE  Sweeps'
    <3>1. PICK handles, pc : run' = [run EXCEPT !.handles = handles, !.found = @ \cup DOMAIN run.live, !.pc = pc]
      BY <2>1 DEF Record
    <3>2. run.mode = "first"
      BY <2>1 DEF Record
    <3>3. QED
      BY <1>1, <3>1, <3>2 DEF RunOK, Started, Sweeps
  <2>2. ASSUME NEW p \in Pid, Reap(p)
        PROVE  Sweeps'
    <3>1. run.pc = "reap" /\ run.mode = "first" /\ DOMAIN run.live \subseteq run.found \cup run.unstopped
      BY <1>1, <2>2 DEF Reap, Sweeps
    <3>2. CASE UNCHANGED run
      BY <3>1, <3>2 DEF Sweeps
    <3>3. CASE run' = Judged(p, FALSE)
      BY <1>1, <3>1, <3>3 DEF Judged, RunOK, Started, Sweeps
    <3>4. CASE run' = Judged(p, TRUE) /\ p \notin DOMAIN run.live
      BY <1>1, <3>1, <3>4 DEF Judged, RunOK, Started, Sweeps
    <3>5. QED
      BY <2>2, <3>2, <3>3, <3>4 DEF Reap
  <2>3. QED
    BY <1>1, <1>4, <2>1, <2>2 DEF Sweeps
<1>9. Snapshot'
  <2>1. ASSUME List
        PROVE  Snapshot'
    <3>1. PICK k \in {0, Hook, Cardinality(Pid)} :
             run' = [run EXCEPT !.pc = "read", !.torn = FALSE, !.list = {p \in Taken : p > k},
                                !.stats = [p \in {q \in Taken : q <= k} |-> proc[p]]]
      BY <2>1 DEF List
    <3>2. k \in Int
      BY ContainmentConstants, PidsOK, FS_CardinalityType
    <3> DEFINE Q == {q \in Taken : q <= k}
               stats == [p \in Q |-> proc[p]]
    <3>3. run'.list = {p \in Taken : p > k} /\ run'.stats = stats
      BY <1>1, <3>1 DEF RunOK, Started
    <3>4. \A p \in Taken : p > k \/ p \in Q
      BY <3>2, PidsOK DEF Taken
    <3>5. UNCHANGED proc
      BY <2>1 DEF List
    <3>6. \A p \in LiveKin' : p \in Taken /\ p \in LiveKin
      BY <3>5 DEF LiveKin, Kin, Taken
    <3> HIDE DEF Q
    <3>7. DOMAIN stats = Q /\ \A p \in Q : stats[p] = proc[p]
      OBVIOUS
    <3> HIDE DEF stats
    <3>8. QED
      BY <3>3, <3>4, <3>5, <3>6, <3>7 DEF Snapshot
  <2>2. ASSUME run.pc = "read", run'.list = run.list, run'.stats = run.stats, ~List
        PROVE  Snapshot'
    BY <1>1, <1>2, <1>3, <2>2 DEF Snapshot
  <2>3. List => run.pc = "list"
    BY DEF List
  <2>4. QED
    BY <1>4, <2>1, <2>2, <2>3 DEF Snapshot
<1>10. NoneLeft'
  <2>1. List => run'.pc = "read"
    BY <1>1 DEF List, RunOK, Started
  <2>2. Silent' /\ run'.pc # "read" => Silent
    BY <1>3, <2>1 DEF Silent
  <2>3. ASSUME Sweeping', run'.pc \in {"act", "kill", "reap"}, Silent', DOMAIN run'.live = {}
        PROVE  LiveKin' = {}
    <3>1. CASE Read
      <4>1. run'.mode = run.mode
        <5>1. PICK live : run' = [run EXCEPT !.pc = "act", !.list = {}, !.stats = <<>>, !.live = live]
          BY <3>1 DEF Read
        <5>2. QED
          BY <1>1, <5>1 DEF RunOK, Started
      <4>2. LiveKin = {}
        BY <2>2, <2>3, <3>1, <4>1, EmptyScan DEF Sweeping
      <4>3. QED
        BY <1>2, <4>2
    <3>2. CASE run.pc \in {"act", "kill", "reap"} /\ run'.mode = run.mode /\ run'.live = run.live
      BY <1>1, <1>2, <2>2, <2>3, <3>2 DEF NoneLeft, Sweeping
    <3>3. QED
      BY <1>4, <2>3, <3>1, <3>2
  <2>4. ASSUME run'.pc \in {"drain", "done"}, Silent'
        PROVE  LiveKin' = {}
    <3>1. Silent
      BY <2>2, <2>4
    <3>2. CASE run.pc \in {"drain", "done"}
      BY <1>1, <1>2, <3>1, <3>2 DEF NoneLeft
    <3>3. CASE NothingFound
      BY <1>1, <1>2, <3>1, <3>3 DEF NoneLeft, NothingFound, Sweeping
    <3>4. CASE ReapZombies
      <4>1. run.pc = "reap" /\ run.mode = "first" /\ DOMAIN run.live = {}
        BY <1>1, <3>1, <3>4 DEF ReapZombies, Sweeps, Silent
      <4>2. QED
        BY <1>1, <1>2, <3>1, <4>1 DEF NoneLeft, Sweeping
    <3>5. QED
      BY <1>4, <2>4, <3>2, <3>3, <3>4
  <2>5. QED
    BY <2>3, <2>4 DEF NoneLeft
<1>11. QED
  BY <1>2, <1>6, <1>7, <1>8, <1>9, <1>10 DEF SweepInv

LEMMA SweepInit == Init => SweepInv
<1> SUFFICES ASSUME Init
             PROVE  SweepInv
  OBVIOUS
<1>1. PICK earlier \in SUBSET {2} :
          proc = [p \in Pid |-> IF p = Hook THEN Process(Self, Hook, 1, "plain")
                                ELSE IF p \in earlier THEN Process(Self, p, 0, "earlier") ELSE Free]
  BY DEF Init
<1>2. \A p \in Pid : proc[p].parent = Self
  BY <1>1 DEF Process, Free
<1>3. Rooted
  BY <1>2 DEF Rooted, Kin, Taken
<1>4. run = Started
  BY DEF Init
<1>5. QED
  BY <1>3, <1>4 DEF SweepInv, Started, HookGone, HookAwaited, Sweeps, Snapshot, NoneLeft, Sweeping

(* NothingOutlives holds in every reachable state: when the run of a hook is *)
(* over and containment has named nothing as still running, no process of    *)
(* the hook runs, however its tree was built, moved and reparented; save for *)
(* what the run knows it cannot see, a birth or death under the last scan.   *)
THEOREM NothingIsLeft == Spec => []NothingOutlives
<1>1. SweepInv => NothingOutlives
  BY DEF SweepInv, NoneLeft, Silent, NothingOutlives
<1>2. QED
  BY <1>1, HomeInit, HomeStep, SweepInit, SweepStep, PTL DEF Spec
=============================================================================

----------------------------- MODULE Containment -----------------------------
(* One run of a pre-pre-push hook and the containment of what it starts      *)
(* (hooks.go runOne, contain_linux.go): the hook and its descendants fork,   *)
(* exit and are reparented while safegit waits, stops them by process group  *)
(* and by pidfd, reads /proc, and decides whether anything was left behind.  *)
(*                                                                           *)
(* Safegit reads /proc in two instants, the listing and what is left of the  *)
(* reading; `torn` says that processes of the hook were born or died between *)
(* the two in the scan that was read last, `shadowed` that one of them has    *)
(* been given the pid the hook had.                                          *)
EXTENDS Integers, FiniteSets

CONSTANTS Pid,          \* the pids of the machine, 1 the hook's
          Kinds,        \* of what a hook may start: "plain", "daemon", "stuck"
          MaxBorn       \* the processes that may start: a bound

VARIABLES proc,     \* pid -> process
          born,     \* the processes born so far: the clock of start times
          run,      \* what safegit is doing and what it has read
          astray    \* history: a pidfd signal has reached a stranger

vars == <<proc, born, run, astray>>

Hook == 1
Self == 0 \* the parent of what safegit starts or adopts
Outside == -1

ASSUME ContainmentConstants ==
    /\ Hook \in Pid /\ Pid \subseteq Nat \ {0} /\ IsFiniteSet(Pid)
    /\ Kinds \subseteq {"plain", "daemon", "stuck"}
    /\ MaxBorn \in Nat

Free == [st |-> "free", parent |-> Self, group |-> 0, ticks |-> 0, kind |-> "none"]

Process(parent, group, ticks, kind) ==
    [st |-> "live", parent |-> parent, group |-> group, ticks |-> ticks, kind |-> kind]

Taken   == {p \in Pid : proc[p].st # "free"}
Kin     == {p \in Taken : proc[p].kind \notin {"stranger", "earlier"}}
LiveKin == {p \in Kin : proc[p].st = "live"}

(* A pid is free for a new process when nothing has it for its pid or group. *)
Unused == {p \in Pid : proc[p].st = "free" /\ \A q \in Taken : proc[q].group # p}

(* The daemon has closed the hook's output; everything else of it holds it.  *)
Holders == {p \in LiveKin : proc[p].kind # "daemon"}

---------------------------------------------------------------------------
(* The instants startStop sets, in their order.                              *)
Term == 1
Kill == 2
Cap  == 3

Started ==
    [pc |-> "running", mode |-> "none", now |-> 0, code |-> "none", signalled |-> FALSE,
     leftovers |-> FALSE, list |-> {}, stats |-> <<>>,
     torn |-> FALSE, shadowed |-> FALSE, live |-> <<>>, handles |-> <<>>, found |-> {}, unstopped |-> {},
     unknown |-> FALSE]

(* beginContainment and cmd.Start: the hook leads a group of its own.  What  *)
(* safegit started earlier is a child too.                                   *)
Init ==
    /\ \E earlier \in SUBSET {2} :
          proc = [p \in Pid |-> IF p = Hook THEN Process(Self, Hook, 1, "plain")
                                ELSE IF p \in earlier THEN Process(Self, p, 0, "earlier") ELSE Free]
    /\ born = 1
    /\ run = Started
    /\ astray = FALSE

---------------------------------------------------------------------------
(* The kernel: those that exit leave their children to the nearest subreaper *)
(* above them, which is safegit, and themselves to their parents.            *)
Exited(dying) ==
    [p \in Pid |->
        IF proc[p].st = "free" \/ (p \in dying /\ proc[p].kind = "stranger") THEN Free
        ELSE [proc[p] EXCEPT !.st     = IF p \in dying THEN "zombie" ELSE @,
                             !.parent = IF @ \in dying THEN Self ELSE @]]

(* SIGTERM asks, and a process may exit at any time; SIGKILL is obeyed by    *)
(* all but what sleeps uninterruptibly, and never wakes.                     *)
Killed(targets) == Exited({p \in targets : proc[p].st = "live" /\ proc[p].kind # "stuck"})

(* Something happens to the hook's processes while /proc is being read. *)
Tears == [run EXCEPT !.torn = @ \/ run.pc = "read"]

Forks(p, q, kind) ==
    /\ p \in LiveKin /\ proc[p].kind # "stuck" /\ q \in Unused /\ born < MaxBorn
    /\ proc' = [proc EXCEPT ![q] =
                   Process(p, IF kind = "daemon" THEN q ELSE proc[p].group, born + 1, kind)]
    /\ born' = born + 1
    /\ run' = [Tears EXCEPT !.shadowed = @ \/ q = Hook]
    /\ UNCHANGED astray

Exits(p) ==
    /\ proc[p].st = "live" /\ proc[p].kind # "stuck"
    /\ proc' = Exited({p})
    /\ run' = IF p \in Kin THEN Tears ELSE run
    /\ UNCHANGED <<born, astray>>

(* A process waits for a child of its own. *)
Collects(p) ==
    /\ proc[p].st = "zombie" /\ proc[p].parent \in Pid
    /\ proc' = [proc EXCEPT ![p] = Free]
    /\ UNCHANGED <<born, run, astray>>

(* Somebody else's process is given a pid that has become free. *)
StrangerStarts(q) ==
    /\ q \in Unused /\ born < MaxBorn
    /\ proc' = [proc EXCEPT ![q] = Process(Outside, q, born + 1, "stranger")]
    /\ born' = born + 1
    /\ UNCHANGED <<run, astray>>

World ==
    \/ \E p, q \in Pid, kind \in Kinds : Forks(p, q, kind)
    \/ \E p \in Pid : Exits(p) \/ Collects(p) \/ StrangerStarts(p)

---------------------------------------------------------------------------
(* The wait for the hook, in a goroutine of its own from the start. *)
WaitHook ==
    /\ run.code = "none" /\ proc[Hook].st = "zombie"
    /\ \E code \in {"ok", "bad"} : run' = [run EXCEPT !.code = code]
    /\ proc' = [proc EXCEPT ![Hook] = Free]
    /\ UNCHANGED <<born, astray>>

HookEnds ==
    /\ run.pc = "running" /\ run.code # "none"
    /\ run' = [run EXCEPT !.pc = "list", !.mode = "first"]
    /\ UNCHANGED <<proc, born, astray>>

(* The first half of `stop`: kill(-pid, SIGTERM); then `terminate`. *)
Stop == [run EXCEPT !.signalled = TRUE, !.pc = "list", !.mode = "terminate"]

(* The timer, or the signal that HoldInterrupts turned into a cancellation. *)
TimesOut ==
    /\ run.pc = "running"
    /\ run' = Stop
    /\ UNCHANGED <<proc, born, astray>>

(* The clock of the stop; the deadlines pass in their order. *)
Tick ==
    /\ run.pc \notin {"running", "done"} /\ run.now < Cap
    /\ run' = [run EXCEPT !.now = @ + 1]
    /\ UNCHANGED <<proc, born, astray>>

(* The second half of `stop`. *)
SweepNext == [run EXCEPT !.pc = "list", !.mode = IF run.now < Term THEN "group" ELSE "first"]

HookStopped ==
    /\ run.pc \in {"await term", "await kill"} /\ run.code # "none"
    /\ run' = SweepNext
    /\ UNCHANGED <<proc, born, astray>>

KillGroup ==
    /\ run.pc = "await term" /\ run.now >= Term
    /\ proc' = Killed({p \in Taken : proc[p].group = Hook})
    /\ run' = [run EXCEPT !.pc = "await kill"]
    /\ UNCHANGED <<born, astray>>

GiveUpOnHook ==
    /\ run.pc = "await kill" /\ run.now >= Kill
    /\ run' = [SweepNext EXCEPT !.unstopped = {Hook}, !.leftovers = TRUE]
    /\ UNCHANGED <<proc, born, astray>>

---------------------------------------------------------------------------
(* scan: the pids are listed, then their records read in the order of the    *)
(* pids: what happens meanwhile comes before, after or between two of them.  *)
List ==
    /\ run.pc = "list"
    /\ \E k \in {0, Hook, Cardinality(Pid)} :
          run' = [run EXCEPT !.pc = "read", !.torn = FALSE,
                             !.list = {p \in Taken : p > k}, !.stats = [p \in {q \in Taken : q <= k} |-> proc[p]]]
    /\ UNCHANGED <<proc, born, astray>>

IsZombie(stats, p) == stats[p].st = "zombie"

(* Adopted, or safegit's own: not the hook and not older than it. *)
Adopted(stats) == {p \in DOMAIN stats : stats[p].parent = Self /\ p # Hook /\ stats[p].ticks >= 1}

(* Mutant: only the hook's process group is looked for. *)
InHooksGroup(stats) == {p \in DOMAIN stats : ~IsZombie(stats, p) /\ stats[p].group = Hook /\ p # Hook}

(* What a scan finds alive below the hook and among what safegit adopted:    *)
(* the least set that holds their living and the children of its own.        *)
Alive(stats) == {p \in DOMAIN stats : ~IsZombie(stats, p)}

Roots(stats) ==
    {p \in Alive(stats) : p \in Adopted(stats) \/ (stats[p].parent = Hook /\ Hook \in Alive(stats) /\ stats[Hook].ticks = 1)}

Below(stats) ==
    {p \in Alive(stats) :
        \A S \in SUBSET Alive(stats) :
            Roots(stats) \subseteq S /\ (\A c \in Alive(stats) : stats[c].parent \in S => c \in S) => p \in S}

(* The zombies of safegit that a wait for these pids takes away. *)
Waited(ps) ==
    [p \in Pid |-> IF p \in ps /\ proc[p].st = "zombie" /\ proc[p].parent = Self /\ p # Hook THEN Free ELSE proc[p]]

Read ==
    /\ run.pc = "read"
    /\ LET stats == [p \in DOMAIN run.stats \cup (run.list \cap Taken) |->
                        IF p \in DOMAIN run.stats THEN run.stats[p] ELSE proc[p]]
       IN  /\ run' = [run EXCEPT !.pc = "act", !.list = {}, !.stats = <<>>,
                                 !.live = [p \in Below(stats) |-> [ticks |-> stats[p].ticks, group |-> stats[p].group]]]
           /\ proc' = Waited({p \in Adopted(stats) : IsZombie(stats, p)})
    /\ UNCHANGED <<born, astray>>

---------------------------------------------------------------------------
(* Mutant: whatever has the pid by now is taken for what was scanned. *)
OpenableByPid(p, ticks) == p \in Taken

(* openHandle: the pid is opened, and the handle is kept if the process      *)
(* started when the one that was scanned did.                                *)
Openable(p, ticks) == p \in Taken /\ proc[p].ticks = ticks

Opened(ps) == [p \in {q \in ps : Openable(q, run.live[q].ticks)} |->
                  [is |-> proc[p].ticks, ticks |-> run.live[p].ticks]]

(* `record`: what was found before keeps its handle, unless the pid has a    *)
(* new process by now.                                                       *)
Recorded ==
    LET kept == {p \in DOMAIN run.handles : p \notin DOMAIN run.live \/ run.handles[p].ticks = run.live[p].ticks}
        new  == Opened(DOMAIN run.live \ kept)
    IN  [p \in kept \cup DOMAIN new |-> IF p \in kept THEN run.handles[p] ELSE new[p]]

(* `signal`: the processes a signal sent through these handles reaches. *)
Reached(handles, ps) ==
    {p \in ps \cap DOMAIN handles : handles[p].ticks = run.live[p].ticks /\ p \in Taken /\ proc[p].ticks = handles[p].is}

Signal(ps) == astray' = (astray \/ \E p \in ps : proc[p].kind \in {"stranger", "earlier"})

Clear(k) == [k EXCEPT !.live = <<>>]

(* `terminate`, the signal to what has left the hook's group. *)
Terminate ==
    /\ run.pc = "act" /\ run.mode = "terminate"
    /\ LET opened == Opened({p \in DOMAIN run.live : run.live[p].group # Hook})
       IN  /\ Signal(DOMAIN opened)
           /\ run' = [Clear(run) EXCEPT !.pc = "await term", !.found = DOMAIN opened]
    /\ UNCHANGED <<proc, born>>

(* sweep, before its first scan: what was asked to end is given its time. *)
Patience ==
    /\ run.pc = "act" /\ run.mode = "group"
    /\ run' = [Clear(run) EXCEPT !.pc = "list",
                  !.mode = IF run.now < Term /\ \E p \in DOMAIN run.live : run.live[p].group = Hook
                           THEN "group" ELSE "first"]
    /\ UNCHANGED <<proc, born, astray>>

(* Mutant: the kills go on until nothing is found. *)
UntilNothing(live) == IF live = {} THEN "reap" ELSE IF run.now < Term THEN "list" ELSE "kill"

(* The loops of the sweep: SIGTERM until its deadline, SIGKILL until its own. *)
AfterScan(live) ==
    IF live = {} \/ run.now >= Kill THEN "reap" ELSE IF run.now < Term THEN "list" ELSE "kill"

NothingFound ==
    /\ run.pc = "act" /\ run.mode = "first" /\ DOMAIN run.live = {} /\ run.found = {}
    /\ proc' = Waited(Adopted(proc))
    /\ run' = [run EXCEPT !.pc = "drain"]
    /\ UNCHANGED <<born, astray>>

Record ==
    /\ run.pc = "act" /\ run.mode = "first" /\ DOMAIN run.live \cup run.found # {}
    /\ Signal(Reached(Recorded, DOMAIN run.live))
    /\ run' = [run EXCEPT !.handles = Recorded, !.found = @ \cup DOMAIN run.live, !.pc = AfterScan(DOMAIN run.live)]
    /\ UNCHANGED <<proc, born>>

KillFound ==
    /\ run.pc = "kill"
    /\ LET reached == Reached(run.handles, DOMAIN run.live)
       IN  Signal(reached) /\ proc' = Killed(reached)
    /\ run' = [run EXCEPT !.pc = "list"]
    /\ UNCHANGED born

(* reap: what the last scan did not find is waited for, killed while it is   *)
(* there, and given up at the deadline of the kill; what is not a child of   *)
(* safegit, or no longer, has been waited for by another.                    *)
Judged(p, killed) == [run EXCEPT !.found = @ \ {p}, !.unstopped = IF killed THEN @ ELSE @ \cup {p}, !.leftovers = TRUE]
Child(p) == p \in Taken /\ proc[p].parent = Self

Reap(p) ==
    /\ run.pc = "reap" /\ p \in run.found
    /\ IF p \in DOMAIN run.live THEN run' = Judged(p, FALSE) /\ UNCHANGED <<proc, astray>>
       ELSE IF ~Child(p) \/ IsZombie(proc, p) THEN run' = Judged(p, TRUE) /\ proc' = Waited({p}) /\ UNCHANGED astray
       ELSE IF run.now >= Kill THEN run' = Judged(p, FALSE) /\ UNCHANGED <<proc, astray>>
       ELSE LET reached == {q \in {p} \cap DOMAIN run.handles : proc[q].ticks = run.handles[q].is}
            IN  Signal(reached) /\ proc' = Killed(reached) /\ UNCHANGED run
    /\ UNCHANGED born

ReapZombies ==
    /\ run.pc = "reap" /\ run.found = {}
    /\ proc' = Waited(Adopted(proc))
    /\ run' = [Clear(run) EXCEPT !.pc = "drain", !.handles = <<>>]
    /\ UNCHANGED <<born, astray>>

(* The output is read until nothing holds it, or nothing has come for a      *)
(* second, or the cap is reached; only the second is held against the hook.  *)
Drain ==
    /\ run.pc = "drain"
    /\ \/ Holders = {} /\ run' = [run EXCEPT !.pc = "done"]
       \/ Holders # {} /\ run' = [run EXCEPT !.pc = "done", !.unknown = run.unstopped = {}]
       \/ Holders # {} /\ run.now = Cap /\ run' = [run EXCEPT !.pc = "done"]
    /\ UNCHANGED <<proc, born, astray>>

---------------------------------------------------------------------------
Safegit ==
    \/ WaitHook \/ HookEnds \/ TimesOut \/ HookStopped \/ KillGroup \/ GiveUpOnHook
    \/ List \/ Read \/ Terminate \/ Patience \/ NothingFound \/ Record \/ KillFound
    \/ (\E p \in Pid : Reap(p)) \/ ReapZombies \/ Drain

Next == World \/ Tick \/ Safegit

Spec == Init /\ [][Next]_vars

(* Safegit is scheduled, its timer and its clock run on; a hook need not     *)
(* ever end by itself.                                                       *)
FairSpec == Spec /\ WF_vars(Safegit) /\ WF_vars(Tick)

---------------------------------------------------------------------------
(* What the kernel keeps of a pid, and what is read of it.                   *)
PidRecord == [st : {"free", "live", "zombie"}, parent : Pid \cup {Self, Outside}, group : Nat, ticks : Nat,
            kind : {"plain", "daemon", "stuck", "stranger", "earlier", "none"}]
IsOf(f, values) == DOMAIN f \subseteq Pid /\ f \in [DOMAIN f -> values]

TypeOK ==
    /\ proc \in [Pid -> PidRecord] /\ born \in Nat /\ astray \in BOOLEAN
    /\ DOMAIN run = DOMAIN Started
    /\ run.pc \in {"running", "list", "read", "act", "kill", "reap", "await term", "await kill", "drain", "done"}
    /\ run.mode \in {"none", "first", "group", "terminate"} /\ run.code \in {"none", "ok", "bad"} /\ run.now \in 0..Cap
    /\ run.torn \in BOOLEAN /\ run.shadowed \in BOOLEAN
    /\ {run.list, run.found, run.unstopped} \subseteq SUBSET Pid
    /\ IsOf(run.stats, PidRecord) /\ IsOf(run.live, [ticks : Nat, group : Nat])
    /\ IsOf(run.handles, [is : Nat, ticks : Nat])

(* A signal sent through a pidfd reaches only processes of the hook, however *)
(* often its pids are given to others between a scan and the signal.         *)
SignalsStayHome == ~astray

(* When the run is over and nothing is named as still running, no process of *)
(* the hook runs: not one that left its group, was forked while the others   *)
(* were stopped, or was handed to safegit by a parent that ended; save when  *)
(* one was born or died under the very scan that found nothing.              *)
NothingOutlives ==
    run.pc = "done" /\ run.unstopped = {} /\ ~run.unknown /\ ~run.torn /\ ~run.shadowed => LiveKin = {}

(* A run ends, by itself or stopped, whatever its processes do. *)
StopEnds == <>(run.pc = "done")
=============================================================================

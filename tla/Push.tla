-------------------------------- MODULE Push --------------------------------
(* Publishing from one worktree to one remote: push and force push with      *)
(* their hooks, their leases and their retries (push.go, hook.go), and the   *)
(* backup slot of a branch, written and restored (backup.go), beside commits *)
(* and amends of other sessions in the worktree and pushes of other clones.  *)
(*                                                                           *)
(* A reference holds a history, here the set of the changes in it: to move   *)
(* it forward is to add to it.  git is given names of references, which it   *)
(* reads when it runs.                                                       *)
EXTENDS Integers, Sequences, FiniteSets

CONSTANTS Cmds,          \* runs of push and backup in the worktree
          KindsOf,       \* the kinds each run may be of
          HookCount,     \* the pre-pre-push hooks found
          RetryAttempts, \* push.retryAttempts of the configuration
          MaxMoves,      \* moves of local references: a bound
          MaxArrivals    \* pushes of other clones: a bound

VARIABLES local,      \* local reference -> history
          head,       \* the branch HEAD names
          fetchHead,  \* FETCH_HEAD of the worktree
          remote,     \* the remote's reference -> history
          cmd,        \* run -> what it is doing and what it has read
          moves, arrivals  \* how often the others have acted

vars == <<local, head, fetchHead, remote, cmd, moves, arrivals>>

Absent   == {}
Base     == {"b"}
Branches == {"main", "dev"}
Tags     == {"v1"}
Slot(branch) == IF branch = "main" THEN "backup_main" ELSE "backup_dev"
RemoteRefs   == Branches \cup Tags \cup {Slot(b) : b \in Branches}
Histories    == {Base \cup s : s \in SUBSET {"x", "y"}}
Changes      == Base \cup {"x", "y", "z"}

Forward(old, new) == old \subseteq new

---------------------------------------------------------------------------
Pushes  == {"push_head", "push_both", "force_head", "force_both"}
Kinds   == Pushes \cup {"backup", "overwriting_backup", "restore"}
Forced(c) == cmd[c].kind \notin {"push_head", "push_both"}

ASSUME PushConstants ==
    KindsOf \in [Cmds -> SUBSET Kinds] /\ {HookCount, RetryAttempts, MaxMoves, MaxArrivals} \subseteq Nat

(* resolveRefsForPush: each group of references is listed here, then there.  *)
Groups(kind) == IF kind \in {"push_both", "force_both"} THEN <<Branches, Tags>> ELSE <<{"HEAD"}>>

(* A run of push looks, has its hooks run, and pushes until it is answered.  *)
Fresh(kind) ==
    [kind |-> kind, pc |-> IF kind \in Pushes THEN "look" ELSE "name", at |-> 1, here |-> TRUE,
     refs |-> <<>>, validated |-> <<>>, hooks |-> HookCount, attempt |-> 0, new |-> <<>>, old |-> <<>>, sent |-> {},
     branch |-> "none", commit |-> Absent, slot |-> Absent, moved |-> FALSE, touched |-> {}, exit |-> "none"]

Init ==
    /\ local = [r \in Branches \cup Tags |-> IF r = "v1" THEN Absent ELSE Base]
    /\ head = "main"
    /\ fetchHead = Base
    /\ remote = [r \in RemoteRefs |-> IF r = "main" THEN Base ELSE Absent]
    /\ \E kinds \in [Cmds -> UNION {KindsOf[c] : c \in Cmds}] :
          (\A c \in Cmds : kinds[c] \in KindsOf[c]) /\ cmd = [c \in Cmds |-> Fresh(kinds[c])]
    /\ moves = 0 /\ arrivals = 0

Ends(c, k, code) == [k EXCEPT !.pc = "end", !.exit = code, !.refs = <<>>, !.validated = <<>>, !.new = <<>>, !.old = <<>>, !.sent = {}, !.touched = {}, !.moved = FALSE]
Step(c, k) == cmd' = [cmd EXCEPT ![c] = k]
Reads == UNCHANGED <<local, head, fetchHead, remote, moves, arrivals>>

---------------------------------------------------------------------------
(* The others.  `moved` and `touched` tell each run what has changed, here   *)
(* and there, since its last look.                                           *)
Noticed(k) == [k EXCEPT !.moved = @ \/ k.pc \notin {"sent", "end"}]

LocalMove(r, h) ==
    /\ moves < MaxMoves /\ local[r] # h
    /\ local' = [local EXCEPT ![r] = h]
    /\ moves' = moves + 1
    /\ cmd' = [c \in Cmds |-> Noticed(cmd[c])]
    /\ UNCHANGED <<head, fetchHead, remote, arrivals>>

Switch ==
    /\ moves < MaxMoves
    /\ \E b \in Branches \ {head} : head' = b
    /\ moves' = moves + 1
    /\ cmd' = [c \in Cmds |-> Noticed(cmd[c])]
    /\ UNCHANGED <<local, fetchHead, remote, arrivals>>

Touched(rs) == [c \in Cmds |-> IF cmd[c].pc = "end" THEN cmd[c] ELSE [cmd[c] EXCEPT !.touched = @ \cup rs]]

(* Another clone moves a reference of the remote forward. *)
Arrival(r) ==
    /\ arrivals < MaxArrivals /\ "z" \notin remote[r]
    /\ remote' = [remote EXCEPT ![r] = @ \cup {"b", "z"}]
    /\ arrivals' = arrivals + 1
    /\ cmd' = Touched({r})
    /\ UNCHANGED <<local, head, fetchHead, moves>>

(* A fetch in the worktree, of another session or in the background. *)
OtherFetch ==
    /\ moves < MaxMoves /\ fetchHead # remote["main"]
    /\ fetchHead' = remote["main"]
    /\ moves' = moves + 1
    /\ cmd' = [c \in Cmds |-> Noticed(cmd[c])]
    /\ UNCHANGED <<local, head, remote, arrivals>>

---------------------------------------------------------------------------
(* resolveHeadRef, resolveBranchRefs, resolveTagRefs: first what is here,    *)
Group(c) == LET g == Groups(cmd[c].kind)[cmd[c].at] IN IF g = {"HEAD"} THEN {head} ELSE g

LookHere(c) ==
    /\ cmd[c].pc = "look" /\ cmd[c].here
    /\ LET listed == {r \in Group(c) : local[r] # Absent}
           k      == cmd[c]
       IN  Step(c, [k EXCEPT !.here = FALSE, !.moved = @ /\ k.at > 1,
                             !.refs = [r \in listed \cup DOMAIN @ |->
                                          IF r \in listed THEN [local |-> local[r], remote |-> Absent] ELSE @[r]]])
    /\ Reads

(* then what is there; a remote that cannot be read ends the run.            *)
Listing(c) == {r \in DOMAIN cmd[c].refs : cmd[c].at = 1 \/ r \in Groups(cmd[c].kind)[cmd[c].at]}
Listed(c) ==
    [r \in DOMAIN cmd[c].refs |->
        IF r \in Listing(c) THEN [cmd[c].refs[r] EXCEPT !.remote = remote[r]] ELSE cmd[c].refs[r]]

(* Mutant: a retry goes by what was read before the first attempt. *)
AsBefore(before, refs) == TRUE

(* localRefsMoved *)
NotMoved(before, refs) ==
    /\ DOMAIN before = DOMAIN refs
    /\ \A r \in DOMAIN refs : refs[r].local = before[r].local

Retries(c) == cmd[c].attempt > 0

LookThere(c) ==
    /\ cmd[c].pc = "look" /\ ~cmd[c].here
    /\ LET k    == [cmd[c] EXCEPT !.refs = Listed(c), !.here = TRUE,
                                  !.touched = @ \ Listing(c)]
           last == k.at = Len(Groups(k.kind))
       IN  \/ ~last /\ Step(c, [k EXCEPT !.at = @ + 1])
           \/ last /\ Step(c, IF k.refs = <<>> THEN Ends(c, k, "nothing")
                              ELSE IF ~Retries(c) THEN [k EXCEPT !.pc = "hooks", !.at = 1, !.validated = k.refs]
                              ELSE IF NotMoved(k.validated, k.refs) THEN [k EXCEPT !.pc = "push", !.at = 1]
                              ELSE Ends(c, k, "moved"))
           \/ Step(c, Ends(c, k, "unreadable"))
    /\ Reads

(* RunAll: the hooks one after another; the first that fails, or a signal    *)
(* while one runs, ends the push (Containment has the run of one hook).      *)
RunHook(c) ==
    /\ cmd[c].pc = "hooks" /\ cmd[c].hooks > 0
    /\ \/ Step(c, [cmd[c] EXCEPT !.hooks = @ - 1])
       \/ Step(c, Ends(c, cmd[c], "hook_failed"))
       \/ Step(c, Ends(c, cmd[c], "interrupted"))
    /\ Reads

HooksPassed(c) ==
    /\ cmd[c].pc = "hooks" /\ cmd[c].hooks = 0
    /\ Step(c, [cmd[c] EXCEPT !.pc = "push"])
    /\ Reads

---------------------------------------------------------------------------
(* Backup.  Its names are read one by one: the branch, its commit, the slot. *)
Restore(c) == cmd[c].kind = "restore"
Mine(c) == Slot(cmd[c].branch)

NameBranch(c) ==
    /\ cmd[c].pc = "name"
    /\ Step(c, [cmd[c] EXCEPT !.pc = "commit", !.branch = head, !.moved = FALSE])
    /\ Reads

NameCommit(c) ==
    /\ cmd[c].pc = "commit"
    /\ Step(c, [cmd[c] EXCEPT !.pc = "list", !.commit = local[head]])
    /\ Reads

ListSlot(c) ==
    /\ cmd[c].pc = "list"
    /\ LET k == [cmd[c] EXCEPT !.slot = remote[Mine(c)], !.touched = {}]
       IN  Step(c, CASE k.slot # Absent -> [k EXCEPT !.pc = "fetch"]
                     [] k.slot = Absent /\ Restore(c) -> Ends(c, k, "no_slot")
                     [] OTHER -> [k EXCEPT !.pc = "push"])
    /\ Reads

FetchSlot(c) ==
    /\ cmd[c].pc = "fetch"
    /\ fetchHead' = remote[Mine(c)]
    /\ cmd' = [d \in Cmds |-> IF d = c THEN [cmd[c] EXCEPT !.pc = "resolve", !.touched = {}] ELSE Noticed(cmd[d])]
    /\ UNCHANGED <<local, head, remote, moves, arrivals>>

ResolveSlot(c) ==
    /\ cmd[c].pc = "resolve"
    /\ LET k == [cmd[c] EXCEPT !.slot = fetchHead]
       IN  Step(c, CASE Restore(c) -> [k EXCEPT !.pc = "merge"]
                     [] k.kind = "backup" /\ ~Forward(k.slot, k.commit) -> Ends(c, k, "diverged")
                     [] OTHER -> [k EXCEPT !.pc = "push"])
    /\ Reads

(* git merge --ff-only FETCH_HEAD *)
MergeSlot(c) ==
    /\ cmd[c].pc = "merge"
    /\ local' = IF Forward(local[head], fetchHead) THEN [local EXCEPT ![head] = fetchHead] ELSE local
    /\ cmd' = [d \in Cmds |-> IF d # c THEN Noticed(cmd[d])
                              ELSE Ends(c, cmd[c], IF Forward(local[head], fetchHead) THEN "ok" ELSE "diverged")]
    /\ UNCHANGED <<head, fetchHead, remote, moves, arrivals>>

---------------------------------------------------------------------------
(* buildGitPushArgs: what is named, here and there, and with which lease.    *)
Names(c)   == IF cmd[c].kind \in Pushes THEN DOMAIN cmd[c].refs ELSE {Mine(c)}
Source(c, r) == IF cmd[c].kind \in Pushes THEN local[r] ELSE local[head]

LastRead(c, r) == IF cmd[c].kind \in Pushes THEN cmd[c].refs[r].remote ELSE cmd[c].slot

(* Mutant: a lease without a value, which git fills in by itself. *)
LeaseOfGit(c, r) == remote[r]
LeaseExpectation(c, r) == LastRead(c, r)

PushIsAtomic(c) == Cardinality(Names(c)) > 1

(* git's judgement of one reference: one that is there already passes before *)
(* its lease is looked at.                                                   *)
UpToDate(c, r) == Source(c, r) = remote[r]
Stale(c, r)    == ~UpToDate(c, r) /\ Forced(c) /\ remote[r] # LeaseExpectation(c, r)
Refused(c, r)  ==
    /\ ~UpToDate(c, r) /\ ~Forced(c)
    /\ IF r \in Tags THEN remote[r] # Absent ELSE ~Forward(remote[r], Source(c, r))

(* Mutant: a transport error is tried again at once. *)
AgainAtOnce(c, k) ==
    IF k.kind \in Pushes /\ k.attempt < RetryAttempts
    THEN [k EXCEPT !.pc = "push", !.new = <<>>, !.old = <<>>, !.sent = {}]
    ELSE Ends(c, k, "failed")

(* A transport error is tried again, after another look at both sides. *)
Again(c, k) ==
    IF k.kind \in Pushes /\ k.attempt < RetryAttempts
    THEN [k EXCEPT !.pc = "look", !.refs = <<>>, !.new = <<>>, !.old = <<>>, !.sent = {}]
    ELSE Ends(c, k, "failed")

(* git reads the references here and there, judges them, and sends what it   *)
(* may; nothing, when one of an atomic push is rejected.                     *)
Send(c) ==
    /\ cmd[c].pc = "push"
    /\ LET k     == [cmd[c] EXCEPT !.attempt = @ + 1]
           bad   == {r \in Names(c) : Stale(c, r) \/ Refused(c, r)}
           go    == IF PushIsAtomic(c) /\ bad # {} THEN {} ELSE {r \in Names(c) \ bad : ~UpToDate(c, r)}
           code  == IF \E r \in bad : Stale(c, r) THEN "lease" ELSE IF bad # {} THEN "failed" ELSE "ok"
       IN  \/ Step(c, Again(c, k))
           \/ go = {} /\ Step(c, Ends(c, k, code))
           \/ go # {} /\ Step(c, [k EXCEPT !.pc = "sent", !.sent = go, !.exit = code,
                                           !.new = [r \in Names(c) |-> Source(c, r)],
                                           !.old = [r \in Names(c) |-> remote[r]]])
    /\ Reads

(* The remote compares and swaps; its answer may be lost. *)
Receive(c) ==
    /\ cmd[c].pc = "sent"
    /\ LET k     == cmd[c]
           held  == {r \in k.sent : remote[r] = k.old[r]}
           swaps == IF PushIsAtomic(c) /\ held # k.sent THEN {} ELSE held
           code  == IF swaps # k.sent THEN "failed" ELSE k.exit
       IN  /\ remote' = [r \in RemoteRefs |-> IF r \in swaps THEN k.new[r] ELSE remote[r]]
           /\ \E k2 \in {Ends(c, k, code), Again(c, [k EXCEPT !.exit = "none"])} :
                 cmd' = [Touched(swaps) EXCEPT ![c] = k2]
    /\ UNCHANGED <<local, head, fetchHead, moves, arrivals>>

---------------------------------------------------------------------------
Others ==
    \/ \E r \in {"main", "v1"}, h \in Histories : LocalMove(r, h)
    \/ Switch \/ OtherFetch
    \/ \E r \in {"main", "v1", "backup_main"} : Arrival(r)

Run(c) ==
    \/ LookHere(c) \/ LookThere(c) \/ RunHook(c) \/ HooksPassed(c)
    \/ NameBranch(c) \/ NameCommit(c) \/ ListSlot(c) \/ FetchSlot(c) \/ ResolveSlot(c) \/ MergeSlot(c)
    \/ Send(c) \/ Receive(c)

Next == Others \/ \E c \in Cmds : Run(c)

Spec == Init /\ [][Next]_vars

---------------------------------------------------------------------------
Received(c) == cmd[c].pc = "sent" /\ cmd'[c].pc # "sent"

(* Whatever is forced, nothing leaves the remote that safegit had not read   *)
(* there before this attempt (buildGitPushArgs, leaseExpectation); and a      *)
(* backup that was not told to overwrite loses nothing of the slot, unless    *)
(* HEAD or FETCH_HEAD moved under it (runBackupCreate).                       *)
KeepsTheUnseen ==
    [][\A c \in Cmds : Received(c) =>
          /\ \A r \in Names(c) : remote[r] \ remote'[r] \subseteq LastRead(c, r)
          /\ cmd[c].kind = "backup" /\ ~cmd[c].moved => remote[Mine(c)] \subseteq remote'[Mine(c)]]_vars

(* A push publishes what its hooks were shown, in a retry too, save for a    *)
(* reference that moved after the last look at it, which git takes as it     *)
(* then is (localRefsMoved).                                                 *)
PublishedWasSeen ==
    [][\A c \in Cmds : Received(c) /\ cmd[c].kind \in Pushes /\ ~cmd[c].moved =>
          \A r \in Names(c) : remote'[r] # remote[r] => remote'[r] = cmd[c].validated[r].local]_vars

(* A push is refused for what somebody else pushed since it last read the    *)
(* remote, never for an attempt of its own whose answer was lost: that is    *)
(* why a retry reads the remote again (runPush).                             *)
NoFalseAlarm ==
    [][\A c \in Cmds : cmd[c].pc # "end" /\ cmd'[c].exit = "lease" /\ cmd'[c].pc = "end" =>
          cmd[c].touched \cap Names(c) # {} \/ (cmd[c].kind \notin Pushes /\ cmd[c].moved)]_vars
=============================================================================

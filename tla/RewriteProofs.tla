---------------------------- MODULE RewriteProofs ----------------------------
(* Proofs about Rewrite: for every set of rewrites of every kind, what stays *)
(* of others' work, what a refusal leaves and what the journal says; that    *)
(* what was reported gone stays gone, and that what a reference reaches is   *)
(* never pruned.                                                             *)
EXTENDS Rewrite, FiniteSetTheorems, SequenceTheorems, TLAPS

(* What a run is made of, and where it can be.                               *)
Fields == {"kind", "pc", "at", "head", "list", "map", "count", "plan", "todo", "looked", "late", "incomplete", "exit"}
Pcs    == {"script", "prepare", "start", "move", "refs", "look", "sync", "prune", "check", "complete", "end"}
Later  == {"refs", "look", "sync", "prune", "check", "complete"}
Phases == {"start", "refs", "complete"}

(* The inductive invariant, of each run.  It is somewhere in its script or   *)
(* in its repositories.                                                      *)
Shape(c) ==
    /\ DOMAIN run[c] = Fields /\ DOMAIN run[c].plan = Repos
    /\ run[c].kind \in Kinds /\ run[c].pc \in Pcs
    /\ run[c].pc = "script" => run[c].at \in Nat
    /\ run[c].pc \notin {"script", "end"} => run[c].at \in DOMAIN Order(run[c].kind)
    /\ run[c].exit # None => run[c].pc = "end"

(* Until the publication begins nothing of it is in any repository, nor      *)
(* when it refuses.                                                          *)
Unheard(c) == \A r \in Repos : journal[r][c] = {} /\ \A f \in RefSet : <<c, r, f>> \notin moved
Untouched(c) == run[c].pc \in {"script", "prepare"} \/ run[c].exit \in {"refused", "error"} => Unheard(c)

(* A plan has a move only if there is something to record, and a move        *)
(* replaces a commit without taking from it what others landed.              *)
Sound(m) == m.ref \in RefSet /\ m.new \in Commit /\ m.new.tail = m.old.tail
Planned(c) == \A r \in Repos :
    /\ run[c].pc = "script" => DOMAIN run[c].plan[r] = {}
    /\ run[c].pc # "end" => \A i \in DOMAIN run[c].plan[r] : HasWork(c, r) /\ Sound(run[c].plan[r][i])

(* A run past its record moves what its plan says, the journal first.        *)
Done(c, r, i) == <<c, r, run[c].plan[r][i].ref>> \in moved
Moving(c) == run[c].pc = "move" =>
    /\ run[c].todo \subseteq DOMAIN run[c].plan[Here(c)]
    /\ run[c].todo # {} => "start" \in journal[Here(c)][c]
    /\ \A i \in DOMAIN run[c].plan[Here(c)] \ run[c].todo : Done(c, Here(c), i)
HasMoved(c) == run[c].pc \in Later => \A i \in DOMAIN run[c].plan[Here(c)] : Done(c, Here(c), i)
Journalled(c) == \A r \in Repos :
    /\ (\E f \in RefSet : <<c, r, f>> \in moved) => "start" \in journal[r][c]
    /\ "complete" \in journal[r][c] => \A i \in DOMAIN run[c].plan[r] : Done(c, r, i)
(* Between the last look and the overwriting, only a later edit is on disk.  *)
Syncing(c) == run[c].pc = "sync" => edits[Here(c)] \subseteq {run[c].late}

RunInv(c) == Shape(c) /\ Untouched(c) /\ Planned(c) /\ Moving(c) /\ HasMoved(c) /\ Journalled(c) /\ Syncing(c)

(* What the repositories hold.                                               *)
Ranges ==
    /\ refs \in [Repos -> [RefSet -> Commit]]
    /\ journal \in [Repos -> [Cmds -> SUBSET Phases]]
    /\ DOMAIN edits = Repos /\ DOMAIN run = Cmds
    /\ IsFiniteSet(landed) /\ landed \subseteq Repos \X RefSet \X (1..MaxLandings)

(* All of it, with what it says of the commits of others.                    *)
RInv == Ranges /\ OthersKept /\ \A c \in Cmds : RunInv(c)

(* The first commit is one.                                                  *)
LEMMA BaseOK == Base \in Commit
<1>1. <<>> \in Seq(1..MaxLandings)
  OBVIOUS
<1> QED
  BY <1>1 DEF Base, Commit

(* What a rewrite makes of a commit keeps what others landed in it.          *)
LEMMA NewOK ==
  ASSUME NEW c \in Cmds, NEW r, NEW v \in Commit
  PROVE  New(c, r, v) \in Commit /\ New(c, r, v).tail = v.tail
BY DEF New, Commit

(* What a run rewrites depends on nothing but what it walked.                *)
LEMMA SameNew ==
  ASSUME NEW c, NEW r, run'[c].map = run[c].map
  PROVE  (\A v : New(c, r, v)' = New(c, r, v)) /\ (HasWork(c, r)' <=> HasWork(c, r))
BY DEF New, HasWork

(* A run at work is in a repository.                                         *)
LEMMA HereOK ==
  ASSUME NEW c, Shape(c), run[c].pc # "end"
  PROVE  Here(c) \in Repos
<1>1. CASE run[c].pc = "script"
  BY <1>1 DEF Here, RepoOf, Repos
<1>2. CASE run[c].pc # "script"
  <2>1. run[c].at \in DOMAIN Order(run[c].kind)
    BY <1>2 DEF Shape
  <2> QED
    BY <1>2, <2>1 DEF Here, Order, Repos
<1> QED
  BY <1>1, <1>2

(* A run that has not begun,                                                 *)
LEMMA IdleShape ==
  ASSUME NEW k \in Kinds
  PROVE  /\ DOMAIN Idle(k) = Fields /\ DOMAIN Idle(k).plan = Repos /\ \A r \in Repos : Idle(k).plan[r] = <<>>
         /\ Idle(k).kind = k /\ Idle(k).pc = "script" /\ Idle(k).at = 1 /\ Idle(k).exit = None
BY DEF Idle, Fields

(* and one that has ended.                                                   *)
LEMMA EndedShape ==
  ASSUME NEW c, NEW code, run[c].kind \in Kinds
  PROVE  /\ DOMAIN Ended(c, code) = Fields /\ Ended(c, code).plan = run[c].plan /\ Ended(c, code).pc = "end"
         /\ Ended(c, code).exit = code /\ Ended(c, code).kind = run[c].kind
BY DEF Idle, Fields, Ended

(* A step that changes one run, its own journal and its own moves.           *)
OnlyOf(c) ==
    /\ \A q \in Cmds \ {c} : /\ run'[q] = run[q]
                             /\ \A r \in Repos : journal'[r][q] = journal[r][q]
                             /\ \A r, f : <<q, r, f>> \in moved' <=> <<q, r, f>> \in moved
    /\ \A r \in Repos : edits'[r] \subseteq edits[r]

(* Such a step leaves the invariant of the other runs.                       *)
LEMMA Undisturbed ==
  ASSUME RInv, NEW c \in Cmds, NEW q \in Cmds \ {c}, OnlyOf(c)
  PROVE  RunInv(q)'
<1>1. /\ RunInv(q) /\ run'[q] = run[q]
      /\ \A r \in Repos : journal'[r][q] = journal[r][q]
      /\ \A r, f : <<q, r, f>> \in moved' <=> <<q, r, f>> \in moved
      /\ \A r \in Repos : edits'[r] \subseteq edits[r]
  BY DEF RInv, OnlyOf
<1>2. Here(q)' = Here(q) /\ \A r, i : Done(q, r, i)' <=> Done(q, r, i)
  BY <1>1 DEF Here, Word, Done
<1>3. Shape(q)'
  BY <1>1 DEF RunInv, Shape
<1>4. Untouched(q)'
  BY <1>1 DEF RunInv, Untouched, Unheard
<1>5. Planned(q)'
  <2>1. \A r : HasWork(q, r)' <=> HasWork(q, r)
    BY <1>1, SameNew
  <2> QED
    BY <2>1, <1>1 DEF RunInv, Planned, Sound
<1>6. run[q].pc # "end" => Here(q) \in Repos
  BY <1>1, HereOK DEF RunInv
<1>7. Moving(q)'
  BY <1>1, <1>2, <1>6 DEF RunInv, Moving
<1>8. HasMoved(q)'
  BY <1>1, <1>2 DEF RunInv, HasMoved
<1>9. Journalled(q)'
  BY <1>1, <1>2 DEF RunInv, Journalled
<1>10. Syncing(q)'
  BY <1>1, <1>2, <1>6 DEF RunInv, Syncing
<1> QED
  BY <1>3, <1>4, <1>5, <1>7, <1>8, <1>9, <1>10 DEF RunInv

(* A run that ends keeps what it has recorded and moved.                     *)
LEMMA EndInv ==
  ASSUME RInv, NEW c \in Cmds, NEW code, code # None, run'[c] = Ended(c, code),
         code \in {"refused", "error"} => Unheard(c)',
         moved' = moved,
         \A r \in Repos : /\ journal[r][c] \subseteq journal'[r][c]
                          /\ "complete" \in journal'[r][c] =>
                                "complete" \in journal[r][c] \/ \A i \in DOMAIN run[c].plan[r] : Done(c, r, i)
  PROVE  RunInv(c)'
<1>1. /\ RunInv(c) /\ run[c].kind \in Kinds /\ DOMAIN run[c].plan = Repos
      /\ DOMAIN run'[c] = Fields /\ run'[c].plan = run[c].plan /\ run'[c].pc = "end"
      /\ run'[c].exit = code /\ run'[c].kind = run[c].kind
  BY EndedShape DEF RInv, RunInv, Shape
<1>2. \A r, i : Done(c, r, i)' <=> Done(c, r, i)
  BY <1>1 DEF Done
<1>3. Shape(c)'
  BY <1>1 DEF Shape, Pcs
<1>4. Untouched(c)' /\ Planned(c)' /\ Moving(c)' /\ HasMoved(c)' /\ Syncing(c)'
  BY <1>1 DEF Untouched, Planned, Moving, HasMoved, Syncing, Later
<1>5. Journalled(c)'
  <2> SUFFICES ASSUME NEW r \in Repos
               PROVE  /\ (\E f \in RefSet : <<c, r, f>> \in moved) => "start" \in journal'[r][c]
                      /\ "complete" \in journal'[r][c] => \A i \in DOMAIN run[c].plan[r] : Done(c, r, i)
    BY <1>1, <1>2 DEF Journalled
  <2>1. /\ (\E f \in RefSet : <<c, r, f>> \in moved) => "start" \in journal[r][c]
        /\ "complete" \in journal[r][c] => \A i \in DOMAIN run[c].plan[r] : Done(c, r, i)
    BY <1>1 DEF RunInv, Journalled
  <2>2. /\ journal[r][c] \subseteq journal'[r][c]
        /\ "complete" \in journal'[r][c] =>
             "complete" \in journal[r][c] \/ \A i \in DOMAIN run[c].plan[r] : Done(c, r, i)
    OBVIOUS
  <2> QED
    BY <2>1, <2>2
<1> QED
  BY <1>3, <1>4, <1>5 DEF RunInv

(* So does one past its moves that goes on,                                  *)
LEMMA LaterInv ==
  ASSUME RInv, NEW c \in Cmds, run[c].pc \in Later,
         DOMAIN run'[c] = Fields, run'[c].pc \in Later, run'[c].kind = run[c].kind, run'[c].at = run[c].at,
         run'[c].map = run[c].map, run'[c].plan = run[c].plan, run'[c].exit = run[c].exit,
         moved' = moved, Syncing(c)',
         \A r \in Repos : /\ journal[r][c] \subseteq journal'[r][c]
                          /\ "complete" \in journal'[r][c] => "complete" \in journal[r][c]
  PROVE  RunInv(c)'
<1>1. RunInv(c) /\ run[c].exit = None /\ run[c].pc \notin {"script", "prepare", "start", "move", "end"}
  BY DEF RInv, RunInv, Shape, Later
<1>2. run'[c].pc \notin {"script", "prepare", "start", "move", "end"} /\ run'[c].pc \in Pcs
  BY DEF Later, Pcs
<1>3. Here(c)' = Here(c) /\ \A r, i : Done(c, r, i)' <=> Done(c, r, i)
  BY <1>1, <1>2 DEF Here, Done
<1>4. Shape(c)'
  BY <1>1, <1>2 DEF RunInv, Shape
<1>5. Untouched(c)' /\ Moving(c)'
  BY <1>1, <1>2 DEF Untouched, Moving, None
<1>6. Planned(c)'
  <2>1. \A r : HasWork(c, r)' <=> HasWork(c, r)
    BY SameNew
  <2> QED
    BY <2>1, <1>1, <1>2 DEF RunInv, Planned, Sound
<1>7. HasMoved(c)'
  BY <1>1, <1>3 DEF RunInv, HasMoved
<1>8. Journalled(c)'
  <2> SUFFICES ASSUME NEW r \in Repos
               PROVE  /\ (\E f \in RefSet : <<c, r, f>> \in moved) => "start" \in journal'[r][c]
                      /\ "complete" \in journal'[r][c] => \A i \in DOMAIN run[c].plan[r] : Done(c, r, i)
    BY <1>3 DEF Journalled
  <2>1. /\ (\E f \in RefSet : <<c, r, f>> \in moved) => "start" \in journal[r][c]
        /\ "complete" \in journal[r][c] => \A i \in DOMAIN run[c].plan[r] : Done(c, r, i)
    BY <1>1 DEF RunInv, Journalled
  <2>2. /\ journal[r][c] \subseteq journal'[r][c]
        /\ "complete" \in journal'[r][c] =>
             "complete" \in journal[r][c] \/ \A i \in DOMAIN run[c].plan[r] : Done(c, r, i)
    OBVIOUS
  <2> QED
    BY <2>1, <2>2
<1> QED
  BY <1>4, <1>5, <1>6, <1>7, <1>8 DEF RunInv

(* and one still in its script has recorded and moved nothing.               *)
LEMMA OnwardInv ==
  ASSUME RInv, NEW c \in Cmds, run[c].pc = "script", NEW k, Onward(c, k),
         DOMAIN k = Fields, k.kind = run[c].kind, k.pc = "script", k.at = run[c].at, k.plan = run[c].plan,
         k.exit = run[c].exit, UNCHANGED <<journal, moved>>
  PROVE  RunInv(c)'
<1>1. RunInv(c) /\ DOMAIN run = Cmds
  BY DEF RInv, Ranges
<1>2. /\ DOMAIN run'[c] = Fields /\ run'[c].kind = run[c].kind /\ run'[c].plan = run[c].plan
      /\ run'[c].exit = run[c].exit
      /\ \/ run'[c].pc = "script" /\ run'[c].at = run[c].at + 1
         \/ run'[c].pc = "prepare" /\ run'[c].at = 1
  BY <1>1 DEF Onward, Fields
<1>3. 1 \in DOMAIN Order(run[c].kind)
  BY DEF Order
<1>4. Shape(c)'
  BY <1>1, <1>2, <1>3 DEF RunInv, Shape, Pcs
<1>5. Untouched(c)'
  BY <1>1 DEF RunInv, Untouched, Unheard
<1>6. Planned(c)' /\ Moving(c)' /\ HasMoved(c)' /\ Syncing(c)'
  BY <1>1, <1>2 DEF RunInv, Planned, Moving, HasMoved, Syncing, Later
<1>7. Journalled(c)'
  BY <1>1, <1>2 DEF RunInv, Journalled, Untouched, Unheard
<1> QED
  BY <1>4, <1>5, <1>6, <1>7 DEF RunInv

(* One run goes on.                                                          *)
LEMMA GoesOK ==
  ASSUME RInv, NEW c \in Cmds, NEW k, Goes(c, k)
  PROVE  run'[c] = k /\ DOMAIN run' = Cmds /\ \A q \in Cmds \ {c} : run'[q] = run[q]
BY DEF RInv, Ranges, Goes

(* A record is one of the run's own, of the repository it is in.             *)
LEMMA RecordedOK ==
  ASSUME RInv, NEW c \in Cmds, NEW phase \in Phases, run[c].pc # "end",
         Recorded(c, phase) \/ UNCHANGED journal
  PROVE  /\ journal' \in [Repos -> [Cmds -> SUBSET Phases]]
         /\ \A r \in Repos : /\ \A q \in Cmds \ {c} : journal'[r][q] = journal[r][q]
                             /\ journal[r][c] \subseteq journal'[r][c]
                             /\ journal'[r][c] \subseteq journal[r][c] \cup {phase}
                             /\ r # Here(c) => journal'[r][c] = journal[r][c]
                             /\ Recorded(c, phase) /\ r = Here(c) => phase \in journal'[r][c]
<1>1. Here(c) \in Repos /\ journal \in [Repos -> [Cmds -> SUBSET Phases]]
  BY HereOK DEF RInv, Ranges, RunInv
<1>2. CASE UNCHANGED journal /\ ~Recorded(c, phase)
  BY <1>1, <1>2
<1>3. CASE Recorded(c, phase)
  BY <1>1, <1>3 DEF Recorded
<1> QED
  BY <1>2, <1>3

(* Of an end without a record.                                               *)
LEMMA ExitInv ==
  ASSUME RInv, NEW c \in Cmds, NEW code, Exit(c, code), code # None,
         code \in {"refused", "error"} => run[c].pc \in {"script", "prepare"}
  PROVE  Ranges' /\ OthersKept' /\ RunInv(c)' /\ OnlyOf(c)
<1>1. /\ run' = [run EXCEPT ![c] = Ended(c, code)]
      /\ UNCHANGED <<refs, objects, wt, edits, journal, landed, lost, moved>>
  BY DEF Exit
<1>2. Ranges' /\ OthersKept' /\ OnlyOf(c)
  BY <1>1 DEF RInv, Ranges, OthersKept, OnlyOf
<1>3. run'[c] = Ended(c, code)
  BY <1>1 DEF RInv, Ranges
<1>4. code \in {"refused", "error"} => Unheard(c)'
  BY <1>1 DEF RInv, RunInv, Untouched, Unheard
<1> QED
  BY <1>1, <1>2, <1>3, <1>4, EndInv

(* Of a word of the script.                                                  *)
LEMMA ScriptInv ==
  ASSUME RInv, NEW c \in Cmds, run[c].pc = "script", NEW k, Onward(c, k),
         DOMAIN k = Fields, k.kind = run[c].kind, k.pc = "script", k.at = run[c].at, k.plan = run[c].plan,
         k.exit = run[c].exit, UNCHANGED <<refs, edits, journal, landed, lost, moved>>
  PROVE  Ranges' /\ OthersKept' /\ RunInv(c)' /\ OnlyOf(c)
<1>1. Ranges' /\ OthersKept' /\ OnlyOf(c)
  BY DEF RInv, Ranges, OthersKept, OnlyOf, Onward
<1> QED
  BY <1>1, OnwardInv

(* Of everything a run reads before its verification.                        *)
LEMMA ReadingInv ==
  ASSUME RInv, NEW c \in Cmds,
         \/ ReadHead(c) \/ List(c) \/ Count(c) \/ RequireCleanTree(c)
         \/ AcquireRewriteLock(c) \/ SameHead(c) \/ Walk(c)
  PROVE  Ranges' /\ OthersKept' /\ RunInv(c)' /\ OnlyOf(c)
<1>1. run[c].pc = "script"
  BY DEF ReadHead, List, Count, RequireCleanTree, AcquireRewriteLock, SameHead, Walk, Doing
<1>2. DOMAIN run[c] = Fields
  BY DEF RInv, RunInv, Shape
<1>3. CASE Exit(c, "error")
  BY <1>1, <1>3, ExitInv DEF None
<1>4. CASE Onward(c, run[c]) /\ UNCHANGED <<refs, edits, journal, landed, lost, moved>>
  BY <1>1, <1>2, <1>4, ScriptInv
<1>5. CASE ReadHead(c)
  <2> DEFINE k == [run[c] EXCEPT !.head[Here(c)] = refs[Here(c)][Main]]
  <2>1. /\ DOMAIN k = Fields /\ k.kind = run[c].kind /\ k.pc = "script" /\ k.at = run[c].at
        /\ k.plan = run[c].plan /\ k.exit = run[c].exit
    BY <1>1, <1>2 DEF Fields
  <2>2. Onward(c, k) /\ UNCHANGED <<refs, edits, journal, landed, lost, moved>>
    BY <1>5 DEF ReadHead, repository
  <2> HIDE DEF k
  <2> QED
    BY <2>1, <2>2, <1>1, ScriptInv
<1>6. CASE List(c)
  <2> DEFINE read == IF run[c].kind = "author" THEN Reach(Here(c)) ELSE Line(refs[Here(c)][Main])
             k == [run[c] EXCEPT !.list[Here(c)] = read]
  <2>1. /\ DOMAIN k = Fields /\ k.kind = run[c].kind /\ k.pc = "script" /\ k.at = run[c].at
        /\ k.plan = run[c].plan /\ k.exit = run[c].exit
    BY <1>1, <1>2 DEF Fields
  <2>2. Onward(c, k) /\ UNCHANGED <<refs, edits, journal, landed, lost, moved>>
    BY <1>6 DEF List, repository
  <2> HIDE DEF k
  <2> QED
    BY <2>1, <2>2, <1>1, ScriptInv
<1>7. CASE Count(c)
  <2> DEFINE k == [run[c] EXCEPT !.count = Cardinality(Reach(Here(c)))]
  <2>1. /\ DOMAIN k = Fields /\ k.kind = run[c].kind /\ k.pc = "script" /\ k.at = run[c].at
        /\ k.plan = run[c].plan /\ k.exit = run[c].exit
    BY <1>1, <1>2 DEF Fields
  <2>2. Onward(c, k) /\ UNCHANGED <<refs, edits, journal, landed, lost, moved>>
    BY <1>7 DEF Count, repository
  <2> HIDE DEF k
  <2> QED
    BY <2>1, <2>2, <1>1, ScriptInv
<1>8. CASE RequireCleanTree(c)
  BY <1>8, <1>3, <1>4 DEF RequireCleanTree, repository
<1>9. CASE AcquireRewriteLock(c)
  BY <1>9, <1>3, <1>4 DEF AcquireRewriteLock, repository
<1>10. CASE SameHead(c)
  BY <1>10, <1>3, <1>4 DEF SameHead, repository
<1>11. CASE Walk(c) /\ ~Exit(c, "error")
  <2> DEFINE k == [run[c] EXCEPT !.map[Here(c)] = run[c].list[Here(c)]]
  <2>1. /\ DOMAIN k = Fields /\ k.kind = run[c].kind /\ k.pc = "script" /\ k.at = run[c].at
        /\ k.plan = run[c].plan /\ k.exit = run[c].exit
    BY <1>1, <1>2 DEF Fields
  <2>2. Onward(c, k) /\ UNCHANGED <<refs, edits, journal, landed, lost, moved>>
    BY <1>11 DEF Walk
  <2> HIDE DEF k
  <2> QED
    BY <2>1, <2>2, <1>1, ScriptInv
<1> QED
  BY <1>3, <1>5, <1>6, <1>7, <1>8, <1>9, <1>10, <1>11

(* Of the plan: what it moves has work to be recorded.                       *)
LEMMA PrepareInv ==
  ASSUME RInv, NEW c \in Cmds, Prepare(c)
  PROVE  Ranges' /\ OthersKept' /\ RunInv(c)' /\ OnlyOf(c)
<1> DEFINE R == Here(c)
           k == [run[c] EXCEPT !.plan[R] = Plan(c, R)]
<1>1. CASE Exit(c, "refused")
  BY <1>1, ExitInv DEF Prepare, None
<1>2. CASE ~Exit(c, "refused")
  <2>1. run[c].pc = "prepare" /\ run' = [run EXCEPT ![c] = AfterPrepare(k)]
        /\ UNCHANGED <<refs, edits, journal, landed, lost, moved>>
    BY <1>2 DEF Prepare, repository
  <2>2. /\ RunInv(c) /\ R \in Repos /\ DOMAIN run[c] = Fields /\ DOMAIN run[c].plan = Repos /\ DOMAIN run = Cmds
        /\ run[c].exit = None /\ run[c].at \in DOMAIN Order(run[c].kind) /\ run[c].kind \in Kinds
    BY <2>1, HereOK DEF RInv, Ranges, RunInv, Shape
  <2>3. Ranges' /\ OthersKept' /\ OnlyOf(c)
    BY <2>1 DEF RInv, Ranges, OthersKept, OnlyOf
  <2>4. /\ DOMAIN k = Fields /\ DOMAIN k.plan = Repos /\ k.plan[R] = Plan(c, R)
        /\ \A r \in Repos \ {R} : k.plan[r] = run[c].plan[r]
        /\ k.pc = "prepare" /\ k.at = run[c].at /\ k.map = run[c].map /\ k.exit = None /\ k.kind = run[c].kind
    BY <2>1, <2>2 DEF Fields
  <2> HIDE DEF k
  <2>5. /\ DOMAIN run'[c] = Fields /\ run'[c].plan = k.plan /\ run'[c].map = run[c].map /\ run'[c].exit = None
        /\ run'[c].kind = run[c].kind
        /\ \/ run'[c].pc = "prepare" /\ run'[c].at = run[c].at + 1 /\ run[c].at < Len(Order(run[c].kind))
           \/ run'[c].pc = "start" /\ run'[c].at = 1
    BY <2>1, <2>2, <2>4 DEF AfterPrepare, Fields
  <2>6. run'[c].at \in DOMAIN Order(run[c].kind)
    BY <2>2, <2>5 DEF Order
  <2>7. Shape(c)'
    BY <2>2, <2>4, <2>5, <2>6 DEF Shape, Pcs
  <2>8. Unheard(c) /\ Unheard(c)'
    BY <2>1, <2>2 DEF RunInv, Untouched, Unheard
  <2>9. Untouched(c)' /\ Journalled(c)'
    BY <2>8 DEF Untouched, Unheard, Journalled
  <2>10. ASSUME NEW i \in DOMAIN Plan(c, R)
         PROVE  HasWork(c, R) /\ Sound(Plan(c, R)[i])
    <3>1. i \in DOMAIN Refs /\ Moves(c, R, Refs[i])
      BY <2>10 DEF Plan
    <3>r. Refs[i] \in RefSet
      BY <3>1 DEF RefSet
    <3>2. Refs[i] \in RefSet /\ refs[R][Refs[i]] \in Commit
      BY <3>r, <2>2 DEF RInv, Ranges
    <3>3. Plan(c, R)[i] = [ref |-> Refs[i], old |-> refs[R][Refs[i]], new |-> New(c, R, refs[R][Refs[i]])]
      BY <2>10 DEF Plan, Move
    <3> QED
      BY <3>1, <3>2, <3>3, NewOK DEF Sound, Moves, HasWork
  <2>11. Planned(c)'
    <3>1. \A r : HasWork(c, r)' <=> HasWork(c, r)
      BY <2>5, SameNew
    <3>2. \A r \in Repos : \A i \in DOMAIN k.plan[r] : HasWork(c, r) /\ Sound(k.plan[r][i])
      BY <2>1, <2>2, <2>4, <2>10 DEF RunInv, Planned
    <3> QED
      BY <3>1, <3>2, <2>5 DEF Planned, Sound
  <2>12. Moving(c)' /\ HasMoved(c)' /\ Syncing(c)'
    BY <2>5 DEF Moving, HasMoved, Syncing, Later
  <2> QED
    BY <2>3, <2>7, <2>9, <2>11, <2>12 DEF RunInv
<1> QED
  BY <1>1, <1>2

(* Of the first record: if anything is to move, it is made.                  *)
LEMMA RecordStartInv ==
  ASSUME RInv, NEW c \in Cmds, RecordStart(c)
  PROVE  Ranges' /\ OthersKept' /\ RunInv(c)' /\ OnlyOf(c)
<1> DEFINE R == Here(c)
           k == [run[c] EXCEPT !.pc = "move", !.todo = DOMAIN run[c].plan[R]]
<1>1. CASE Exit(c, "stopped")
  BY <1>1, ExitInv DEF None
<1>2. CASE ~Exit(c, "stopped")
  <2>1. /\ run[c].pc = "start" /\ Goes(c, k) /\ UNCHANGED <<refs, edits, landed, lost, moved>>
        /\ IF HasWork(c, R) THEN Recorded(c, "start") ELSE UNCHANGED journal
    BY <1>2 DEF RecordStart
  <2>2. RunInv(c) /\ R \in Repos /\ DOMAIN run[c] = Fields /\ run[c].exit = None
    BY <2>1, HereOK DEF RInv, RunInv, Shape
  <2>3. /\ DOMAIN k = Fields /\ k.pc = "move" /\ k.todo = DOMAIN run[c].plan[R] /\ k.kind = run[c].kind
        /\ k.at = run[c].at /\ k.map = run[c].map /\ k.plan = run[c].plan /\ k.exit = run[c].exit
    BY <2>2 DEF Fields
  <2> HIDE DEF k
  <2>4. run'[c] = k /\ DOMAIN run' = Cmds /\ \A q \in Cmds \ {c} : run'[q] = run[q]
    BY <2>1, GoesOK
  <2>5. /\ journal' \in [Repos -> [Cmds -> SUBSET Phases]]
        /\ \A r \in Repos : /\ \A q \in Cmds \ {c} : journal'[r][q] = journal[r][q]
                            /\ journal[r][c] \subseteq journal'[r][c]
                            /\ journal'[r][c] \subseteq journal[r][c] \cup {"start"}
        /\ HasWork(c, R) => "start" \in journal'[R][c]
    BY <2>1, <2>2, RecordedOK DEF Phases
  <2>6. Ranges' /\ OthersKept' /\ OnlyOf(c)
    BY <2>1, <2>4, <2>5 DEF RInv, Ranges, OthersKept, OnlyOf
  <2>7. Here(c)' = R /\ \A r, i : Done(c, r, i)' <=> Done(c, r, i)
    BY <2>1, <2>3, <2>4 DEF Here, Done
  <2>8. Shape(c)'
    BY <2>1, <2>2, <2>3, <2>4 DEF RunInv, Shape, Pcs
  <2>9. Untouched(c)' /\ HasMoved(c)' /\ Syncing(c)'
    BY <2>2, <2>3, <2>4 DEF Untouched, HasMoved, Syncing, Later, None
  <2>10. Planned(c)'
    <3>1. \A r : HasWork(c, r)' <=> HasWork(c, r)
      BY <2>3, <2>4, SameNew
    <3> QED
      BY <3>1, <2>1, <2>2, <2>3, <2>4 DEF RunInv, Planned, Sound
  <2>11. Moving(c)'
    <3>1. run[c].todo' = DOMAIN run[c].plan[R]
      BY <2>3, <2>4
    <3>2. DOMAIN run[c].plan[R] # {} => "start" \in journal'[R][c]
      BY <2>1, <2>2, <2>5 DEF RunInv, Planned
    <3> QED
      BY <3>1, <3>2, <2>3, <2>4, <2>7 DEF Moving
  <2>12. Journalled(c)'
    <3> SUFFICES ASSUME NEW r \in Repos
                 PROVE  /\ (\E f \in RefSet : <<c, r, f>> \in moved) => "start" \in journal'[r][c]
                        /\ "complete" \in journal'[r][c] => \A i \in DOMAIN run[c].plan[r] : Done(c, r, i)
      BY <2>1, <2>3, <2>4, <2>7 DEF Journalled
    <3> QED
      BY <2>2, <2>5 DEF RunInv, Journalled
  <2> QED
    BY <2>6, <2>8, <2>9, <2>10, <2>11, <2>12 DEF RunInv
<1> QED
  BY <1>1, <1>2

(* Of the end of the moves: everything planned has moved.                    *)
LEMMA ToRefsInv ==
  ASSUME RInv, NEW c \in Cmds, run[c].pc = "move", run[c].todo = {}, To(c, "refs"), UNCHANGED repository
  PROVE  Ranges' /\ OthersKept' /\ RunInv(c)' /\ OnlyOf(c)
<1> DEFINE k == [run[c] EXCEPT !.pc = "refs"]
<1>1. RunInv(c) /\ Here(c) \in Repos /\ DOMAIN run[c] = Fields /\ run[c].exit = None
  BY HereOK DEF RInv, RunInv, Shape
<1>2. /\ DOMAIN k = Fields /\ k.pc = "refs" /\ k.kind = run[c].kind /\ k.at = run[c].at
      /\ k.map = run[c].map /\ k.plan = run[c].plan /\ k.exit = run[c].exit
  BY <1>1 DEF Fields
<1>3. run'[c] = k /\ DOMAIN run' = Cmds /\ \A q \in Cmds \ {c} : run'[q] = run[q]
  BY GoesOK DEF To
<1> HIDE DEF k
<1>4. UNCHANGED <<refs, edits, journal, landed, lost, moved>>
  BY DEF repository
<1>5. Ranges' /\ OthersKept' /\ OnlyOf(c)
  BY <1>3, <1>4 DEF RInv, Ranges, OthersKept, OnlyOf
<1>6. Here(c)' = Here(c) /\ \A r, i : Done(c, r, i)' <=> Done(c, r, i)
  BY <1>2, <1>3, <1>4 DEF Here, Done
<1>7. Shape(c)'
  BY <1>1, <1>2, <1>3 DEF RunInv, Shape, Pcs
<1>8. Untouched(c)' /\ Moving(c)' /\ Syncing(c)'
  BY <1>1, <1>2, <1>3 DEF Untouched, Moving, Syncing, None
<1>9. Planned(c)'
  <2>1. \A r : HasWork(c, r)' <=> HasWork(c, r)
    BY <1>2, <1>3, SameNew
  <2> QED
    BY <2>1, <1>1, <1>2, <1>3 DEF RunInv, Planned, Sound
<1>10. HasMoved(c)'
  BY <1>1, <1>2, <1>3, <1>6 DEF RunInv, Moving, HasMoved
<1>11. Journalled(c)'
  BY <1>1, <1>2, <1>3, <1>4, <1>6 DEF RunInv, Journalled
<1> QED
  BY <1>5, <1>7, <1>8, <1>9, <1>10, <1>11 DEF RunInv

(* Of one move: the compare-and-swap makes what it replaces the very commit  *)
(* the plan was made for, so what others landed is in the new one.           *)
LEMMA ApplyInv ==
  ASSUME RInv, NEW c \in Cmds, run[c].pc = "move", NEW i \in run[c].todo,
         refs[Here(c)][run[c].plan[Here(c)][i].ref] = run[c].plan[Here(c)][i].old, Apply(c, Here(c), i)
  PROVE  Ranges' /\ OthersKept' /\ RunInv(c)' /\ OnlyOf(c)
<1> DEFINE R == Here(c)
           m == run[c].plan[R][i]
           k == [run[c] EXCEPT !.todo = @ \ {i}]
<1>1. /\ RunInv(c) /\ R \in Repos /\ DOMAIN run[c] = Fields /\ run[c].exit = None
      /\ i \in DOMAIN run[c].plan[R] /\ Sound(m)
  <2>1. RunInv(c) /\ R \in Repos /\ DOMAIN run[c] = Fields /\ run[c].exit = None
    BY HereOK DEF RInv, RunInv, Shape
  <2>2. i \in DOMAIN run[c].plan[R]
    BY <2>1 DEF RunInv, Moving
  <2> QED
    BY <2>1, <2>2 DEF RunInv, Planned
<1>2. /\ DOMAIN k = Fields /\ k.pc = "move" /\ k.todo = run[c].todo \ {i} /\ k.kind = run[c].kind
      /\ k.at = run[c].at /\ k.map = run[c].map /\ k.plan = run[c].plan /\ k.exit = run[c].exit
  BY <1>1 DEF Fields
<1>3. /\ refs' = [refs EXCEPT ![R][m.ref] = m.new] /\ moved' = moved \cup {<<c, R, m.ref>>}
      /\ Goes(c, k) /\ UNCHANGED <<edits, journal, landed, lost>>
  BY DEF Apply
<1>4. run'[c] = k /\ DOMAIN run' = Cmds /\ \A q \in Cmds \ {c} : run'[q] = run[q]
  BY <1>3, GoesOK
<1> HIDE DEF k
<1>5. Ranges'
  BY <1>1, <1>3, <1>4 DEF RInv, Ranges, Sound
<1>6. OthersKept'
  <2>1. ASSUME NEW l \in landed
        PROVE  refs'[l[1]][l[2]].tail = refs[l[1]][l[2]].tail
    <3>1. l[1] \in Repos /\ l[2] \in RefSet
      BY <2>1 DEF RInv, Ranges
    <3>2. m.new.tail = refs[R][m.ref].tail /\ m.ref \in RefSet
      BY <1>1 DEF Sound
    <3>3. refs \in [Repos -> [RefSet -> Commit]]
      BY DEF RInv, Ranges
    <3>4. refs'[l[1]][l[2]] = IF l[1] = R /\ l[2] = m.ref THEN m.new ELSE refs[l[1]][l[2]]
      BY <1>1, <1>3, <3>1, <3>2, <3>3
    <3> QED
      BY <3>2, <3>4
  <2> QED
    BY <2>1, <1>3 DEF RInv, OthersKept
<1>7. OnlyOf(c)
  BY <1>3, <1>4 DEF OnlyOf
<1>8. Here(c)' = R /\ \A r, j : Done(c, r, j)' <=> (Done(c, r, j) \/ (r = R /\ run[c].plan[r][j].ref = m.ref))
  BY <1>2, <1>3, <1>4 DEF Here, Done
<1>9. Shape(c)'
  BY <1>1, <1>2, <1>4 DEF RunInv, Shape, Pcs
<1>10. Untouched(c)' /\ HasMoved(c)' /\ Syncing(c)'
  BY <1>1, <1>2, <1>4 DEF Untouched, HasMoved, Syncing, Later, None
<1>11. Planned(c)'
  <2>1. \A r : HasWork(c, r)' <=> HasWork(c, r)
    BY <1>2, <1>4, SameNew
  <2>2. \A r \in Repos : \A j \in DOMAIN run[c].plan[r] : HasWork(c, r) /\ Sound(run[c].plan[r][j])
    BY <1>1 DEF RunInv, Planned
  <2> HIDE DEF m
  <2> QED
    BY <2>1, <2>2, <1>2, <1>4, ZenonT(30) DEF Planned, Sound
<1>12. Moving(c)'
  <2>1. /\ run[c].todo \subseteq DOMAIN run[c].plan[R] /\ "start" \in journal[R][c]
        /\ \A j \in DOMAIN run[c].plan[R] \ run[c].todo : Done(c, R, j)
    BY <1>1 DEF RunInv, Moving
  <2>2. \A j \in DOMAIN run[c].plan[R] \ (run[c].todo \ {i}) : Done(c, R, j)'
    BY <2>1, <1>8
  <2> QED
    BY <2>1, <2>2, <1>2, <1>3, <1>4, <1>8 DEF Moving
<1>13. Journalled(c)'
  <2> SUFFICES ASSUME NEW r \in Repos
               PROVE  /\ (\E f \in RefSet : <<c, r, f>> \in moved') => "start" \in journal[r][c]
                      /\ "complete" \in journal[r][c] => \A j \in DOMAIN run[c].plan[r] : Done(c, r, j)'
    BY <1>2, <1>3, <1>4 DEF Journalled
  <2>1. /\ (\E f \in RefSet : <<c, r, f>> \in moved) => "start" \in journal[r][c]
        /\ "complete" \in journal[r][c] => \A j \in DOMAIN run[c].plan[r] : Done(c, r, j)
    BY <1>1 DEF RunInv, Journalled
  <2>2. r = R => "start" \in journal[r][c]
    BY <1>1 DEF RunInv, Moving
  <2>3. \A f \in RefSet : <<c, r, f>> \in moved' => <<c, r, f>> \in moved \/ r = R
    BY <1>3
  <2> QED
    BY <2>1, <2>2, <2>3, <1>8
<1> QED
  BY <1>5, <1>6, <1>7, <1>9, <1>10, <1>11, <1>12, <1>13 DEF RunInv

(* Of a move, or the refusal of one.                                         *)
LEMMA MoveRefInv ==
  ASSUME RInv, NEW c \in Cmds, MoveRef(c)
  PROVE  Ranges' /\ OthersKept' /\ RunInv(c)' /\ OnlyOf(c)
<1>1. CASE Exit(c, "stopped")
  BY <1>1, ExitInv DEF None
<1>2. CASE run[c].todo = {} /\ To(c, "refs") /\ UNCHANGED repository
  BY <1>2, ToRefsInv DEF MoveRef
<1>3. CASE \E i \in run[c].todo : /\ refs[Here(c)][run[c].plan[Here(c)][i].ref] = run[c].plan[Here(c)][i].old
                                  /\ Apply(c, Here(c), i)
  BY <1>3, ApplyInv DEF MoveRef
<1> QED
  BY <1>1, <1>2, <1>3 DEF MoveRef, First

(* Of what comes after the moves.  No edit is lost by the overwriting but    *)
(* one that came after the look.                                             *)
LEMMA AfterMovesInv ==
  ASSUME RInv, NEW c \in Cmds,
         RecordRefs(c) \/ Look(c) \/ Sync(c) \/ Prune(c) \/ Check(c)
  PROVE  Ranges' /\ OthersKept' /\ RunInv(c)' /\ OnlyOf(c)
<1> DEFINE R == Here(c)
           to(pc) == [run[c] EXCEPT !.pc = pc]
<1>1. run[c].pc \in Later /\ run[c].pc # "end"
  BY DEF RecordRefs, Look, Sync, Prune, Check, Later
<1>2. RunInv(c) /\ R \in Repos /\ DOMAIN run[c] = Fields /\ run[c].exit = None
  BY <1>1, HereOK DEF RInv, RunInv, Shape
<1>3. CASE Exit(c, "stopped")
  BY <1>3, ExitInv DEF None
<1>4. ASSUME NEW pc \in Later, NEW k \in {to(pc), Finding(to(pc))}, Goes(c, k)
      PROVE  /\ DOMAIN run'[c] = Fields /\ run'[c].pc = pc /\ run'[c].kind = run[c].kind /\ run'[c].at = run[c].at
             /\ run'[c].map = run[c].map /\ run'[c].plan = run[c].plan /\ run'[c].exit = run[c].exit
             /\ run'[c].late = run[c].late
             /\ DOMAIN run' = Cmds /\ \A q \in Cmds \ {c} : run'[q] = run[q]
             /\ Here(c)' = R
  <2>1. run'[c] = k /\ DOMAIN run' = Cmds /\ \A q \in Cmds \ {c} : run'[q] = run[q]
    BY <1>4, GoesOK
  <2>2. /\ DOMAIN k = Fields /\ k.pc = pc /\ k.kind = run[c].kind /\ k.at = run[c].at
        /\ k.map = run[c].map /\ k.plan = run[c].plan /\ k.exit = run[c].exit /\ k.late = run[c].late
    BY <1>2 DEF Finding, Fields
  <2>3. Here(c)' = R
    BY <1>1, <2>1, <2>2 DEF Here, Later
  <2> QED
    BY <2>1, <2>2, <2>3
<1>5. ASSUME NEW pc \in Later \ {"sync"}, NEW k \in {to(pc), Finding(to(pc))}, Goes(c, k),
             UNCHANGED <<refs, edits, landed, lost, moved>>, Recorded(c, "refs") \/ UNCHANGED journal
      PROVE  Ranges' /\ OthersKept' /\ RunInv(c)' /\ OnlyOf(c)
  <2>1. Syncing(c)'
    BY <1>4, <1>5 DEF Syncing
  <2>2. /\ journal' \in [Repos -> [Cmds -> SUBSET Phases]]
        /\ \A r \in Repos : /\ \A q \in Cmds \ {c} : journal'[r][q] = journal[r][q]
                            /\ journal[r][c] \subseteq journal'[r][c]
                            /\ journal'[r][c] \subseteq journal[r][c] \cup {"refs"}
    BY <1>1, <1>5, RecordedOK DEF Phases
  <2>3. RunInv(c)'
    BY <1>1, <1>4, <1>5, <2>1, <2>2, LaterInv
  <2>4. Ranges' /\ OthersKept' /\ OnlyOf(c)
    BY <1>4, <1>5, <2>2 DEF RInv, Ranges, OthersKept, OnlyOf
  <2> QED
    BY <2>3, <2>4
<1>6. CASE RecordRefs(c)
  BY <1>3, <1>5, <1>6 DEF RecordRefs, To, Later
<1>7. CASE Look(c)
  <2>1. CASE ForeignWorktreeState(c, R)
    BY <1>5, <1>7, <2>1 DEF Look, repository, Later, Finding
  <2>2. CASE ~ForeignWorktreeState(c, R)
    <3>1. Goes(c, to("sync")) /\ UNCHANGED <<refs, edits, journal, landed, lost, moved>> /\ edits[R] = {}
      BY <1>7, <2>2 DEF Look, repository, ForeignWorktreeState
    <3>2. Syncing(c)'
      BY <1>4, <3>1 DEF Syncing, Later
    <3>3. RunInv(c)'
      BY <1>1, <1>4, <3>1, <3>2, LaterInv DEF Later
    <3>4. Ranges' /\ OthersKept' /\ OnlyOf(c)
      BY <1>4, <3>1 DEF RInv, Ranges, OthersKept, OnlyOf, Later
    <3> QED
      BY <3>3, <3>4
  <2> QED
    BY <2>1, <2>2
<1>8. CASE Sync(c)
  <2>1. CASE Goes(c, Finding(to("prune"))) /\ UNCHANGED repository
    BY <1>5, <2>1 DEF repository, Later
  <2>2. CASE ~(Goes(c, Finding(to("prune"))) /\ UNCHANGED repository)
    <3>1. /\ run[c].pc = "sync" /\ Goes(c, to("prune")) /\ edits' = [edits EXCEPT ![R] = {}]
          /\ lost' = lost \cup {e \in edits[R] : e # run[c].late}
          /\ UNCHANGED <<refs, journal, landed, moved>>
      BY <1>8, <2>2 DEF Sync, To
    <3>2. Syncing(c)'
      BY <1>4, <3>1 DEF Syncing, Later
    <3>3. RunInv(c)'
      BY <1>1, <1>4, <3>1, <3>2, LaterInv DEF Later
    <3>4. lost' = lost
      BY <1>2, <3>1 DEF RunInv, Syncing
    <3>5. Ranges' /\ OthersKept' /\ OnlyOf(c)
      BY <1>4, <3>1, <3>4 DEF RInv, Ranges, OthersKept, OnlyOf, Later
    <3> QED
      BY <3>3, <3>5
  <2> QED
    BY <2>1, <2>2
<1>9. CASE Prune(c)
  <2>1. Goes(c, to("check")) \/ Goes(c, Finding(to("check")))
    BY <1>9 DEF Prune
  <2>2. UNCHANGED <<refs, edits, landed, lost, moved, journal>>
    BY <1>9 DEF Prune
  <2> QED
    BY <1>5, <2>1, <2>2 DEF Later
<1>10. CASE Check(c)
  <2>1. Goes(c, to("complete")) \/ Goes(c, Finding(run[c])) \/ Goes(c, Finding(to("complete")))
    BY <1>10 DEF Check
  <2>2. Goes(c, to("complete")) \/ Goes(c, Finding(to("complete")))
    BY <1>10 DEF Check
  <2>3. UNCHANGED <<refs, edits, landed, lost, moved, journal>>
    BY <1>10 DEF Check, repository
  <2> QED
    BY <1>5, <2>2, <2>3 DEF Later
<1> QED
  BY <1>6, <1>7, <1>8, <1>9, <1>10

(* Of the last record, and the next repository.                              *)
LEMMA RecordCompleteInv ==
  ASSUME RInv, NEW c \in Cmds, RecordComplete(c)
  PROVE  Ranges' /\ OthersKept' /\ RunInv(c)' /\ OnlyOf(c)
<1> DEFINE R == Here(c)
           code == IF run[c].incomplete THEN "incomplete" ELSE "ok"
           k == [run[c] EXCEPT !.pc = "start", !.at = @ + 1]
<1>1. CASE Exit(c, "stopped")
  BY <1>1, ExitInv DEF None
<1>2. CASE ~Exit(c, "stopped")
  <2>1. /\ run[c].pc = "complete" /\ UNCHANGED <<refs, edits, landed, lost, moved>>
        /\ Recorded(c, "complete") \/ UNCHANGED journal
        /\ IF run[c].at < Len(Order(run[c].kind)) THEN Goes(c, k) ELSE Goes(c, Ended(c, code))
    BY <1>2 DEF RecordComplete
  <2>2. /\ RunInv(c) /\ R \in Repos /\ DOMAIN run[c] = Fields /\ run[c].exit = None
        /\ \A i \in DOMAIN run[c].plan[R] : Done(c, R, i)
    BY <2>1, HereOK DEF RInv, RunInv, Shape, HasMoved, Later
  <2>3. /\ journal' \in [Repos -> [Cmds -> SUBSET Phases]]
        /\ \A r \in Repos : /\ \A q \in Cmds \ {c} : journal'[r][q] = journal[r][q]
                            /\ journal[r][c] \subseteq journal'[r][c]
                            /\ journal'[r][c] \subseteq journal[r][c] \cup {"complete"}
                            /\ r # R => journal'[r][c] = journal[r][c]
    BY <2>1, RecordedOK DEF Phases
  <2>4. \A r \in Repos : "complete" \in journal'[r][c] =>
                           "complete" \in journal[r][c] \/ \A i \in DOMAIN run[c].plan[r] : Done(c, r, i)
    BY <2>2, <2>3
  <2>5. Ranges' /\ OthersKept' /\ OnlyOf(c)
    <3>1. DOMAIN run' = Cmds /\ \A q \in Cmds \ {c} : run'[q] = run[q]
      BY <2>1, GoesOK
    <3> QED
      BY <3>1, <2>1, <2>3 DEF RInv, Ranges, OthersKept, OnlyOf
  <2>6. CASE ~(run[c].at < Len(Order(run[c].kind)))
    <3>1. run'[c] = Ended(c, code)
      BY <2>1, <2>6, GoesOK
    <3>2. code # None /\ code \notin {"refused", "error"}
      BY DEF None
    <3> HIDE DEF code
    <3>3. RunInv(c)'
      BY <2>1, <2>3, <2>4, <3>1, <3>2, EndInv
    <3> QED
      BY <2>5, <3>3
  <2>7. CASE run[c].at < Len(Order(run[c].kind))
    <3>1. run'[c] = k
      BY <2>1, <2>7, GoesOK
    <3>2. /\ DOMAIN k = Fields /\ k.pc = "start" /\ k.at = run[c].at + 1 /\ k.kind = run[c].kind
          /\ k.map = run[c].map /\ k.plan = run[c].plan /\ k.exit = run[c].exit
      BY <2>2 DEF Fields
    <3> HIDE DEF k
    <3>3. k.at \in DOMAIN Order(run[c].kind)
      <4>1. run[c].at \in DOMAIN Order(run[c].kind)
        BY <2>1, <2>2 DEF RunInv, Shape
      <4> QED
        BY <4>1, <3>2, <2>7 DEF Order
    <3>4. Shape(c)'
      BY <2>2, <3>1, <3>2, <3>3 DEF RunInv, Shape, Pcs
    <3>5. Untouched(c)' /\ Moving(c)' /\ HasMoved(c)' /\ Syncing(c)'
      BY <2>2, <3>1, <3>2 DEF Untouched, Moving, HasMoved, Syncing, Later, None
    <3>6. Planned(c)'
      <4>1. \A r : HasWork(c, r)' <=> HasWork(c, r)
        BY <3>1, <3>2, SameNew
      <4> QED
        BY <4>1, <2>1, <2>2, <3>1, <3>2 DEF RunInv, Planned, Sound
    <3>7. Journalled(c)'
      <4>1. \A r, i : Done(c, r, i)' <=> Done(c, r, i)
        BY <2>1, <3>1, <3>2 DEF Done
      <4> SUFFICES ASSUME NEW r \in Repos
                   PROVE  /\ (\E f \in RefSet : <<c, r, f>> \in moved) => "start" \in journal'[r][c]
                          /\ "complete" \in journal'[r][c] => \A i \in DOMAIN run[c].plan[r] : Done(c, r, i)
        BY <4>1, <2>1, <3>1, <3>2 DEF Journalled
      <4>2. /\ (\E f \in RefSet : <<c, r, f>> \in moved) => "start" \in journal[r][c]
            /\ "complete" \in journal[r][c] => \A i \in DOMAIN run[c].plan[r] : Done(c, r, i)
        BY <2>2 DEF RunInv, Journalled
      <4> QED
        BY <4>2, <2>3, <2>4
    <3> QED
      BY <2>5, <3>4, <3>5, <3>6, <3>7 DEF RunInv
  <2> QED
    BY <2>6, <2>7
<1> QED
  BY <1>1, <1>2

(* Every step of a run keeps the invariant,                                  *)
LEMMA StepInv ==
  ASSUME RInv, NEW c \in Cmds, Step(c)
  PROVE  RInv'
<1>1. Ranges' /\ OthersKept' /\ RunInv(c)' /\ OnlyOf(c)
  <2>1. CASE Crash(c)
    BY <2>1, ExitInv DEF Crash, None
  <2> QED
    BY <2>1, ReadingInv, PrepareInv, RecordStartInv, MoveRefInv, AfterMovesInv, RecordCompleteInv DEF Step
<1> QED
  BY <1>1, Undisturbed DEF RInv

(* which speaks of nothing but runs, journals, moves and edits,              *)
LEMMA Unmoved ==
  ASSUME NEW c, RunInv(c), UNCHANGED <<run, journal, moved, edits>>
  PROVE  RunInv(c)'
<1>1. Here(c)' = Here(c) /\ \A r, i : Done(c, r, i)' <=> Done(c, r, i)
  BY DEF Here, Word, Done
<1>2. \A r : HasWork(c, r)' <=> HasWork(c, r)
  BY SameNew
<1>3. Shape(c)' /\ Untouched(c)'
  BY DEF RunInv, Shape, Untouched, Unheard
<1>4. Planned(c)'
  BY <1>2 DEF RunInv, Planned, Sound
<1>5. Moving(c)' /\ HasMoved(c)' /\ Journalled(c)' /\ Syncing(c)'
  BY <1>1 DEF RunInv, Moving, HasMoved, Journalled, Syncing
<1> QED
  BY <1>3, <1>4, <1>5 DEF RunInv

(* and so does a commit of others,                                           *)
LEMMA LandInv ==
  ASSUME RInv, NEW r \in Repos, NEW f \in RefSet, NEW here \in BOOLEAN, Land(r, f, here)
  PROVE  RInv'
<1> DEFINE id == Cardinality(landed) + 1
           v  == [refs[r][f] EXCEPT !.tail = Append(@, id)]
<1>1. /\ id <= MaxLandings /\ refs' = [refs EXCEPT ![r][f] = v] /\ landed' = landed \cup {<<r, f, id>>}
      /\ UNCHANGED <<edits, lock, journal, run, lost, moved>>
  BY DEF Land
<1>2. id \in 1..MaxLandings
  <2>1. Cardinality(landed) \in Nat
    BY FS_CardinalityType DEF RInv, Ranges
  <2> QED
    BY <2>1, <1>1, RewriteConstants
<1>3. refs[r][f] \in Commit /\ refs[r][f].tail \in Seq(1..MaxLandings)
  BY DEF RInv, Ranges, Commit
<1>4. v \in Commit /\ v.tail = Append(refs[r][f].tail, id)
  <2>1. ASSUME NEW w \in Commit, NEW t \in Seq(1..MaxLandings)
        PROVE  [w EXCEPT !.tail = t] \in Commit /\ [w EXCEPT !.tail = t].tail = t
    BY DEF Commit
  <2>2. Append(refs[r][f].tail, id) \in Seq(1..MaxLandings)
    BY <1>2, <1>3
  <2>3. v = [refs[r][f] EXCEPT !.tail = Append(refs[r][f].tail, id)]
    OBVIOUS
  <2> HIDE DEF id
  <2> QED
    BY <2>1, <2>2, <2>3, <1>3
<1>5. /\ id \in {v.tail[i] : i \in DOMAIN v.tail}
      /\ \A i \in DOMAIN refs[r][f].tail : i \in DOMAIN v.tail /\ v.tail[i] = refs[r][f].tail[i]
  <2> DEFINE t == refs[r][f].tail
             n == Len(t)
  <2>1. t \in Seq(1..MaxLandings) /\ n \in Nat /\ DOMAIN t = 1..n
    BY <1>3
  <2>2. DOMAIN v.tail = 1..(n + 1) /\ v.tail[n + 1] = id /\ \A i \in 1..n : v.tail[i] = t[i]
    <3> HIDE DEF id, v
    <3> QED
      BY <1>2, <1>4, <2>1
  <2> HIDE DEF id, v, t, n
  <2> QED
    BY <2>1, <2>2 DEF t
<1> HIDE DEF id, v
<1>6. Ranges'
  <2>1. IsFiniteSet(landed')
    BY <1>1, FS_AddElement DEF RInv, Ranges
  <2>2. refs' \in [Repos -> [RefSet -> Commit]]
    BY <1>1, <1>4 DEF RInv, Ranges
  <2>3. landed' \subseteq Repos \X RefSet \X (1..MaxLandings)
    BY <1>1, <1>2 DEF RInv, Ranges
  <2> QED
    BY <1>1, <2>1, <2>2, <2>3 DEF RInv, Ranges
<1>7. OthersKept'
  <2>1. ASSUME NEW l \in landed'
        PROVE  \E i \in DOMAIN refs'[l[1]][l[2]].tail : refs'[l[1]][l[2]].tail[i] = l[3]
    <3>1. refs'[r][f] = v /\ \A q \in Repos, g \in RefSet : q # r \/ g # f => refs'[q][g] = refs[q][g]
      BY <1>1 DEF RInv, Ranges
    <3>2. CASE l = <<r, f, id>>
      BY <3>1, <3>2, <1>5
    <3>3. CASE l \in landed
      <4>1. l[1] \in Repos /\ l[2] \in RefSet
        BY <3>3 DEF RInv, Ranges
      <4>2. PICK i \in DOMAIN refs[l[1]][l[2]].tail : refs[l[1]][l[2]].tail[i] = l[3]
        BY <3>3 DEF RInv, OthersKept
      <4>3. i \in DOMAIN refs'[l[1]][l[2]].tail /\ refs'[l[1]][l[2]].tail[i] = l[3]
        BY <4>1, <4>2, <3>1, <1>5
      <4> QED
        BY <4>3
    <3> QED
      BY <3>2, <3>3, <1>1
  <2> QED
    BY <2>1, <1>1 DEF RInv, OthersKept
<1>8. ASSUME NEW c \in Cmds
      PROVE  RunInv(c)'
  BY <1>1, <1>8, Unmoved DEF RInv
<1> QED
  BY <1>6, <1>7, <1>8 DEF RInv

(* and an edit.                                                              *)
LEMMA EditInv ==
  ASSUME RInv, NEW r \in Repos, Edit(r)
  PROVE  RInv'
<1> DEFINE id == 1 + Cardinality((UNION {edits[q] : q \in Repos}) \cup lost)
<1>1. /\ edits[r] = {} /\ edits' = [edits EXCEPT ![r] = {id}]
      /\ run' = [c \in Cmds |-> IF run[c].pc = "sync" /\ Here(c) = r THEN [run[c] EXCEPT !.late = id] ELSE run[c]]
      /\ UNCHANGED <<refs, journal, landed, lost, moved>>
  BY DEF Edit
<1> HIDE DEF id
<1>2. Ranges' /\ OthersKept'
  BY <1>1 DEF RInv, Ranges, OthersKept
<1>3. ASSUME NEW c \in Cmds
      PROVE  RunInv(c)'
  <2>1. RunInv(c) /\ DOMAIN run[c] = Fields /\ DOMAIN edits = Repos
    BY DEF RInv, Ranges, RunInv, Shape
  <2>2. /\ DOMAIN run'[c] = Fields /\ run'[c].pc = run[c].pc /\ run'[c].kind = run[c].kind /\ run'[c].at = run[c].at
        /\ run'[c].map = run[c].map /\ run'[c].plan = run[c].plan /\ run'[c].todo = run[c].todo
        /\ run'[c].exit = run[c].exit
        /\ run'[c].late = IF run[c].pc = "sync" /\ Here(c) = r THEN id ELSE run[c].late
    BY <1>1, <2>1 DEF Fields
  <2>3. Here(c)' = Here(c) /\ \A q, i : Done(c, q, i)' <=> Done(c, q, i)
    BY <1>1, <2>2 DEF Here, Word, Done
  <2>4. Shape(c)'
    BY <2>1, <2>2 DEF RunInv, Shape
  <2>5. Untouched(c)'
    BY <1>1, <2>1, <2>2 DEF RunInv, Untouched, Unheard
  <2>6. Planned(c)'
    <3>1. \A q : HasWork(c, q)' <=> HasWork(c, q)
      BY <2>2, SameNew
    <3> QED
      BY <3>1, <2>1, <2>2 DEF RunInv, Planned, Sound
  <2>7. Moving(c)' /\ HasMoved(c)'
    BY <1>1, <2>1, <2>2, <2>3 DEF RunInv, Moving, HasMoved
  <2>8. Journalled(c)'
    BY <1>1, <2>1, <2>2, <2>3 DEF RunInv, Journalled
  <2>9. Syncing(c)'
    BY <1>1, <2>1, <2>2, <2>3 DEF RunInv, Syncing
  <2> QED
    BY <2>4, <2>5, <2>6, <2>7, <2>8, <2>9 DEF RunInv
<1> QED
  BY <1>2, <1>3 DEF RInv

(* It holds at first,                                                        *)
LEMMA InitInv == Init => RInv
<1> SUFFICES ASSUME Init PROVE RInv
  OBVIOUS
<1>1. Ranges
  <2>1. IsFiniteSet(landed) /\ landed = {}
    BY FS_EmptySet DEF Init
  <2>2. DOMAIN run = Cmds
    BY DEF Init
  <2> QED
    BY <2>1, <2>2, BaseOK DEF Init, Ranges
<1>2. OthersKept
  BY DEF Init, OthersKept
<1>3. ASSUME NEW c \in Cmds
      PROVE  RunInv(c)
  <2>1. PICK k \in Kinds : run[c] = Idle(k)
    BY RewriteConstants DEF Init
  <2>2. \A r \in Repos : journal[r][c] = {} /\ moved = {}
    BY DEF Init
  <2>3. \A r \in Repos : DOMAIN run[c].plan[r] = {}
    BY <2>1, IdleShape
  <2>4. /\ DOMAIN run[c] = Fields /\ DOMAIN run[c].plan = Repos /\ run[c].kind \in Kinds
        /\ run[c].pc = "script" /\ run[c].at = 1 /\ run[c].exit = None
    BY <2>1, IdleShape
  <2>5. Shape(c)
    BY <2>4 DEF Shape, Pcs
  <2>6. Untouched(c) /\ Journalled(c)
    BY <2>2 DEF Untouched, Unheard, Journalled
  <2>7. Planned(c) /\ Moving(c) /\ HasMoved(c) /\ Syncing(c)
    BY <2>3, <2>4 DEF Planned, Moving, HasMoved, Syncing, Later
  <2> QED
    BY <2>5, <2>6, <2>7 DEF RunInv
<1> QED
  BY <1>1, <1>2, <1>3 DEF RInv

(* and after every step.                                                     *)
LEMMA NextInv ==
  ASSUME RInv, [Next]_vars
  PROVE  RInv'
<1>1. CASE UNCHANGED vars
  <2>1. UNCHANGED <<refs, edits, landed, lost, run, journal, moved>>
    BY <1>1 DEF vars
  <2>2. Ranges' /\ OthersKept'
    BY <2>1 DEF RInv, Ranges, OthersKept
  <2> QED
    BY <2>1, <2>2, Unmoved DEF RInv
<1>2. DOMAIN refs["sub"] = RefSet
  BY DEF RInv, Ranges, Repos
<1> QED
  BY <1>1, <1>2, StepInv, LandInv, EditInv DEF Next

(* Nothing of others is lost to a rewrite, for every number of rewrites of   *)
(* every kind, of references, commits and edits, with every fault: a commit  *)
(* stays on its reference (applyRefUpdates), and an edit that was there at   *)
(* the last look is not overwritten (publish).                               *)
THEOREM OthersKeptHolds == Spec => []OthersKept
<1>1. Init => RInv
  BY InitInv
<1>2. RInv /\ [Next]_vars => RInv'
  BY NextInv
<1>3. RInv => OthersKept
  BY DEF RInv
<1> QED
  BY <1>1, <1>2, <1>3, PTL DEF Spec

(* A rewrite that refuses has moved and recorded nothing in any repository,  *)
(* those it has prepared already among them (prepareAll).                    *)
THEOREM RefusalHolds == Spec => []RefusedMeansUntouched
<1>1. Init => RInv
  BY InitInv
<1>2. RInv /\ [Next]_vars => RInv'
  BY NextInv
<1>3. RInv => RefusedMeansUntouched
  BY DEF RInv, Ranges, RunInv, Untouched, Unheard, RefusedMeansUntouched
<1> QED
  BY <1>1, <1>2, <1>3, PTL DEF Spec

(* No reference moves unrecorded, and what is recorded complete has moved    *)
(* whole, whatever fails and wherever a run is stopped (publish).            *)
THEOREM JournalHolds == Spec => []JournalIsTrue
<1>1. Init => RInv
  BY InitInv
<1>2. RInv /\ [Next]_vars => RInv'
  BY NextInv
<1>3. RInv => JournalIsTrue
  BY DEF RInv, Ranges, RunInv, Journalled, Done, JournalIsTrue
<1> QED
  BY <1>1, <1>2, <1>3, PTL DEF Spec

---------------------------------------------------------------------------
(* Below the second invariant: lemmas about commits and their ancestors, and *)
(* about the scripts.  What a sequence holds before a place.                 *)
LEMMA InSeq ==
  ASSUME NEW S, NEW t \in Seq(S), NEW k \in 0..Len(t)
  PROVE  k \in Nat /\ \A i \in 1..k : t[i] \in S
BY ElementOfSeq, LenProperties

(* A commit is among its ancestors, which are commits and finitely many.     *)
LEMMA LineHas ==
  ASSUME NEW v \in Commit
  PROVE  v \in Line(v) /\ Line(v) \subseteq Commit /\ IsFiniteSet(Line(v))
<1>1. v.tail \in Seq(1..MaxLandings) /\ Len(v.tail) \in Nat
  BY DEF Commit
<1>2. v \in Line(v)
  <2>1. SubSeq(v.tail, 1, Len(v.tail)) = v.tail
    BY <1>1, SubSeqFull
  <2>2. [v EXCEPT !.tail = SubSeq(v.tail, 1, Len(v.tail))] = v
    BY <2>1 DEF Commit
  <2>3. Len(v.tail) \in 0..Len(v.tail)
    BY <1>1
  <2> QED
    BY <2>2, <2>3 DEF Line
<1>3. Line(v) \subseteq Commit
  <2>1. ASSUME NEW k \in 0..Len(v.tail)
        PROVE  SubSeq(v.tail, 1, k) \in Seq(1..MaxLandings)
    <3>1. k \in Nat /\ \A i \in 1..k : v.tail[i] \in 1..MaxLandings
      BY <1>1, InSeq
    <3> QED
      BY <3>1, SubSeqProperties
  <2>2. ASSUME NEW t \in Seq(1..MaxLandings)
        PROVE  [v EXCEPT !.tail = t] \in Commit
    BY DEF Commit
  <2> QED
    BY <2>1, <2>2 DEF Line
<1>4. IsFiniteSet(Line(v))
  <2> DEFINE D == 0..Len(v.tail)
             F == [k \in D |-> [v EXCEPT !.tail = SubSeq(v.tail, 1, k)]]
  <2>1. F \in Surjection(D, Line(v))
    BY DEF Surjection, Line
  <2>2. IsFiniteSet(D)
    BY <1>1, FS_Interval
  <2> HIDE DEF D, F
  <2> QED
    BY <2>1, <2>2, FS_Surjection
<1> QED
  BY <1>2, <1>3, <1>4

(* What is replaced in a commit is so in its ancestors,                      *)
LEMMA LineBy ==
  ASSUME NEW v \in Commit, NEW w \in Line(v)
  PROVE  w.by = v.by
BY DEF Line, Commit

(* and an ancestor's ancestors are ancestors.                                *)
LEMMA LineTrans ==
  ASSUME NEW v \in Commit, NEW w \in Line(v)
  PROVE  Line(w) \subseteq Line(v)
<1> DEFINE t == v.tail
<1>1. t \in Seq(1..MaxLandings) /\ Len(t) \in Nat
  BY DEF Commit
<1>2. PICK k \in 0..Len(t) : w = [v EXCEPT !.tail = SubSeq(t, 1, k)]
  BY DEF Line
<1>3. k \in Nat /\ \A i \in 1..k : t[i] \in 1..MaxLandings
  BY <1>1, InSeq
<1>4. /\ SubSeq(t, 1, k) \in Seq(1..MaxLandings) /\ Len(SubSeq(t, 1, k)) = k
      /\ \A i \in 1..k : SubSeq(t, 1, k)[i] = t[i]
  BY <1>1, <1>3, SubSeqProperties
<1>5. w.tail = SubSeq(t, 1, k)
  BY <1>2 DEF Commit
<1>6. ASSUME NEW j \in 0..k
      PROVE  SubSeq(w.tail, 1, j) = SubSeq(t, 1, j)
  <2>1. \A i \in 1..j : w.tail[i] = t[i] /\ w.tail[i] \in 1..MaxLandings
    BY <1>1, <1>4, <1>5
  <2>2. /\ SubSeq(w.tail, 1, j) \in Seq(1..MaxLandings) /\ Len(SubSeq(w.tail, 1, j)) = j
        /\ \A i \in 1..j : SubSeq(w.tail, 1, j)[i] = w.tail[i]
    BY <2>1, SubSeqProperties
  <2>3. /\ SubSeq(t, 1, j) \in Seq(1..MaxLandings) /\ Len(SubSeq(t, 1, j)) = j
        /\ \A i \in 1..j : SubSeq(t, 1, j)[i] = t[i]
    BY <2>1, SubSeqProperties
  <2> QED
    BY <2>1, <2>2, <2>3, SeqEqual
<1>7. Line(w) = {[w EXCEPT !.tail = SubSeq(w.tail, 1, j)] : j \in 0..k}
  BY <1>4, <1>5 DEF Line
<1>8. ASSUME NEW j \in 0..k
      PROVE  j \in 0..Len(t) /\ [w EXCEPT !.tail = SubSeq(w.tail, 1, j)] = [v EXCEPT !.tail = SubSeq(t, 1, j)]
  <2>1. j \in 0..Len(t)
    BY <1>1
  <2>2. [w EXCEPT !.tail = SubSeq(t, 1, j)] = [v EXCEPT !.tail = SubSeq(t, 1, j)]
    BY <1>2 DEF Commit
  <2> QED
    BY <1>6, <2>1, <2>2
<1>9. Line(v) = {[v EXCEPT !.tail = SubSeq(t, 1, j)] : j \in 0..Len(t)}
  BY DEF Line
<1> QED
  BY <1>7, <1>8, <1>9

(* The new form of a commit has the new forms of its ancestors.              *)
LEMMA LineNew ==
  ASSUME NEW c \in Cmds, NEW r, NEW v \in Commit
  PROVE  Line(New(c, r, v)) = {New(c, r, u) : u \in Line(v)}
<1> DEFINE at(k) == [v EXCEPT !.tail = SubSeq(v.tail, 1, k)]
           K == 0..Len(v.tail)
<1>1. ASSUME NEW k
      PROVE  New(c, r, at(k)) = [New(c, r, v) EXCEPT !.tail = SubSeq(v.tail, 1, k)]
  <2>1. Linked(at(k)) = Linked(v)
    BY DEF Linked, Commit
  <2> QED
    BY <2>1 DEF New, Commit
<1>2. New(c, r, v).tail = v.tail
  BY NewOK
<1>3. Line(v) = {at(k) : k \in K}
  BY DEF Line
<1>4. Line(New(c, r, v)) = {[New(c, r, v) EXCEPT !.tail = SubSeq(v.tail, 1, k)] : k \in K}
  BY <1>2 DEF Line
<1>5. Line(New(c, r, v)) = {New(c, r, at(k)) : k \in K}
  BY <1>1, <1>4
<1> HIDE DEF at, K
<1> QED
  BY <1>3, <1>5

(* A commit that lands has one ancestor more.                                *)
LEMMA LineLanded ==
  ASSUME NEW v \in Commit, NEW id \in 1..MaxLandings
  PROVE  LET w == [v EXCEPT !.tail = Append(@, id)]
         IN  w \in Commit /\ w.by = v.by /\ Line(w) = Line(v) \cup {w}
<1> DEFINE t == v.tail
           w == [v EXCEPT !.tail = Append(t, id)]
           n == Len(t)
<1>1. t \in Seq(1..MaxLandings) /\ n \in Nat
  BY DEF Commit
<1>2. /\ Append(t, id) \in Seq(1..MaxLandings) /\ Len(Append(t, id)) = n + 1
      /\ \A i \in 1..n : Append(t, id)[i] = t[i]
  BY <1>1
<1>3. w \in Commit /\ w.by = v.by /\ w.tail = Append(t, id)
  BY <1>2 DEF Commit
<1>4. ASSUME NEW k \in 0..n
      PROVE  SubSeq(w.tail, 1, k) = SubSeq(t, 1, k)
  <2>1. k \in Nat /\ \A i \in 1..k : w.tail[i] = t[i] /\ t[i] \in 1..MaxLandings
    <3>1. k \in Nat /\ \A i \in 1..k : t[i] \in 1..MaxLandings
      BY <1>1, InSeq
    <3> HIDE DEF t, w
    <3> QED
      BY <3>1, <1>1, <1>2, <1>3
  <2>2. /\ SubSeq(w.tail, 1, k) \in Seq(1..MaxLandings) /\ Len(SubSeq(w.tail, 1, k)) = k
        /\ \A i \in 1..k : SubSeq(w.tail, 1, k)[i] = w.tail[i]
    BY <2>1, SubSeqProperties
  <2>3. /\ SubSeq(t, 1, k) \in Seq(1..MaxLandings) /\ Len(SubSeq(t, 1, k)) = k
        /\ \A i \in 1..k : SubSeq(t, 1, k)[i] = t[i]
    BY <2>1, SubSeqProperties
  <2> QED
    BY <2>1, <2>2, <2>3, SeqEqual
<1>5. SubSeq(w.tail, 1, n + 1) = w.tail
  BY <1>2, <1>3, SubSeqFull
<1>6. 0..Len(w.tail) = (0..n) \cup {n + 1}
  BY <1>1, <1>2, <1>3
<1>7. \A k \in 0..n : [w EXCEPT !.tail = SubSeq(w.tail, 1, k)] = [v EXCEPT !.tail = SubSeq(t, 1, k)]
  BY <1>3, <1>4 DEF Commit
<1>8. [w EXCEPT !.tail = SubSeq(w.tail, 1, n + 1)] = w
  BY <1>3, <1>5 DEF Commit
<1>9. Line(w) = Line(v) \cup {w}
  <2>1. Line(v) = {[v EXCEPT !.tail = SubSeq(t, 1, k)] : k \in 0..n}
    BY DEF Line
  <2>2. Line(w) = {[w EXCEPT !.tail = SubSeq(w.tail, 1, k)] : k \in (0..n) \cup {n + 1}}
    BY <1>6 DEF Line
  <2> HIDE DEF w, n, t
  <2> QED
    BY <2>1, <2>2, <1>7, <1>8
<1> QED
  BY <1>3, <1>9

(* The scripts, word by word.                                                *)
Last(kind) == Len(Script(kind))
Place(r) == IF r = "sub" THEN 1 ELSE 2
Words(script, n) == Len(script) = n /\ DOMAIN script = 1..n
LocksFirst(script) ==
    \A i \in DOMAIN script : StepOf(script[i]) = "walk" =>
        /\ \E j \in 1..(i - 1) : StepOf(script[j]) = "lock" /\ RepoOf(script[j]) = RepoOf(script[i])
        /\ RepoOf(script[i]) = "parent" => i = Len(script)

Covers(script, R) == \A r \in R : \E i \in DOMAIN script : StepOf(script[i]) = "walk" /\ RepoOf(script[i]) = r

(* What each word reads or does,                                             *)
LEMMA StepsAre ==
  /\ StepOf("head") = "head" /\ StepOf("head sub") = "head" /\ StepOf("head parent") = "head"
  /\ StepOf("list") = "list" /\ StepOf("list sub") = "list" /\ StepOf("list parent") = "list"
  /\ StepOf("clean") = "clean" /\ StepOf("clean parent") = "clean" /\ StepOf("lock") = "lock"
  /\ StepOf("lock sub") = "lock" /\ StepOf("lock parent") = "lock" /\ StepOf("walk") = "walk"
  /\ StepOf("walk sub") = "walk" /\ StepOf("walk parent") = "walk" /\ StepOf("count") = "count"
  /\ StepOf("same head") = "same head"
BY DEF StepOf

(* of which repository,                                                      *)
LEMMA ReposAre ==
  /\ RepoOf("head") = "sub" /\ RepoOf("head sub") = "sub" /\ RepoOf("head parent") = "parent"
  /\ RepoOf("list") = "sub" /\ RepoOf("list sub") = "sub" /\ RepoOf("list parent") = "parent"
  /\ RepoOf("clean") = "sub" /\ RepoOf("clean parent") = "parent" /\ RepoOf("lock") = "sub"
  /\ RepoOf("lock sub") = "sub" /\ RepoOf("lock parent") = "parent" /\ RepoOf("walk") = "sub"
  /\ RepoOf("walk sub") = "sub" /\ RepoOf("walk parent") = "parent" /\ RepoOf("count") = "sub"
  /\ RepoOf("same head") = "sub"
BY DEF RepoOf

(* and the words of each kind.                                               *)
LEMMA ScriptsAre ==
  /\ Script("file") = FileScript /\ Script("squash") = SquashScript /\ Script("author") = AuthorScript
  /\ Script("recipe") = RecipeScript /\ Script("match") = MatchScript
  /\ Script("file in submodule") = SubmoduleScript
BY DEF Script

(* Each script has its words, takes the lock of what it walks before the     *)
(* walk, and walks every repository of its command: of a file,               *)
LEMMA FileIs ==
  Words(FileScript, 5) /\ LocksFirst(FileScript) /\ Covers(FileScript, {"sub"})
<1>1. /\ Len(FileScript) = 5 /\ DOMAIN FileScript = 1..5
      /\ FileScript[1] = "head" /\ FileScript[2] = "clean" /\ FileScript[3] = "lock"
      /\ FileScript[4] = "list" /\ FileScript[5] = "walk"
  BY DEF FileScript
<1>2. \A i \in 1..5 : i = 1 \/ i = 2 \/ i = 3 \/ i = 4 \/ i = 5
  OBVIOUS
<1>3. /\ StepOf(FileScript[1]) = "head" /\ StepOf(FileScript[2]) = "clean"
      /\ StepOf(FileScript[3]) = "lock" /\ StepOf(FileScript[4]) = "list"
      /\ StepOf(FileScript[5]) = "walk"
  BY <1>1, StepsAre
<1>4. /\ RepoOf(FileScript[1]) = "sub" /\ RepoOf(FileScript[2]) = "sub"
      /\ RepoOf(FileScript[3]) = "sub" /\ RepoOf(FileScript[4]) = "sub"
      /\ RepoOf(FileScript[5]) = "sub"
  BY <1>1, ReposAre
<1>5. \A i \in 1..5 : StepOf(FileScript[i]) = "walk" => i = 5
  BY <1>2, <1>3
<1>6. 5 \in 1..5 /\ 3 \in 1..(5 - 1)
  OBVIOUS
<1>7. LocksFirst(FileScript)
  BY <1>1, <1>3, <1>4, <1>5, <1>6 DEF LocksFirst
<1>12. Covers(FileScript, {"sub"})
  BY <1>1, <1>3, <1>4, <1>6 DEF Covers
<1> QED
  BY <1>1, <1>7, <1>12 DEF Words

(* of a squash,                                                              *)
LEMMA SquashIs ==
  Words(SquashScript, 6) /\ LocksFirst(SquashScript) /\ Covers(SquashScript, {"sub"})
<1>1. /\ Len(SquashScript) = 6 /\ DOMAIN SquashScript = 1..6
      /\ SquashScript[1] = "head" /\ SquashScript[2] = "list" /\ SquashScript[3] = "clean"
      /\ SquashScript[4] = "lock" /\ SquashScript[5] = "same head" /\ SquashScript[6] = "walk"
  BY DEF SquashScript
<1>2. \A i \in 1..6 : i = 1 \/ i = 2 \/ i = 3 \/ i = 4 \/ i = 5 \/ i = 6
  OBVIOUS
<1>3. /\ StepOf(SquashScript[1]) = "head" /\ StepOf(SquashScript[2]) = "list"
      /\ StepOf(SquashScript[3]) = "clean" /\ StepOf(SquashScript[4]) = "lock"
      /\ StepOf(SquashScript[5]) = "same head" /\ StepOf(SquashScript[6]) = "walk"
  BY <1>1, StepsAre
<1>4. /\ RepoOf(SquashScript[1]) = "sub" /\ RepoOf(SquashScript[2]) = "sub"
      /\ RepoOf(SquashScript[3]) = "sub" /\ RepoOf(SquashScript[4]) = "sub"
      /\ RepoOf(SquashScript[5]) = "sub" /\ RepoOf(SquashScript[6]) = "sub"
  BY <1>1, ReposAre
<1>5. \A i \in 1..6 : StepOf(SquashScript[i]) = "walk" => i = 6
  BY <1>2, <1>3
<1>6. 6 \in 1..6 /\ 4 \in 1..(6 - 1)
  OBVIOUS
<1>7. LocksFirst(SquashScript)
  BY <1>1, <1>3, <1>4, <1>5, <1>6 DEF LocksFirst
<1>12. Covers(SquashScript, {"sub"})
  BY <1>1, <1>3, <1>4, <1>6 DEF Covers
<1> QED
  BY <1>1, <1>7, <1>12 DEF Words

(* of an author rewrite, whose count comes after the lock,                   *)
LEMMA AuthorIs ==
  /\ Words(AuthorScript, 6) /\ LocksFirst(AuthorScript) /\ Covers(AuthorScript, {"sub"})
  /\ StepOf(AuthorScript[2]) = "lock" /\ StepOf(AuthorScript[4]) = "count" /\ StepOf(AuthorScript[5]) = "list"
  /\ \A i \in 1..6 : RepoOf(AuthorScript[i]) = "sub"
  /\ \A i \in 1..6 : StepOf(AuthorScript[i]) = "count" => i = 4
  /\ \A i \in 1..6 : StepOf(AuthorScript[i]) = "list" => i = 5
  /\ StepOf(AuthorScript[6]) = "walk"
<1>1. /\ Len(AuthorScript) = 6 /\ DOMAIN AuthorScript = 1..6
      /\ AuthorScript[1] = "clean" /\ AuthorScript[2] = "lock" /\ AuthorScript[3] = "head"
      /\ AuthorScript[4] = "count" /\ AuthorScript[5] = "list" /\ AuthorScript[6] = "walk"
  BY DEF AuthorScript
<1>2. \A i \in 1..6 : i = 1 \/ i = 2 \/ i = 3 \/ i = 4 \/ i = 5 \/ i = 6
  OBVIOUS
<1>3. /\ StepOf(AuthorScript[1]) = "clean" /\ StepOf(AuthorScript[2]) = "lock"
      /\ StepOf(AuthorScript[3]) = "head" /\ StepOf(AuthorScript[4]) = "count"
      /\ StepOf(AuthorScript[5]) = "list" /\ StepOf(AuthorScript[6]) = "walk"
  BY <1>1, StepsAre
<1>4. /\ RepoOf(AuthorScript[1]) = "sub" /\ RepoOf(AuthorScript[2]) = "sub"
      /\ RepoOf(AuthorScript[3]) = "sub" /\ RepoOf(AuthorScript[4]) = "sub"
      /\ RepoOf(AuthorScript[5]) = "sub" /\ RepoOf(AuthorScript[6]) = "sub"
  BY <1>1, ReposAre
<1>5. \A i \in 1..6 : StepOf(AuthorScript[i]) = "walk" => i = 6
  BY <1>2, <1>3
<1>6. 6 \in 1..6 /\ 2 \in 1..(6 - 1)
  OBVIOUS
<1>7. LocksFirst(AuthorScript)
  BY <1>1, <1>3, <1>4, <1>5, <1>6 DEF LocksFirst
<1>12. Covers(AuthorScript, {"sub"})
  BY <1>1, <1>3, <1>4, <1>6 DEF Covers
<1>8. \A i \in 1..6 : RepoOf(AuthorScript[i]) = "sub"
  BY <1>2, <1>4
<1>9. \A i \in 1..6 : StepOf(AuthorScript[i]) = "count" => i = 4
  BY <1>2, <1>3
<1>10. \A i \in 1..6 : StepOf(AuthorScript[i]) = "list" => i = 5
  BY <1>2, <1>3
<1>11. Words(AuthorScript, 6)
  BY <1>1 DEF Words
<1> QED
  BY <1>3, <1>7, <1>12, <1>8, <1>9, <1>10, <1>11

(* of a recipe,                                                              *)
LEMMA RecipeIs ==
  Words(RecipeScript, 5) /\ LocksFirst(RecipeScript) /\ Covers(RecipeScript, {"sub"})
<1>1. /\ Len(RecipeScript) = 5 /\ DOMAIN RecipeScript = 1..5
      /\ RecipeScript[1] = "clean" /\ RecipeScript[2] = "lock" /\ RecipeScript[3] = "head"
      /\ RecipeScript[4] = "list" /\ RecipeScript[5] = "walk"
  BY DEF RecipeScript
<1>2. \A i \in 1..5 : i = 1 \/ i = 2 \/ i = 3 \/ i = 4 \/ i = 5
  OBVIOUS
<1>3. /\ StepOf(RecipeScript[1]) = "clean" /\ StepOf(RecipeScript[2]) = "lock"
      /\ StepOf(RecipeScript[3]) = "head" /\ StepOf(RecipeScript[4]) = "list"
      /\ StepOf(RecipeScript[5]) = "walk"
  BY <1>1, StepsAre
<1>4. /\ RepoOf(RecipeScript[1]) = "sub" /\ RepoOf(RecipeScript[2]) = "sub"
      /\ RepoOf(RecipeScript[3]) = "sub" /\ RepoOf(RecipeScript[4]) = "sub"
      /\ RepoOf(RecipeScript[5]) = "sub"
  BY <1>1, ReposAre
<1>5. \A i \in 1..5 : StepOf(RecipeScript[i]) = "walk" => i = 5
  BY <1>2, <1>3
<1>6. 5 \in 1..5 /\ 2 \in 1..(5 - 1)
  OBVIOUS
<1>7. LocksFirst(RecipeScript)
  BY <1>1, <1>3, <1>4, <1>5, <1>6 DEF LocksFirst
<1>12. Covers(RecipeScript, {"sub"})
  BY <1>1, <1>3, <1>4, <1>6 DEF Covers
<1> QED
  BY <1>1, <1>7, <1>12 DEF Words

(* of a file in a submodule,                                                 *)
LEMMA SubmoduleIs ==
  Words(SubmoduleScript, 9) /\ LocksFirst(SubmoduleScript) /\ Covers(SubmoduleScript, Repos)
<1>1. /\ Len(SubmoduleScript) = 9 /\ DOMAIN SubmoduleScript = 1..9
      /\ SubmoduleScript[1] = "lock parent" /\ SubmoduleScript[2] = "list sub" /\ SubmoduleScript[3] = "clean parent"
      /\ SubmoduleScript[4] = "lock sub" /\ SubmoduleScript[5] = "head sub" /\ SubmoduleScript[6] = "walk sub"
      /\ SubmoduleScript[7] = "head parent" /\ SubmoduleScript[8] = "list parent" /\ SubmoduleScript[9] = "walk parent"
  BY DEF SubmoduleScript
<1>2. \A i \in 1..9 : i = 1 \/ i = 2 \/ i = 3 \/ i = 4 \/ i = 5 \/ i = 6 \/ i = 7 \/ i = 8 \/ i = 9
  OBVIOUS
<1>3. /\ StepOf(SubmoduleScript[1]) = "lock" /\ StepOf(SubmoduleScript[2]) = "list"
      /\ StepOf(SubmoduleScript[3]) = "clean" /\ StepOf(SubmoduleScript[4]) = "lock"
      /\ StepOf(SubmoduleScript[5]) = "head" /\ StepOf(SubmoduleScript[6]) = "walk"
      /\ StepOf(SubmoduleScript[7]) = "head" /\ StepOf(SubmoduleScript[8]) = "list"
      /\ StepOf(SubmoduleScript[9]) = "walk"
  BY <1>1, StepsAre
<1>4. /\ RepoOf(SubmoduleScript[1]) = "parent" /\ RepoOf(SubmoduleScript[2]) = "sub"
      /\ RepoOf(SubmoduleScript[3]) = "parent" /\ RepoOf(SubmoduleScript[4]) = "sub"
      /\ RepoOf(SubmoduleScript[5]) = "sub" /\ RepoOf(SubmoduleScript[6]) = "sub"
      /\ RepoOf(SubmoduleScript[7]) = "parent" /\ RepoOf(SubmoduleScript[8]) = "parent"
      /\ RepoOf(SubmoduleScript[9]) = "parent"
  BY <1>1, ReposAre
<1>5. \A i \in 1..9 : StepOf(SubmoduleScript[i]) = "walk" => i = 6 \/ i = 9
  BY <1>2, <1>3
<1>6. 6 \in 1..9 /\ 9 \in 1..9 /\ 4 \in 1..(6 - 1) /\ 1 \in 1..(9 - 1)
  OBVIOUS
<1>7. LocksFirst(SubmoduleScript)
  BY <1>1, <1>3, <1>4, <1>5, <1>6 DEF LocksFirst
<1>12. Covers(SubmoduleScript, Repos)
  BY <1>1, <1>3, <1>4, <1>6 DEF Covers, Repos
<1> QED
  BY <1>1, <1>7, <1>12 DEF Words

(* and of a match.                                                           *)
LEMMA MatchIs ==
  Words(MatchScript, 9) /\ LocksFirst(MatchScript) /\ Covers(MatchScript, Repos)
<1>1. /\ Len(MatchScript) = 9 /\ DOMAIN MatchScript = 1..9
      /\ MatchScript[1] = "clean parent" /\ MatchScript[2] = "lock parent" /\ MatchScript[3] = "lock sub"
      /\ MatchScript[4] = "list sub" /\ MatchScript[5] = "walk sub" /\ MatchScript[6] = "head sub"
      /\ MatchScript[7] = "head parent" /\ MatchScript[8] = "list parent" /\ MatchScript[9] = "walk parent"
  BY DEF MatchScript
<1>2. \A i \in 1..9 : i = 1 \/ i = 2 \/ i = 3 \/ i = 4 \/ i = 5 \/ i = 6 \/ i = 7 \/ i = 8 \/ i = 9
  OBVIOUS
<1>3. /\ StepOf(MatchScript[1]) = "clean" /\ StepOf(MatchScript[2]) = "lock"
      /\ StepOf(MatchScript[3]) = "lock" /\ StepOf(MatchScript[4]) = "list"
      /\ StepOf(MatchScript[5]) = "walk" /\ StepOf(MatchScript[6]) = "head"
      /\ StepOf(MatchScript[7]) = "head" /\ StepOf(MatchScript[8]) = "list"
      /\ StepOf(MatchScript[9]) = "walk"
  BY <1>1, StepsAre
<1>4. /\ RepoOf(MatchScript[1]) = "parent" /\ RepoOf(MatchScript[2]) = "parent"
      /\ RepoOf(MatchScript[3]) = "sub" /\ RepoOf(MatchScript[4]) = "sub"
      /\ RepoOf(MatchScript[5]) = "sub" /\ RepoOf(MatchScript[6]) = "sub"
      /\ RepoOf(MatchScript[7]) = "parent" /\ RepoOf(MatchScript[8]) = "parent"
      /\ RepoOf(MatchScript[9]) = "parent"
  BY <1>1, ReposAre
<1>5. \A i \in 1..9 : StepOf(MatchScript[i]) = "walk" => i = 5 \/ i = 9
  BY <1>2, <1>3
<1>6. 5 \in 1..9 /\ 9 \in 1..9 /\ 3 \in 1..(5 - 1) /\ 2 \in 1..(9 - 1)
  OBVIOUS
<1>7. LocksFirst(MatchScript)
  BY <1>1, <1>3, <1>4, <1>5, <1>6 DEF LocksFirst
<1>12. Covers(MatchScript, Repos)
  BY <1>1, <1>3, <1>4, <1>6 DEF Covers, Repos
<1> QED
  BY <1>1, <1>7, <1>12 DEF Words

(* The kinds by name,                                                        *)
LEMMA KindIs ==
  ASSUME NEW kind \in Kinds
  PROVE  /\ kind = "file" \/ kind = "squash" \/ kind = "recipe" \/ kind = "author"
            \/ kind = "match" \/ kind = "file in submodule"
         /\ kind \in Spanning <=> kind = "match" \/ kind = "file in submodule"
BY DEF Kinds, Spanning

(* and the repositories they publish.                                        *)
LEMMA OrderIs ==
  ASSUME NEW kind
  PROVE  /\ DOMAIN Order(kind) = 1..Len(Order(kind)) /\ Order(kind)[1] = "sub"
         /\ \/ kind \in Spanning /\ Len(Order(kind)) = 2 /\ Order(kind)[2] = "parent"
            \/ kind \notin Spanning /\ Len(Order(kind)) = 1
         /\ \A r \in Repos : Place(r) <= Len(Order(kind)) => r = "sub" \/ kind \in Spanning
<1>1. CASE kind \in Spanning
  <2>1. Order(kind) = <<"sub", "parent">>
    BY <1>1 DEF Order
  <2>2. /\ Len(Order(kind)) = 2 /\ DOMAIN Order(kind) = 1..2
        /\ Order(kind)[1] = "sub" /\ Order(kind)[2] = "parent"
    BY <2>1
  <2>3. DOMAIN Order(kind) = 1..Len(Order(kind))
    BY <2>2
  <2>4. \A r \in Repos : Place(r) <= Len(Order(kind)) => r = "sub" \/ kind \in Spanning
    BY <1>1
  <2> QED
    BY <2>2, <2>3, <2>4, <1>1
<1>2. CASE kind \notin Spanning
  <2>1. Order(kind) = <<"sub">>
    BY <1>2 DEF Order
  <2>2. Len(Order(kind)) = 1 /\ DOMAIN Order(kind) = 1..1 /\ Order(kind)[1] = "sub"
    BY <2>1
  <2>3. \A r \in Repos : Place(r) <= 1 => r = "sub"
    BY DEF Place
  <2> QED
    BY <2>2, <2>3, <1>2
<1> QED
  BY <1>1, <1>2

(* The last word is a walk; all locks of the run come before it.             *)
LEMMA ScriptOK ==
  ASSUME NEW kind \in Kinds
  PROVE  /\ Last(kind) \in {5, 6, 9} /\ DOMAIN Script(kind) = 1..Last(kind) /\ LocksFirst(Script(kind))
         /\ \A r \in Repos : Place(r) <= Len(Order(kind)) =>
               \E j \in 1..(Last(kind) - 1) : StepOf(Script(kind)[j]) = "lock" /\ RepoOf(Script(kind)[j]) = r
<1>1. /\ Last(kind) \in {5, 6, 9} /\ DOMAIN Script(kind) = 1..Last(kind) /\ LocksFirst(Script(kind))
      /\ Covers(Script(kind), {"sub"}) /\ (kind \in Spanning => Covers(Script(kind), Repos))
  <2>1. CASE kind = "file"
    BY <2>1, ScriptsAre, KindIs, FileIs DEF Words, Last
  <2>2. CASE kind = "squash"
    BY <2>2, ScriptsAre, KindIs, SquashIs DEF Words, Last
  <2>3. CASE kind = "recipe"
    BY <2>3, ScriptsAre, KindIs, RecipeIs DEF Words, Last
  <2>4. CASE kind = "author"
    BY <2>4, ScriptsAre, KindIs, AuthorIs DEF Words, Last
  <2>5. CASE kind = "match"
    BY <2>5, ScriptsAre, KindIs, MatchIs DEF Words, Last, Covers, Repos
  <2>6. CASE kind = "file in submodule"
    BY <2>6, ScriptsAre, KindIs, SubmoduleIs DEF Words, Last, Covers, Repos
  <2> QED
    BY KindIs, <2>1, <2>2, <2>3, <2>4, <2>5, <2>6
<1>3. ASSUME NEW r \in Repos, Place(r) <= Len(Order(kind))
      PROVE  \E j \in 1..(Last(kind) - 1) : StepOf(Script(kind)[j]) = "lock" /\ RepoOf(Script(kind)[j]) = r
  <2>1. PICK i \in 1..Last(kind) : StepOf(Script(kind)[i]) = "walk" /\ RepoOf(Script(kind)[i]) = r
    <3>1. r = "sub" \/ kind \in Spanning
      BY <1>3, OrderIs
    <3> QED
      BY <1>1, <3>1 DEF Covers, Repos
  <2>2. PICK j \in 1..(i - 1) : StepOf(Script(kind)[j]) = "lock" /\ RepoOf(Script(kind)[j]) = r
    BY <1>1, <2>1 DEF LocksFirst
  <2>3. j \in 1..(Last(kind) - 1)
    BY <1>1, <2>1, <2>2
  <2> QED
    BY <2>2, <2>3
<1> QED
  BY <1>1, <1>3

---------------------------------------------------------------------------
(* The second invariant, of what the references reach.  What a run has read  *)
(* and walked holds its ancestors; the parent is walked last.                *)
Closed(S) == \A v \in S : v \in Commit /\ Line(v) \subseteq S
Walked(c) ==
    /\ DOMAIN run[c].list = Repos /\ DOMAIN run[c].map = Repos
    /\ run[c].pc = "script" => run[c].at \in 1..Last(run[c].kind) /\ run[c].map["parent"] = {}
    /\ \A r \in Repos : Closed(run[c].list[r]) /\ Closed(run[c].map[r])

(* A run holds the locks it has passed in its script, and after it those of  *)
(* all its repositories, so of what it has walked.                           *)
LockAt(c, j) == LET word == Script(run[c].kind)[j] IN StepOf(word) = "lock" => lock[RepoOf(word)] = c
Held(c) ==
    /\ run[c].pc = "script" => \A j \in 1..(run[c].at - 1) : LockAt(c, j)
    /\ run[c].pc \notin {"script", "end"} =>
          \A r \in Repos : Place(r) <= Len(Order(run[c].kind)) => lock[r] = c
    /\ run[c].pc # "end" => \A r \in Repos : run[c].map[r] # {} => lock[r] = c

(* What it has made of what it walked is in the store until the references   *)
(* have moved there.                                                         *)
Awaits(c, r) == \/ run[c].pc \in {"script", "prepare"}
                \/ run[c].pc \in {"start", "move"} /\ run[c].at <= Place(r)
                \/ run[c].pc \in Later /\ run[c].at < Place(r)
Written(c) == \A r \in Repos : Awaits(c, r) => \A v \in run[c].map[r] : New(c, r, v) \in objects[r]

(* A move replaces a commit that was walked by its new form.                 *)
Replaces(c) == run[c].pc # "end" => \A r \in Repos : \A i \in DOMAIN run[c].plan[r] :
    LET m == run[c].plan[r][i] IN m.old \in run[c].map[r] /\ m.new = New(c, r, m.old)

(* Nothing is replaced by a run still in its script.                         *)
Fresh(c) == run[c].pc = "script" => \A f \in RefSet : c \notin refs["sub"][f].by

(* What author rewrite counted is reached still, in its new form or the old. *)
Stripped(c, v) == [v EXCEPT !.by = @ \ {c}]
Seen(c) == {Stripped(c, v) : v \in Reach("sub")}
Tally(c, S) ==
    /\ IsFiniteSet(S) /\ Cardinality(S) = run[c].count
    /\ run[c].pc = "script" /\ run[c].at > 5 => S \subseteq run[c].list["sub"]
    /\ run[c].pc # "script" => S \subseteq run[c].map["sub"]
Counting(c) == run[c].kind = "author" /\ run[c].pc # "end" /\ (run[c].pc = "script" => run[c].at > 4)
Counted(c) == Counting(c) => \E S \in SUBSET Seen(c) : Tally(c, S)

(* A run whose checks have passed has replaced what the references are at.   *)
Vouched == {"author", "recipe"} \cup Spanning
Sure(c) == /\ run[c].kind \in Vouched
           /\ \/ run[c].pc = "complete" /\ run[c].at = Len(Order(run[c].kind)) /\ ~run[c].incomplete
              \/ run[c].exit = "ok"
Passed(c) == Sure(c) => \A f \in RefSet : c \in refs["sub"][f].by

Stored == \A r \in Repos : /\ objects[r] \subseteq Commit
                           /\ \A f \in RefSet : Line(refs[r][f]) \subseteq objects[r]
Locks  == lock \in [Repos -> Cmds \cup {None}] /\ DOMAIN objects = Repos

KeptInv(c) == Walked(c) /\ Held(c) /\ Written(c) /\ Replaces(c) /\ Fresh(c) /\ Counted(c) /\ Passed(c)
OInv == RInv /\ Stored /\ Locks /\ \A c \in Cmds : KeptInv(c)

(* What a run is made of that the invariant speaks of.                       *)
SameRun(c) ==
    /\ run'[c].kind = run[c].kind /\ run'[c].pc = run[c].pc /\ run'[c].at = run[c].at /\ run'[c].list = run[c].list
    /\ run'[c].map = run[c].map /\ run'[c].count = run[c].count /\ run'[c].plan = run[c].plan
    /\ run'[c].incomplete = run[c].incomplete /\ run'[c].exit = run[c].exit

(* A run that does not move keeps its invariant when nobody else touches     *)
(* what it has locked.                                                       *)
LEMMA Unharmed ==
  ASSUME NEW c \in Cmds, KeptInv(c), SameRun(c),
         \A r \in Repos : lock[r] = c => lock'[r] = c /\ objects[r] \subseteq objects'[r],
         lock["sub"] = c => Seen(c) \subseteq Seen(c)',
         \A f \in RefSet : c \in refs'["sub"][f].by <=> c \in refs["sub"][f].by,
         run[c].kind \in Kinds
  PROVE  KeptInv(c)'
<1>1. \A r, v : New(c, r, v)' = New(c, r, v)
  BY SameNew DEF SameRun
<1>2. Walked(c)'
  BY DEF KeptInv, Walked, Closed, SameRun
<1>3. Held(c)'
  <2>1. \A j \in 1..(run[c].at - 1) : LockAt(c, j) => LockAt(c, j)'
    BY DEF LockAt, RepoOf, Repos, SameRun
  <2> QED
    BY <2>1 DEF KeptInv, Held, SameRun
<1>4. Written(c)'
  <2>1. \A r : Awaits(c, r)' <=> Awaits(c, r)
    BY DEF Awaits, SameRun
  <2> SUFFICES ASSUME NEW r \in Repos, Awaits(c, r), NEW v \in run[c].map[r]
               PROVE  New(c, r, v) \in objects'[r]
    BY <1>1, <2>1 DEF Written, SameRun
  <2>2. lock[r] = c
    BY DEF KeptInv, Held, Awaits, Later
  <2>3. New(c, r, v) \in objects[r]
    BY DEF KeptInv, Written
  <2> QED
    BY <2>2, <2>3
<1>5. Replaces(c)'
  BY <1>1 DEF KeptInv, Replaces, SameRun
<1>6. Fresh(c)' /\ Passed(c)'
  BY DEF KeptInv, Fresh, Passed, Sure, SameRun
<1>7. Counted(c)'
  <2> SUFFICES ASSUME Counting(c)
               PROVE  \E S \in SUBSET Seen(c)' : Tally(c, S)'
    BY DEF Counted, Counting, SameRun
  <2>1. PICK S \in SUBSET Seen(c) : Tally(c, S)
    BY DEF KeptInv, Counted
  <2>2. lock["sub"] = c
    <3>1. CASE run[c].pc = "script"
      <4>1. 2 \in 1..(run[c].at - 1)
        BY <3>1 DEF Counting, KeptInv, Walked
      <4>2. LockAt(c, 2)
        BY <3>1, <4>1 DEF KeptInv, Held
      <4>3. Script(run[c].kind) = AuthorScript
        BY ScriptsAre DEF Counting
      <4>4. 2 \in 1..6 /\ StepOf(AuthorScript[2]) = "lock" /\ RepoOf(AuthorScript[2]) = "sub"
        BY AuthorIs
      <4> QED
        BY <4>2, <4>3, <4>4 DEF LockAt
    <3>2. CASE run[c].pc # "script"
      BY <3>2, OrderIs DEF KeptInv, Held, Counting, Place, Repos
    <3> QED
      BY <3>1, <3>2
  <2>3. Tally(c, S)'
    BY <2>1 DEF Tally, SameRun
  <2> QED
    BY <2>1, <2>2, <2>3
<1> QED
  BY <1>2, <1>3, <1>4, <1>5, <1>6, <1>7 DEF KeptInv

(* What a step of a run does to the others: it takes none of their locks,    *)
(* touches only what it has locked and puts nothing but its mark.            *)
Spares(c) ==
    /\ \A d \in Cmds \ {c} : /\ run'[d] = run[d]
                             /\ \A r \in Repos : lock[r] = d => lock'[r] = d
                             /\ \A f \in RefSet : d \in refs'["sub"][f].by <=> d \in refs["sub"][f].by
    /\ \A r \in Repos : lock[r] # c => objects[r] \subseteq objects'[r] /\ refs'[r] = refs[r]

(* So the others keep their invariant.                                       *)
LEMMA OthersKeep ==
  ASSUME OInv, NEW c \in Cmds, Spares(c), NEW d \in Cmds \ {c}
  PROVE  KeptInv(d)'
<1>1. KeptInv(d) /\ run[d].kind \in Kinds
  BY DEF OInv, RInv, RunInv, Shape
<1>2. SameRun(d)
  BY DEF Spares, SameRun
<1>3. \A r \in Repos : lock[r] = d => lock'[r] = d /\ objects[r] \subseteq objects'[r]
  BY DEF Spares
<1>4. ASSUME lock["sub"] = d
      PROVE  Seen(d) \subseteq Seen(d)'
  <2>1. refs'["sub"] = refs["sub"]
    BY <1>4 DEF Spares, Repos
  <2> QED
    BY <2>1 DEF Seen, Reach, Stripped
<1>5. \A f \in RefSet : d \in refs'["sub"][f].by <=> d \in refs["sub"][f].by
  BY DEF Spares
<1> QED
  BY <1>1, <1>2, <1>3, <1>4, <1>5, Unharmed

(* A run past its script that goes on without reading anything new.          *)
LEMMA GoingOn ==
  ASSUME NEW c \in Cmds, KeptInv(c), run[c].kind \in Kinds,
         run[c].pc \notin {"script", "end"}, run'[c].pc \notin {"script", "end"},
         run'[c].kind = run[c].kind, run'[c].list = run[c].list, run'[c].map = run[c].map,
         run'[c].count = run[c].count, lock' = lock, Replaces(c)', Passed(c)',
         \A r \in Repos : Awaits(c, r)' => Awaits(c, r) /\ objects[r] \subseteq objects'[r],
         Seen(c) \subseteq Seen(c)'
  PROVE  KeptInv(c)'
<1>1. \A r, v : New(c, r, v)' = New(c, r, v)
  BY SameNew
<1>2. Walked(c)' /\ Held(c)' /\ Fresh(c)'
  BY DEF KeptInv, Walked, Closed, Held, Fresh
<1>3. Written(c)'
  BY <1>1 DEF KeptInv, Written
<1>4. Counted(c)'
  <2> SUFFICES ASSUME Counting(c)'
               PROVE  \E S \in SUBSET Seen(c)' : Tally(c, S)'
    BY DEF Counted
  <2>1. PICK S \in SUBSET Seen(c) : Tally(c, S)
    BY DEF KeptInv, Counted, Counting
  <2>2. Tally(c, S)'
    BY <2>1 DEF Tally
  <2> QED
    BY <2>1, <2>2
<1> QED
  BY <1>2, <1>3, <1>4 DEF KeptInv

(* An end keeps what an ended run was sure of, and releases its locks.       *)
LEMMA EndKept ==
  ASSUME NEW c \in Cmds, run[c].kind \in Kinds, NEW code, run'[c] = Ended(c, code),
         code = "ok" => Passed(c)'
  PROVE  KeptInv(c)'
<1>1. /\ run'[c].pc = "end" /\ run'[c].exit = code /\ run'[c].kind = run[c].kind
      /\ run'[c].list = [r \in Repos |-> {}] /\ run'[c].map = [r \in Repos |-> {}]
  BY DEF Ended, Idle
<1>2. Walked(c)'
  BY <1>1 DEF Walked, Closed
<1>3. Held(c)' /\ Fresh(c)' /\ Replaces(c)' /\ Counted(c)' /\ Written(c)'
  BY <1>1 DEF Held, Fresh, Replaces, Counted, Counting, Written, Awaits, Later
<1>4. Passed(c)'
  BY <1>1 DEF Passed, Sure
<1> QED
  BY <1>2, <1>3, <1>4 DEF KeptInv

(* So does every end that is not after the checks.                           *)
LEMMA ExitKept ==
  ASSUME OInv, NEW c \in Cmds, NEW code, code # "ok", Exit(c, code)
  PROVE  Stored' /\ Locks' /\ KeptInv(c)' /\ Spares(c)
<1>1. /\ run' = [run EXCEPT ![c] = Ended(c, code)] /\ lock' = Unlocked(c)
      /\ UNCHANGED <<refs, objects>>
  BY DEF Exit
<1>2. DOMAIN run = Cmds /\ run[c].kind \in Kinds
  BY DEF OInv, RInv, Ranges, RunInv, Shape
<1>3. Stored' /\ Locks'
  BY <1>1 DEF OInv, Stored, Locks, Unlocked
<1>4. KeptInv(c)'
  <2>1. run'[c] = Ended(c, code)
    BY <1>1, <1>2
  <2> QED
    BY <2>1, <1>2, EndKept
<1>5. Spares(c)
  BY <1>1, <1>2 DEF Spares, Unlocked
<1> QED
  BY <1>3, <1>4, <1>5

(* What the references reach: finitely many commits, with their ancestors.   *)
LEMMA ReachOK ==
  ASSUME Ranges, NEW r \in Repos
  PROVE  /\ IsFiniteSet(Reach(r)) /\ Closed(Reach(r))
         /\ \A f \in RefSet : refs[r][f] \in Reach(r) /\ Line(refs[r][f]) \subseteq Reach(r)
<1>1. DOMAIN refs[r] = RefSet /\ \A f \in RefSet : refs[r][f] \in Commit
  BY DEF Ranges
<1>2. IsFiniteSet(RefSet)
  <2> DEFINE F == [i \in DOMAIN Refs |-> Refs[i]]
  <2>1. F \in Surjection(DOMAIN Refs, RefSet)
    BY DEF Surjection, RefSet
  <2> HIDE DEF F
  <2> QED
    BY <2>1, FS_Surjection, RewriteConstants
<1>3. IsFiniteSet(Reach(r))
  <2> DEFINE F == [f \in RefSet |-> Line(refs[r][f])]
             T == {Line(refs[r][f]) : f \in RefSet}
  <2>1. F \in Surjection(RefSet, T)
    BY DEF Surjection
  <2>2. \A L \in T : IsFiniteSet(L)
    BY <1>1, LineHas
  <2>3. Reach(r) = UNION T
    BY <1>1 DEF Reach
  <2> HIDE DEF F, T
  <2> QED
    BY <1>2, <2>1, <2>2, <2>3, FS_Surjection, FS_UNION
<1>4. \A f \in RefSet : refs[r][f] \in Reach(r) /\ Line(refs[r][f]) \subseteq Reach(r)
  BY <1>1, LineHas DEF Reach
<1>5. Closed(Reach(r))
  <2> SUFFICES ASSUME NEW f \in RefSet, NEW v \in Line(refs[r][f])
               PROVE  v \in Commit /\ Line(v) \subseteq Reach(r)
    BY <1>1 DEF Closed, Reach
  <2> QED
    BY <1>1, <1>4, LineHas, LineTrans
<1> QED
  BY <1>3, <1>4, <1>5

(* So what is not replaced in the references is not in what they reach.      *)
LEMMA FreshSeen ==
  ASSUME Ranges, NEW c \in Cmds, \A f \in RefSet : c \notin refs["sub"][f].by
  PROVE  Seen(c) = Reach("sub")
<1>1. ASSUME NEW v \in Reach("sub")
      PROVE  Stripped(c, v) = v
  <2>1. PICK f \in RefSet : v \in Line(refs["sub"][f])
    BY DEF Reach, Ranges, Repos
  <2>2. refs["sub"][f] \in Commit
    BY DEF Ranges, Repos
  <2>3. v \in Commit /\ c \notin v.by
    BY <2>1, <2>2, LineBy, LineHas
  <2>4. v.by \ {c} = v.by
    BY <2>3
  <2> QED
    BY <2>3, <2>4 DEF Stripped, Commit
<1> QED
  BY <1>1 DEF Seen

(* The next word of a script: what it reads and takes is the run's own.      *)
LEMMA OnwardKept ==
  ASSUME OInv, NEW c \in Cmds, run[c].pc = "script", NEW k, Onward(c, k), DOMAIN k = Fields,
         k.kind = run[c].kind, k.pc = "script", k.at = run[c].at, k.plan = run[c].plan, k.exit = run[c].exit,
         DOMAIN k.list = Repos, DOMAIN k.map = Repos,
         \A r \in Repos : Closed(k.list[r]) /\ Closed(k.map[r]),
         k.map["parent"] = {} \/ run[c].at = Last(run[c].kind),
         \A r \in Repos : lock[r] = c => lock'[r] = c,
         StepOf(Word(c)) = "lock" => lock'[RepoOf(Word(c))] = c,
         \A r \in Repos : k.map[r] # {} => lock'[r] = c,
         \A r \in Repos : \A v \in k.map[r] : New(c, r, v)' \in objects'[r],
         refs' = refs, Counted(c)'
  PROVE  KeptInv(c)'
<1>1. /\ KeptInv(c) /\ DOMAIN run = Cmds /\ run[c].kind \in Kinds /\ run[c].exit = None
      /\ \A r \in Repos : DOMAIN run[c].plan[r] = {}
  BY DEF OInv, RInv, Ranges, RunInv, Shape, Planned
<1>2. /\ Last(run[c].kind) \in {5, 6, 9} /\ DOMAIN Script(run[c].kind) = 1..Last(run[c].kind)
      /\ run[c].at \in 1..Last(run[c].kind)
  BY <1>1, ScriptOK DEF KeptInv, Walked
<1>3. /\ run'[c].kind = run[c].kind /\ run'[c].plan = run[c].plan /\ run'[c].exit = None
      /\ run'[c].list = k.list /\ run'[c].map = k.map
      /\ \/ run'[c].pc = "script" /\ run'[c].at = run[c].at + 1 /\ run[c].at < Last(run[c].kind)
         \/ run'[c].pc = "prepare" /\ run'[c].at = 1 /\ run[c].at = Last(run[c].kind)
  BY <1>1, <1>2 DEF Onward, Fields, Last
<1>4. Walked(c)'
  BY <1>2, <1>3 DEF Walked, Closed
<1>5. \A j \in 1..(run[c].at - 1) : LockAt(c, j)
  BY <1>1 DEF KeptInv, Held
<1>6. Held(c)'
  <2>1. CASE run'[c].pc = "script"
    <3> SUFFICES ASSUME NEW j \in 1..run[c].at
                 PROVE  StepOf(Script(run[c].kind)[j]) = "lock" => lock'[RepoOf(Script(run[c].kind)[j])] = c
      BY <1>2, <1>3, <2>1 DEF Held, LockAt
    <3>1. CASE j = run[c].at
      BY <3>1 DEF Word
    <3>2. CASE j # run[c].at
      <4>1. j \in 1..(run[c].at - 1)
        BY <1>2, <3>2
      <4> QED
        BY <1>5, <4>1 DEF LockAt, RepoOf, Repos
    <3> QED
      BY <3>1, <3>2
  <2>2. CASE run'[c].pc = "prepare"
    <3> SUFFICES ASSUME NEW r \in Repos, Place(r) <= Len(Order(run[c].kind))
                 PROVE  lock'[r] = c
      BY <1>3, <2>2 DEF Held
    <3>1. PICK j \in 1..(Last(run[c].kind) - 1) :
             StepOf(Script(run[c].kind)[j]) = "lock" /\ RepoOf(Script(run[c].kind)[j]) = r
      BY <1>1, ScriptOK
    <3>2. LockAt(c, j)
      BY <1>3, <1>5, <2>2
    <3> QED
      BY <3>1, <3>2 DEF LockAt
  <2> QED
    BY <1>3, <2>1, <2>2
<1>7. Written(c)'
  BY <1>3 DEF Written
<1>8. Replaces(c)'
  BY <1>1, <1>3 DEF Replaces
<1>9. Fresh(c)' /\ Passed(c)'
  BY <1>1, <1>3 DEF KeptInv, Fresh, Passed, Sure, None
<1> QED
  BY <1>4, <1>6, <1>7, <1>8, <1>9 DEF KeptInv

(* A run in its script, and where an author rewrite is in it.                *)
LEMMA InScript ==
  ASSUME OInv, NEW c \in Cmds, run[c].pc = "script"
  PROVE  /\ DOMAIN run[c] = Fields /\ run[c].kind \in Kinds /\ DOMAIN run = Cmds /\ KeptInv(c)
         /\ run[c].at \in 1..Last(run[c].kind) /\ Last(run[c].kind) \in {5, 6, 9}
         /\ DOMAIN run[c].list = Repos /\ DOMAIN run[c].map = Repos
         /\ Here(c) = RepoOf(Word(c)) /\ Here(c) \in Repos
BY HereOK, ScriptOK DEF OInv, RInv, Ranges, RunInv, Shape, KeptInv, Walked, Here, Word

(* An author rewrite counts before it lists, and walks last.                 *)
LEMMA InAuthor ==
  ASSUME OInv, NEW c \in Cmds, run[c].pc = "script", run[c].kind = "author"
  PROVE  /\ run[c].at \in 1..6 /\ Last(run[c].kind) = 6 /\ Here(c) = "sub"
         /\ StepOf(Word(c)) = "count" <=> run[c].at = 4
         /\ StepOf(Word(c)) = "list" <=> run[c].at = 5
         /\ run[c].at = 6 => StepOf(Word(c)) = "walk"
<1>1. Script(run[c].kind) = AuthorScript
  BY ScriptsAre
<1>2. Last(run[c].kind) = 6
  BY <1>1, AuthorIs DEF Last, Words
<1>3. run[c].at \in 1..6 /\ Here(c) = RepoOf(Word(c)) /\ Word(c) = AuthorScript[run[c].at]
  BY <1>1, <1>2, InScript DEF Word
<1> QED
  BY <1>2, <1>3, AuthorIs

(* Of the words that only compare, or take a lock.                           *)
LEMMA QuietKept ==
  ASSUME OInv, NEW c \in Cmds, run[c].pc = "script", StepOf(Word(c)) \notin {"count", "list", "walk"},
         NEW k, Onward(c, k), DOMAIN k = Fields,
         k.kind = run[c].kind, k.pc = "script", k.at = run[c].at, k.plan = run[c].plan, k.exit = run[c].exit,
         k.list = run[c].list, k.map = run[c].map,
         \A r \in Repos : lock[r] = c => lock'[r] = c,
         StepOf(Word(c)) = "lock" => lock'[RepoOf(Word(c))] = c,
         refs' = refs, objects' = objects
  PROVE  KeptInv(c)'
<1>1. KeptInv(c) /\ DOMAIN run[c].list = Repos /\ DOMAIN run[c].map = Repos /\ DOMAIN run = Cmds
      /\ DOMAIN run[c] = Fields /\ run[c].at \in 1..Last(run[c].kind) /\ Last(run[c].kind) \in {5, 6, 9}
  BY InScript
<1>2. /\ \A r \in Repos : Closed(k.list[r]) /\ Closed(k.map[r])
      /\ k.map["parent"] = {}
  BY <1>1 DEF KeptInv, Walked
<1>3. \A r \in Repos : k.map[r] # {} => lock'[r] = c
  BY <1>1 DEF KeptInv, Held
<1>4. /\ run'[c].map = run[c].map /\ run'[c].kind = run[c].kind
      /\ \/ run'[c].pc = "script" /\ run'[c].at = run[c].at + 1 /\ run[c].at < Last(run[c].kind)
         \/ run'[c].pc = "prepare" /\ run[c].at = Last(run[c].kind)
  BY <1>1 DEF Onward, Fields, Last
<1>5. \A r \in Repos : \A v \in k.map[r] : New(c, r, v)' \in objects'[r]
  <2>1. \A r, v : New(c, r, v)' = New(c, r, v)
    BY <1>4, SameNew
  <2> QED
    BY <1>1, <2>1 DEF KeptInv, Written, Awaits
<1>6. Counted(c)'
  <2>1. run[c].kind = "author" => run[c].at \in {1, 2, 3} /\ Last(run[c].kind) = 6
    BY <1>1, InAuthor
  <2>2. ~Counting(c)'
    BY <1>4, <2>1 DEF Counting
  <2> QED
    BY <2>2 DEF Counted
<1> QED
  BY <1>1, <1>2, <1>3, <1>5, <1>6, OnwardKept

(* Nothing but the run itself is touched by a step of the script that only   *)
(* writes new objects and takes free locks.                                  *)
LEMMA ReadingSpares ==
  ASSUME OInv, NEW c \in Cmds, \A d \in Cmds \ {c} : run'[d] = run[d], refs' = refs,
         \A r \in Repos : objects[r] \subseteq objects'[r] /\ (lock[r] # None => lock'[r] = lock[r])
  PROVE  Spares(c)
<1>1. None \notin Cmds
  BY RewriteConstants
<1> QED
  BY <1>1 DEF Spares

(* So with reading HEAD,                                                     *)
LEMMA ReadHeadKept ==
  ASSUME OInv, NEW c \in Cmds, ReadHead(c)
  PROVE  Stored' /\ Locks' /\ KeptInv(c)' /\ Spares(c)
<1> DEFINE k == [run[c] EXCEPT !.head[Here(c)] = refs[Here(c)][Main]]
<1>1. run[c].pc = "script" /\ StepOf(Word(c)) = "head" /\ Onward(c, k) /\ UNCHANGED <<lock, refs, objects>>
  BY DEF ReadHead, Doing, repository
<1>2. DOMAIN run[c] = Fields /\ DOMAIN run = Cmds
  BY <1>1, InScript
<1>3. /\ DOMAIN k = Fields /\ k.kind = run[c].kind /\ k.pc = "script" /\ k.at = run[c].at /\ k.plan = run[c].plan
      /\ k.exit = run[c].exit /\ k.list = run[c].list /\ k.map = run[c].map
  BY <1>1, <1>2 DEF Fields
<1> HIDE DEF k
<1>4. KeptInv(c)'
  BY <1>1, <1>3, QuietKept
<1>5. Spares(c)
  BY <1>1, <1>2, ReadingSpares DEF Onward
<1> QED
  BY <1>1, <1>4, <1>5 DEF OInv, Stored, Locks

(* Of one that goes on as it is, with or without a lock it has taken.        *)
LEMMA SameKept ==
  ASSUME OInv, NEW c \in Cmds, run[c].pc = "script", StepOf(Word(c)) \notin {"count", "list", "walk"},
         Onward(c, run[c]), refs' = refs, objects' = objects,
         \/ lock' = lock /\ StepOf(Word(c)) # "lock"
         \/ lock[Here(c)] = None /\ lock' = [lock EXCEPT ![Here(c)] = c]
  PROVE  Stored' /\ Locks' /\ KeptInv(c)' /\ Spares(c)
<1>1. DOMAIN run[c] = Fields /\ DOMAIN run = Cmds /\ Here(c) = RepoOf(Word(c)) /\ Here(c) \in Repos
  BY InScript
<1>2. Locks' /\ Stored'
  BY <1>1 DEF OInv, Locks, Stored
<1>3. /\ \A r \in Repos : lock[r] # None => lock'[r] = lock[r]
      /\ StepOf(Word(c)) = "lock" => lock'[RepoOf(Word(c))] = c
  BY <1>1 DEF OInv, Locks
<1>4. Spares(c)
  BY <1>1, <1>3, ReadingSpares DEF Onward
<1>5. \A r \in Repos : lock[r] = c => lock'[r] = c
  BY <1>3, RewriteConstants
<1>6. KeptInv(c)'
  BY <1>1, <1>3, <1>5, QuietKept
<1> QED
  BY <1>2, <1>4, <1>6

(* the checks and the lock,                                                  *)
LEMMA ChecksKept ==
  ASSUME OInv, NEW c \in Cmds, RequireCleanTree(c) \/ AcquireRewriteLock(c) \/ SameHead(c)
  PROVE  Stored' /\ Locks' /\ KeptInv(c)' /\ Spares(c)
<1>1. CASE Exit(c, "error")
  BY <1>1, ExitKept
<1>2. CASE ~Exit(c, "error")
  <2>1. run[c].pc = "script" /\ StepOf(Word(c)) \in {"clean", "lock", "same head"}
    BY DEF RequireCleanTree, AcquireRewriteLock, SameHead, Doing
  <2>2. Onward(c, run[c]) /\ refs' = refs /\ objects' = objects
    BY <1>2 DEF RequireCleanTree, AcquireRewriteLock, SameHead, repository
  <2>3. \/ lock' = lock /\ StepOf(Word(c)) # "lock"
        \/ lock[Here(c)] = None /\ lock' = [lock EXCEPT ![Here(c)] = c]
    BY <1>2 DEF RequireCleanTree, AcquireRewriteLock, SameHead, Doing
  <2>4. StepOf(Word(c)) \notin {"count", "list", "walk"}
    BY <2>1
  <2> QED
    BY <2>1, <2>2, <2>3, <2>4, SameKept
<1> QED
  BY <1>1, <1>2

(* The count is of all that is reached, under the lock,                      *)
LEMMA CountKept ==
  ASSUME OInv, NEW c \in Cmds, Count(c)
  PROVE  Stored' /\ Locks' /\ KeptInv(c)' /\ Spares(c)
<1> DEFINE k == [run[c] EXCEPT !.count = Cardinality(Reach(Here(c)))]
<1>1. run[c].pc = "script" /\ StepOf(Word(c)) = "count" /\ Onward(c, k) /\ UNCHANGED <<lock, refs, objects>>
  BY DEF Count, Doing, repository
<1>2. /\ DOMAIN run[c] = Fields /\ DOMAIN run = Cmds /\ KeptInv(c) /\ run[c].at \in 1..Last(run[c].kind)
      /\ DOMAIN run[c].list = Repos /\ DOMAIN run[c].map = Repos
  BY <1>1, InScript
<1>3. /\ DOMAIN k = Fields /\ k.kind = run[c].kind /\ k.pc = "script" /\ k.at = run[c].at /\ k.plan = run[c].plan
      /\ k.exit = run[c].exit /\ k.list = run[c].list /\ k.map = run[c].map
      /\ k.count = Cardinality(Reach(Here(c)))
  BY <1>1, <1>2 DEF Fields
<1> HIDE DEF k
<1>4. /\ run'[c].kind = run[c].kind /\ run'[c].count = k.count /\ run'[c].map = run[c].map
      /\ \/ run'[c].pc = "script" /\ run'[c].at = run[c].at + 1
         \/ run'[c].pc = "prepare" /\ run[c].at = Last(run[c].kind)
  BY <1>1, <1>2, <1>3 DEF Onward, Fields, Last
<1>5. \A r \in Repos : \A v \in k.map[r] : New(c, r, v)' \in objects'[r]
  <2>1. \A r, v : New(c, r, v)' = New(c, r, v)
    BY <1>4, SameNew
  <2> QED
    BY <1>1, <1>2, <1>3, <2>1 DEF KeptInv, Written, Awaits
<1>6. Counted(c)'
  <2> SUFFICES ASSUME run[c].kind = "author"
               PROVE  \E S \in SUBSET Seen(c)' : Tally(c, S)'
    BY <1>4 DEF Counted, Counting
  <2>1. run[c].at = 4 /\ Last(run[c].kind) = 6 /\ Here(c) = "sub"
    BY <1>1, InAuthor
  <2>2. Seen(c) = Reach("sub")
    BY <1>1, <1>2, FreshSeen DEF KeptInv, Fresh, OInv, RInv
  <2>3. Seen(c)' = Seen(c)
    BY <1>1 DEF Seen, Reach, Stripped
  <2>4. IsFiniteSet(Reach("sub"))
    BY ReachOK DEF OInv, RInv, Repos
  <2>5. Tally(c, Reach("sub"))'
    <3> DEFINE S == Reach("sub")
    <3>1. S' = S
      BY <1>1 DEF Reach
    <3>2. IsFiniteSet(S) /\ Cardinality(S) = run'[c].count /\ run'[c].pc = "script" /\ run'[c].at = 5
      BY <1>3, <1>4, <2>1, <2>4
    <3> HIDE DEF S
    <3> QED
      BY <3>1, <3>2 DEF Tally, S
  <2>6. Reach("sub")' = Reach("sub")
    BY <1>1 DEF Reach
  <2> QED
    BY <2>2, <2>3, <2>5, <2>6
<1>7. /\ \A r \in Repos : Closed(k.list[r]) /\ Closed(k.map[r])
      /\ k.map["parent"] = {} /\ \A r \in Repos : k.map[r] # {} => lock'[r] = c
  BY <1>1, <1>2, <1>3 DEF KeptInv, Walked, Held
<1>8. KeptInv(c)'
  BY <1>1, <1>2, <1>3, <1>5, <1>6, <1>7, OnwardKept
<1>9. Spares(c)
  BY <1>1, <1>2, ReadingSpares DEF Onward
<1> QED
  BY <1>1, <1>8, <1>9 DEF OInv, Stored, Locks

(* and the list has what was counted.                                        *)
LEMMA ListKept ==
  ASSUME OInv, NEW c \in Cmds, List(c)
  PROVE  Stored' /\ Locks' /\ KeptInv(c)' /\ Spares(c)
<1> DEFINE R == Here(c)
           read == IF run[c].kind = "author" THEN Reach(R) ELSE Line(refs[R][Main])
           k == [run[c] EXCEPT !.list[R] = read]
<1>1. run[c].pc = "script" /\ StepOf(Word(c)) = "list" /\ Onward(c, k) /\ UNCHANGED <<lock, refs, objects>>
  BY DEF List, Doing, repository
<1>2. /\ DOMAIN run[c] = Fields /\ DOMAIN run = Cmds /\ KeptInv(c) /\ run[c].at \in 1..Last(run[c].kind)
      /\ DOMAIN run[c].list = Repos /\ DOMAIN run[c].map = Repos /\ R \in Repos
  BY <1>1, InScript
<1>3. /\ DOMAIN k = Fields /\ k.kind = run[c].kind /\ k.pc = "script" /\ k.at = run[c].at /\ k.plan = run[c].plan
      /\ k.exit = run[c].exit /\ k.map = run[c].map /\ k.count = run[c].count
      /\ DOMAIN k.list = Repos /\ k.list[R] = read /\ \A r \in Repos \ {R} : k.list[r] = run[c].list[r]
  BY <1>1, <1>2 DEF Fields
<1>c. Closed(read)
  <2>1. Closed(Reach(R))
    BY <1>2, ReachOK DEF OInv, RInv
  <2>2. Closed(Line(refs[R][Main]))
    <3>1. refs[R][Main] \in Commit
      BY <1>2, RewriteConstants DEF OInv, RInv, Ranges
    <3> QED
      BY <3>1, LineHas, LineTrans DEF Closed
  <2> QED
    BY <2>1, <2>2
<1>r. run[c].kind = "author" => read = Reach(R)
  OBVIOUS
<1> HIDE DEF k, read
<1>4. /\ run'[c].kind = run[c].kind /\ run'[c].count = run[c].count /\ run'[c].map = run[c].map
      /\ run'[c].list = k.list
      /\ \/ run'[c].pc = "script" /\ run'[c].at = run[c].at + 1 /\ run[c].at < Last(run[c].kind)
         \/ run'[c].pc = "prepare" /\ run[c].at = Last(run[c].kind)
  BY <1>1, <1>2, <1>3 DEF Onward, Fields, Last
<1>5. \A r \in Repos : \A v \in k.map[r] : New(c, r, v)' \in objects'[r]
  <2>1. \A r, v : New(c, r, v)' = New(c, r, v)
    BY <1>4, SameNew
  <2> QED
    BY <1>1, <1>2, <1>3, <2>1 DEF KeptInv, Written, Awaits
<1>6. Counted(c)'
  <2> SUFFICES ASSUME run[c].kind = "author"
               PROVE  \E S \in SUBSET Seen(c)' : Tally(c, S)'
    BY <1>4 DEF Counted, Counting
  <2>1. run[c].at = 5 /\ Last(run[c].kind) = 6 /\ R = "sub"
    BY <1>1, InAuthor
  <2>2. Seen(c) = Reach("sub")
    BY <1>1, <1>2, FreshSeen DEF KeptInv, Fresh, OInv, RInv
  <2>3. Seen(c)' = Seen(c)
    BY <1>1 DEF Seen, Reach, Stripped
  <2>4. PICK S \in SUBSET Seen(c) : Tally(c, S)
    BY <1>1, <1>2, <2>1 DEF KeptInv, Counted, Counting
  <2>5. S \subseteq run'[c].list["sub"] /\ run'[c].pc = "script" /\ run'[c].count = run[c].count
    BY <1>3, <1>4, <1>r, <2>1, <2>2
  <2>6. Tally(c, S)'
    BY <2>4, <2>5 DEF Tally
  <2> QED
    BY <2>3, <2>4, <2>6
<1>7. /\ \A r \in Repos : Closed(k.list[r]) /\ Closed(k.map[r])
      /\ k.map["parent"] = {} /\ \A r \in Repos : k.map[r] # {} => lock'[r] = c
  BY <1>1, <1>2, <1>3, <1>c DEF KeptInv, Walked, Held
<1>8. KeptInv(c)'
  BY <1>1, <1>2, <1>3, <1>5, <1>6, <1>7, OnwardKept
<1>9. Spares(c)
  BY <1>1, <1>2, ReadingSpares DEF Onward
<1> QED
  BY <1>1, <1>8, <1>9 DEF OInv, Stored, Locks

(* The walk holds the lock of what it walks, and only then writes.           *)
LEMMA WalkKept ==
  ASSUME OInv, NEW c \in Cmds, Walk(c)
  PROVE  Stored' /\ Locks' /\ KeptInv(c)' /\ Spares(c)
<1> DEFINE R == Here(c)
           listed == run[c].list[R]
           k == [run[c] EXCEPT !.map[R] = listed]
<1>1. CASE Exit(c, "error")
  BY <1>1, ExitKept
<1>2. CASE ~Exit(c, "error")
  <2>1. /\ run[c].pc = "script" /\ StepOf(Word(c)) = "walk" /\ Onward(c, k) /\ UNCHANGED <<lock, refs>>
        /\ objects' = [objects EXCEPT ![R] = @ \cup {New(c, R, v) : v \in listed}]
    BY <1>2 DEF Walk, Doing
  <2>2. /\ DOMAIN run[c] = Fields /\ DOMAIN run = Cmds /\ KeptInv(c) /\ run[c].at \in 1..Last(run[c].kind)
        /\ DOMAIN run[c].list = Repos /\ DOMAIN run[c].map = Repos /\ R \in Repos /\ run[c].kind \in Kinds
        /\ Last(run[c].kind) \in {5, 6, 9} /\ R = RepoOf(Word(c))
    BY <2>1, InScript
  <2>3. /\ DOMAIN k = Fields /\ k.kind = run[c].kind /\ k.pc = "script" /\ k.at = run[c].at /\ k.plan = run[c].plan
        /\ k.exit = run[c].exit /\ k.list = run[c].list /\ k.count = run[c].count
        /\ DOMAIN k.map = Repos /\ k.map[R] = listed /\ \A r \in Repos \ {R} : k.map[r] = run[c].map[r]
    BY <2>1, <2>2 DEF Fields
  <2>c. Closed(listed)
    BY <2>2 DEF KeptInv, Walked
  <2> HIDE DEF k, listed
  <2>4. /\ run'[c].kind = run[c].kind /\ run'[c].count = run[c].count /\ run'[c].map = k.map
        /\ run'[c].list = k.list
        /\ \/ run'[c].pc = "script" /\ run'[c].at = run[c].at + 1 /\ run[c].at < Last(run[c].kind)
           \/ run'[c].pc = "prepare" /\ run[c].at = Last(run[c].kind)
    BY <2>1, <2>2, <2>3 DEF Onward, Fields, Last
  <2>5. lock[R] = c /\ (R = "parent" => run[c].at = Last(run[c].kind))
    <3>1. LocksFirst(Script(run[c].kind)) /\ run[c].at \in DOMAIN Script(run[c].kind)
      BY <2>2, ScriptOK
    <3>2. /\ \E j \in 1..(run[c].at - 1) : /\ StepOf(Script(run[c].kind)[j]) = "lock"
                                           /\ RepoOf(Script(run[c].kind)[j]) = R
          /\ R = "parent" => run[c].at = Last(run[c].kind)
      BY <2>1, <2>2, <3>1 DEF LocksFirst, Word, Last
    <3> QED
      BY <2>1, <2>2, <3>2 DEF KeptInv, Held, LockAt
  <2>6. ASSUME NEW r \in Repos, NEW v \in k.map[r]
        PROVE  New(c, r, v)' \in objects'[r]
    <3>1. CASE r = R
      <4>1. New(c, r, v)' = New(c, r, v)
        BY <2>2, <2>3, <2>4, <3>1 DEF New, Repos
      <4>2. objects'[r] = objects[r] \cup {New(c, r, u) : u \in listed}
        BY <2>1, <2>2, <3>1 DEF OInv, Locks
      <4> QED
        BY <2>3, <2>6, <3>1, <4>1, <4>2
    <3>2. CASE r # R
      <4>1. r = "sub"
        BY <2>1, <2>2, <2>3, <2>6, <3>2 DEF KeptInv, Walked, Repos
      <4>2. New(c, r, v)' = New(c, r, v)
        BY <4>1 DEF New
      <4>3. New(c, r, v) \in objects[r]
        BY <2>1, <2>2, <2>3, <2>6, <3>2 DEF KeptInv, Written, Awaits
      <4> QED
        BY <2>1, <2>2, <3>2, <4>2, <4>3 DEF OInv, Locks
    <3> QED
      BY <3>1, <3>2
  <2>7. Counted(c)'
    <3> SUFFICES ASSUME run[c].kind = "author", Counting(c)'
                 PROVE  \E S \in SUBSET Seen(c)' : Tally(c, S)'
      BY <2>4 DEF Counted, Counting
    <3>1. /\ run[c].at \in 1..6 /\ run[c].at # 4 /\ run[c].at # 5 /\ Last(run[c].kind) = 6 /\ R = "sub"
      BY <2>1, InAuthor
    <3>2. run[c].at = 6 /\ run'[c].pc = "prepare"
      BY <2>4, <3>1 DEF Counting
    <3>3. Seen(c)' = Seen(c)
      BY <2>1 DEF Seen, Reach, Stripped
    <3>4. PICK S \in SUBSET Seen(c) : Tally(c, S)
      BY <2>1, <2>2, <3>2 DEF KeptInv, Counted, Counting
    <3>5. S \subseteq run'[c].map["sub"] /\ run'[c].count = run[c].count
      BY <2>1, <2>3, <2>4, <3>1, <3>2, <3>4 DEF Tally, listed
    <3>6. Tally(c, S)'
      BY <3>2, <3>4, <3>5 DEF Tally
    <3> QED
      BY <3>3, <3>4, <3>6
  <2>8. /\ \A r \in Repos : Closed(k.list[r]) /\ Closed(k.map[r])
        /\ \A r \in Repos : k.map[r] # {} => lock'[r] = c
        /\ k.map["parent"] = {} \/ run[c].at = Last(run[c].kind)
    BY <2>1, <2>2, <2>3, <2>5, <2>c DEF KeptInv, Walked, Held, Repos
  <2>9. StepOf(Word(c)) # "lock"
    BY <2>1
  <2>10. KeptInv(c)'
    BY <2>1, <2>2, <2>3, <2>6, <2>7, <2>8, <2>9, OnwardKept
  <2>11. \A r \in Repos : objects[r] \subseteq objects'[r]
    BY <2>1, <2>2 DEF OInv, Locks
  <2>12. Spares(c)
    BY <2>1, <2>2, <2>11, ReadingSpares DEF Onward
  <2>13. Locks'
    BY <2>1 DEF OInv, Locks
  <2>14. Stored'
    <3>1. \A v \in listed : New(c, R, v) \in Commit
      BY <2>c, NewOK DEF Closed
    <3>2. \A r \in Repos : objects'[r] \subseteq Commit
      BY <2>1, <2>2, <3>1 DEF OInv, Locks, Stored
    <3> QED
      BY <2>1, <2>11, <3>2 DEF OInv, Stored
  <2> QED
    BY <2>10, <2>12, <2>13, <2>14
<1> QED
  BY <1>1, <1>2

(* A run past its script is in a repository it has locked.                   *)
LEMMA AtPlace ==
  ASSUME OInv, NEW c \in Cmds, run[c].pc \notin {"script", "end"}
  PROVE  /\ DOMAIN run[c] = Fields /\ DOMAIN run = Cmds /\ KeptInv(c) /\ run[c].kind \in Kinds /\ run[c].exit = None
         /\ Here(c) \in Repos /\ Place(Here(c)) = run[c].at /\ lock[Here(c)] = c
         /\ run[c].at \in Nat /\ run[c].at <= Len(Order(run[c].kind))
         /\ Here(c) = "sub" \/ (Here(c) = "parent" /\ run[c].kind \in Spanning)
<1>1. /\ DOMAIN run[c] = Fields /\ DOMAIN run = Cmds /\ KeptInv(c) /\ run[c].kind \in Kinds /\ run[c].exit = None
      /\ run[c].at \in DOMAIN Order(run[c].kind)
  BY DEF OInv, RInv, Ranges, RunInv, Shape
<1>2. /\ run[c].at \in 1..Len(Order(run[c].kind)) /\ Here(c) = Order(run[c].kind)[run[c].at]
      /\ \/ run[c].at = 1
         \/ run[c].at = 2 /\ run[c].kind \in Spanning
  BY <1>1, OrderIs DEF Here
<1>3. /\ Here(c) \in Repos /\ Place(Here(c)) = run[c].at
      /\ Here(c) = "sub" \/ (Here(c) = "parent" /\ run[c].kind \in Spanning)
  BY <1>2, OrderIs DEF Place, Repos
<1>4. run[c].at \in Nat /\ run[c].at <= Len(Order(run[c].kind))
  BY <1>2, OrderIs
<1>5. lock[Here(c)] = c
  BY <1>1, <1>3, <1>4 DEF KeptInv, Held
<1> QED
  BY <1>1, <1>3, <1>4, <1>5

(* One that leaves references and plans alone, and throws away at most what  *)
(* nothing reaches, where it has nothing to wait for.                        *)
LEMMA StepKept ==
  ASSUME OInv, NEW c \in Cmds, run[c].pc \notin {"script", "end"},
         NEW k, Goes(c, k), k.pc \notin {"script", "end"},
         k.kind = run[c].kind, k.list = run[c].list, k.map = run[c].map, k.count = run[c].count,
         lock' = lock, refs' = refs, DOMAIN objects' = Repos, Replaces(c)', Passed(c)',
         \A r \in Repos : /\ Awaits(c, r)' => Awaits(c, r) /\ objects[r] \subseteq objects'[r]
                          /\ r # Here(c) => objects'[r] = objects[r]
                          /\ objects'[r] \subseteq objects[r] /\ Reach(r) \subseteq objects'[r]
  PROVE  Stored' /\ Locks' /\ KeptInv(c)' /\ Spares(c)
<1>1. KeptInv(c) /\ run[c].kind \in Kinds /\ Here(c) \in Repos /\ lock[Here(c)] = c
  BY AtPlace
<1>2. run'[c] = k /\ DOMAIN run' = Cmds /\ \A q \in Cmds \ {c} : run'[q] = run[q]
  BY GoesOK DEF OInv
<1>3. Stored' /\ Locks'
  BY ReachOK DEF OInv, RInv, Stored, Locks
<1>4. Seen(c)' = Seen(c)
  BY DEF Seen, Reach, Stripped
<1>5. KeptInv(c)'
  BY <1>1, <1>2, <1>4, GoingOn
<1>6. Spares(c)
  BY <1>1, <1>2 DEF Spares
<1> QED
  BY <1>3, <1>5, <1>6

(* What the references reach is in the store.                                *)
LEMMA ReachStored ==
  ASSUME OInv, NEW r \in Repos
  PROVE  Reach(r) \subseteq objects[r]
BY DEF OInv, Stored, Reach, RInv, Ranges

(* A plan is made of what was walked.                                        *)
LEMMA PrepareKept ==
  ASSUME OInv, NEW c \in Cmds, Prepare(c)
  PROVE  Stored' /\ Locks' /\ KeptInv(c)' /\ Spares(c)
<1> DEFINE R == Here(c)
           k == [run[c] EXCEPT !.plan[R] = Plan(c, R)]
           n == AfterPrepare(k)
<1>1. CASE Exit(c, "refused")
  BY <1>1, ExitKept
<1>2. CASE ~Exit(c, "refused")
  <2>1. run[c].pc = "prepare" /\ Goes(c, n) /\ UNCHANGED <<refs, objects, lock>>
    BY <1>2 DEF Prepare, repository, Goes
  <2>2. /\ DOMAIN run[c] = Fields /\ DOMAIN run = Cmds /\ KeptInv(c) /\ run[c].exit = None /\ R \in Repos
    BY <2>1, AtPlace
  <2>3. DOMAIN run[c].plan = Repos
    BY DEF OInv, RInv, RunInv, Shape
  <2>4. /\ DOMAIN k = Fields /\ k.plan[R] = Plan(c, R) /\ \A r \in Repos \ {R} : k.plan[r] = run[c].plan[r]
        /\ k.pc = "prepare" /\ k.map = run[c].map /\ k.exit = None /\ k.kind = run[c].kind
        /\ k.list = run[c].list /\ k.count = run[c].count
    BY <2>1, <2>2, <2>3 DEF Fields
  <2> HIDE DEF k
  <2>5. /\ n.plan = k.plan /\ n.map = run[c].map /\ n.exit = None /\ n.kind = run[c].kind /\ n.list = run[c].list
        /\ n.count = run[c].count /\ n.pc \in {"prepare", "start"}
    BY <2>4 DEF AfterPrepare, Fields
  <2> HIDE DEF n
  <2>6. run'[c] = n
    BY <2>1, GoesOK DEF OInv
  <2>7. Replaces(c)'
    <3>1. \A r, v : New(c, r, v)' = New(c, r, v)
      BY <2>5, <2>6, SameNew
    <3>2. ASSUME NEW r \in Repos, NEW i \in DOMAIN k.plan[r]
          PROVE  k.plan[r][i].old \in run[c].map[r] /\ k.plan[r][i].new = New(c, r, k.plan[r][i].old)
      <4>1. CASE r # R
        BY <2>1, <2>2, <2>4, <3>2, <4>1 DEF KeptInv, Replaces
      <4>2. CASE r = R
        <5>1. i \in DOMAIN Plan(c, R)
          BY <2>4, <3>2, <4>2
        <5>2. Moves(c, R, Refs[i])
          BY <5>1 DEF Plan
        <5>3. Plan(c, R)[i] = [ref |-> Refs[i], old |-> refs[R][Refs[i]], new |-> New(c, R, refs[R][Refs[i]])]
          BY <5>1 DEF Plan, Move
        <5> QED
          BY <2>4, <4>2, <5>2, <5>3 DEF Moves
      <4> QED
        BY <4>1, <4>2
    <3> QED
      BY <2>5, <2>6, <3>1, <3>2 DEF Replaces
  <2>8. Passed(c)'
    BY <2>5, <2>6 DEF Passed, Sure, None
  <2>9. \A r \in Repos : Awaits(c, r)
    BY <2>1 DEF Awaits
  <2>10. n.pc \notin {"script", "end"} /\ run[c].pc \notin {"script", "end"}
    BY <2>1, <2>5
  <2>11. DOMAIN objects' = Repos
    BY <2>1 DEF OInv, Locks
  <2> QED
    BY <2>1, <2>5, <2>7, <2>8, <2>9, <2>10, <2>11, ReachStored, StepKept
<1> QED
  BY <1>1, <1>2

(* Of what neither reads nor writes references, plans or the store.          *)
LEMMA PlainKept ==
  ASSUME OInv, NEW c \in Cmds, run[c].pc \notin {"script", "prepare", "end"},
         NEW k, Goes(c, k), k.pc \in Later \cup {"move"}, k.pc \in Later \/ run[c].pc \in {"start", "move"},
         run[c].pc \in Later => k.pc \in Later, k.at = run[c].at,
         k.kind = run[c].kind, k.list = run[c].list, k.map = run[c].map, k.count = run[c].count,
         k.plan = run[c].plan, lock' = lock, refs' = refs, objects' = objects, Passed(c)'
  PROVE  Stored' /\ Locks' /\ KeptInv(c)' /\ Spares(c)
<1>1. KeptInv(c) /\ run'[c] = k /\ run[c].at \in Nat /\ run[c].pc \in Pcs
  BY AtPlace, GoesOK DEF OInv, RInv, RunInv, Shape
<1>2. \A r, v : New(c, r, v)' = New(c, r, v)
  BY <1>1, SameNew
<1>3. Replaces(c)'
  BY <1>1, <1>2 DEF KeptInv, Replaces
<1>4. ASSUME NEW r \in Repos, Awaits(c, r)'
      PROVE  Awaits(c, r)
  <2>1. Place(r) \in Nat
    BY DEF Place
  <2> QED
    BY <1>1, <1>4, <2>1 DEF Awaits, Later, Pcs
<1>5. k.pc \notin {"script", "end"} /\ DOMAIN objects' = Repos
  BY DEF Later, OInv, Locks
<1> QED
  BY <1>3, <1>4, <1>5, ReachStored, StepKept

(* So do the records and the looks, none of which ends the checks,           *)
LEMMA RecordsKept ==
  ASSUME OInv, NEW c \in Cmds, RecordStart(c) \/ RecordRefs(c) \/ Look(c) \/ Sync(c)
  PROVE  Stored' /\ Locks' /\ KeptInv(c)' /\ Spares(c)
<1> DEFINE to(pc) == [run[c] EXCEPT !.pc = pc]
           start == [run[c] EXCEPT !.pc = "move", !.todo = DOMAIN run[c].plan[Here(c)]]
<1>1. CASE Exit(c, "stopped")
  BY <1>1, ExitKept
<1>2. ASSUME NEW pc, NEW k \in {start, to(pc), Finding(to(pc))}, Goes(c, k), UNCHANGED <<refs, objects, lock>>,
             \/ run[c].pc = "start" /\ k = start
             \/ run[c].pc \in Later /\ pc \in Later \ {"complete"} /\ k # start
      PROVE  Stored' /\ Locks' /\ KeptInv(c)' /\ Spares(c)
  <2>1. run[c].pc \notin {"script", "prepare", "end"}
    BY <1>2 DEF Later
  <2>2. DOMAIN run[c] = Fields /\ run[c].exit = None
    BY <2>1, AtPlace
  <2>3. /\ k.at = run[c].at /\ k.kind = run[c].kind /\ k.list = run[c].list /\ k.map = run[c].map
        /\ k.count = run[c].count /\ k.plan = run[c].plan /\ k.exit = None
        /\ \/ run[c].pc = "start" /\ k.pc = "move"
           \/ run[c].pc \in Later /\ k.pc \in Later \ {"complete"}
    BY <1>2, <2>2 DEF Finding, Fields, Later
  <2>4. Passed(c)'
    <3>1. run'[c] = k
      BY <1>2, GoesOK DEF OInv
    <3>2. k.pc # "complete"
      BY <2>3
    <3> QED
      BY <2>3, <3>1, <3>2 DEF Passed, Sure, None
  <2>5. /\ k.pc \in Later \cup {"move"} /\ (k.pc \in Later \/ run[c].pc \in {"start", "move"})
        /\ run[c].pc \in Later => k.pc \in Later
    BY <2>3 DEF Later
  <2> HIDE DEF start, to
  <2> QED
    BY <1>2, <2>1, <2>3, <2>4, <2>5, PlainKept
<1>3. CASE RecordStart(c) /\ ~Exit(c, "stopped")
  BY <1>2, <1>3 DEF RecordStart
<1>4. CASE RecordRefs(c) /\ ~Exit(c, "stopped")
  <2>1. run[c].pc = "refs" /\ Goes(c, to("look")) /\ UNCHANGED <<refs, objects, lock>>
    BY <1>4 DEF RecordRefs, To
  <2>2. DOMAIN run[c] = Fields
    BY <2>1, AtPlace
  <2>3. to("look") # start
    BY <2>2 DEF Fields
  <2> QED
    BY <1>2, <2>1, <2>3 DEF Later
<1>5. CASE Look(c) \/ Sync(c)
  <2>1. /\ run[c].pc \in {"look", "sync"} /\ UNCHANGED <<refs, objects, lock>>
        /\ \/ Goes(c, Finding(to("prune"))) \/ Goes(c, to("sync")) \/ Goes(c, to("prune"))
    BY <1>5 DEF Look, Sync, To, repository
  <2>2. DOMAIN run[c] = Fields
    BY <2>1, AtPlace
  <2>3. Finding(to("prune")) # start /\ to("sync") # start /\ to("prune") # start
    BY <2>2 DEF Fields, Finding
  <2>4. run[c].pc \in Later /\ {"prune", "sync"} \subseteq Later \ {"complete"}
    BY <2>1 DEF Later
  <2> HIDE DEF start, to
  <2> QED
    BY <1>2, <2>1, <2>3, <2>4
<1> QED
  BY <1>1, <1>3, <1>4, <1>5

(* and the pruning, which leaves what the references reach.                  *)
LEMMA PruneKept ==
  ASSUME OInv, NEW c \in Cmds, Prune(c)
  PROVE  Stored' /\ Locks' /\ KeptInv(c)' /\ Spares(c)
<1> DEFINE R == Here(c)
           to == [run[c] EXCEPT !.pc = "check"]
<1>1. PICK left \in {IF HasWork(c, R) THEN Reach(R) ELSE objects[R]} \cup
                    (IF "prune" \in Faults THEN {objects[R]} ELSE {}) :
         /\ objects' = [objects EXCEPT ![R] = left]
         /\ Goes(c, to) \/ Goes(c, Finding(to))
  BY DEF Prune
<1>2. run[c].pc = "prune" /\ UNCHANGED <<refs, lock>>
  BY DEF Prune
<1>3. /\ DOMAIN run[c] = Fields /\ KeptInv(c) /\ R \in Repos /\ Place(R) = run[c].at /\ run[c].exit = None
      /\ run[c].at \in Nat
  BY <1>2, AtPlace
<1>4. left \subseteq objects[R] /\ Reach(R) \subseteq left
  BY <1>3, ReachStored
<1>5. PICK k \in {to, Finding(to)} : Goes(c, k)
  BY <1>1
<1>6. /\ k.at = run[c].at /\ k.kind = run[c].kind /\ k.list = run[c].list /\ k.map = run[c].map
      /\ k.count = run[c].count /\ k.plan = run[c].plan /\ k.exit = None /\ k.pc = "check"
  BY <1>3 DEF Finding, Fields
<1> HIDE DEF to
<1>7. run'[c] = k
  BY <1>5, GoesOK DEF OInv
<1>8. \A r, v : New(c, r, v)' = New(c, r, v)
  BY <1>6, <1>7, SameNew
<1>9. Replaces(c)' /\ Passed(c)'
  BY <1>2, <1>3, <1>6, <1>7, <1>8 DEF KeptInv, Replaces, Passed, Sure, None
<1>10. ASSUME NEW r \in Repos
       PROVE  /\ Awaits(c, r)' => Awaits(c, r) /\ objects[r] \subseteq objects'[r]
              /\ r # R => objects'[r] = objects[r]
              /\ objects'[r] \subseteq objects[r] /\ Reach(r) \subseteq objects'[r]
  <2>1. DOMAIN objects = Repos
    BY DEF OInv, Locks
  <2>2. Awaits(c, r)' => Awaits(c, r) /\ r # R
    BY <1>2, <1>3, <1>6, <1>7 DEF Awaits, Later
  <2>3. objects'[r] = IF r = R THEN left ELSE objects[r]
    BY <1>1, <1>3, <2>1
  <2> QED
    BY <1>4, <2>2, <2>3, ReachStored
<1>11. DOMAIN objects' = Repos
  BY <1>1 DEF OInv, Locks
<1>12. k.pc \notin {"script", "end"} /\ run[c].pc \notin {"script", "end"}
  BY <1>2, <1>6
<1> QED
  BY <1>2, <1>5, <1>6, <1>9, <1>10, <1>11, <1>12, StepKept

(* The check of each kind.                                                   *)
LEMMA TierBIs ==
  ASSUME NEW c, NEW r
  PROVE  /\ run[c].kind = "recipe" => (TierB(c, r) <=> VerifySecretRemoved(c, r))
         /\ run[c].kind = "author" => (TierB(c, r) <=> CompareSnapshots(c, r))
         /\ run[c].kind \in Spanning => (TierB(c, r) <=> r = "sub" \/ OldBlobsUnreachable(c))
<1>0. "recipe" \notin Spanning /\ "author" \notin Spanning
  BY DEF Spanning
<1>1. run[c].kind = "recipe" => (TierB(c, r) <=> VerifySecretRemoved(c, r))
  BY <1>0 DEF TierB
<1>2. run[c].kind = "author" => (TierB(c, r) <=> CompareSnapshots(c, r))
  BY <1>0 DEF TierB
<1>3. run[c].kind \in Spanning => (TierB(c, r) <=> r = "sub" \/ OldBlobsUnreachable(c))
  BY DEF TierB, Spanning
<1> QED
  BY <1>1, <1>2, <1>3

(* Author rewrite's check is a count, and yet enough: what was counted was   *)
(* listed and walked, and is reached still, in one form or the other; so a   *)
(* reference that is at no new form is at a commit the count does not have,  *)
(* and the number has grown (CompareSnapshots).                              *)
LEMMA CountSuffices ==
  ASSUME OInv, NEW c \in Cmds, run[c].kind = "author", run[c].pc \notin {"script", "end"},
         VerifyRefsRemapped(c, "sub"), CompareSnapshots(c, "sub"), NEW f \in RefSet
  PROVE  c \in refs["sub"][f].by
<1> DEFINE v == refs["sub"][f]
<1>1. PICK S \in SUBSET Seen(c) : Tally(c, S)
  BY DEF OInv, KeptInv, Counted, Counting
<1>2. IsFiniteSet(S) /\ Cardinality(S) = run[c].count /\ S \subseteq run[c].map["sub"]
  BY <1>1 DEF Tally
<1>3. /\ IsFiniteSet(Reach("sub")) /\ v \in Reach("sub") /\ v \in Commit /\ DOMAIN refs["sub"] = RefSet
      /\ Cardinality(Reach("sub")) = run[c].count
  BY ReachOK DEF OInv, RInv, Ranges, Repos, CompareSnapshots
<1>4. IsFiniteSet(Seen(c)) /\ Cardinality(Seen(c)) <= Cardinality(Reach("sub"))
  <2> DEFINE F == [w \in Reach("sub") |-> Stripped(c, w)]
  <2>1. F \in Surjection(Reach("sub"), Seen(c))
    BY DEF Surjection, Seen
  <2> HIDE DEF F
  <2> QED
    BY <1>3, <2>1, FS_Surjection
<1> SUFFICES ASSUME c \notin v.by PROVE FALSE
  OBVIOUS
<1>5. v \notin run[c].map["sub"]
  <2>1. New(c, "sub", v) = [v EXCEPT !.by = @ \cup {c}]
    BY DEF New
  <2>2. New(c, "sub", v) # v
    BY <1>3, <2>1 DEF Commit
  <2> QED
    BY <1>3, <2>2 DEF VerifyRefsRemapped
<1>6. v \in Seen(c)
  <2>1. v.by \ {c} = v.by
    OBVIOUS
  <2>2. Stripped(c, v) = v
    BY <1>3, <2>1 DEF Stripped, Commit
  <2> QED
    BY <1>3, <2>2 DEF Seen
<1> HIDE DEF v
<1>7. Cardinality(S \cup {v}) = Cardinality(S) + 1
  BY <1>2, <1>5, FS_AddElement
<1>8. Cardinality(S \cup {v}) <= Cardinality(Seen(c))
  <2>1. S \cup {v} \in SUBSET Seen(c)
    BY <1>6
  <2> QED
    BY <1>4, <2>1, FS_Subset
<1>9. Cardinality(S) \in Nat /\ Cardinality(Seen(c)) \in Nat
  BY <1>2, <1>4, FS_CardinalityType
<1> QED
  BY <1>2, <1>3, <1>4, <1>7, <1>8, <1>9

(* The checks that a run is sure of have found what they look for.           *)
LEMMA CheckKept ==
  ASSUME OInv, NEW c \in Cmds, Check(c)
  PROVE  Stored' /\ Locks' /\ KeptInv(c)' /\ Spares(c)
<1> DEFINE R == Here(c)
           found == ~(VerifyRefsRemapped(c, R) /\ TierB(c, R))
           to == [run[c] EXCEPT !.pc = "complete"]
           k == IF found THEN Finding(to) ELSE to
<1>1. run[c].pc = "check" /\ Goes(c, k) /\ UNCHANGED <<refs, objects, lock>>
  BY DEF Check, repository
<1>2. /\ DOMAIN run[c] = Fields /\ R \in Repos /\ Place(R) = run[c].at /\ run[c].exit = None
      /\ run[c].kind \in Kinds /\ run[c].at \in Nat
      /\ R = "sub" \/ (R = "parent" /\ run[c].kind \in Spanning)
  BY <1>1, AtPlace
<1>3. /\ k.at = run[c].at /\ k.kind = run[c].kind /\ k.list = run[c].list /\ k.map = run[c].map
      /\ k.count = run[c].count /\ k.plan = run[c].plan /\ k.exit = None /\ k.pc = "complete"
      /\ found => k.incomplete
  BY <1>2 DEF Finding, Fields
<1> HIDE DEF k
<1>4. run'[c] = k
  BY <1>1, GoesOK DEF OInv
<1>5. Passed(c)'
  <2> SUFFICES ASSUME Sure(c)', NEW f \in RefSet
               PROVE  c \in refs["sub"][f].by
    BY <1>1 DEF Passed
  <2>1. ~found /\ run[c].at = Len(Order(run[c].kind)) /\ run[c].kind \in Vouched
    BY <1>3, <1>4 DEF Sure, None
  <2>2. VerifyRefsRemapped(c, R) /\ TierB(c, R)
    BY <2>1
  <2>3. refs["sub"][f] \in Reach("sub") /\ refs["sub"][f] \in objects["sub"]
    BY ReachOK, ReachStored DEF OInv, RInv, Repos
  <2>4. CASE run[c].kind = "recipe"
    <3>1. R = "sub"
      BY <1>2, <2>4 DEF Spanning
    <3>2. VerifySecretRemoved(c, "sub")
      BY <2>2, <2>4, <3>1, TierBIs
    <3> QED
      BY <2>3, <3>2 DEF VerifySecretRemoved
  <2>5. CASE run[c].kind = "author"
    <3>1. R = "sub"
      BY <1>2, <2>5 DEF Spanning
    <3>2. CompareSnapshots(c, "sub")
      BY <2>2, <2>5, <3>1, TierBIs
    <3>3. run[c].pc \notin {"script", "end"}
      BY <1>1
    <3> QED
      BY <2>2, <2>5, <3>1, <3>2, <3>3, CountSuffices
  <2>6. CASE run[c].kind \in Spanning
    <3>1. Len(Order(run[c].kind)) = 2
      BY <2>6, OrderIs
    <3>2. R # "sub"
      BY <1>2, <2>1, <3>1 DEF Place
    <3>3. OldBlobsUnreachable(c)
      BY <2>2, <2>6, <3>2, TierBIs
    <3> QED
      BY <2>3, <3>3 DEF OldBlobsUnreachable
  <2> QED
    BY <2>1, <2>4, <2>5, <2>6 DEF Vouched
<1>6. run[c].pc \notin {"script", "prepare", "end"} /\ k.pc \in Later
  BY <1>1, <1>3 DEF Later
<1> QED
  BY <1>1, <1>3, <1>5, <1>6, PlainKept

(* A move puts the new form, which is in the store with its ancestors.       *)
LEMMA ApplyKept ==
  ASSUME OInv, NEW c \in Cmds, run[c].pc = "move", NEW i \in run[c].todo,
         refs[Here(c)][run[c].plan[Here(c)][i].ref] = run[c].plan[Here(c)][i].old, Apply(c, Here(c), i)
  PROVE  Stored' /\ Locks' /\ KeptInv(c)' /\ Spares(c)
<1> DEFINE R == Here(c)
           m == run[c].plan[R][i]
           k == [run[c] EXCEPT !.todo = @ \ {i}]
<1>1. /\ DOMAIN run[c] = Fields /\ KeptInv(c) /\ R \in Repos /\ lock[R] = c /\ Place(R) = run[c].at
      /\ run[c].exit = None /\ run[c].at \in Nat /\ run[c].kind \in Kinds
  BY AtPlace
<1>2. i \in DOMAIN run[c].plan[R] /\ m.ref \in RefSet
  <2>1. i \in DOMAIN run[c].plan[R]
    BY DEF OInv, RInv, RunInv, Moving
  <2> QED
    BY <1>1, <2>1 DEF OInv, RInv, RunInv, Planned, Sound
<1>3. m.old \in run[c].map[R] /\ m.new = New(c, R, m.old) /\ m.old = refs[R][m.ref]
  BY <1>1, <1>2 DEF KeptInv, Replaces
<1>4. /\ k.pc = "move" /\ k.kind = run[c].kind /\ k.at = run[c].at /\ k.list = run[c].list /\ k.count = run[c].count
      /\ k.map = run[c].map /\ k.plan = run[c].plan /\ k.exit = None
  BY <1>1 DEF Fields
<1>5. /\ refs' = [refs EXCEPT ![R][m.ref] = m.new] /\ Goes(c, k) /\ UNCHANGED <<objects, lock>>
  BY DEF Apply
<1>6. run'[c] = k /\ DOMAIN run' = Cmds /\ \A q \in Cmds \ {c} : run'[q] = run[q]
  BY <1>5, GoesOK DEF OInv
<1> HIDE DEF k, m
<1>7. /\ refs \in [Repos -> [RefSet -> Commit]] /\ m.old \in Commit
      /\ \A r \in Repos, f \in RefSet : refs'[r][f] = IF r = R /\ f = m.ref THEN m.new ELSE refs[r][f]
      /\ \A r \in Repos : r # R => refs'[r] = refs[r]
  BY <1>1, <1>2, <1>3, <1>5 DEF OInv, RInv, Ranges
<1>8. Line(m.new) = {New(c, R, u) : u \in Line(m.old)}
  BY <1>3, <1>7, LineNew
<1>9. Line(m.new) \subseteq objects[R]
  <2>1. Line(m.old) \subseteq run[c].map[R]
    BY <1>1, <1>3 DEF KeptInv, Walked, Closed
  <2>2. Awaits(c, R)
    BY <1>1 DEF Awaits
  <2>3. \A u \in run[c].map[R] : New(c, R, u) \in objects[R]
    BY <1>1, <2>2 DEF KeptInv, Written
  <2> QED
    BY <1>8, <2>1, <2>3
<1>10. Stored' /\ Locks'
  BY <1>5, <1>7, <1>9 DEF OInv, Stored, Locks
<1>11. Replaces(c)' /\ Passed(c)'
  <2>1. \A r, v : New(c, r, v)' = New(c, r, v)
    BY <1>4, <1>6, SameNew
  <2> QED
    BY <1>1, <1>4, <1>6, <2>1, SMTT(30) DEF KeptInv, Replaces, Passed, Sure, None
<1>12. Seen(c) \subseteq Seen(c)'
  <2> SUFFICES ASSUME NEW v \in Reach("sub")
               PROVE  \E w \in Reach("sub")' : Stripped(c, w) = Stripped(c, v)
    <3>1. Seen(c)' = {Stripped(c, w) : w \in Reach("sub")'}
      BY DEF Seen, Stripped
    <3> QED
      BY <3>1 DEF Seen
  <2>1. PICK f \in RefSet : v \in Line(refs["sub"][f])
    BY <1>7 DEF Reach, Repos
  <2>2. DOMAIN refs'["sub"] = RefSet
    BY <1>5, <1>7 DEF Repos
  <2>3. CASE ~(R = "sub" /\ f = m.ref)
    <3>1. refs'["sub"][f] = refs["sub"][f]
      BY <1>7, <2>3 DEF Repos
    <3> QED
      BY <2>1, <2>2, <3>1 DEF Reach
  <2>4. CASE R = "sub" /\ f = m.ref
    <3>1. New(c, "sub", v) \in Line(m.new) /\ refs'["sub"][f] = m.new
      BY <1>3, <1>7, <1>8, <2>1, <2>4 DEF Repos
    <3>2. New(c, "sub", v) \in Reach("sub")'
      BY <2>2, <3>1 DEF Reach
    <3>3. v \in Commit
      BY <1>7, <2>1, LineHas DEF Repos
    <3>4. New(c, "sub", v) = [v EXCEPT !.by = @ \cup {c}]
      BY DEF New
    <3>5. (v.by \cup {c}) \ {c} = v.by \ {c}
      OBVIOUS
    <3>6. Stripped(c, New(c, "sub", v)) = Stripped(c, v)
      BY <3>3, <3>4, <3>5 DEF Stripped, Commit
    <3> QED
      BY <3>2, <3>6
  <2> QED
    BY <2>3, <2>4
<1>13. \A r \in Repos : Awaits(c, r)' => Awaits(c, r) /\ objects[r] \subseteq objects'[r]
  BY <1>4, <1>5, <1>6 DEF Awaits, Later
<1>14. KeptInv(c)'
  BY <1>1, <1>4, <1>5, <1>6, <1>11, <1>12, <1>13, GoingOn
<1>15. Spares(c)
  <2>1. \A d \in Cmds \ {c} : d \in m.new.by <=> d \in m.old.by
    BY <1>3, <1>7, SMTT(30) DEF New, Commit
  <2>2. \A d \in Cmds \ {c} : \A f \in RefSet : d \in refs'["sub"][f].by <=> d \in refs["sub"][f].by
    BY <1>3, <1>7, <2>1 DEF Repos
  <2> QED
    BY <1>1, <1>5, <1>6, <1>7, <2>2 DEF Spares
<1> QED
  BY <1>10, <1>14, <1>15

(* So with each move, or the refusal of one,                                 *)
LEMMA MoveRefKept ==
  ASSUME OInv, NEW c \in Cmds, MoveRef(c)
  PROVE  Stored' /\ Locks' /\ KeptInv(c)' /\ Spares(c)
<1>1. CASE Exit(c, "stopped")
  BY <1>1, ExitKept
<1>2. CASE To(c, "refs") /\ UNCHANGED <<lock, repository>>
  <2> DEFINE k == [run[c] EXCEPT !.pc = "refs"]
  <2>1. run[c].pc = "move" /\ Goes(c, k) /\ UNCHANGED <<refs, objects, lock>>
    BY <1>2 DEF MoveRef, To, repository
  <2>2. DOMAIN run[c] = Fields /\ run[c].exit = None
    BY <2>1, AtPlace
  <2>3. /\ k.at = run[c].at /\ k.kind = run[c].kind /\ k.list = run[c].list /\ k.map = run[c].map
        /\ k.count = run[c].count /\ k.plan = run[c].plan /\ k.exit = None /\ k.pc = "refs"
    BY <2>2 DEF Fields
  <2> HIDE DEF k
  <2>4. run'[c] = k
    BY <2>1, GoesOK DEF OInv
  <2>5. Passed(c)'
    BY <2>3, <2>4 DEF Passed, Sure, None
  <2>6. k.pc \in Later /\ run[c].pc \notin Later /\ run[c].pc \notin {"script", "prepare", "end"}
    BY <2>1, <2>3 DEF Later
  <2> QED
    BY <2>1, <2>3, <2>5, <2>6, PlainKept
<1>3. CASE \E i \in run[c].todo : /\ refs[Here(c)][run[c].plan[Here(c)][i].ref] = run[c].plan[Here(c)][i].old
                                  /\ Apply(c, Here(c), i)
  BY <1>3, ApplyKept DEF MoveRef
<1> QED
  BY <1>1, <1>2, <1>3 DEF MoveRef, First

(* and with the last record, which is that of a run sure of its checks.      *)
LEMMA RecordCompleteKept ==
  ASSUME OInv, NEW c \in Cmds, RecordComplete(c)
  PROVE  Stored' /\ Locks' /\ KeptInv(c)' /\ Spares(c)
<1> DEFINE code == IF run[c].incomplete THEN "incomplete" ELSE "ok"
           k == [run[c] EXCEPT !.pc = "start", !.at = @ + 1]
<1>1. CASE Exit(c, "stopped")
  BY <1>1, ExitKept
<1>2. CASE ~Exit(c, "stopped")
  <2>1. /\ run[c].pc = "complete" /\ UNCHANGED <<refs, objects>>
        /\ \/ run[c].at < Len(Order(run[c].kind)) /\ Goes(c, k) /\ lock' = lock
           \/ ~(run[c].at < Len(Order(run[c].kind))) /\ Goes(c, Ended(c, code)) /\ lock' = Unlocked(c)
    BY <1>2 DEF RecordComplete
  <2>2. /\ DOMAIN run[c] = Fields /\ KeptInv(c) /\ run[c].exit = None /\ run[c].kind \in Kinds
        /\ run[c].at \in Nat /\ run[c].at <= Len(Order(run[c].kind)) /\ DOMAIN run = Cmds
    BY <2>1, AtPlace
  <2>3. CASE run[c].at < Len(Order(run[c].kind)) /\ Goes(c, k) /\ lock' = lock
    <3>1. /\ k.at = run[c].at + 1 /\ k.kind = run[c].kind /\ k.list = run[c].list /\ k.map = run[c].map
          /\ k.count = run[c].count /\ k.plan = run[c].plan /\ k.exit = None /\ k.pc = "start"
      BY <2>2 DEF Fields
    <3> HIDE DEF k
    <3>2. run'[c] = k
      BY <2>3, GoesOK DEF OInv
    <3>3. \A r, v : New(c, r, v)' = New(c, r, v)
      BY <3>1, <3>2, SameNew
    <3>4. Replaces(c)' /\ Passed(c)'
      BY <2>1, <2>2, <3>1, <3>2, <3>3 DEF KeptInv, Replaces, Passed, Sure, None
    <3>5. ASSUME NEW r \in Repos, Awaits(c, r)'
          PROVE  Awaits(c, r)
      <4>1. Place(r) \in Nat
        BY DEF Place
      <4> QED
        BY <2>1, <2>2, <3>1, <3>2, <3>5, <4>1 DEF Awaits, Later
    <3>6. DOMAIN objects' = Repos /\ k.pc \notin {"script", "end"} /\ run[c].pc \notin {"script", "end"}
      BY <2>1, <3>1 DEF OInv, Locks
    <3> QED
      BY <2>1, <2>3, <3>1, <3>4, <3>5, <3>6, ReachStored, StepKept
  <2>4. CASE ~(run[c].at < Len(Order(run[c].kind))) /\ Goes(c, Ended(c, code)) /\ lock' = Unlocked(c)
    <3>1. run'[c] = Ended(c, code) /\ \A q \in Cmds \ {c} : run'[q] = run[q]
      BY <2>4, GoesOK DEF OInv
    <3>2. code = "ok" => Passed(c)'
      <4> SUFFICES ASSUME code = "ok", Sure(c)'
                   PROVE  \A f \in RefSet : c \in refs'["sub"][f].by
        BY DEF Passed
      <4>1. run'[c].kind = run[c].kind /\ ~run[c].incomplete
        BY <2>2, <3>1, EndedShape
      <4>2. run[c].at = Len(Order(run[c].kind))
        BY <2>2, <2>4, OrderIs
      <4>3. Sure(c)
        BY <2>1, <4>1, <4>2 DEF Sure
      <4> QED
        BY <2>1, <2>2, <4>3 DEF KeptInv, Passed
    <3> HIDE DEF code
    <3>3. KeptInv(c)'
      BY <2>2, <3>1, <3>2, EndKept
    <3>4. Stored' /\ Locks'
      BY <2>1, <2>4 DEF OInv, Stored, Locks, Unlocked
    <3>5. Spares(c)
      BY <2>1, <2>4, <3>1 DEF Spares, Unlocked
    <3> QED
      BY <3>3, <3>4, <3>5
  <2> QED
    BY <2>1, <2>3, <2>4
<1> QED
  BY <1>1, <1>2

(* Every step of a run keeps the second invariant,                           *)
LEMMA StepKeeps ==
  ASSUME OInv, NEW c \in Cmds, Step(c)
  PROVE  OInv'
<1>1. Stored' /\ Locks' /\ KeptInv(c)' /\ Spares(c)
  <2>1. CASE Crash(c)
    BY <2>1, ExitKept DEF Crash
  <2> QED
    BY <2>1, ReadHeadKept, ListKept, CountKept, ChecksKept, WalkKept, PrepareKept, RecordsKept, MoveRefKept,
       PruneKept, CheckKept, RecordCompleteKept DEF Step
<1>2. RInv'
  BY StepInv DEF OInv
<1> QED
  BY <1>1, <1>2, OthersKeep DEF OInv

(* a commit of others,                                                       *)
LEMMA LandKeeps ==
  ASSUME OInv, NEW r \in Repos, NEW f \in RefSet, NEW here \in BOOLEAN, Land(r, f, here)
  PROVE  OInv'
<1> DEFINE id == Cardinality(landed) + 1
           v  == [refs[r][f] EXCEPT !.tail = Append(@, id)]
<1>1. /\ id <= MaxLandings /\ refs' = [refs EXCEPT ![r][f] = v]
      /\ objects' = [objects EXCEPT ![r] = @ \cup {v}] /\ UNCHANGED <<lock, run>>
  BY DEF Land
<1>2. id \in 1..MaxLandings
  <2>1. Cardinality(landed) \in Nat
    BY FS_CardinalityType DEF OInv, RInv, Ranges
  <2> QED
    BY <2>1, <1>1, RewriteConstants
<1>3. refs \in [Repos -> [RefSet -> Commit]] /\ DOMAIN objects = Repos
  BY DEF OInv, RInv, Ranges, Locks
<1> HIDE DEF id
<1>4. v \in Commit /\ v.by = refs[r][f].by /\ Line(v) = Line(refs[r][f]) \cup {v}
  <2>1. refs[r][f] \in Commit
    BY <1>3
  <2> QED
    BY <1>2, <2>1, LineLanded
<1> HIDE DEF v
<1>5. /\ \A q \in Repos, g \in RefSet : refs'[q][g] = IF q = r /\ g = f THEN v ELSE refs[q][g]
      /\ \A q \in Repos : DOMAIN refs'[q] = RefSet /\ DOMAIN refs[q] = RefSet
      /\ \A q \in Repos : objects'[q] = IF q = r THEN objects[q] \cup {v} ELSE objects[q]
  BY <1>1, <1>3
<1>6. \A q \in Repos, g \in RefSet : Line(refs[q][g]) \subseteq Line(refs'[q][g])
  BY <1>4, <1>5
<1>7. Stored' /\ Locks'
  <2>1. Locks'
    BY <1>1 DEF OInv, Locks
  <2>2. ASSUME NEW q \in Repos, NEW g \in RefSet
        PROVE  Line(refs'[q][g]) \subseteq objects'[q]
    BY <1>4, <1>5 DEF OInv, Stored
  <2>3. \A q \in Repos : objects'[q] \subseteq Commit
    BY <1>4, <1>5 DEF OInv, Stored
  <2> QED
    BY <2>1, <2>2, <2>3 DEF Stored
<1>8. ASSUME NEW c \in Cmds
      PROVE  KeptInv(c)'
  <2>1. KeptInv(c) /\ run[c].kind \in Kinds /\ SameRun(c)
    BY <1>1 DEF OInv, RInv, RunInv, Shape, SameRun
  <2>2. \A q \in Repos : lock[q] = c => lock'[q] = c /\ objects[q] \subseteq objects'[q]
    BY <1>1, <1>5
  <2>3. Seen(c) \subseteq Seen(c)'
    <3>1. Reach("sub") \subseteq Reach("sub")'
      BY <1>5, <1>6 DEF Reach, Repos
    <3>2. Seen(c)' = {Stripped(c, w) : w \in Reach("sub")'}
      BY DEF Seen, Stripped
    <3> QED
      BY <3>1, <3>2 DEF Seen
  <2>4. \A g \in RefSet : c \in refs'["sub"][g].by <=> c \in refs["sub"][g].by
    BY <1>4, <1>5 DEF Repos
  <2> QED
    BY <2>1, <2>2, <2>3, <2>4, Unharmed
<1>9. RInv'
  BY LandInv DEF OInv
<1> QED
  BY <1>7, <1>8, <1>9 DEF OInv

(* and an edit.                                                              *)
LEMMA EditKeeps ==
  ASSUME OInv, NEW r \in Repos, Edit(r)
  PROVE  OInv'
<1> DEFINE id == 1 + Cardinality((UNION {edits[q] : q \in Repos}) \cup lost)
<1>1. /\ run' = [c \in Cmds |-> IF run[c].pc = "sync" /\ Here(c) = r THEN [run[c] EXCEPT !.late = id] ELSE run[c]]
      /\ UNCHANGED <<refs, objects, lock>>
  BY DEF Edit
<1> HIDE DEF id
<1>2. ASSUME NEW c \in Cmds
      PROVE  KeptInv(c)'
  <2>1. KeptInv(c) /\ run[c].kind \in Kinds /\ DOMAIN run[c] = Fields
    BY DEF OInv, RInv, RunInv, Shape
  <2>2. SameRun(c)
    BY <1>1, <2>1 DEF SameRun, Fields
  <2>3. Seen(c)' = Seen(c)
    BY <1>1 DEF Seen, Reach, Stripped
  <2> QED
    BY <1>1, <2>1, <2>2, <2>3, Unharmed
<1>3. RInv' /\ Stored' /\ Locks'
  BY <1>1, EditInv DEF OInv, Stored, Locks
<1> QED
  BY <1>2, <1>3 DEF OInv

(* It holds at first                                                         *)
LEMMA InitKept == Init => OInv
<1> SUFFICES ASSUME Init PROVE OInv
  OBVIOUS
<1>1. RInv
  BY InitInv
<1>2. /\ \A r \in Repos : objects[r] = {Base} /\ \A f \in RefSet : refs[r][f] = Base
      /\ Locks
  BY DEF Init, Locks
<1>3. Line(Base) = {Base}
  <2>1. Base.tail = <<>> /\ Len(<<>>) = 0 /\ 0..0 = {0}
    BY DEF Base
  <2>2. SubSeq(<<>>, 1, 0) = <<>>
    BY SubSeqEmpty
  <2>3. [Base EXCEPT !.tail = <<>>] = Base
    BY DEF Base
  <2>4. Line(Base) = {[Base EXCEPT !.tail = SubSeq(Base.tail, 1, k)] : k \in {0}}
    BY <2>1 DEF Line
  <2> QED
    BY <2>1, <2>2, <2>3, <2>4
<1>4. Stored
  BY <1>2, <1>3, BaseOK DEF Stored
<1>5. ASSUME NEW c \in Cmds
      PROVE  KeptInv(c)
  <2>1. PICK k \in Kinds : run[c] = Idle(k)
    BY RewriteConstants DEF Init
  <2>2. /\ run[c].list = [r \in Repos |-> {}] /\ run[c].map = [r \in Repos |-> {}] /\ run[c].kind = k
        /\ run[c].pc = "script" /\ run[c].at = 1 /\ run[c].exit = None
        /\ run[c].plan = [r \in Repos |-> <<>>]
    BY <2>1 DEF Idle
  <2>3. 1 \in 1..Last(k)
    BY ScriptOK
  <2>4. Walked(c)
    BY <2>2, <2>3 DEF Walked, Closed, Repos
  <2>5. Held(c) /\ Written(c) /\ Counted(c)
    BY <2>2 DEF Held, Written, Counted, Counting
  <2>6. Fresh(c) /\ Passed(c) /\ Replaces(c)
    <3>1. \A f \in RefSet : refs["sub"][f].by = {}
      BY <1>2 DEF Repos, Base
    <3> QED
      BY <2>2, <3>1 DEF Fresh, Passed, Sure, Replaces, None
  <2> QED
    BY <2>4, <2>5, <2>6 DEF KeptInv
<1> QED
  BY <1>1, <1>2, <1>4, <1>5 DEF OInv

(* and after every step.                                                     *)
LEMMA NextKept ==
  ASSUME OInv, [Next]_vars
  PROVE  OInv'
<1>1. CASE UNCHANGED vars
  <2>1. RInv' /\ Stored' /\ Locks'
    BY <1>1, NextInv DEF OInv, Stored, Locks, vars
  <2>2. ASSUME NEW c \in Cmds
        PROVE  KeptInv(c)'
    <3>1. KeptInv(c) /\ run[c].kind \in Kinds /\ SameRun(c) /\ UNCHANGED <<refs, objects, lock>>
      BY <1>1 DEF OInv, RInv, RunInv, Shape, SameRun, vars
    <3>2. Seen(c)' = Seen(c)
      BY <3>1 DEF Seen, Reach, Stripped
    <3> QED
      BY <3>1, <3>2, Unharmed
  <2> QED
    BY <2>1, <2>2 DEF OInv
<1>2. DOMAIN refs["sub"] = RefSet
  BY DEF OInv, RInv, Ranges, Repos
<1> QED
  BY <1>1, <1>2, StepKeeps, LandKeeps, EditKeeps DEF Next

(* A rewrite whose own checks passed leaves no reference of the submodule at *)
(* what it was to remove, then or later, for every number of rewrites and    *)
(* references, whatever lands or fails meanwhile (TierBExit).                *)
THEOREM OkHolds == Spec => []OkMeansGone
<1>1. Init => OInv
  BY InitKept
<1>2. OInv /\ [Next]_vars => OInv'
  BY NextKept
<1>3. OInv => OkMeansGone
  <2> SUFFICES ASSUME OInv, NEW c \in Cmds, run[c].exit = "ok",
                      run[c].kind \in {"author", "recipe", "match", "file in submodule"},
                      NEW f \in DOMAIN refs["sub"]
               PROVE  c \in refs["sub"][f].by
    BY DEF OkMeansGone
  <2>1. run[c].kind \in Vouched
    BY DEF Vouched, Spanning
  <2>2. f \in RefSet
    BY DEF OInv, RInv, Ranges, Repos
  <2> QED
    BY <2>1, <2>2 DEF OInv, KeptInv, Passed, Sure
<1> QED
  BY <1>1, <1>2, <1>3, PTL DEF Spec

(* And whichever rewrites prune, what a reference reaches stays in the store *)
(* (cleanupAfterRewrite).                                                    *)
THEOREM StoreHolds == Spec => []Stored
<1>1. Init => OInv
  BY InitKept
<1>2. OInv /\ [Next]_vars => OInv'
  BY NextKept
<1>3. OInv => Stored
  BY DEF OInv
<1> QED
  BY <1>1, <1>2, <1>3, PTL DEF Spec

---------------------------------------------------------------------------
(* Types.  A run has an exit when it has ended, and then no lock.            *)
Closing == \A c \in Cmds : run[c].exit \in Codes /\ (run[c].exit # None <=> run[c].pc = "end")
Released == \A r \in Repos : lock[r] # None => run[lock[r]].exit = None
Files == wt \in [Repos -> Commit] /\ edits \in [Repos -> SUBSET (1..MaxEdits)]
TInv == OInv /\ Closing /\ Released /\ Files

(* A step of a run leaves it at work, with what it held of locks and perhaps *)
(* one more, or ends it without any.                                         *)
AtWork(c) ==
    /\ run'[c].pc # "end" /\ run'[c].exit = run[c].exit
    /\ \A r \in Repos : lock'[r] \in {lock[r], c}
Over(c) ==
    /\ run'[c].pc = "end" /\ run'[c].exit \in Codes \ {None}
    /\ \A r \in Repos : lock'[r] \in {lock[r], None} /\ lock'[r] # c
Turn(c) ==
    /\ run[c].pc # "end" /\ (AtWork(c) \/ Over(c))
    /\ \A d \in Cmds \ {c} : run'[d] = run[d]

(* When it goes on;                                                          *)
LEMMA GoesTurn ==
  ASSUME RInv, Locks, NEW c \in Cmds, NEW k, run' = [run EXCEPT ![c] = k], run[c].pc # "end", k.pc # "end",
         k.exit = run[c].exit, \A r \in Repos : lock'[r] \in {lock[r], c}
  PROVE  Turn(c)
<1>1. run'[c] = k /\ \A d \in Cmds \ {c} : run'[d] = run[d]
  BY DEF RInv, Ranges
<1> QED
  BY <1>1 DEF Turn, AtWork

(* when it ends;                                                             *)
LEMMA OverTurn ==
  ASSUME RInv, Locks, NEW c \in Cmds, NEW code \in Codes \ {None}, run' = [run EXCEPT ![c] = Ended(c, code)],
         run[c].pc # "end", lock' = Unlocked(c)
  PROVE  Turn(c)
<1>1. run'[c] = Ended(c, code) /\ \A d \in Cmds \ {c} : run'[d] = run[d]
  BY DEF RInv, Ranges
<1>2. run[c].kind \in Kinds
  BY DEF RInv, RunInv, Shape
<1>3. run'[c].pc = "end" /\ run'[c].exit = code
  BY <1>1, <1>2, EndedShape
<1>4. \A r \in Repos : lock'[r] = IF lock[r] = c THEN None ELSE lock[r]
  BY DEF Unlocked
<1>5. c # None
  BY RewriteConstants
<1> QED
  BY <1>1, <1>3, <1>4, <1>5 DEF Turn, Over

(* at a word of its script;                                                  *)
LEMMA OnwardTurn ==
  ASSUME RInv, Locks, NEW c \in Cmds, NEW k, Onward(c, k), run[c].pc = "script",
         DOMAIN k = Fields, k.pc = "script", k.exit = run[c].exit, \A r \in Repos : lock'[r] \in {lock[r], c}
  PROVE  Turn(c)
<1> DEFINE on == IF k.at < Len(Script(k.kind)) THEN [k EXCEPT !.at = @ + 1] ELSE [k EXCEPT !.pc = "prepare", !.at = 1]
<1>1. run' = [run EXCEPT ![c] = on]
  BY DEF Onward
<1>2. on.pc # "end" /\ on.exit = run[c].exit
  BY DEF Fields
<1> HIDE DEF on
<1> QED
  BY <1>1, <1>2, GoesTurn

(* so at every step.                                                         *)
LEMMA StepTurn ==
  ASSUME RInv, Locks, NEW c \in Cmds, Step(c)
  PROVE  Turn(c)
<1>1. DOMAIN run[c] = Fields /\ (run[c].exit # None => run[c].pc = "end")
  BY DEF RInv, RunInv, Shape
<1>2. ASSUME NEW code \in Codes \ {None}, Exit(c, code), run[c].pc # "end"
      PROVE  Turn(c)
  BY <1>2, OverTurn DEF Exit
<1>3. {"ok", "incomplete", "refused", "error", "stopped"} \subseteq Codes \ {None}
  BY DEF Codes, None
<1>4. ASSUME Onward(c, run[c]), run[c].pc = "script", \A r \in Repos : lock'[r] \in {lock[r], c}
      PROVE  Turn(c)
  BY <1>1, <1>4, OnwardTurn
<1>5. CASE ReadHead(c)
  <2> DEFINE k == [run[c] EXCEPT !.head[Here(c)] = refs[Here(c)][Main]]
  <2>1. Onward(c, k) /\ run[c].pc = "script" /\ UNCHANGED lock
    BY <1>5 DEF ReadHead, Doing
  <2>2. DOMAIN k = Fields /\ k.pc = "script" /\ k.exit = run[c].exit
    BY <1>1, <2>1 DEF Fields
  <2> HIDE DEF k
  <2> QED
    BY <2>1, <2>2, OnwardTurn
<1>6. CASE List(c)
  <2>1. PICK l : Onward(c, [run[c] EXCEPT !.list = l]) /\ run[c].pc = "script" /\ UNCHANGED lock
    BY <1>6 DEF List, Doing
  <2>2. /\ DOMAIN [run[c] EXCEPT !.list = l] = Fields /\ [run[c] EXCEPT !.list = l].pc = "script"
        /\ [run[c] EXCEPT !.list = l].exit = run[c].exit
    BY <1>1, <2>1 DEF Fields
  <2> QED
    BY <2>1, <2>2, OnwardTurn
<1>7. CASE Count(c)
  <2>1. PICK n : Onward(c, [run[c] EXCEPT !.count = n]) /\ run[c].pc = "script" /\ UNCHANGED lock
    BY <1>7 DEF Count, Doing
  <2>2. /\ DOMAIN [run[c] EXCEPT !.count = n] = Fields /\ [run[c] EXCEPT !.count = n].pc = "script"
        /\ [run[c] EXCEPT !.count = n].exit = run[c].exit
    BY <1>1, <2>1 DEF Fields
  <2> QED
    BY <2>1, <2>2, OnwardTurn
<1>8. CASE RequireCleanTree(c) \/ SameHead(c)
  <2>1. run[c].pc = "script" /\ (Exit(c, "error") \/ (Onward(c, run[c]) /\ UNCHANGED lock))
    BY <1>8 DEF RequireCleanTree, SameHead, Doing
  <2> QED
    BY <2>1, <1>2, <1>3, <1>4
<1>9. CASE AcquireRewriteLock(c)
  <2>1. run[c].pc = "script" /\ (Exit(c, "error") \/ (Onward(c, run[c]) /\ lock' = [lock EXCEPT ![Here(c)] = c]))
    BY <1>9 DEF AcquireRewriteLock, Doing
  <2>2. lock' = [lock EXCEPT ![Here(c)] = c] => \A r \in Repos : lock'[r] \in {lock[r], c}
    BY DEF Locks
  <2> QED
    BY <2>1, <2>2, <1>2, <1>3, <1>4
<1>10. CASE Walk(c)
  <2>1. CASE Exit(c, "error") /\ run[c].pc = "script"
    BY <2>1, <1>2, <1>3
  <2>2. CASE ~(Exit(c, "error") /\ run[c].pc = "script")
    <3>1. PICK m : Onward(c, [run[c] EXCEPT !.map = m]) /\ run[c].pc = "script" /\ UNCHANGED lock
      BY <1>10, <2>2 DEF Walk, Doing
    <3>2. /\ DOMAIN [run[c] EXCEPT !.map = m] = Fields /\ [run[c] EXCEPT !.map = m].pc = "script"
          /\ [run[c] EXCEPT !.map = m].exit = run[c].exit
      BY <1>1, <3>1 DEF Fields
    <3> QED
      BY <3>1, <3>2, OnwardTurn
  <2> QED
    BY <2>1, <2>2
<1>11. CASE Prepare(c)
  <2>1. run[c].pc = "prepare"
    BY <1>11 DEF Prepare
  <2>2. CASE Exit(c, "refused")
    BY <2>1, <2>2, <1>2, <1>3
  <2>3. CASE ~Exit(c, "refused")
    <3>1. PICK p : run' = [run EXCEPT ![c] = AfterPrepare([run[c] EXCEPT !.plan = p])] /\ UNCHANGED lock
      BY <1>11, <2>3 DEF Prepare
    <3>2. /\ AfterPrepare([run[c] EXCEPT !.plan = p]).pc # "end"
          /\ AfterPrepare([run[c] EXCEPT !.plan = p]).exit = run[c].exit
      BY <1>1, <2>1 DEF AfterPrepare, Fields
    <3> QED
      BY <2>1, <3>1, <3>2, GoesTurn
  <2> QED
    BY <2>2, <2>3
<1>12. CASE RecordStart(c) \/ MoveRef(c) \/ RecordRefs(c) \/ Look(c) \/ Sync(c) \/ Prune(c) \/ Check(c)
  <2>1. run[c].pc \in {"start", "move", "refs", "look", "sync", "prune", "check"}
    BY <1>12 DEF RecordStart, MoveRef, RecordRefs, Look, Sync, Prune, Check
  <2>2. CASE Exit(c, "stopped")
    BY <2>1, <2>2, <1>2, <1>3
  <2>3. CASE ~Exit(c, "stopped")
    <3>1. PICK k : /\ Goes(c, k) /\ UNCHANGED lock
                   /\ \/ \E i : k = [run[c] EXCEPT !.todo = @ \ {i}]
                      \/ \E i : k = [run[c] EXCEPT !.pc = "move", !.todo = i]
                      \/ \E pc \in {"refs", "look", "sync", "prune", "check", "complete"} :
                            k = [run[c] EXCEPT !.pc = pc] \/ k = Finding([run[c] EXCEPT !.pc = pc])
      <4>1. CASE RecordStart(c)
        BY <4>1, <2>3 DEF RecordStart
      <4>2. CASE MoveRef(c)
        BY <4>2, <2>3 DEF MoveRef, Apply, To
      <4>3. CASE RecordRefs(c)
        BY <4>3, <2>3 DEF RecordRefs, To
      <4>4. CASE Look(c)
        BY <4>4 DEF Look
      <4>5. CASE Sync(c)
        BY <4>5 DEF Sync, To
      <4>6. CASE Prune(c)
        <5>1. UNCHANGED lock /\ \/ Goes(c, Finding([run[c] EXCEPT !.pc = "check"]))
                                \/ Goes(c, [run[c] EXCEPT !.pc = "check"])
          BY <4>6 DEF Prune
        <5> QED
          BY <5>1
      <4>7. CASE Check(c)
        <5>1. UNCHANGED lock /\ \/ Goes(c, Finding([run[c] EXCEPT !.pc = "complete"]))
                                \/ Goes(c, [run[c] EXCEPT !.pc = "complete"])
          BY <4>7 DEF Check
        <5> QED
          BY <5>1
      <4> QED
        BY <1>12, <4>1, <4>2, <4>3, <4>4, <4>5, <4>6, <4>7
    <3>2. k.pc # "end" /\ k.exit = run[c].exit
      <4>1. CASE \E i : k = [run[c] EXCEPT !.todo = @ \ {i}]
        BY <1>1, <2>1, <4>1 DEF Fields
      <4>2. CASE \E i : k = [run[c] EXCEPT !.pc = "move", !.todo = i]
        BY <1>1, <4>2 DEF Fields
      <4>3. ASSUME NEW pc \in {"refs", "look", "sync", "prune", "check", "complete"},
                   k = [run[c] EXCEPT !.pc = pc] \/ k = Finding([run[c] EXCEPT !.pc = pc])
            PROVE  k.pc # "end" /\ k.exit = run[c].exit
        BY <1>1, <4>3 DEF Finding, Fields
      <4> QED
        BY <3>1, <4>1, <4>2, <4>3
    <3> QED
      BY <2>1, <3>1, <3>2, GoesTurn DEF Goes
  <2> QED
    BY <2>2, <2>3
<1>13. CASE RecordComplete(c)
  <2>1. run[c].pc = "complete"
    BY <1>13 DEF RecordComplete
  <2>2. CASE Exit(c, "stopped")
    BY <2>1, <2>2, <1>2, <1>3
  <2>3. CASE ~Exit(c, "stopped")
    <3>1. \/ Goes(c, [run[c] EXCEPT !.pc = "start", !.at = @ + 1]) /\ UNCHANGED lock
          \/ Goes(c, Ended(c, IF run[c].incomplete THEN "incomplete" ELSE "ok")) /\ lock' = Unlocked(c)
      BY <1>13, <2>3 DEF RecordComplete
    <3>2. /\ [run[c] EXCEPT !.pc = "start", !.at = @ + 1].pc # "end"
          /\ [run[c] EXCEPT !.pc = "start", !.at = @ + 1].exit = run[c].exit
      BY <1>1 DEF Fields
    <3>3. (IF run[c].incomplete THEN "incomplete" ELSE "ok") \in Codes \ {None}
      BY <1>3
    <3>4. CASE Goes(c, [run[c] EXCEPT !.pc = "start", !.at = @ + 1]) /\ UNCHANGED lock
      BY <2>1, <3>2, <3>4, GoesTurn DEF Goes
    <3>5. CASE Goes(c, Ended(c, IF run[c].incomplete THEN "incomplete" ELSE "ok")) /\ lock' = Unlocked(c)
      BY <2>1, <3>3, <3>5, OverTurn DEF Goes
    <3> QED
      BY <3>1, <3>4, <3>5
  <2> QED
    BY <2>2, <2>3
<1>14. CASE Crash(c)
  BY <1>14, <1>2, <1>3 DEF Crash
<1> QED
  BY <1>5, <1>6, <1>7, <1>8, <1>9, <1>10, <1>11, <1>12, <1>13, <1>14 DEF Step

(* It touches files only to overwrite them by the tip.                       *)
LEMMA StepFiles ==
  ASSUME RInv, Files, NEW c \in Cmds, Step(c)
  PROVE  Files'
<1>1. \A code : Exit(c, code) => UNCHANGED <<wt, edits>>
  BY DEF Exit
<1>2. CASE Sync(c)
  <2>1. \/ wt' = [wt EXCEPT ![Here(c)] = refs[Here(c)][Main]] /\ edits' = [edits EXCEPT ![Here(c)] = {}]
        \/ UNCHANGED <<wt, edits>>
    BY <1>2 DEF Sync, repository
  <2>2. Here(c) \in Repos
    BY <1>2, HereOK DEF Sync, RInv, RunInv
  <2>3. refs[Here(c)][Main] \in Commit
    BY <2>2, RewriteConstants DEF RInv, Ranges
  <2> QED
    BY <2>1, <2>2, <2>3 DEF Files
<1>3. ReadHead(c) \/ List(c) \/ Count(c) \/ RequireCleanTree(c) \/ AcquireRewriteLock(c) \/ SameHead(c) \/ Walk(c)
        => UNCHANGED <<wt, edits>>
  BY <1>1 DEF ReadHead, List, Count, RequireCleanTree, AcquireRewriteLock, SameHead, Walk, repository
<1>4. Prepare(c) \/ RecordStart(c) \/ RecordRefs(c) \/ Look(c) \/ Check(c) \/ Crash(c) => UNCHANGED <<wt, edits>>
  BY <1>1 DEF Prepare, RecordStart, RecordRefs, Look, Check, Crash, repository
<1>5. MoveRef(c) => UNCHANGED <<wt, edits>>
  BY <1>1 DEF MoveRef, Apply, repository
<1>6. Prune(c) \/ RecordComplete(c) => UNCHANGED <<wt, edits>>
  BY <1>1 DEF Prune, RecordComplete
<1>7. Sync(c) \/ UNCHANGED <<wt, edits>>
  BY <1>3, <1>4, <1>5, <1>6 DEF Step
<1> QED
  BY <1>2, <1>7 DEF Files

(* It holds after a step of a run,                                           *)
LEMMA StepTypes ==
  ASSUME TInv, NEW c \in Cmds, Step(c)
  PROVE  Closing' /\ Released' /\ Files'
<1>1. Turn(c) /\ Files'
  BY StepTurn, StepFiles DEF TInv, OInv
<1>2. run[c].exit = None
  BY <1>1 DEF TInv, Closing, Turn
<1>3. None \in Codes
  BY DEF Codes
<1>4. Closing'
  BY <1>1, <1>2, <1>3 DEF TInv, Closing, Turn, AtWork, Over
<1>5. ASSUME NEW r \in Repos, lock'[r] # None
      PROVE  run'[lock'[r]].exit = None
  <2>1. lock[r] \in Cmds \cup {None} /\ (lock[r] # None => run[lock[r]].exit = None)
    BY DEF TInv, OInv, Locks, Released
  <2>2. CASE AtWork(c)
    BY <1>1, <1>2, <1>5, <2>1, <2>2 DEF AtWork, Turn
  <2>3. CASE Over(c)
    BY <1>1, <1>5, <2>1, <2>3 DEF Over, Turn
  <2> QED
    BY <1>1, <2>2, <2>3 DEF Turn
<1> QED
  BY <1>1, <1>4, <1>5 DEF Released

(* after a commit of others,                                                 *)
LEMMA LandTypes ==
  ASSUME TInv, NEW r \in Repos, NEW f \in RefSet, NEW here \in BOOLEAN, Land(r, f, here)
  PROVE  Closing' /\ Released' /\ Files'
<1>1. UNCHANGED <<edits, lock, run>>
  BY DEF Land
<1>2. Mixed \in Commit
  BY DEF Mixed, Commit
<1>3. refs'[r][f] \in Commit
  BY LandInv DEF TInv, OInv, RInv, Ranges
<1>4. refs' = [refs EXCEPT ![r][f] = [refs[r][f] EXCEPT !.tail = Append(@, Cardinality(landed) + 1)]]
  BY DEF Land
<1>5. refs'[r][f] = [refs[r][f] EXCEPT !.tail = Append(@, Cardinality(landed) + 1)]
  BY <1>4 DEF TInv, OInv, RInv, Ranges
<1>6. \/ wt' = wt
      \/ wt' = [wt EXCEPT ![r] = IF @ = refs[r][f] THEN [refs[r][f] EXCEPT !.tail = Append(@, Cardinality(landed) + 1)] ELSE Mixed]
  BY DEF Land
<1>7. wt' = wt \/ wt' = [wt EXCEPT ![r] = refs'[r][f]] \/ wt' = [wt EXCEPT ![r] = Mixed]
  BY <1>5, <1>6
<1>8. Files'
  BY <1>1, <1>2, <1>3, <1>7 DEF TInv, Files
<1> QED
  BY <1>1, <1>8 DEF TInv, Closing, Released

(* and after an edit.                                                        *)
LEMMA EditTypes ==
  ASSUME TInv, NEW r \in Repos, Edit(r)
  PROVE  Closing' /\ Released' /\ Files'
<1> DEFINE all == (UNION {edits[q] : q \in Repos}) \cup lost
           id == 1 + Cardinality(all)
<1>1. /\ edits' = [edits EXCEPT ![r] = {id}] /\ id <= MaxEdits /\ UNCHANGED <<wt, lock>>
      /\ run' = [c \in Cmds |-> IF run[c].pc = "sync" /\ Here(c) = r THEN [run[c] EXCEPT !.late = id] ELSE run[c]]
  BY DEF Edit
<1>2. id \in 1..MaxEdits
  <2>1. lost = {} /\ \A q \in Repos : edits[q] \subseteq 1..MaxEdits
    BY DEF TInv, OInv, RInv, OthersKept, Files
  <2>2. IsFiniteSet(1..MaxEdits)
    BY RewriteConstants, FS_Interval
  <2>3. IsFiniteSet(all)
    <3>1. all \subseteq 1..MaxEdits
      BY <2>1
    <3> HIDE DEF all
    <3> QED
      BY <3>1, <2>2, FS_Subset
  <2>4. Cardinality(all) \in Nat
    BY <2>3, FS_CardinalityType
  <2> HIDE DEF all
  <2> QED
    BY <2>4, <1>1, RewriteConstants
<1> HIDE DEF all, id
<1>3. Files'
  BY <1>1, <1>2 DEF TInv, Files
<1>4. \A c \in Cmds : run'[c].pc = run[c].pc /\ run'[c].exit = run[c].exit
  <2> TAKE c \in Cmds
  <2>1. DOMAIN run[c] = Fields
    BY DEF TInv, OInv, RInv, RunInv, Shape
  <2> QED
    BY <1>1, <2>1 DEF Fields
<1>5. Closing'
  BY <1>4 DEF TInv, Closing
<1>6. Released'
  <2>1. \A q \in Repos : lock[q] # None => lock[q] \in Cmds
    BY DEF TInv, OInv, Locks
  <2> QED
    BY <1>1, <1>4, <2>1 DEF TInv, Released
<1> QED
  BY <1>3, <1>5, <1>6

(* The model is type correct: among the rest, a lock is held by a run that   *)
(* has not ended (operation_lock.go), and a run ends with one of the codes.  *)
THEOREM TypeCorrect == Spec => []TypeOK
<1>1. Init => TInv
  <2> SUFFICES ASSUME Init PROVE TInv
    OBVIOUS
  <2>1. Files /\ Released
    BY BaseOK DEF Init, Files, Released
  <2>2. ASSUME NEW c \in Cmds
        PROVE  run[c].exit = None /\ run[c].pc = "script"
    <3>1. PICK k \in Kinds : run[c] = Idle(k)
      BY RewriteConstants DEF Init
    <3> QED
      BY <3>1, IdleShape
  <2>3. Closing
    BY <2>2 DEF Closing, Codes
  <2> QED
    BY <2>1, <2>3, InitKept DEF TInv
<1>2. TInv /\ [Next]_vars => TInv'
  <2> SUFFICES ASSUME TInv, [Next]_vars PROVE TInv'
    OBVIOUS
  <2>1. OInv'
    BY NextKept DEF TInv
  <2>2. DOMAIN refs["sub"] = RefSet
    BY DEF TInv, OInv, RInv, Ranges, Repos
  <2>3. CASE UNCHANGED vars
    BY <2>1, <2>3 DEF vars, TInv, Closing, Released, Files
  <2>4. CASE Next
    BY <2>1, <2>2, <2>4, StepTypes, LandTypes, EditTypes DEF Next, TInv
  <2> QED
    BY <2>3, <2>4
<1>3. TInv => TypeOK
  <2> SUFFICES ASSUME TInv PROVE TypeOK
    OBVIOUS
  <2>1. ASSUME NEW r \in Repos
        PROVE  /\ DOMAIN refs[r] = RefSet
               /\ \A f \in DOMAIN refs[r] : refs[r][f] \in Commit /\ Line(refs[r][f]) \subseteq objects[r]
               /\ objects[r] \subseteq Commit
    BY DEF TInv, OInv, RInv, Ranges, Stored
  <2>2. ASSUME NEW r \in Repos
        PROVE  wt[r] \in Commit /\ edits[r] \subseteq 1..MaxEdits
    BY DEF TInv, Files
  <2>3. ASSUME NEW r \in Repos
        PROVE  lock[r] # None => lock[r] \in Cmds /\ run[lock[r]].exit = None
    BY DEF TInv, OInv, Locks, Released
  <2>4. ASSUME NEW r \in Repos
        PROVE  journal[r] \in [Cmds -> SUBSET {"start", "refs", "complete"}]
    BY DEF TInv, OInv, RInv, Ranges, Phases
  <2>5. landed \subseteq Repos \X RefSet \X (1..MaxLandings) /\ lost = {}
    BY DEF TInv, OInv, RInv, Ranges, OthersKept
  <2> QED
    BY <2>1, <2>2, <2>3, <2>4, <2>5 DEF TypeOK, TInv, Closing
<1> QED
  BY <1>1, <1>2, <1>3, PTL DEF Spec
=============================================================================

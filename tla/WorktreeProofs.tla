--------------------------- MODULE WorktreeProofs ----------------------------
(* Proofs about Worktree: for every set of paths and of regions of a file,   *)
(* any moves, and any number of runs, edits, stagings and commits of others, *)
(* what somebody staged stays staged, a commit is what was named, no edit is *)
(* lost and what was moved and is said to be back is back.  And about the    *)
(* algorithms of Intake and Moves: what naming a path comes to, what is      *)
(* committed of it, and how the records of moves fit together and are        *)
(* followed.                                                                 *)
EXTENDS Worktree, FiniteSetTheorems, SequenceTheorems, TLAPS

CONSTANT Order
M == INSTANCE Moves

(* Types.                                                                    *)
Held   == Content \cup {None}
Slot   == Held \cup {Unmerged}
Tree   == [Path -> Held]
Commit == [id : Nat, tree : Tree]
Pair   == [old : Path, new : Path]
Some(S, V) == UNION {[D -> V] : D \in SUBSET S}
Kinds  == {Whole, Untrack} \cup Region
Ops    == {"none", "commit", "amend", "reword", "undo", "mv", "reset", "doctor"}
Pcs    == {"idle", "parent", "stage", "slots", "sync", "replay", "move", "rollback", "git", "replan", "repair"}
Spents == [runs : Nat, edits : Nat, adds : Nat, arrivals : Nat, ids : Nat]
Runs   ==
    [pc : Pcs, op : Ops, entries : Some(Path, Kinds), parent : Nat, base : Tree, tmp : Tree,
     todo : SUBSET Path, attempt : Nat, slots : [Path -> Slot], pairs : Seq(Pair), done : Seq(Pair),
     seen : Some(Path, SUBSET Held), touched : SUBSET Path, disk0 : Tree, warned : BOOLEAN]

(* An undo has a commit to go back to.                                       *)
Founded == run.op = "undo" /\ run.pc \in {"parent", "stage"} => Len(hist) > 1

TypeInv ==
    /\ hist \in Seq(Commit) /\ Len(hist) > 0
    /\ index \in [Path -> Slot] /\ disk \in Tree /\ staged \in [Path -> Slot \cup {Nothing}]
    /\ foreign \in SUBSET Path
    /\ run \in Runs /\ spent \in Spents
    /\ Founded

---------------------------------------------------------------------------
(* A file that is not there, a conflict and nothing staged are no contents.  *)
LEMMA Apart ==
  /\ None # Unmerged /\ None # Nothing /\ Unmerged # Nothing
  /\ None \notin Content /\ Unmerged \notin Held /\ Nothing \notin Slot
<1>1. Region \subseteq Nat \ {0}
  BY WorktreeConstants
<1>2. 0 \in None /\ -1 \in Unmerged /\ -2 \in Nothing /\ -1 \notin None /\ -2 \notin None /\ -2 \notin Unmerged
  BY DEF None, Unmerged, Nothing
<1>3. \A c \in Content : 0 \notin c /\ -1 \notin c /\ -2 \notin c
  BY <1>1 DEF Content
<1> QED
  BY <1>2, <1>3 DEF Held, Slot

(* A set of numbers that has a member has a least one.                       *)
LEMMA LeastNatural ==
  ASSUME NEW S \in SUBSET Nat, S # {}
  PROVE  \E n \in S : \A m \in S : n <= m
<1> DEFINE Below(m) == {k \in Nat : k < m}
           T == {Below(m) : m \in S}
<1>1. \A m \in Nat : Below(m) \in FiniteSubsetsOf(Nat)
  <2> TAKE m \in Nat
  <2>1. IsFiniteSet(0..m)
    BY FS_Interval
  <2>2. Below(m) \in SUBSET (0..m)
    OBVIOUS
  <2>3. IsFiniteSet(Below(m))
    BY <2>1, <2>2, FS_Subset
  <2> QED
    BY <2>3 DEF FiniteSubsetsOf
<1>2. T \subseteq FiniteSubsetsOf(Nat) /\ T # {}
  BY <1>1
<1>3. \E x \in T : \A y \in T : <<y, x>> \notin StrictSubsetOrdering(Nat)
  <2> HIDE DEF T
  <2> QED
    BY <1>2, FS_StrictSubsetOrderingWellFounded, WFMin
<1>4. PICK n \in S : \A m \in S : <<Below(m), Below(n)>> \notin StrictSubsetOrdering(Nat)
  BY <1>3
<1>5. ASSUME NEW m \in S, ~(n <= m)
      PROVE  <<Below(m), Below(n)>> \in StrictSubsetOrdering(Nat)
  <2>1. Below(m) \subseteq Below(n) /\ Below(n) \subseteq Nat
    BY <1>5
  <2>2. m \in Below(n) /\ m \notin Below(m)
    BY <1>5
  <2> QED
    BY <2>1, <2>2 DEF StrictSubsetOrdering
<1> QED
  BY <1>4, <1>5


(* A set with k members or more has a k-th.                                  *)
LEMMA KthIsThere ==
  ASSUME NEW s \in SUBSET Region, NEW k \in Nat \ {0}, k <= Cardinality(s)
  PROVE  \E r \in s : Cardinality({x \in s : x < r}) = k - 1
<1> DEFINE Below(r) == {x \in s : x < r}
           Good(n) == \E r \in s : Cardinality(Below(r)) = n - 1
           B == {n \in Nat \ {0} : n <= Cardinality(s) /\ ~Good(n)}
<1>1. s \subseteq Nat /\ IsFiniteSet(s) /\ Cardinality(s) \in Nat
  <2>1. IsFiniteSet(Region) /\ Region \subseteq Nat
    BY WorktreeConstants
  <2> QED
    BY <2>1, FS_Subset, FS_CardinalityType
<1>2. \A r \in s : Below(r) \in SUBSET s /\ IsFiniteSet(Below(r))
  BY <1>1, FS_Subset
<1>3. ASSUME B # {}
      PROVE  FALSE
  <2>1. PICK n \in B : \A m \in B : n <= m
    <3>1. B \in SUBSET Nat
      OBVIOUS
    <3> HIDE DEF B
    <3> QED
      BY <1>3, <3>1, LeastNatural
  <2>0. n \in Nat \ {0} /\ n <= Cardinality(s) /\ ~Good(n)
    BY <2>1
  <2>2. CASE n = 1
    <3>1. s # {}
      BY <1>1, <2>0, <2>2, FS_EmptySet
    <3>2. PICK r \in s : \A x \in s : r <= x
      BY <1>1, <3>1, LeastNatural
    <3>3. Below(r) = {}
      <4>1. \A x \in s : ~(x < r)
        BY <1>1, <3>2
      <4> QED
        BY <4>1
    <3>4. Cardinality(Below(r)) = n - 1
      BY <3>3, <2>2, FS_EmptySet
    <3> QED
      BY <2>0, <3>4
  <2>3. CASE n # 1
    <3>1. n - 1 \in Nat \ {0} /\ n - 1 <= Cardinality(s) /\ n - 1 \notin B
      BY <1>1, <2>0, <2>1, <2>3
    <3>2. PICK r \in s : Cardinality(Below(r)) = n - 2
      BY <3>1, <1>1
    <3> DEFINE U == Below(r) \cup {r}
    <3>3. U \in SUBSET s /\ IsFiniteSet(U) /\ Cardinality(U) = n - 1
      <4>1. r \notin Below(r)
        BY <1>1
      <4>2. Cardinality(U) = Cardinality(Below(r)) + 1
        BY <4>1, <1>2, FS_AddElement
      <4>3. U \in SUBSET s /\ IsFiniteSet(U)
        BY <1>1, FS_Subset
      <4> HIDE DEF U, Below
      <4> QED
        BY <4>2, <4>3, <3>2, <2>0
    <3>4. s \ U # {}
      <4> HIDE DEF U
      <4>1. U # s
        BY <3>3, <2>0, <1>1
      <4> QED
        BY <4>1, <3>3
    <3>5. PICK q \in s \ U : \A x \in s \ U : q <= x
      <4>1. s \ U \in SUBSET Nat
        BY <1>1
      <4> HIDE DEF U
      <4> QED
        BY <4>1, <3>4, LeastNatural
    <3>6. Below(q) = U
      <4>1. \A x \in s : x \in U <=> x <= r
        BY <1>1
      <4>2. q \in s /\ ~(q <= r)
        BY <3>5, <4>1
      <4>3. \A x \in s : x < q <=> x \in U
        BY <3>5, <4>1, <4>2, <1>1
      <4> QED
        BY <4>3, <3>3
    <3>7. Cardinality(Below(q)) = n - 1 /\ q \in s
      BY <3>6, <3>3, <3>5
    <3> QED
      BY <2>0, <3>7
  <2> QED
    BY <2>2, <2>3
<1>4. k \notin B
  BY <1>3
<1> QED
  BY <1>4

(* So the content that a hunk makes of another is a content.                 *)
LEMMA HunkIsContent ==
  ASSUME NEW k \in Region, NEW from \in Content, NEW to \in Held, k <= Cardinality(Hunks(from, to))
  PROVE  WithHunk(k, from, to) \in Held
<1>1. CASE to = None
  BY <1>1 DEF WithHunk, Held
<1>2. CASE to # None
  <2>1. to \in Content /\ Hunks(from, to) = (from \ to) \cup (to \ from)
    BY <1>2 DEF Held, Hunks
  <2>2. Hunks(from, to) \in SUBSET Region
    BY <2>1 DEF Content
  <2>3. k \in Nat \ {0}
    BY WorktreeConstants
  <2>4. \E r \in Hunks(from, to) : Cardinality({x \in Hunks(from, to) : x < r}) = k - 1
    BY <2>2, <2>3, KthIsThere
  <2>5. Kth(k, Hunks(from, to)) \in Region
    BY <2>2, <2>4 DEF Kth
  <2>6. Toggled(from, Kth(k, Hunks(from, to))) \in Content
    BY <2>5 DEF Toggled, Content
  <2> QED
    BY <1>2, <2>6 DEF WithHunk, Held
<1> QED
  BY <1>1, <1>2

(* What a path is staged as, by the kind of its entry.                       *)
LEMMA EntryKinds ==
  /\ Whole # Untrack /\ Whole \notin Region /\ Untrack \notin Region
  /\ \A k \in Kinds : k = Whole \/ k = Untrack \/ k \in Region
<1>1. Region \subseteq Nat \ {0}
  BY WorktreeConstants
<1> QED
  BY <1>1 DEF Whole, Untrack, Kinds

LEMMA StagedAsIs ==
  ASSUME NEW p
  PROVE  /\ run.entries[p] = Untrack => CanStage(p) /\ StagedAs(p) = None
         /\ run.entries[p] = Whole => StagedAs(p) = disk[p]
         /\ run.entries[p] \in Region =>
               /\ StagedAs(p) = WithHunk(run.entries[p], run.tmp[p], disk[p])
               /\ CanStage(p) => run.tmp[p] # None
               /\ CanStage(p) => run.entries[p] <= Cardinality(Hunks(run.tmp[p], disk[p]))
<1>1. CASE run.entries[p] = Untrack
  <2>1. run.entries[p] # Whole /\ run.entries[p] \notin Region
    BY <1>1, EntryKinds
  <2> QED
    BY <1>1, <2>1, Zenon DEF StagedAs, CanStage
<1>2. CASE run.entries[p] = Whole
  <2>1. run.entries[p] # Untrack /\ run.entries[p] \notin Region
    BY <1>2, EntryKinds
  <2> QED
    BY <1>2, <2>1, Zenon DEF StagedAs, CanStage
<1>3. CASE run.entries[p] \in Region
  <2>1. run.entries[p] # Untrack /\ run.entries[p] # Whole
    BY <1>3, EntryKinds
  <2>2. StagedAs(p) = WithHunk(run.entries[p], run.tmp[p], disk[p])
    BY <2>1, Zenon DEF StagedAs
  <2>3. CanStage(p) => run.tmp[p] # None /\ run.entries[p] <= Cardinality(Hunks(run.tmp[p], disk[p]))
    BY <2>1, Zenon DEF CanStage
  <2> QED
    BY <2>1, <2>2, <2>3
<1> QED
  BY <1>1, <1>2, <1>3

---------------------------------------------------------------------------
(* Type correctness.                                                         *)
LEMMA IdleIsRun == Idle \in Runs /\ Empty \in Some(Path, Kinds) /\ DOMAIN Empty = {} /\ NoTree \in Tree
<1>1. NoTree \in Tree
  BY DEF NoTree, Tree, Held
<1>2. NoTree \in [Path -> Slot]
  BY DEF NoTree, Slot, Held
<1>3. /\ Empty \in [{} -> Kinds] /\ [{} -> Kinds] \subseteq Some(Path, Kinds)
      /\ Empty \in [{} -> SUBSET Held] /\ [{} -> SUBSET Held] \subseteq Some(Path, SUBSET Held)
  BY DEF Empty, Some
<1>4. Empty \in Some(Path, Kinds) /\ Empty \in Some(Path, SUBSET Held)
  BY <1>3
<1>5. <<>> \in Seq(Pair)
  OBVIOUS
<1> HIDE DEF Some
<1> QED
  BY <1>1, <1>2, <1>4, <1>5 DEF Idle, Runs, Pcs, Ops, Empty

LEMMA TipIsCommit ==
  ASSUME hist \in Seq(Commit), Len(hist) > 0
  PROVE  Tip \in Commit /\ Tip.tree \in Tree /\ Tip.id \in Nat /\ \A p \in Path : Tip.tree[p] \in Held
<1>1. Tip \in Commit
  BY DEF Tip
<1>2. Tip.tree \in Tree /\ Tip.id \in Nat
  BY <1>1 DEF Commit
<1> QED
  BY <1>1, <1>2 DEF Tree

LEMMA InitType == Init => TypeInv
<1> SUFFICES ASSUME Init PROVE TypeInv
  OBVIOUS
<1> DEFINE first == [p \in Path |-> IF p \in Tracked THEN {} ELSE None]
<1>1. first \in Tree
  BY DEF Tree, Held, Content
<1>2. hist = <<[id |-> 1, tree |-> first]>> /\ hist[1].tree = first /\ disk = first
  BY DEF Init
<1>3. [id |-> 1, tree |-> first] \in Commit
  BY <1>1 DEF Commit
<1>4. hist \in Seq(Commit) /\ Len(hist) = 1
  BY <1>2, <1>3
<1>5. /\ index = first \/ \E p \in Path : index = [first EXCEPT ![p] = Unmerged]
      /\ \/ staged = [p \in Path |-> Nothing]
         \/ \E p \in Path : staged = [[q \in Path |-> Nothing] EXCEPT ![p] = Unmerged]
  BY <1>2, WorktreeConstants DEF Init
<1>6. index \in [Path -> Slot] /\ staged \in [Path -> Slot \cup {Nothing}]
  <2> HIDE DEF first
  <2> QED
    BY <1>1, <1>5 DEF Tree, Slot
<1>7. /\ run = Idle /\ foreign = {}
      /\ spent = [runs |-> 0, edits |-> 0, adds |-> 0, arrivals |-> 0, ids |-> 1]
  BY DEF Init
<1>8. spent \in Spents /\ run.op = "none"
  BY <1>7 DEF Spents, Idle
<1> HIDE DEF first
<1> QED
  BY <1>1, <1>2, <1>4, <1>6, <1>7, <1>8, IdleIsRun DEF TypeInv, Founded

(* Beginnings leave all but the run as it is.                                *)
Untouched == UNCHANGED <<hist, index, disk, staged, foreign>>

LEMMA BeginsType == TypeInv /\ Begins => TypeInv' /\ run.pc = "idle" /\ Untouched
<1> SUFFICES ASSUME TypeInv, Begins PROVE TypeInv' /\ run.pc = "idle" /\ Untouched
  OBVIOUS
<1>1. hist \in Seq(Commit) /\ Len(hist) > 0 /\ disk \in Tree /\ run \in Runs /\ spent \in Spents
  BY DEF TypeInv
<1>2. Tip.tree \in Tree /\ disk \in [Path -> Slot]
  BY <1>1, TipIsCommit DEF Tree, Slot
<1>3. [spent EXCEPT !.runs = @ + 1] \in Spents
  BY <1>1 DEF Spents
<1>4. ASSUME NEW op \in Ops, NEW pc \in Pcs, NEW entries \in Some(Path, Kinds), Starts(op, pc, entries),
             op = "undo" => Len(hist) > 1
      PROVE  TypeInv' /\ run.pc = "idle" /\ Untouched
  <2> DEFINE D == {q \in DOMAIN entries : entries[q] = Whole}
             S == [p \in D |-> {disk[p]}]
  <2>1. DOMAIN entries \subseteq Path
    BY <1>4 DEF Some
  <2>2. D \subseteq Path /\ S \in [D -> SUBSET Held]
    BY <2>1, <1>1 DEF Tree
  <2>3. S \in Some(Path, SUBSET Held)
    <3> HIDE DEF S, D
    <3> QED
      BY <2>2 DEF Some
  <2>4. /\ run.pc = "idle" /\ Untouched /\ spent' = [spent EXCEPT !.runs = @ + 1]
        /\ run' = [Idle EXCEPT !.pc = pc, !.op = op, !.entries = entries, !.attempt = 1, !.seen = S]
    BY <1>4 DEF Starts, Untouched
  <2> HIDE DEF S
  <2>5. run' \in Runs /\ run'.op = op
    BY <2>3, <2>4, IdleIsRun DEF Runs
  <2> QED
    BY <2>4, <2>5, <1>3, <1>4 DEF TypeInv, Founded, Untouched
<1>5. CASE BeginCommit
  <2>1. PICK op \in {"commit", "amend"}, named \in SUBSET Busy : \E e \in [named -> {Whole, Untrack} \cup Region] :
             Starts(op, "parent", e)
    BY <1>5 DEF BeginCommit
  <2>2. PICK e \in [named -> {Whole, Untrack} \cup Region] : Starts(op, "parent", e)
    BY <2>1
  <2>3. e \in Some(Path, Kinds)
    BY <2>2, WorktreeConstants DEF Some, Kinds
  <2>4. op \in Ops /\ op # "undo" /\ "parent" \in Pcs
    BY <2>1 DEF Ops, Pcs
  <2> QED
    BY <1>4, <2>2, <2>3, <2>4
<1>6. CASE BeginReword
  BY <1>4, <1>6, IdleIsRun DEF BeginReword, Ops, Pcs
<1>7. CASE BeginUndo
  BY <1>4, <1>7, IdleIsRun DEF BeginUndo, Ops, Pcs
<1>8. CASE BeginReset
  BY <1>4, <1>8, IdleIsRun DEF BeginReset, Ops, Pcs
<1>9. CASE BeginMv
  <2>1. PICK pairs \in Moves :
             /\ run.pc = "idle" /\ spent' = [spent EXCEPT !.runs = @ + 1] /\ Untouched
             /\ run' = [Idle EXCEPT !.pc = "move", !.op = "mv", !.pairs = pairs, !.attempt = 1,
                              !.disk0 = disk, !.base = Tip.tree]
    BY <1>9 DEF BeginMv, Untouched
  <2>2. pairs \in Seq(Pair)
    BY <2>1, WorktreeConstants DEF Pair
  <2>3. run' \in Runs /\ run'.op = "mv"
    BY <2>1, <2>2, <1>1, <1>2, IdleIsRun DEF Runs, Pcs, Ops
  <2> QED
    BY <2>1, <2>3, <1>3 DEF TypeInv, Founded, Untouched
<1>10. CASE BeginDoctor
  <2>1. /\ run.pc = "idle" /\ spent' = [spent EXCEPT !.runs = @ + 1] /\ Untouched
        /\ run' = [Idle EXCEPT !.pc = "replan", !.op = "doctor", !.todo = Orphans, !.slots = disk]
    BY <1>10 DEF BeginDoctor, Untouched
  <2>2. Orphans \subseteq Path
    BY DEF Orphans
  <2>3. run' \in Runs /\ run'.op = "doctor"
    BY <2>1, <2>2, <1>1, <1>2, IdleIsRun DEF Runs, Pcs, Ops
  <2> QED
    BY <2>1, <2>3, <1>3 DEF TypeInv, Founded, Untouched
<1> QED
  BY <1>5, <1>6, <1>7, <1>8, <1>9, <1>10 DEF Begins

(* What others do tells the run at most what they touched and what the file  *)
(* holds then.                                                               *)
Told(p) ==
    IF run.pc = "idle" THEN run' = run
    ELSE \/ run' = [run EXCEPT !.touched = @ \cup {p}]
         \/ run' = [run EXCEPT !.touched = @ \cup {p},
                               !.seen = [q \in DOMAIN @ |-> IF q = p THEN @[q] \cup {disk'[p]} ELSE @[q]]]

(* All but what is seen and touched is as it was.                            *)
SameRun ==
    /\ run'.pc = run.pc /\ run'.op = run.op /\ run'.entries = run.entries /\ run'.parent = run.parent
    /\ run'.base = run.base /\ run'.tmp = run.tmp /\ run'.todo = run.todo /\ run'.attempt = run.attempt
    /\ run'.slots = run.slots /\ run'.pairs = run.pairs /\ run'.done = run.done
    /\ run'.disk0 = run.disk0 /\ run'.warned = run.warned

LEMMA ToldRun ==
  ASSUME NEW p \in Path, run \in Runs, disk'[p] \in Held, Told(p)
  PROVE  /\ run' \in Runs /\ SameRun
         /\ run.touched \subseteq run'.touched /\ (run.pc # "idle" => p \in run'.touched)
         /\ DOMAIN run'.seen = DOMAIN run.seen
         /\ \A q \in DOMAIN run.seen : run.seen[q] \subseteq run'.seen[q]
<1> DEFINE S == [q \in DOMAIN run.seen |-> IF q = p THEN run.seen[q] \cup {disk'[p]} ELSE run.seen[q]]
<1>1. PICK D \in SUBSET Path : run.seen \in [D -> SUBSET Held]
  BY DEF Runs, Some
<1>2. S \in [D -> SUBSET Held]
  BY <1>1
<1>3. S \in Some(Path, SUBSET Held) /\ DOMAIN S = DOMAIN run.seen
      /\ \A q \in DOMAIN run.seen : run.seen[q] \subseteq S[q]
  <2>1. S \in Some(Path, SUBSET Held)
    <3> HIDE DEF S
    <3> QED
      BY <1>2 DEF Some
  <2> QED
    BY <2>1
<1>4. \/ run.pc = "idle" /\ run' = run
      \/ run' = [run EXCEPT !.touched = @ \cup {p}]
      \/ run' = [run EXCEPT !.touched = @ \cup {p}, !.seen = S]
  BY DEF Told
<1> HIDE DEF S
<1>5. CASE run.pc = "idle" /\ run' = run
  BY <1>5 DEF SameRun
<1>6. CASE run' = [run EXCEPT !.touched = @ \cup {p}]
  <2>1. run' \in Runs /\ SameRun
    BY <1>6 DEF Runs, SameRun
  <2>2. run'.touched = run.touched \cup {p} /\ run'.seen = run.seen
    BY <1>6 DEF Runs
  <2> QED
    BY <2>1, <2>2
<1>7. CASE run' = [run EXCEPT !.touched = @ \cup {p}, !.seen = S]
  <2>1. run' \in Runs /\ SameRun
    BY <1>3, <1>7 DEF Runs, SameRun
  <2>2. run'.touched = run.touched \cup {p} /\ run'.seen = S
    BY <1>7 DEF Runs
  <2> QED
    BY <1>3, <2>1, <2>2
<1> QED
  BY <1>4, <1>5, <1>6, <1>7

(* What each of the others does.                                             *)
LEMMA EditIs ==
  ASSUME NEW p \in Path, Edit(p), TypeInv
  PROVE  /\ disk' \in Tree /\ disk'[p] \in Held /\ (\A q \in Path : q # p => disk'[q] = disk[q])
         /\ spent' \in Spents /\ spent'.ids = spent.ids /\ spent' # spent /\ Told(p)
         /\ run.pc # "idle" => \A q \in DOMAIN run.seen : q = p => disk'[p] \in run'.seen[p]
         /\ UNCHANGED <<hist, index, staged, foreign>>
<1>1. PICK c \in Writes : disk' = [disk EXCEPT ![p] = c]
  BY DEF Edit
<1>2. c \in Held
  BY WorktreeConstants DEF Held, Content, None
<1>3. disk' \in Tree /\ disk'[p] \in Held /\ \A q \in Path : q # p => disk'[q] = disk[q]
  BY <1>1, <1>2 DEF TypeInv, Tree
<1>4. spent' = [spent EXCEPT !.edits = @ + 1] /\ Touch(p) /\ UNCHANGED <<hist, index, staged, foreign>>
  BY DEF Edit
<1>5. spent' \in Spents /\ spent'.ids = spent.ids /\ spent' # spent
  <2>1. spent \in Spents /\ spent.edits + 1 # spent.edits
    BY DEF TypeInv, Spents
  <2> QED
    BY <2>1, <1>4 DEF Spents
<1>6. ASSUME run.pc # "idle", NEW q \in DOMAIN run.seen, q = p
      PROVE  disk'[p] \in run'.seen[p]
  <2>1. run \in Runs
    BY DEF TypeInv
  <2>2. run' = [run EXCEPT !.touched = @ \cup {p},
                           !.seen = [x \in DOMAIN @ |-> IF x = p THEN @[x] \cup {disk'[p]} ELSE @[x]]]
    BY <1>4, <1>6 DEF Touch
  <2> QED
    BY <2>1, <2>2, <1>6 DEF Runs
<1>7. Told(p)
  BY <1>4 DEF Touch, Told
<1> QED
  BY <1>3, <1>4, <1>5, <1>6, <1>7

LEMMA StagesIs ==
  ASSUME NEW p \in Path, Add(p) \/ RmCached(p), TypeInv
  PROVE  \E c \in Held :
            /\ index' = [index EXCEPT ![p] = c]
            /\ staged' = [staged EXCEPT ![p] = IF Unseen(p, c) \/ c = Tip.tree[p] THEN Nothing ELSE c]
            /\ foreign' = IF Unseen(p, c) THEN foreign \cup {p} ELSE foreign \ {p}
            /\ spent' \in Spents /\ spent'.ids = spent.ids /\ spent' # spent /\ Told(p)
            /\ UNCHANGED <<hist, disk>>
<1>1. PICK c \in Held : Stages(p, c)
  <2>1. disk[p] \in Held /\ None \in Held
    BY DEF TypeInv, Tree, Held
  <2> QED
    BY <2>1 DEF Add, RmCached
<1>2. Told(p) /\ UNCHANGED <<hist, disk>>
  BY DEF Add, RmCached, Told
<1>3. spent' = [spent EXCEPT !.adds = @ + 1]
  BY <1>1 DEF Stages
<1>4. spent' \in Spents /\ spent'.ids = spent.ids /\ spent' # spent
  <2>1. spent \in Spents /\ spent.adds + 1 # spent.adds
    BY DEF TypeInv, Spents
  <2> QED
    BY <2>1, <1>3 DEF Spents
<1> QED
  BY <1>1, <1>2, <1>4 DEF Stages

LEMMA ArrivalIs ==
  ASSUME NEW p \in Path, Arrival(p), TypeInv
  PROVE  \E c \in Held :
            /\ hist' = Append(hist, [id |-> spent.ids + 1, tree |-> [Tip.tree EXCEPT ![p] = c]])
            /\ staged' = [staged EXCEPT ![p] = IF @ = c THEN Nothing ELSE @]
            /\ foreign' = foreign \cup {p} /\ ~HoldsRefLock
            /\ spent' \in Spents /\ spent'.ids = spent.ids + 1 /\ Told(p)
            /\ UNCHANGED <<index, disk>>
            /\ hist' \in Seq(Commit) /\ Len(hist') = Len(hist) + 1
            /\ \A i \in 1..Len(hist) : hist'[i] = hist[i]
            /\ hist'[Len(hist')] = [id |-> spent.ids + 1, tree |-> [Tip.tree EXCEPT ![p] = c]]
<1>1. PICK c \in Lands :
         /\ hist' = Append(hist, [id |-> spent.ids + 1, tree |-> [Tip.tree EXCEPT ![p] = c]])
         /\ staged' = [staged EXCEPT ![p] = IF @ = c THEN Nothing ELSE @]
  BY DEF Arrival
<1>2. c \in Held
  BY WorktreeConstants DEF Held, Content, None
<1>3. foreign' = foreign \cup {p} /\ ~HoldsRefLock /\ Told(p) /\ UNCHANGED <<index, disk>>
      /\ spent' = [spent EXCEPT !.arrivals = @ + 1, !.ids = @ + 1]
  BY DEF Arrival, Told
<1>4. hist \in Seq(Commit) /\ Len(hist) > 0 /\ spent \in Spents
  BY DEF TypeInv
<1>5. spent' \in Spents /\ spent'.ids = spent.ids + 1 /\ spent.ids \in Nat
  <2>1. spent.ids \in Nat /\ spent.ids + 1 \in Nat /\ spent.arrivals + 1 \in Nat
    BY <1>4 DEF Spents
  <2>2. spent' = [spent EXCEPT !.arrivals = spent.arrivals + 1, !.ids = spent.ids + 1]
    BY <1>3
  <2> QED
    BY <1>4, <2>1, <2>2 DEF Spents
<1> DEFINE new == [id |-> spent.ids + 1, tree |-> [Tip.tree EXCEPT ![p] = c]]
<1>6. new \in Commit
  BY <1>2, <1>4, <1>5, TipIsCommit DEF Commit, Tree
<1>7. hist' = Append(hist, new)
  BY <1>1
<1>8. /\ hist' \in Seq(Commit) /\ Len(hist') = Len(hist) + 1
      /\ (\A i \in 1..Len(hist) : hist'[i] = hist[i]) /\ hist'[Len(hist')] = new
  <2> HIDE DEF new
  <2> QED
    BY <1>4, <1>6, <1>7
<1> QED
  BY <1>1, <1>2, <1>3, <1>5, <1>8

LEMMA OthersType == TypeInv /\ Others => TypeInv'
<1> SUFFICES ASSUME TypeInv, Others PROVE TypeInv'
  OBVIOUS
<1>1. PICK p \in Path : Edit(p) \/ Add(p) \/ RmCached(p) \/ Arrival(p)
  BY WorktreeConstants DEF Others
<1>2. /\ hist \in Seq(Commit) /\ Len(hist) > 0 /\ disk \in Tree /\ run \in Runs
      /\ index \in [Path -> Slot] /\ staged \in [Path -> Slot \cup {Nothing}] /\ foreign \in SUBSET Path
      /\ disk[p] \in Held
  BY DEF TypeInv, Tree
<1>3. CASE Edit(p)
  <2>1. run' \in Runs /\ SameRun
    BY <1>2, <1>3, EditIs, ToldRun
  <2> QED
    BY <1>2, <1>3, <2>1, EditIs DEF TypeInv, Founded, SameRun
<1>4. CASE Add(p) \/ RmCached(p)
  <2>1. PICK c \in Held :
            /\ index' = [index EXCEPT ![p] = c]
            /\ staged' = [staged EXCEPT ![p] = IF Unseen(p, c) \/ c = Tip.tree[p] THEN Nothing ELSE c]
            /\ foreign' = IF Unseen(p, c) THEN foreign \cup {p} ELSE foreign \ {p}
            /\ spent' \in Spents /\ Told(p)
            /\ UNCHANGED <<hist, disk>>
    BY <1>4, StagesIs
  <2>2. run' \in Runs /\ SameRun
    BY <1>2, <2>1, ToldRun
  <2>3. index' \in [Path -> Slot] /\ staged' \in [Path -> Slot \cup {Nothing}] /\ foreign' \in SUBSET Path
    BY <1>2, <2>1 DEF Slot
  <2> QED
    BY <1>2, <2>1, <2>2, <2>3 DEF TypeInv, Founded, SameRun
<1>5. CASE Arrival(p)
  <2>1. PICK c \in Held :
            /\ staged' = [staged EXCEPT ![p] = IF @ = c THEN Nothing ELSE @]
            /\ foreign' = foreign \cup {p}
            /\ spent' \in Spents /\ Told(p) /\ UNCHANGED <<index, disk>>
            /\ hist' \in Seq(Commit) /\ Len(hist') = Len(hist) + 1
    BY <1>5, ArrivalIs
  <2>2. run' \in Runs /\ SameRun
    BY <1>2, <2>1, ToldRun
  <2>3. staged' \in [Path -> Slot \cup {Nothing}] /\ foreign' \in SUBSET Path
    BY <1>2, <2>1
  <2> QED
    BY <1>2, <2>1, <2>2, <2>3 DEF TypeInv, Founded, SameRun
<1> QED
  BY <1>1, <1>3, <1>4, <1>5

(* What a landing does to the history.                                       *)
New == [id |-> spent.ids + 1, tree |-> run.tmp]

LEMMA LandIs ==
  ASSUME Land, TypeInv
  PROVE  /\ run.pc = "stage" /\ run.todo = {} /\ Tip.id = run.parent /\ Contributes
         /\ hist' \in Seq(Commit) /\ Len(hist') > 0
         /\ run.op # "undo" => hist'[Len(hist')] = New
         /\ \A i \in 1..Len(hist') : hist'[i] = New \/ \E j \in 1..Len(hist) : hist'[i] = hist[j]
         /\ spent' \in Spents
         /\ run.op = "undo" => \A i \in 1..Len(hist') : i \in 1..Len(hist) /\ hist'[i] = hist[i]
         /\ run.op = "undo" => spent' = spent
         /\ run.op # "undo" => spent'.ids = spent.ids + 1
         /\ staged' = [p \in Path |-> IF staged[p] = Tip'.tree[p] THEN Nothing ELSE staged[p]]
         /\ run' = [run EXCEPT !.pc = "slots", !.base = Tip.tree, !.slots = NoTree, !.tmp = NoTree, !.seen = Empty]
         /\ UNCHANGED <<index, disk, foreign>>
<1> DEFINE before == SubSeq(hist, 1, Len(hist) - 1)
<1>1. /\ run.pc = "stage" /\ run.todo = {} /\ Tip.id = run.parent /\ Contributes
      /\ staged' = [p \in Path |-> IF staged[p] = Tip'.tree[p] THEN Nothing ELSE staged[p]]
      /\ run' = [run EXCEPT !.pc = "slots", !.base = Tip.tree, !.slots = NoTree, !.tmp = NoTree, !.seen = Empty]
      /\ UNCHANGED <<index, disk, foreign>>
  BY DEF Land, Staged, Settle, Tip
<1>2. /\ hist \in Seq(Commit) /\ Len(hist) \in Nat /\ Len(hist) > 0 /\ spent \in Spents /\ run \in Runs
      /\ (run.op = "undo" => Len(hist) > 1)
  BY <1>1 DEF TypeInv, Founded
<1>3. New \in Commit /\ spent.ids \in Nat
  BY <1>2 DEF New, Commit, Runs, Spents
<1>4. /\ before \in Seq(Commit) /\ Len(before) = Len(hist) - 1
      /\ \A i \in 1..Len(before) : before[i] = hist[i]
  <2>1. \A i \in 1..(Len(hist) - 1) : hist[i] \in Commit
    BY <1>2
  <2>2. 1 \in Int /\ Len(hist) - 1 \in Int
    BY <1>2
  <2> HIDE DEF before
  <2>3. before = SubSeq(hist, 1, Len(hist) - 1)
    BY DEF before
  <2>4. /\ before \in Seq(Commit) /\ Len(before) = (IF 1 <= Len(hist) - 1 THEN Len(hist) - 1 - 1 + 1 ELSE 0)
        /\ \A i \in 1..(Len(hist) - 1 - 1 + 1) : before[i] = hist[1 + i - 1]
    BY <2>1, <2>2, <2>3, SubSeqProperties
  <2>5. Len(before) = Len(hist) - 1
    <3>1. Len(before) = (IF 1 <= Len(hist) - 1 THEN Len(hist) - 1 - 1 + 1 ELSE 0)
      BY <2>4
    <3>2. Len(hist) \in Nat /\ Len(hist) > 0
      BY <1>2
    <3> QED
      BY <3>1, <3>2
  <2>6. ASSUME NEW i \in 1..Len(before) PROVE before[i] = hist[i]
    <3>1. i \in 1..(Len(hist) - 1 - 1 + 1) /\ 1 + i - 1 = i
      BY <1>2, <2>5, <2>6
    <3> QED
      BY <2>4, <3>1
  <2> QED
    BY <2>4, <2>5, <2>6
<1>5. /\ hist' = CASE run.op = "undo" -> before
                   [] run.op \in {"amend", "reword"} -> Append(before, New)
                   [] OTHER -> Append(hist, New)
      /\ spent' = IF run.op = "undo" THEN spent ELSE [spent EXCEPT !.ids = @ + 1]
  BY Zenon DEF Land, New
<1>6. /\ spent' \in Spents /\ (run.op = "undo" => spent' = spent)
      /\ (run.op # "undo" => spent'.ids = spent.ids + 1)
  BY <1>2, <1>3, <1>5, SMTT(30) DEF Spents
<1>7. CASE run.op = "undo"
  <2>1. hist' = before
    BY <1>5, <1>7, Zenon
  <2> HIDE DEF before
  <2> QED
    BY <1>1, <1>2, <1>4, <1>6, <1>7, <2>1
<1>8. CASE run.op \in {"amend", "reword"}
  <2>1. run.op # "undo"
    BY <1>8
  <2>2. hist' = Append(before, New)
    BY <1>5, <1>8, <2>1, Zenon
  <2> HIDE DEF before
  <2>3. /\ hist' \in Seq(Commit) /\ Len(hist') = Len(hist) /\ hist'[Len(hist')] = New
        /\ \A i \in 1..(Len(hist) - 1) : hist'[i] = hist[i]
    BY <1>2, <1>3, <1>4, <2>2
  <2>4. \A i \in 1..Len(hist') : hist'[i] = New \/ \E j \in 1..Len(hist) : hist'[i] = hist[j]
    BY <1>2, <2>3
  <2> QED
    BY <1>1, <1>2, <1>6, <2>1, <2>3, <2>4
<1>9. CASE run.op \notin {"undo", "amend", "reword"}
  <2>1. run.op # "undo" /\ run.op \notin {"amend", "reword"}
    BY <1>9
  <2>2. hist' = Append(hist, New)
    BY <1>5, <2>1, Zenon
  <2>3. /\ hist' \in Seq(Commit) /\ Len(hist') = Len(hist) + 1 /\ hist'[Len(hist')] = New
        /\ \A i \in 1..Len(hist) : hist'[i] = hist[i]
    BY <1>2, <1>3, <2>2
  <2>4. \A i \in 1..Len(hist') : hist'[i] = New \/ \E j \in 1..Len(hist) : hist'[i] = hist[j]
    BY <1>2, <2>3
  <2> QED
    BY <1>1, <1>2, <1>6, <2>1, <2>3, <2>4
<1> QED
  BY <1>7, <1>8, <1>9

(* and what a reset does.                                                    *)
LEMMA ResetIs ==
  ASSUME GitReset, TypeInv
  PROVE  /\ run.pc = "git" /\ run' = Idle /\ staged' = [p \in Path |-> Nothing] /\ foreign' = {}
         /\ spent' = spent
         /\ hist' \in Seq(Commit) /\ Len(hist') > 0 /\ Len(hist') <= Len(hist)
         /\ \A i \in 1..Len(hist') : hist'[i] = hist[i]
         /\ index' = Tip'.tree /\ Tip'.tree \in Tree
         /\ disk' = [p \in Path |-> IF index[p] # None \/ Tip'.tree[p] # None THEN Tip'.tree[p] ELSE disk[p]]
<1>1. hist \in Seq(Commit) /\ Len(hist) \in Nat /\ Len(hist) > 0
  BY DEF TypeInv
<1>2. PICK n \in {Len(hist), Len(hist) - 1} \ {0} :
         /\ hist' = SubSeq(hist, 1, n) /\ index' = hist[n].tree
         /\ disk' = [p \in Path |-> IF index[p] # None \/ hist[n].tree[p] # None THEN hist[n].tree[p] ELSE disk[p]]
  BY DEF GitReset
<1>3. n \in 1..Len(hist) /\ n \in Int /\ \A i \in 1..n : hist[i] \in Commit
  BY <1>1, <1>2
<1>4. hist' \in Seq(Commit) /\ Len(hist') = n /\ \A i \in 1..n : hist'[i] = hist[i]
  BY <1>2, <1>3, SubSeqProperties
<1>5. Tip' = hist[n] /\ Tip'.tree \in Tree
  BY <1>3, <1>4 DEF Tip, Commit
<1>6. run.pc = "git" /\ run' = Idle /\ staged' = [p \in Path |-> Nothing] /\ foreign' = {} /\ spent' = spent
  BY DEF GitReset, End
<1> QED
  BY <1>1, <1>2, <1>3, <1>4, <1>5, <1>6

(* A move of a file is between two paths.                                    *)
LEMMA RenamedIs ==
  ASSUME NEW from \in Path, NEW to \in Path, disk \in Tree
  PROVE  /\ Renamed(from, to) \in Tree
         /\ from # to => Renamed(from, to)[to] = disk[from]
         /\ Renamed(from, to)[from] = None
         /\ \A q \in Path \ {from, to} : Renamed(from, to)[q] = disk[q]
<1>1. None \in Held /\ disk[from] \in Held
  BY DEF Held, Tree
<1> QED
  BY <1>1 DEF Renamed, Tree

(* A private index is a tree, with a move or without.                        *)
LEMMA IndexEditsIs ==
  ASSUME NEW t \in Tree, run \in Runs
  PROVE  /\ IndexEdits(t) \in Tree
         /\ run.pairs = <<>> => IndexEdits(t) = t
<1>1. run.pairs \in Seq(Pair) /\ run.base \in Tree
  BY DEF Runs
<1>2. ASSUME NEW p \in Path, \E i \in DOMAIN run.pairs : run.pairs[i].new = p
      PROVE  run.base[(CHOOSE q \in Range(run.pairs) : q.new = p).old] \in Held
  <2>1. \E q \in Range(run.pairs) : q.new = p
    BY <1>2 DEF Range
  <2>2. Range(run.pairs) \subseteq Pair
    BY <1>1 DEF Range
  <2>3. (CHOOSE q \in Range(run.pairs) : q.new = p) \in Pair
    BY <2>1, <2>2
  <2> QED
    BY <2>3, <1>1 DEF Pair, Tree
<1>3. None \in Held /\ \A p \in Path : t[p] \in Held
  BY DEF Held, Tree
<1>4. IndexEdits(t) \in Tree
  BY <1>2, <1>3 DEF IndexEdits, Tree
<1>5. ASSUME run.pairs = <<>> PROVE IndexEdits(t) = t
  <2>1. DOMAIN run.pairs = {}
    BY <1>5
  <2> QED
    BY <2>1 DEF IndexEdits, Tree
<1> QED
  BY <1>4, <1>5

(* Staging of one path changes the private index there alone.                *)
LEMMA StageFileIs ==
  ASSUME NEW p \in Path, StageFile(p), TypeInv, run.todo \subseteq DOMAIN run.entries
  PROVE  /\ run.pc = "stage" /\ p \in run.todo
         /\ UNCHANGED <<hist, index, disk, staged, foreign, spent>>
         /\ \/ run' = Idle
            \/ /\ CanStage(p) /\ StagedAs(p) \in Held
               /\ run' = [run EXCEPT !.tmp = [run.tmp EXCEPT ![p] = StagedAs(p)], !.todo = @ \ {p}]
<1>1. /\ run.pc = "stage" /\ p \in run.todo /\ UNCHANGED <<hist, index, disk, staged, foreign, spent>>
      /\ \/ run' = Idle
         \/ CanStage(p) /\ run' = [run EXCEPT !.tmp[p] = StagedAs(p), !.todo = @ \ {p}]
  BY DEF StageFile, End
<1>2. run \in Runs /\ disk \in Tree
  BY DEF TypeInv
<1>3. p \in DOMAIN run.entries /\ run.entries[p] \in Kinds /\ run.tmp[p] \in Held /\ disk[p] \in Held
  BY <1>1, <1>2 DEF Runs, Some, Tree
<1>4. ASSUME CanStage(p) PROVE StagedAs(p) \in Held
  <2>1. CASE run.entries[p] \in Region
    <3>1. run.tmp[p] \in Content
      BY <1>3, <1>4, <2>1, StagedAsIs DEF Held
    <3> QED
      BY <1>3, <1>4, <2>1, <3>1, StagedAsIs, HunkIsContent
  <2>2. CASE run.entries[p] \notin Region
    <3>1. run.entries[p] = Whole \/ run.entries[p] = Untrack
      BY <1>3, <2>2, EntryKinds
    <3> QED
      BY <1>3, <3>1, StagedAsIs DEF Held
  <2> QED
    BY <2>1, <2>2
<1> QED
  BY <1>1, <1>2, <1>4 DEF Runs

(* Where a run stages, what is left to stage is what it names.               *)
Naming == {"commit", "amend", "reword"}
Shape ==
    /\ run.pc = "stage" => run.todo \subseteq DOMAIN run.entries
    /\ run.pc \in {"parent", "stage"} => run.op \in Naming \cup {"undo", "mv"}
    /\ run.pc \in {"move", "rollback"} => run.op = "mv" /\ run.pairs \in Moves
    /\ run.op \in Naming => run.pairs = <<>> /\ run.pc \in {"parent", "stage", "slots", "sync", "replay"}
    /\ run.pc = "idle" => run = Idle

(* Steps that change nothing but the run.                                    *)
RunAlone == UNCHANGED <<hist, index, disk, staged, foreign, spent>>

LEMMA RunAloneType ==
  ASSUME TypeInv, RunAlone, run' \in Runs, run'.op = "undo" /\ run'.pc \in {"parent", "stage"} => Len(hist) > 1
  PROVE  TypeInv'
BY DEF TypeInv, RunAlone, Founded

LEMMA StepsType == TypeInv /\ Shape /\ Steps => TypeInv'
<1> SUFFICES ASSUME TypeInv, Shape, Steps PROVE TypeInv'
  OBVIOUS
<1>1. /\ hist \in Seq(Commit) /\ Len(hist) > 0 /\ disk \in Tree /\ run \in Runs /\ spent \in Spents
      /\ index \in [Path -> Slot] /\ staged \in [Path -> Slot \cup {Nothing}] /\ foreign \in SUBSET Path
      /\ (run.op = "undo" /\ run.pc \in {"parent", "stage"} => Len(hist) > 1)
  BY DEF TypeInv, Founded
<1>2. /\ Tip.tree \in Tree /\ Tip.id \in Nat /\ Tip.tree \in [Path -> Slot]
      /\ disk \in [Path -> Slot] /\ Idle \in Runs /\ NoTree \in Tree
      /\ NoTree \in [Path -> Slot] /\ Idle.op = "none" /\ Empty \in Some(Path, SUBSET Held)
  <2>1. /\ Tip.tree \in Tree /\ Tip.id \in Nat /\ Idle \in Runs /\ NoTree \in Tree /\ Idle.op = "none"
        /\ Idle.seen = Empty
    BY <1>1, TipIsCommit, IdleIsRun DEF Idle
  <2>2. \A t \in Tree : t \in [Path -> Slot]
    BY DEF Tree, Slot
  <2>3. Idle.seen \in Some(Path, SUBSET Held)
    BY <2>1 DEF Runs
  <2> QED
    BY <1>1, <2>1, <2>2, <2>3
<1>3. ASSUME run' = Idle, RunAlone PROVE TypeInv'
  BY <1>2, <1>3, RunAloneType
<1>4. CASE ReadParent
  <2>1. /\ RunAlone /\ run.pc = "parent"
        /\ run' = [run EXCEPT !.pc = "stage", !.parent = Tip.id, !.base = IF run.op = "mv" THEN @ ELSE Tip.tree,
                          !.tmp = IndexEdits(Tip.tree), !.slots = Tip.tree, !.todo = DOMAIN run.entries]
    BY <1>4 DEF ReadParent, RunAlone
  <2>2. IndexEdits(Tip.tree) \in Tree /\ DOMAIN run.entries \subseteq Path
    <3>1. run.entries \in Some(Path, Kinds)
      BY <1>1 DEF Runs
    <3> QED
      BY <1>1, <1>2, <3>1, IndexEditsIs DEF Some
  <2>3. run' \in Runs /\ run'.op = run.op
    BY <1>1, <1>2, <2>1, <2>2 DEF Runs, Pcs
  <2> QED
    BY <1>1, <2>1, <2>3, RunAloneType
<1>5. ASSUME NEW p \in Path, StageFile(p) PROVE TypeInv'
  <2>1. RunAlone /\ run.pc = "stage"
    BY <1>5 DEF StageFile, RunAlone
  <2>2. CASE run' = Idle
    BY <1>3, <2>1, <2>2
  <2>3. CASE run' # Idle
    <3>1. /\ StagedAs(p) \in Held
          /\ run' = [run EXCEPT !.tmp = [run.tmp EXCEPT ![p] = StagedAs(p)], !.todo = @ \ {p}]
      BY <1>5, <2>1, <2>3, StageFileIs DEF Shape
    <3>2. [run.tmp EXCEPT ![p] = StagedAs(p)] \in Tree
      BY <1>1, <3>1 DEF Runs, Tree
    <3>3. run' \in Runs /\ run'.op = run.op /\ run'.pc = run.pc
      BY <1>1, <3>1, <3>2 DEF Runs
    <3> QED
      BY <1>1, <2>1, <3>3, RunAloneType
  <2> QED
    BY <2>2, <2>3
<1>6. CASE RefuseEmpty
  BY <1>3, <1>6 DEF RefuseEmpty, End, RunAlone
<1>7. CASE Retry
  <2>1. RunAlone /\ run.pc = "stage"
        /\ (run' = Idle \/ run' = [run EXCEPT !.pc = "parent", !.attempt = @ + 1, !.tmp = NoTree])
    BY <1>7 DEF Retry, RunAlone, Again, End, Staged
  <2>2. CASE run' = Idle
    BY <1>3, <2>1, <2>2
  <2>3. CASE run' # Idle
    <3>0. run.attempt + 1 \in Nat /\ run' = [run EXCEPT !.pc = "parent", !.attempt = run.attempt + 1, !.tmp = NoTree]
      BY <1>1, <2>1, <2>3 DEF Runs
    <3>1. run' \in Runs /\ run'.op = run.op /\ run.pc = "stage"
      BY <1>1, <1>2, <2>1, <3>0 DEF Runs, Pcs
    <3> QED
      BY <1>1, <2>1, <3>1, RunAloneType
  <2> QED
    BY <2>2, <2>3
<1>8. CASE ReadSlots
  <2>1. RunAlone /\ run' = [run EXCEPT !.pc = "sync", !.slots = index]
    BY <1>8 DEF ReadSlots, RunAlone
  <2>2. run' \in Runs /\ run'.pc = "sync"
    BY <1>1, <2>1 DEF Runs, Pcs
  <2> QED
    BY <2>1, <2>2, RunAloneType
<1>9. CASE MovesMade
  <2>1. RunAlone /\ run.pc = "move" /\ (run' = Idle \/ run' = [run EXCEPT !.pc = "parent"])
    BY <1>9 DEF MovesMade, RunAlone, End
  <2>2. CASE run' = Idle
    BY <1>3, <2>1, <2>2
  <2>3. CASE run' # Idle
    <3>1. run' \in Runs /\ run'.op = run.op /\ run.op = "mv"
      BY <1>1, <2>1, <2>3 DEF Runs, Pcs, Shape
    <3> QED
      BY <2>1, <3>1, RunAloneType
  <2> QED
    BY <2>2, <2>3
<1>10. CASE RolledBack
  BY <1>3, <1>10 DEF RolledBack, End, RunAlone
<1>11. CASE Replan
  <2>1. RunAlone /\ (run' = Idle \/ run' = [run EXCEPT !.pc = "repair", !.todo = Orphans, !.slots = disk])
    BY <1>11 DEF Replan, RunAlone, End
  <2>2. CASE run' = Idle
    BY <1>3, <2>1, <2>2
  <2>3. CASE run' # Idle
    <3>1. Orphans \in SUBSET Path
      BY DEF Orphans
    <3>2. run' \in Runs /\ run'.pc = "repair"
      BY <1>1, <1>2, <2>1, <2>3, <3>1, ZenonT(30) DEF Runs, Pcs
    <3> QED
      BY <2>1, <3>2, RunAloneType
  <2> QED
    BY <2>2, <2>3
<1>12. CASE Repaired
  BY <1>3, <1>12 DEF Repaired, End, RunAlone
<1>13. CASE Land
  <2>1. run' \in Runs /\ run'.pc = "slots"
    <3>1. run' = [run EXCEPT !.pc = "slots", !.base = Tip.tree, !.slots = NoTree, !.tmp = NoTree, !.seen = Empty]
      BY <1>13, LandIs
    <3> QED
      BY <1>1, <1>2, <3>1 DEF Runs, Pcs
  <2>2. staged' \in [Path -> Slot \cup {Nothing}]
    <3>1. staged' = [p \in Path |-> IF staged[p] = Tip'.tree[p] THEN Nothing ELSE staged[p]]
      BY <1>13, LandIs
    <3> QED
      BY <1>1, <3>1
  <2> QED
    BY <1>1, <1>13, <2>1, <2>2, LandIs DEF TypeInv, Founded
<1>14. CASE ReadTree
  <2>1. UNCHANGED <<hist, disk, staged, foreign, spent>> /\ index' = Tip.tree /\ run' = [run EXCEPT !.pc = "replay"]
    BY <1>14 DEF ReadTree
  <2>2. run' \in Runs /\ run'.pc = "replay"
    BY <1>1, <2>1 DEF Runs, Pcs
  <2> QED
    BY <1>1, <1>2, <2>1, <2>2 DEF TypeInv, Founded
<1>15. CASE ReplayBatch
  <2>1. /\ UNCHANGED <<hist, disk, spent>> /\ run' = Idle
        /\ index' = [p \in Path |-> IF Replay(run.slots, run.base, p) THEN run.slots[p] ELSE index[p]]
        /\ staged' = [p \in Path |-> IF p \in Owned THEN Nothing ELSE staged[p]]
        /\ foreign' = foreign \ (Owned \ run.touched)
    BY <1>15 DEF ReplayBatch, End
  <2>2. index' \in [Path -> Slot]
    BY <1>1, <2>1 DEF Runs
  <2>3. staged' \in [Path -> Slot \cup {Nothing}] /\ foreign' \in SUBSET Path
    BY <1>1, <2>1
  <2> QED
    BY <1>1, <1>2, <2>1, <2>2, <2>3 DEF TypeInv, Founded
<1>16. CASE ReconcileFails
  <2>1. /\ UNCHANGED <<hist, index, disk, spent>> /\ run' = Idle /\ foreign' = Path
        /\ staged' = [p \in Path |-> IF run.pc = "replay" THEN Nothing ELSE staged[p]]
    BY <1>16 DEF ReconcileFails, End
  <2>2. staged' \in [Path -> Slot \cup {Nothing}] /\ foreign' \in SUBSET Path
    BY <1>1, <2>1
  <2> QED
    BY <1>1, <1>2, <2>1, <2>2 DEF TypeInv, Founded
<1>17. CASE Rename
  <2>1. /\ UNCHANGED <<hist, index, staged, foreign, spent>> /\ run.pc = "move"
        /\ Len(run.done) < Len(run.pairs)
        /\ \/ /\ disk' = Renamed(run.pairs[Len(run.done) + 1].old, run.pairs[Len(run.done) + 1].new)
              /\ run' = [run EXCEPT !.done = Append(@, run.pairs[Len(run.done) + 1])]
           \/ disk' = disk /\ run' = [run EXCEPT !.pc = "rollback"]
    BY <1>17 DEF Rename
  <2>2. run.pairs[Len(run.done) + 1] \in Pair
    BY <1>1, <2>1 DEF Runs
  <2>3. disk' \in Tree
    BY <1>1, <2>1, <2>2, RenamedIs DEF Pair
  <2>4. run' \in Runs /\ run'.pc \in {"move", "rollback"}
    <3> DEFINE D == Append(run.done, run.pairs[Len(run.done) + 1])
    <3>1. D \in Seq(Pair)
      BY <1>1, <2>2 DEF Runs
    <3>2. run' = [run EXCEPT !.done = D] \/ run' = [run EXCEPT !.pc = "rollback"]
      BY <2>1
    <3> HIDE DEF D
    <3>3. CASE run' = [run EXCEPT !.done = D]
      BY <1>1, <2>1, <3>1, <3>3 DEF Runs
    <3>4. CASE run' = [run EXCEPT !.pc = "rollback"]
      BY <1>1, <3>4 DEF Runs, Pcs
    <3> QED
      BY <3>2, <3>3, <3>4
  <2> QED
    BY <1>1, <2>1, <2>3, <2>4 DEF TypeInv, Founded
<1>18. CASE RollBack
  <2>1. /\ UNCHANGED <<hist, index, staged, foreign, spent>> /\ run.pc = "rollback" /\ run.done # <<>>
        /\ \/ disk' = Renamed(run.done[Len(run.done)].new, run.done[Len(run.done)].old) \/ disk' = disk
        /\ \/ run' = [run EXCEPT !.done = SubSeq(run.done, 1, Len(run.done) - 1)]
           \/ run' = [run EXCEPT !.done = SubSeq(run.done, 1, Len(run.done) - 1), !.warned = TRUE]
    BY <1>18 DEF RollBack, PutBack, Last, Front
  <2>2. run.done \in Seq(Pair)
    BY <1>1 DEF Runs
  <2>3. run.done[Len(run.done)] \in Pair /\ SubSeq(run.done, 1, Len(run.done) - 1) \in Seq(Pair)
    <3>1. Len(run.done) \in Nat /\ \A i \in 1..(Len(run.done) - 1) : run.done[i] \in Pair
      BY <2>2
    <3> QED
      BY <2>1, <2>2, <3>1, SubSeqProperties
  <2>4. disk' \in Tree
    BY <1>1, <2>1, <2>3, RenamedIs DEF Pair
  <2>5. run' \in Runs /\ run'.pc = "rollback"
    <3> DEFINE D == SubSeq(run.done, 1, Len(run.done) - 1)
    <3>1. run' = [run EXCEPT !.done = D] \/ run' = [run EXCEPT !.done = D, !.warned = TRUE]
      BY <2>1
    <3>2. D \in Seq(Pair)
      BY <2>3
    <3> HIDE DEF D
    <3>3. CASE run' = [run EXCEPT !.done = D]
      BY <1>1, <2>1, <3>2, <3>3 DEF Runs
    <3>4. CASE run' = [run EXCEPT !.done = D, !.warned = TRUE]
      BY <1>1, <2>1, <3>2, <3>4 DEF Runs
    <3> QED
      BY <3>1, <3>3, <3>4
  <2> QED
    BY <1>1, <2>1, <2>4, <2>5 DEF TypeInv, Founded
<1>19. CASE GitReset
  <2>1. disk' \in Tree
    <3>1. /\ Tip'.tree \in Tree
          /\ disk' = [p \in Path |-> IF index[p] # None \/ Tip'.tree[p] # None THEN Tip'.tree[p] ELSE disk[p]]
      BY <1>19, ResetIs
    <3> QED
      BY <1>1, <3>1 DEF Tree
  <2>2. staged' \in [Path -> Slot \cup {Nothing}] /\ index' \in [Path -> Slot] /\ foreign' \in SUBSET Path
    <3>1. Tip'.tree \in Tree /\ index' = Tip'.tree /\ staged' = [p \in Path |-> Nothing] /\ foreign' = {}
      BY <1>19, ResetIs
    <3> QED
      BY <3>1 DEF Tree, Slot
  <2>3. run' = Idle /\ spent' = spent /\ hist' \in Seq(Commit) /\ Len(hist') > 0
    BY <1>19, ResetIs
  <2> QED
    BY <1>1, <1>2, <2>1, <2>2, <2>3 DEF TypeInv, Founded
<1>20. ASSUME NEW p \in Path, Repair(p) PROVE TypeInv'
  <2>1. UNCHANGED <<hist, disk, foreign, spent>> /\ run' = [run EXCEPT !.todo = @ \ {p}] /\ run.pc = "repair"
    BY <1>20 DEF Repair
  <2>2. run' \in Runs /\ run'.pc = "repair"
    BY <1>1, <2>1 DEF Runs
  <2>3. index' \in [Path -> Slot] /\ staged' \in [Path -> Slot \cup {Nothing}]
    <3>1. \/ UNCHANGED <<index, staged>>
          \/ \E c \in {None, disk[p]} :
                /\ index' = [index EXCEPT ![p] = c]
                /\ staged' = [staged EXCEPT ![p] = IF @ # Unmerged THEN @ ELSE IF c = Tip.tree[p] THEN Nothing ELSE c]
      BY <1>20 DEF Repair
    <3>2. None \in Slot /\ disk[p] \in Slot
      BY <1>1 DEF Tree, Held, Slot
    <3> QED
      BY <1>1, <3>1, <3>2
  <2> QED
    BY <1>1, <2>1, <2>2, <2>3 DEF TypeInv, Founded
<1> QED
  BY <1>4, <1>5, <1>6, <1>7, <1>8, <1>9, <1>10, <1>11, <1>12, <1>13, <1>14, <1>15, <1>16, <1>17, <1>18,
     <1>19, <1>20 DEF Steps

---------------------------------------------------------------------------
(* Where a run is.                                                           *)
LEMMA ShapeStep == TypeInv /\ Shape /\ Next => Shape'
<1> SUFFICES ASSUME TypeInv, Shape, Next PROVE Shape'
  OBVIOUS
<1>1. run \in Runs
  BY DEF TypeInv
<1>2. ASSUME run' = Idle PROVE Shape'
  BY <1>2 DEF Shape, Idle, Naming
<1>3. ASSUME Others PROVE Shape'
  <2>1. PICK p \in Path : Edit(p) \/ Add(p) \/ RmCached(p) \/ Arrival(p)
    BY <1>3, WorktreeConstants DEF Others
  <2>2. disk'[p] \in Held /\ Told(p)
    <3>1. disk[p] \in Held
      BY DEF TypeInv, Tree
    <3>2. CASE Edit(p)
      BY <3>2, EditIs
    <3>3. CASE Add(p) \/ RmCached(p)
      BY <3>1, <3>3, StagesIs
    <3>4. CASE Arrival(p)
      BY <3>1, <3>4, ArrivalIs
    <3> QED
      BY <2>1, <3>2, <3>3, <3>4
  <2>3. SameRun /\ (run.pc = "idle" => run' = run)
    BY <1>1, <2>2, ToldRun DEF Told
  <2> QED
    BY <2>3 DEF SameRun, Shape
<1>4. ASSUME NEW op \in {"undo", "reset"}, NEW pc \in {"parent", "git"}, Starts(op, pc, Empty),
             pc = "parent" => op = "undo"
      PROVE  Shape'
  <2>1. run'.pc = pc /\ run'.op = op
    BY <1>4 DEF Starts, Idle
  <2> QED
    BY <2>1, <1>4 DEF Shape, Naming
<1>5. ASSUME NEW op \in Naming, NEW e, Starts(op, "parent", e) PROVE Shape'
  <2>1. run'.pc = "parent" /\ run'.op = op /\ run'.pairs = <<>>
    BY <1>5 DEF Starts, Idle
  <2> QED
    BY <2>1, <1>5 DEF Shape, Naming
<1>6. CASE Begins
  <2>1. CASE BeginCommit
    BY <2>1, <1>5 DEF BeginCommit, Naming
  <2>2. CASE BeginReword
    BY <2>2, <1>5 DEF BeginReword, Naming
  <2>3. CASE BeginUndo
    BY <2>3, <1>4 DEF BeginUndo
  <2>4. CASE BeginReset
    BY <2>4, <1>4 DEF BeginReset
  <2>5. CASE BeginMv
    <3>1. run'.pc = "move" /\ run'.op = "mv" /\ run'.pairs \in Moves
      BY <2>5 DEF BeginMv, Idle
    <3> QED
      BY <3>1 DEF Shape, Naming
  <2>6. CASE BeginDoctor
    <3>1. run'.pc = "replan" /\ run'.op = "doctor"
      BY <2>6 DEF BeginDoctor, Idle
    <3> QED
      BY <3>1 DEF Shape, Naming
  <2> QED
    BY <1>6, <2>1, <2>2, <2>3, <2>4, <2>5, <2>6 DEF Begins
<1>7. CASE Steps
  <2>1. CASE ReadParent
    <3>1. run.pc = "parent" /\ run'.pc = "stage" /\ run'.op = run.op /\ run'.pairs = run.pairs
          /\ run'.todo = DOMAIN run'.entries
      BY <1>1, <2>1 DEF ReadParent, Runs
    <3> QED
      BY <3>1 DEF Shape, Naming
  <2>2. ASSUME NEW p \in Path, StageFile(p) PROVE Shape'
    <3>1. run.pc = "stage" /\ (run' = Idle \/ run' = [run EXCEPT !.tmp[p] = StagedAs(p), !.todo = @ \ {p}])
      BY <2>2 DEF StageFile, End
    <3>2. CASE run' # Idle
      <4>1. /\ run'.pc = run.pc /\ run'.op = run.op /\ run'.pairs = run.pairs /\ run'.entries = run.entries
            /\ run'.todo \subseteq run.todo
        BY <1>1, <3>1, <3>2 DEF Runs
      <4> QED
        BY <3>1, <4>1 DEF Shape, Naming
    <3> QED
      BY <1>2, <3>2
  <2>3. CASE Retry
    <3>1. run.pc = "stage" /\ (run' = Idle \/ run' = [run EXCEPT !.pc = "parent", !.attempt = @ + 1, !.tmp = NoTree])
      BY <2>3 DEF Retry, Again, End, Staged
    <3>2. CASE run' # Idle
      <4>1. run'.pc = "parent" /\ run'.op = run.op /\ run'.pairs = run.pairs
        BY <1>1, <3>1, <3>2 DEF Runs
      <4> QED
        BY <3>1, <4>1 DEF Shape, Naming
    <3> QED
      BY <1>2, <3>2
  <2>4. CASE Land
    <3>1. /\ run.pc = "stage"
          /\ run' = [run EXCEPT !.pc = "slots", !.base = Tip.tree, !.slots = NoTree, !.tmp = NoTree, !.seen = Empty]
      BY <2>4, LandIs
    <3>2. run'.pc = "slots" /\ run'.op = run.op /\ run'.pairs = run.pairs
      BY <1>1, <3>1 DEF Runs
    <3> QED
      BY <3>2 DEF Shape, Naming
  <2>5. CASE ReadSlots \/ ReadTree
    <3>1. run'.pc \in {"sync", "replay"} /\ run'.op = run.op /\ run'.pairs = run.pairs
      BY <1>1, <2>5 DEF ReadSlots, ReadTree, Runs
    <3> QED
      BY <3>1 DEF Shape, Naming
  <2>6. CASE Rename
    <3>1. run.pc = "move" /\ run'.pc \in {"move", "rollback"} /\ run'.op = run.op /\ run'.pairs = run.pairs
      <4>1. /\ run.pc = "move"
            /\ \/ run' = [run EXCEPT !.done = Append(@, run.pairs[Len(run.done) + 1])]
               \/ run' = [run EXCEPT !.pc = "rollback"]
        BY <2>6 DEF Rename
      <4> QED
        BY <1>1, <4>1 DEF Runs
    <3> QED
      BY <3>1 DEF Shape, Naming
  <2>7. CASE MovesMade
    <3>1. run.pc = "move" /\ (run' = Idle \/ run' = [run EXCEPT !.pc = "parent"])
      BY <2>7 DEF MovesMade, End
    <3>2. CASE run' # Idle
      <4>1. run'.pc = "parent" /\ run'.op = run.op /\ run'.pairs = run.pairs
        BY <1>1, <3>1, <3>2 DEF Runs
      <4> QED
        BY <3>1, <4>1 DEF Shape, Naming
    <3> QED
      BY <1>2, <3>2
  <2>8. CASE RollBack
    <3>1. run.pc = "rollback" /\ run'.pc = "rollback" /\ run'.op = run.op /\ run'.pairs = run.pairs
      <4>1. /\ run.pc = "rollback"
            /\ \/ run' = [run EXCEPT !.done = Front(run.done)]
               \/ run' = [run EXCEPT !.done = Front(run.done), !.warned = TRUE]
        BY <2>8 DEF RollBack
      <4> QED
        BY <1>1, <4>1 DEF Runs
    <3> QED
      BY <3>1 DEF Shape, Naming
  <2>9. CASE Replan
    <3>1. run.pc = "replan" /\ (run' = Idle \/ run' = [run EXCEPT !.pc = "repair", !.todo = Orphans, !.slots = disk])
      BY <2>9 DEF Replan, End
    <3>2. CASE run' # Idle
      <4>1. run'.pc = "repair" /\ run'.op = run.op
        BY <1>1, <3>1, <3>2 DEF Runs
      <4> QED
        BY <3>1, <4>1 DEF Shape, Naming
    <3> QED
      BY <1>2, <3>2
  <2>10. ASSUME NEW p \in Path, Repair(p) PROVE Shape'
    <3>1. run'.pc = "repair" /\ run.pc = "repair" /\ run'.op = run.op
      <4>1. run.pc = "repair" /\ run' = [run EXCEPT !.todo = @ \ {p}]
        BY <2>10 DEF Repair
      <4> QED
        BY <1>1, <4>1 DEF Runs
    <3> QED
      BY <3>1 DEF Shape, Naming
  <2>11. CASE RefuseEmpty \/ ReplayBatch \/ ReconcileFails \/ RolledBack \/ GitReset \/ Repaired
    <3>1. run' = Idle
      BY <2>11 DEF RefuseEmpty, ReplayBatch, ReconcileFails, RolledBack, GitReset, Repaired, End
    <3> QED
      BY <1>2, <3>1
  <2> QED
    BY <1>7, <2>1, <2>2, <2>3, <2>4, <2>5, <2>6, <2>7, <2>8, <2>9, <2>10, <2>11 DEF Steps
<1> QED
  BY <1>3, <1>6, <1>7 DEF Next

LEMMA TypeStep == TypeInv /\ Shape /\ [Next]_vars => TypeInv' /\ Shape'
<1> SUFFICES ASSUME TypeInv, Shape, [Next]_vars PROVE TypeInv' /\ Shape'
  OBVIOUS
<1>1. CASE Next
  BY <1>1, BeginsType, OthersType, StepsType, ShapeStep DEF Next
<1>2. CASE UNCHANGED vars
  <2>1. UNCHANGED <<hist, index, disk, staged, foreign, run, spent>>
    BY <1>2 DEF vars
  <2> QED
    BY <2>1 DEF TypeInv, Shape, Founded
<1> QED
  BY <1>1, <1>2

LEMMA InitShape == Init => Shape
BY DEF Init, Shape, Idle, Naming

(* The worktree is type correct.                                             *)
THEOREM TypeCorrect == Spec => []TypeOK
<1>1. Init => TypeInv /\ Shape
  BY InitType, InitShape
<1>2. TypeInv /\ Shape /\ [Next]_vars => TypeInv' /\ Shape'
  BY TypeStep
<1>3. TypeInv => TypeOK
  <2> SUFFICES ASSUME TypeInv PROVE TypeOK
    OBVIOUS
  <2>1. \A i \in DOMAIN hist : hist[i].tree \in [Path -> Content \cup {None}]
    <3>1. \A i \in DOMAIN hist : hist[i] \in Commit
      BY DEF TypeInv
    <3> QED
      BY <3>1 DEF Commit, Tree, Held
  <2>2. /\ index \in [Path -> Content \cup {None, Unmerged}] /\ disk \in [Path -> Content \cup {None}]
        /\ staged \in [Path -> Content \cup {None, Unmerged, Nothing}] /\ foreign \subseteq Path
    <3>1. /\ Slot = Content \cup {None, Unmerged} /\ Slot \cup {Nothing} = Content \cup {None, Unmerged, Nothing}
      BY DEF Slot, Held
    <3> QED
      BY <3>1 DEF TypeInv, Tree, Held
  <2> QED
    BY <2>1, <2>2 DEF TypeOK
<1> QED
  BY <1>1, <1>2, <1>3, PTL DEF Spec

---------------------------------------------------------------------------
(* The index.  Outside a reconciliation it holds what is staged, and         *)
(* elsewhere what the tip has, unless a commit of others left it behind.     *)
(* While the branch has moved and the index has not, what is staged is what  *)
(* neither the old tip has nor the new one.                                  *)
Reconciles == run.pc \in {"slots", "sync", "replay"}
StagedHeld == run.pc # "replay" => \A p \in Path : staged[p] # Nothing => index[p] = staged[p]
StagedIsNew ==
    \A p \in Path : staged[p] # Nothing =>
       /\ staged[p] # Tip.tree[p]
       /\ Reconciles => staged[p] # run.base[p]
Settled ==
    \A p \in Path \ foreign : staged[p] = Nothing =>
       /\ ~Reconciles => index[p] = Tip.tree[p]
       /\ run.pc = "slots" => index[p] \in {run.base[p], Tip.tree[p]}
       /\ run.pc \in {"sync", "replay"} => run.slots[p] \in {run.base[p], Tip.tree[p]}

(* What was read of it holds what is staged; once the tree is read the index *)
(* is the tree, but for what others staged since.                            *)
Remembered == run.pc \in {"sync", "replay"} => \A p \in Path : staged[p] # Nothing => run.slots[p] = staged[p]
Reread == run.pc = "replay" => \A p \in Path : p \notin foreign \/ p \notin run.touched => index[p] = Tip.tree[p]

(* What doctor is to repair is a conflict, or was staged over meanwhile.     *)
Conflicted ==
    run.pc = "repair" => \A p \in run.todo : staged[p] = Unmerged \/ (staged[p] = Nothing /\ p \in foreign)

IndexInv == StagedHeld /\ StagedIsNew /\ Settled /\ Remembered /\ Reread /\ Conflicted

(* Steps that leave the index be and reconcile nothing.                      *)
LEMMA IndexFrame ==
  ASSUME IndexInv, UNCHANGED <<hist, index, staged, foreign>>, ~Reconciles, ~Reconciles',
         run'.pc = "repair" => run.pc = "repair" /\ run'.todo \subseteq run.todo
  PROVE  IndexInv'
<1>1. Tip' = Tip
  BY DEF Tip
<1>2. StagedHeld' /\ Remembered' /\ Reread'
  BY DEF IndexInv, StagedHeld, Remembered, Reread, Reconciles
<1>3. StagedIsNew'
  BY <1>1 DEF IndexInv, StagedIsNew
<1>4. Settled'
  BY <1>1 DEF IndexInv, Settled, Reconciles
<1>5. Conflicted'
  BY DEF IndexInv, Conflicted
<1> QED
  BY <1>2, <1>3, <1>4, <1>5 DEF IndexInv

(* What others do to it.                                                     *)
LEMMA EditIndex ==
  ASSUME NEW p \in Path, Edit(p), TypeInv, IndexInv
  PROVE  IndexInv'
<1>1. UNCHANGED <<hist, index, staged, foreign>> /\ Tip' = Tip
  BY EditIs DEF Tip
<1>2. SameRun /\ run.touched \subseteq run'.touched
  BY EditIs, ToldRun DEF TypeInv
<1>3. StagedHeld' /\ Remembered' /\ Conflicted'
  BY <1>1, <1>2 DEF IndexInv, StagedHeld, Remembered, Conflicted, SameRun
<1>4. StagedIsNew'
  BY <1>1, <1>2 DEF IndexInv, StagedIsNew, SameRun, Reconciles
<1>5. Settled'
  BY <1>1, <1>2 DEF IndexInv, Settled, SameRun, Reconciles
<1>6. Reread'
  BY <1>1, <1>2 DEF IndexInv, Reread, SameRun
<1> QED
  BY <1>3, <1>4, <1>5, <1>6 DEF IndexInv

LEMMA StagesIndex ==
  ASSUME NEW p \in Path, Add(p) \/ RmCached(p), TypeInv, IndexInv
  PROVE  IndexInv'
<1>1. PICK c \in Held :
            /\ index' = [index EXCEPT ![p] = c]
            /\ staged' = [staged EXCEPT ![p] = IF Unseen(p, c) \/ c = Tip.tree[p] THEN Nothing ELSE c]
            /\ foreign' = IF Unseen(p, c) THEN foreign \cup {p} ELSE foreign \ {p}
            /\ Told(p) /\ UNCHANGED <<hist, disk>>
  BY StagesIs
<1>2. disk'[p] \in Held /\ run \in Runs /\ index \in [Path -> Slot] /\ staged \in [Path -> Slot \cup {Nothing}]
      /\ foreign \in SUBSET Path /\ Tip' = Tip
  BY <1>1 DEF TypeInv, Tree, Tip
<1>3. SameRun /\ run.touched \subseteq run'.touched /\ (run.pc # "idle" => p \in run'.touched)
  BY <1>1, <1>2, ToldRun
<1>4. \A q \in Path \ {p} : index'[q] = index[q] /\ staged'[q] = staged[q] /\ (q \in foreign' <=> q \in foreign)
  BY <1>1, <1>2
<1>5. index'[p] = c /\ c # Nothing
      /\ \/ Unseen(p, c) /\ staged'[p] = Nothing /\ p \in foreign'
         \/ ~Unseen(p, c) /\ c = Tip.tree[p] /\ staged'[p] = Nothing
         \/ ~Unseen(p, c) /\ c # Tip.tree[p] /\ staged'[p] = c
  BY <1>1, <1>2, Apart DEF Slot
<1>6. /\ run.pc \in {"sync", "replay"} => Unseen(p, c)
      /\ run.pc = "slots" /\ c = run.base[p] => Unseen(p, c)
      /\ run.pc = "repair" /\ p \in run.todo => Unseen(p, c)
  BY DEF Unseen, Reconciling
<1>7. /\ run'.pc = run.pc /\ run'.base = run.base /\ run'.slots = run.slots /\ run'.todo = run.todo
      /\ (Reconciles' <=> Reconciles)
  BY <1>3 DEF SameRun, Reconciles
<1>8. StagedHeld'
  <2> SUFFICES ASSUME run'.pc # "replay", NEW q \in Path, staged'[q] # Nothing PROVE index'[q] = staged'[q]
    BY DEF StagedHeld
  <2> QED
    BY <1>4, <1>5, <1>7 DEF IndexInv, StagedHeld
<1>9. StagedIsNew'
  <2> SUFFICES ASSUME NEW q \in Path, staged'[q] # Nothing
               PROVE  staged'[q] # Tip'.tree[q] /\ (Reconciles' => staged'[q] # run'.base[q])
    BY DEF StagedIsNew
  <2> QED
    BY <1>2, <1>4, <1>5, <1>6, <1>7 DEF IndexInv, StagedIsNew, Reconciles
<1>10. Settled'
  <2> SUFFICES ASSUME NEW q \in Path \ foreign', staged'[q] = Nothing
               PROVE  /\ ~Reconciles' => index'[q] = Tip'.tree[q]
                      /\ run'.pc = "slots" => index'[q] \in {run'.base[q], Tip'.tree[q]}
                      /\ run'.pc \in {"sync", "replay"} => run'.slots[q] \in {run'.base[q], Tip'.tree[q]}
    BY DEF Settled
  <2>1. CASE q = p
    BY <1>2, <1>5, <1>6, <1>7, <2>1
  <2>2. CASE q # p
    <3>1. q \in Path \ foreign /\ staged[q] = Nothing /\ index'[q] = index[q]
      BY <1>4, <2>2
    <3> QED
      BY <1>2, <1>7, <3>1 DEF IndexInv, Settled
  <2> QED
    BY <2>1, <2>2
<1>11. Remembered'
  <2> SUFFICES ASSUME run'.pc \in {"sync", "replay"}, NEW q \in Path, staged'[q] # Nothing
               PROVE  run'.slots[q] = staged'[q]
    BY DEF Remembered
  <2> QED
    BY <1>4, <1>5, <1>6, <1>7 DEF IndexInv, Remembered
<1>12. Reread'
  <2> SUFFICES ASSUME run'.pc = "replay", NEW q \in Path, q \notin foreign' \/ q \notin run'.touched
               PROVE  index'[q] = Tip'.tree[q]
    BY DEF Reread
  <2>1. q # p
    BY <1>3, <1>5, <1>6, <1>7
  <2> QED
    BY <1>2, <1>3, <1>4, <1>7, <2>1 DEF IndexInv, Reread
<1>13. Conflicted'
  <2> SUFFICES ASSUME run'.pc = "repair", NEW q \in run'.todo
               PROVE  staged'[q] = Unmerged \/ (staged'[q] = Nothing /\ q \in foreign')
    BY DEF Conflicted
  <2>1. q \in Path
    BY <1>2, <1>7 DEF Runs
  <2> QED
    BY <1>4, <1>5, <1>6, <1>7, <2>1 DEF IndexInv, Conflicted
<1> QED
  BY <1>8, <1>9, <1>10, <1>11, <1>12, <1>13 DEF IndexInv

LEMMA ArrivalIndex ==
  ASSUME NEW p \in Path, Arrival(p), TypeInv, IndexInv
  PROVE  IndexInv'
<1>1. PICK c \in Held :
            /\ staged' = [staged EXCEPT ![p] = IF @ = c THEN Nothing ELSE @]
            /\ foreign' = foreign \cup {p} /\ ~HoldsRefLock /\ Told(p)
            /\ UNCHANGED <<index, disk>>
            /\ hist'[Len(hist')] = [id |-> spent.ids + 1, tree |-> [Tip.tree EXCEPT ![p] = c]]
  BY ArrivalIs
<1>2. disk'[p] \in Held /\ run \in Runs /\ staged \in [Path -> Slot \cup {Nothing}] /\ foreign \in SUBSET Path
      /\ hist \in Seq(Commit) /\ Len(hist) > 0
  BY <1>1 DEF TypeInv, Tree
<1>3. SameRun /\ ~Reconciles
  BY <1>1, <1>2, ToldRun DEF HoldsRefLock, Reconciles
<1>4. /\ Tip'.tree = [Tip.tree EXCEPT ![p] = c] /\ Tip.tree \in Tree
  BY <1>1, <1>2, TipIsCommit DEF Tip
<1>5. Tip'.tree[p] = c /\ \A q \in Path \ {p} : Tip'.tree[q] = Tip.tree[q]
  BY <1>4 DEF Tree
<1>6. /\ \A q \in Path \ {p} : staged'[q] = staged[q]
      /\ staged'[p] = Nothing \/ (staged'[p] = staged[p] /\ staged[p] # c)
      /\ staged[p] = Unmerged => staged'[p] = Unmerged
      /\ staged[p] = Nothing => staged'[p] = Nothing
  BY <1>1, <1>2, Apart DEF Slot
<1>7. ~Reconciles' /\ run'.pc = run.pc /\ run'.todo = run.todo
  BY <1>3 DEF SameRun, Reconciles
<1>8. StagedHeld'
  BY <1>1, <1>6, <1>7 DEF IndexInv, StagedHeld
<1>9. StagedIsNew'
  BY <1>5, <1>6, <1>7 DEF IndexInv, StagedIsNew
<1>10. Settled'
  BY <1>1, <1>3, <1>5, <1>6, <1>7 DEF IndexInv, Settled, Reconciles
<1>11. Remembered' /\ Reread'
  BY <1>7 DEF Remembered, Reread, Reconciles
<1>12. Conflicted'
  <2> SUFFICES ASSUME run'.pc = "repair", NEW q \in run'.todo
               PROVE  staged'[q] = Unmerged \/ (staged'[q] = Nothing /\ q \in foreign')
    BY DEF Conflicted
  <2>1. q \in Path /\ run.pc = "repair" /\ q \in run.todo
    BY <1>2, <1>7 DEF Runs
  <2>2. staged[q] = Unmerged \/ (staged[q] = Nothing /\ q \in foreign)
    BY <2>1 DEF IndexInv, Conflicted
  <2> QED
    BY <1>1, <1>6, <2>1, <2>2
<1> QED
  BY <1>8, <1>9, <1>10, <1>11, <1>12 DEF IndexInv

(* What the steps of a run do to it.                                         *)
LEMMA LandIndex ==
  ASSUME Land, TypeInv, IndexInv
  PROVE  IndexInv'
<1>1. /\ run.pc = "stage" /\ UNCHANGED <<index, disk, foreign>>
      /\ staged' = [p \in Path |-> IF staged[p] = Tip'.tree[p] THEN Nothing ELSE staged[p]]
      /\ run' = [run EXCEPT !.pc = "slots", !.base = Tip.tree, !.slots = NoTree, !.tmp = NoTree, !.seen = Empty]
      /\ hist' \in Seq(Commit) /\ Len(hist') > 0
  BY LandIs
<1>2. run \in Runs /\ staged \in [Path -> Slot \cup {Nothing}]
  BY DEF TypeInv
<1>3. run'.pc = "slots" /\ run'.base = Tip.tree /\ Reconciles' /\ ~Reconciles
  BY <1>1, <1>2 DEF Runs, Reconciles
<1>4. Tip' \in Commit /\ Tip'.tree \in Tree
  <2>1. Tip' \in Commit
    BY <1>1 DEF Tip
  <2> QED
    BY <2>1 DEF Commit
<1>5. \A p \in Path : Tip'.tree[p] # Nothing
  BY <1>4, Apart DEF Tree, Slot
<1>6. ASSUME NEW p \in Path
      PROVE  \/ staged'[p] = staged[p] /\ staged[p] # Tip'.tree[p]
             \/ staged'[p] = Nothing /\ staged[p] = Tip'.tree[p] /\ staged[p] # Nothing
  BY <1>1, <1>5
<1>7. StagedHeld'
  BY <1>1, <1>3, <1>6 DEF IndexInv, StagedHeld
<1>8. StagedIsNew'
  BY <1>3, <1>6 DEF IndexInv, StagedIsNew
<1>9. Settled'
  <2> SUFFICES ASSUME NEW p \in Path \ foreign', staged'[p] = Nothing
               PROVE  index'[p] \in {run'.base[p], Tip'.tree[p]}
    BY <1>3 DEF Settled
  <2>1. CASE staged[p] = Nothing
    BY <1>1, <1>3, <2>1 DEF IndexInv, Settled
  <2>2. CASE staged[p] # Nothing
    BY <1>1, <1>3, <1>6, <2>2 DEF IndexInv, StagedHeld
  <2> QED
    BY <2>1, <2>2
<1>10. Remembered' /\ Reread' /\ Conflicted'
  BY <1>3 DEF Remembered, Reread, Conflicted
<1> QED
  BY <1>7, <1>8, <1>9, <1>10 DEF IndexInv

LEMMA ReadSlotsIndex ==
  ASSUME ReadSlots, TypeInv, IndexInv
  PROVE  IndexInv'
<1>1. run.pc = "slots" /\ run' = [run EXCEPT !.pc = "sync", !.slots = index]
      /\ UNCHANGED <<hist, index, disk, staged, foreign>> /\ Tip' = Tip
  BY DEF ReadSlots, Tip
<1>2. run'.pc = "sync" /\ run'.slots = index /\ run'.base = run.base /\ Reconciles /\ Reconciles'
  BY <1>1 DEF TypeInv, Runs, Reconciles
<1> QED
  BY <1>1, <1>2 DEF IndexInv, StagedHeld, StagedIsNew, Settled, Remembered, Reread, Conflicted

LEMMA ReadTreeIndex ==
  ASSUME ReadTree, TypeInv, IndexInv
  PROVE  IndexInv'
<1>1. run.pc = "sync" /\ run' = [run EXCEPT !.pc = "replay"] /\ index' = Tip.tree
      /\ UNCHANGED <<hist, disk, staged, foreign>> /\ Tip' = Tip
  BY DEF ReadTree, Tip
<1>2. run'.pc = "replay" /\ run'.slots = run.slots /\ run'.base = run.base /\ Reconciles /\ Reconciles'
  BY <1>1 DEF TypeInv, Runs, Reconciles
<1> QED
  BY <1>1, <1>2 DEF IndexInv, StagedHeld, StagedIsNew, Settled, Remembered, Reread, Conflicted

LEMMA ReplayIndex ==
  ASSUME ReplayBatch, TypeInv, IndexInv
  PROVE  IndexInv'
<1>1. /\ run.pc = "replay" /\ run' = Idle /\ UNCHANGED <<hist, disk>> /\ Tip' = Tip
      /\ index' = [p \in Path |-> IF Replay(run.slots, run.base, p) THEN run.slots[p] ELSE index[p]]
      /\ staged' = [p \in Path |-> IF p \in Owned THEN Nothing ELSE staged[p]]
      /\ foreign' = foreign \ (Owned \ run.touched)
  BY DEF ReplayBatch, End, Tip
<1>2. run'.pc = "idle" /\ ~Reconciles' /\ Reconciles
  BY <1>1 DEF Idle, Reconciles
<1>3. \A p \in Path : Replay(run.slots, run.base, p) <=> p \notin Owned /\ run.slots[p] # run.base[p]
  BY DEF Replay
<1>4. ASSUME NEW p \in Path, staged'[p] # Nothing
      PROVE  index'[p] = staged'[p] /\ staged'[p] # Tip'.tree[p]
  <2>1. p \notin Owned /\ staged'[p] = staged[p]
    BY <1>1, <1>4
  <2>2. run.slots[p] = staged[p] /\ staged[p] # run.base[p] /\ staged[p] # Tip.tree[p]
    BY <1>1, <1>2, <1>4, <2>1 DEF IndexInv, Remembered, StagedIsNew
  <2> QED
    BY <1>1, <1>3, <2>1, <2>2
<1>5. ASSUME NEW p \in Path \ foreign', staged'[p] = Nothing
      PROVE  index'[p] = Tip'.tree[p]
  <2>1. CASE p \in Owned
    <3>1. index'[p] = index[p] /\ (p \notin foreign \/ p \notin run.touched)
      BY <1>1, <1>3, <1>5, <2>1
    <3> QED
      BY <1>1, <3>1 DEF IndexInv, Reread
  <2>2. CASE p \notin Owned
    <3>1. p \notin foreign /\ staged[p] = Nothing
      BY <1>1, <1>5, <2>2
    <3>2. run.slots[p] \in {run.base[p], Tip.tree[p]} /\ index[p] = Tip.tree[p]
      BY <1>1, <3>1 DEF IndexInv, Settled, Reread
    <3> QED
      BY <1>1, <1>3, <2>2, <3>2
  <2> QED
    BY <2>1, <2>2
<1> QED
  BY <1>2, <1>4, <1>5 DEF IndexInv, StagedHeld, StagedIsNew, Settled, Remembered, Reread, Conflicted

LEMMA FailsIndex ==
  ASSUME ReconcileFails, TypeInv, IndexInv
  PROVE  IndexInv'
<1>1. /\ run.pc \in {"sync", "replay"} /\ run' = Idle /\ UNCHANGED <<hist, index, disk>> /\ Tip' = Tip
      /\ staged' = [p \in Path |-> IF run.pc = "replay" THEN Nothing ELSE staged[p]] /\ foreign' = Path
  BY DEF ReconcileFails, Reconciling, End, Tip
<1>2. run'.pc = "idle" /\ ~Reconciles'
  BY <1>1 DEF Idle, Reconciles
<1>3. ASSUME NEW p \in Path, staged'[p] # Nothing
      PROVE  index'[p] = staged'[p] /\ staged'[p] # Tip'.tree[p]
  <2>1. run.pc = "sync" /\ staged'[p] = staged[p]
    BY <1>1, <1>3
  <2> QED
    BY <1>1, <1>3, <2>1 DEF IndexInv, StagedHeld, StagedIsNew
<1> QED
  BY <1>1, <1>2, <1>3 DEF IndexInv, StagedHeld, StagedIsNew, Settled, Remembered, Reread, Conflicted

LEMMA ResetIndex ==
  ASSUME GitReset, TypeInv
  PROVE  IndexInv'
<1>1. /\ run' = Idle /\ staged' = [p \in Path |-> Nothing] /\ index' = Tip'.tree
  BY ResetIs
<1>2. run'.pc = "idle"
  BY <1>1 DEF Idle
<1> QED
  BY <1>1, <1>2 DEF IndexInv, StagedHeld, StagedIsNew, Settled, Remembered, Reread, Conflicted, Reconciles

LEMMA ReplanIndex ==
  ASSUME Replan, TypeInv, IndexInv
  PROVE  IndexInv'
<1>1. /\ run.pc = "replan" /\ UNCHANGED <<hist, index, disk, staged, foreign>>
      /\ (run' = Idle \/ run' = [run EXCEPT !.pc = "repair", !.todo = Orphans, !.slots = disk])
  BY DEF Replan, End
<1>2. run \in Runs /\ hist \in Seq(Commit) /\ Len(hist) > 0
  BY DEF TypeInv
<1>3. CASE run' = Idle
  <2>1. run'.pc = "idle"
    BY <1>3 DEF Idle
  <2> QED
    BY <1>1, <2>1, IndexFrame DEF Reconciles
<1>4. CASE run' # Idle
  <2>1. run'.pc = "repair" /\ run'.todo = Orphans /\ ~Reconciles /\ ~Reconciles' /\ Tip' = Tip
    BY <1>1, <1>2, <1>4 DEF Runs, Reconciles, Tip
  <2>2. ASSUME NEW p \in Orphans
        PROVE  staged[p] = Unmerged \/ (staged[p] = Nothing /\ p \in foreign)
    <3>1. p \in Path /\ index[p] = Unmerged
      BY DEF Orphans
    <3>2. Tip.tree[p] # Unmerged
      BY <1>2, <3>1, TipIsCommit, Apart
    <3> QED
      BY <1>1, <2>1, <3>1, <3>2 DEF IndexInv, StagedHeld, Settled
  <2>3. Conflicted'
    BY <1>1, <2>1, <2>2 DEF Conflicted
  <2> QED
    BY <1>1, <2>1, <2>3 DEF IndexInv, StagedHeld, StagedIsNew, Settled, Remembered, Reread
<1> QED
  BY <1>3, <1>4

LEMMA RepairIndex ==
  ASSUME NEW p \in Path, Repair(p), TypeInv, IndexInv
  PROVE  IndexInv'
<1>1. /\ run.pc = "repair" /\ p \in run.todo /\ run' = [run EXCEPT !.todo = @ \ {p}]
      /\ UNCHANGED <<hist, disk, foreign>> /\ Tip' = Tip
      /\ \/ UNCHANGED <<index, staged>>
         \/ \E c \in {None, disk[p]} :
               /\ index' = [index EXCEPT ![p] = c]
               /\ staged' = [staged EXCEPT ![p] = IF @ # Unmerged THEN @ ELSE IF c = Tip.tree[p] THEN Nothing ELSE c]
  BY DEF Repair, Tip
<1>2. /\ run \in Runs /\ index \in [Path -> Slot] /\ staged \in [Path -> Slot \cup {Nothing}]
      /\ disk[p] \in Held /\ None \in Held
  BY DEF TypeInv, Tree, Held
<1>3. run'.pc = "repair" /\ run'.todo = run.todo \ {p} /\ ~Reconciles /\ ~Reconciles'
  BY <1>1, <1>2 DEF Runs, Reconciles
<1>4. CASE UNCHANGED <<index, staged>>
  BY <1>1, <1>3, <1>4, IndexFrame
<1>5. ASSUME NEW c \in Held, index' = [index EXCEPT ![p] = c],
             staged' = [staged EXCEPT ![p] = IF @ # Unmerged THEN @ ELSE IF c = Tip.tree[p] THEN Nothing ELSE c]
      PROVE  IndexInv'
  <2>1. \A q \in Path \ {p} : index'[q] = index[q] /\ staged'[q] = staged[q]
    BY <1>2, <1>5
  <2>2. index'[p] = c /\ c # Nothing
        /\ \/ staged[p] = Unmerged /\ c = Tip.tree[p] /\ staged'[p] = Nothing
           \/ staged[p] = Unmerged /\ c # Tip.tree[p] /\ staged'[p] = c
           \/ staged[p] = Nothing /\ staged'[p] = Nothing /\ p \in foreign
    <3>1. staged[p] = Unmerged \/ (staged[p] = Nothing /\ p \in foreign)
      BY <1>1 DEF IndexInv, Conflicted
    <3> QED
      BY <1>2, <1>5, <3>1, Apart DEF Slot
  <2>3. StagedHeld'
    BY <1>1, <1>3, <2>1, <2>2 DEF IndexInv, StagedHeld
  <2>4. StagedIsNew'
    BY <1>1, <1>3, <2>1, <2>2 DEF IndexInv, StagedIsNew
  <2>5. Settled'
    BY <1>1, <1>3, <2>1, <2>2 DEF IndexInv, Settled, Reconciles
  <2>6. Conflicted'
    <3> SUFFICES ASSUME NEW q \in run'.todo
                 PROVE  staged'[q] = Unmerged \/ (staged'[q] = Nothing /\ q \in foreign')
      BY DEF Conflicted
    <3>1. q \in run.todo /\ q \in Path \ {p}
      BY <1>2, <1>3 DEF Runs
    <3> QED
      BY <1>1, <2>1, <3>1 DEF IndexInv, Conflicted
  <2> QED
    BY <1>3, <2>3, <2>4, <2>5, <2>6 DEF IndexInv, Remembered, Reread
<1> QED
  BY <1>1, <1>2, <1>4, <1>5

LEMMA IndexStep == TypeInv /\ Shape /\ IndexInv /\ [Next]_vars => IndexInv'
<1> SUFFICES ASSUME TypeInv, Shape, IndexInv, [Next]_vars PROVE IndexInv'
  OBVIOUS
<1>1. run \in Runs
  BY DEF TypeInv
<1>2. CASE Others
  <2>1. PICK p \in Path : Edit(p) \/ Add(p) \/ RmCached(p) \/ Arrival(p)
    BY <1>2, WorktreeConstants DEF Others
  <2> QED
    BY <2>1, EditIndex, StagesIndex, ArrivalIndex
<1>3. CASE Begins
  <2>1. run.pc = "idle" /\ Untouched
    BY <1>3, BeginsType
  <2>2. run'.pc \in {"parent", "git", "move", "replan"}
    BY <1>3, ZenonT(30) DEF Begins, BeginCommit, BeginReword, BeginUndo, BeginMv, BeginReset, BeginDoctor, Starts, Idle
  <2> QED
    BY <2>1, <2>2, IndexFrame DEF Untouched, Reconciles
<1>4. CASE ReadParent \/ (\E p \in Path : StageFile(p)) \/ RefuseEmpty \/ Retry \/ Rename \/ MovesMade
           \/ RollBack \/ RolledBack \/ Repaired
  <2>1. UNCHANGED <<hist, index, staged, foreign>>
    BY <1>4 DEF ReadParent, StageFile, RefuseEmpty, Retry, Rename, MovesMade, RollBack, RolledBack, Repaired
  <2>2. ~Reconciles
    BY <1>4 DEF ReadParent, StageFile, RefuseEmpty, Retry, Rename, MovesMade, RollBack, RolledBack, Repaired,
                Staged, Reconciles
  <2>3. run'.pc \in {"idle", "stage", "parent", "move", "rollback"}
    <3>1. CASE ReadParent
      BY <1>1, <3>1 DEF ReadParent, Runs
    <3>2. ASSUME NEW p \in Path, StageFile(p) PROVE run'.pc \in {"idle", "stage"}
      <4>1. run' = Idle \/ (run.pc = "stage" /\ run' = [run EXCEPT !.tmp[p] = StagedAs(p), !.todo = @ \ {p}])
        BY <3>2 DEF StageFile, End
      <4>2. Idle.pc = "idle"
        BY DEF Idle
      <4>3. CASE run' # Idle
        BY <1>1, <4>1, <4>3 DEF Runs
      <4> QED
        BY <4>2, <4>3
    <3>3. CASE RefuseEmpty \/ RolledBack \/ Repaired
      BY <3>3 DEF RefuseEmpty, RolledBack, Repaired, End, Idle
    <3>4. CASE Retry
      <4>1. run' = Idle \/ run' = [run EXCEPT !.pc = "parent", !.attempt = @ + 1, !.tmp = NoTree]
        BY <3>4 DEF Retry, Again, End
      <4>2. Idle.pc = "idle"
        BY DEF Idle
      <4>3. CASE run' # Idle
        BY <1>1, <4>1, <4>3 DEF Runs
      <4> QED
        BY <4>2, <4>3
    <3>5. CASE MovesMade
      <4>1. run' = Idle \/ run' = [run EXCEPT !.pc = "parent"]
        BY <3>5 DEF MovesMade, End
      <4>2. Idle.pc = "idle"
        BY DEF Idle
      <4>3. CASE run' # Idle
        BY <1>1, <4>1, <4>3 DEF Runs
      <4> QED
        BY <4>2, <4>3
    <3>6. CASE Rename
      <4>1. /\ run.pc = "move"
            /\ \/ run' = [run EXCEPT !.done = Append(@, run.pairs[Len(run.done) + 1])]
               \/ run' = [run EXCEPT !.pc = "rollback"]
        BY <3>6 DEF Rename
      <4> QED
        BY <1>1, <4>1 DEF Runs
    <3>7. CASE RollBack
      <4>1. /\ run.pc = "rollback"
            /\ \/ run' = [run EXCEPT !.done = Front(run.done)]
               \/ run' = [run EXCEPT !.done = Front(run.done), !.warned = TRUE]
        BY <3>7 DEF RollBack
      <4> QED
        BY <1>1, <4>1 DEF Runs
    <3> QED
      BY <1>4, <3>1, <3>2, <3>3, <3>4, <3>5, <3>6, <3>7
  <2> QED
    BY <2>1, <2>2, <2>3, IndexFrame DEF Reconciles
<1>5. CASE Steps
  BY <1>4, <1>5, LandIndex, ReadSlotsIndex, ReadTreeIndex, ReplayIndex, FailsIndex, ResetIndex, ReplanIndex,
     RepairIndex DEF Steps
<1>6. CASE UNCHANGED vars
  <2>1. UNCHANGED <<hist, index, staged, foreign, run>> /\ Tip' = Tip
    BY <1>6 DEF vars, Tip
  <2> QED
    BY <2>1 DEF IndexInv, StagedHeld, StagedIsNew, Settled, Remembered, Reread, Conflicted, Reconciles
<1> QED
  BY <1>2, <1>3, <1>5, <1>6 DEF Next

LEMMA InitIndex == Init => IndexInv
<1> SUFFICES ASSUME Init PROVE IndexInv
  OBVIOUS
<1>1. TypeInv /\ run.pc = "idle" /\ hist \in Seq(Commit) /\ Len(hist) > 0
  BY InitType DEF Init, Idle, TypeInv
<1>2. Tip = hist[1] /\ Tip.tree \in Tree
  BY <1>1, TipIsCommit DEF Init, Tip
<1>3. \A p \in Path : Tip.tree[p] # Unmerged
  BY <1>2, Apart DEF Tree
<1>4. \/ index = Tip.tree /\ staged = [p \in Path |-> Nothing]
      \/ \E p \in Path : /\ index = [Tip.tree EXCEPT ![p] = Unmerged]
                         /\ staged = [[q \in Path |-> Nothing] EXCEPT ![p] = Unmerged]
  BY <1>2, WorktreeConstants DEF Init
<1>5. \A p \in Path : \/ index[p] = Tip.tree[p] /\ staged[p] = Nothing
                      \/ index[p] = Unmerged /\ staged[p] = Unmerged
  BY <1>2, <1>4 DEF Tree
<1> QED
  BY <1>1, <1>3, <1>5, Apart DEF IndexInv, StagedHeld, StagedIsNew, Settled, Remembered, Reread, Conflicted,
     Reconciles

(* What somebody staged stays staged until a run that named it has committed *)
(* it, or was asked to reset; and between runs nothing else is in the index. *)
THEOREM StagedStays == Spec => []StagedWorkKept
<1>1. Init => TypeInv /\ Shape /\ IndexInv
  BY InitType, InitShape, InitIndex
<1>2. TypeInv /\ Shape /\ IndexInv /\ [Next]_vars => TypeInv' /\ Shape' /\ IndexInv'
  BY TypeStep, IndexStep
<1>3. IndexInv => StagedWorkKept
  BY DEF IndexInv, StagedHeld, Settled, StagedWorkKept, Reconciling, Reconciles
<1> QED
  BY <1>1, <1>2, <1>3, PTL DEF Spec

---------------------------------------------------------------------------
(* The commit.  Identities grow, so a tip that has the identity of the       *)
(* parent has the tree that was read with it.                                *)
Numbered ==
    /\ \A i \in 1..Len(hist) : hist[i].id <= spent.ids
    /\ run.pc = "stage" => run.parent <= spent.ids /\ (Tip.id = run.parent => Tip.tree = run.slots)

(* What a run has seen of a file it names includes what the file is.         *)
Saw ==
    run.op \in Naming /\ run.pc \in {"parent", "stage"} =>
       /\ DOMAIN run.seen = {p \in DOMAIN run.entries : run.entries[p] = Whole}
       /\ \A p \in DOMAIN run.seen : disk[p] \in run.seen[p]

(* What the private index holds: of a path not named, or not staged yet,     *)
(* what the parent has, and of one that is staged what was named.            *)
Built ==
    run.op \in Naming /\ run.pc = "stage" => \A p \in Path :
       IF p \notin DOMAIN run.entries \/ p \in run.todo THEN run.tmp[p] = run.slots[p]
       ELSE /\ run.entries[p] = Untrack => run.tmp[p] = None
            /\ run.entries[p] = Whole => run.tmp[p] \in run.seen[p]
            /\ run.entries[p] \in Region /\ p \notin run.touched =>
                  run.tmp[p] = WithHunk(run.entries[p], run.slots[p], disk[p])

CommitInv == Numbered /\ Saw /\ Built

LEMMA EditCommit ==
  ASSUME NEW p \in Path, Edit(p), TypeInv, CommitInv
  PROVE  CommitInv'
<1>1. /\ hist' = hist /\ Tip' = Tip /\ spent'.ids = spent.ids /\ Told(p) /\ disk'[p] \in Held
      /\ \A q \in Path : q # p => disk'[q] = disk[q]
      /\ run.pc # "idle" => \A q \in DOMAIN run.seen : q = p => disk'[p] \in run'.seen[p]
  BY EditIs DEF Tip
<1>2. run \in Runs
  BY DEF TypeInv
<1>3. /\ SameRun /\ run.touched \subseteq run'.touched /\ (run.pc # "idle" => p \in run'.touched)
      /\ DOMAIN run'.seen = DOMAIN run.seen /\ \A q \in DOMAIN run.seen : run.seen[q] \subseteq run'.seen[q]
  BY <1>1, <1>2, ToldRun
<1>4. Numbered'
  BY <1>1, <1>3 DEF CommitInv, Numbered, SameRun
<1>5. Saw'
  <2> SUFFICES ASSUME run'.op \in Naming, run'.pc \in {"parent", "stage"}
               PROVE  /\ DOMAIN run'.seen = {q \in DOMAIN run'.entries : run'.entries[q] = Whole}
                      /\ \A q \in DOMAIN run'.seen : disk'[q] \in run'.seen[q]
    BY DEF Saw
  <2>1. run.op \in Naming /\ run.pc \in {"parent", "stage"} /\ run'.entries = run.entries
    BY <1>3 DEF SameRun
  <2>2. /\ DOMAIN run.seen = {q \in DOMAIN run.entries : run.entries[q] = Whole}
        /\ \A q \in DOMAIN run.seen : disk[q] \in run.seen[q]
    BY <2>1 DEF CommitInv, Saw
  <2>3. DOMAIN run.seen \subseteq Path
    BY <1>2 DEF Runs, Some
  <2> QED
    BY <1>1, <1>3, <2>1, <2>2, <2>3
<1>6. Built'
  <2> SUFFICES ASSUME run'.op \in Naming, run'.pc = "stage", NEW q \in Path
               PROVE  IF q \notin DOMAIN run'.entries \/ q \in run'.todo THEN run'.tmp[q] = run'.slots[q]
                      ELSE /\ run'.entries[q] = Untrack => run'.tmp[q] = None
                           /\ run'.entries[q] = Whole => run'.tmp[q] \in run'.seen[q]
                           /\ run'.entries[q] \in Region /\ q \notin run'.touched =>
                                 run'.tmp[q] = WithHunk(run'.entries[q], run'.slots[q], disk'[q])
    BY DEF Built
  <2>1. /\ run.op \in Naming /\ run.pc = "stage" /\ run'.entries = run.entries /\ run'.todo = run.todo
        /\ run'.tmp = run.tmp /\ run'.slots = run.slots
    BY <1>3 DEF SameRun
  <2>2. q \in DOMAIN run.entries /\ run.entries[q] = Whole => q \in DOMAIN run.seen
    BY <2>1 DEF CommitInv, Saw
  <2>3. q \notin run'.touched => q \notin run.touched /\ disk'[q] = disk[q]
    BY <1>1, <1>3, <2>1
  <2> QED
    BY <1>3, <2>1, <2>2, <2>3 DEF CommitInv, Built
<1> QED
  BY <1>4, <1>5, <1>6 DEF CommitInv

(* Of what else others do, the commit sees that the branch may move.         *)
LEMMA OtherCommit ==
  ASSUME NEW p \in Path, Add(p) \/ RmCached(p) \/ Arrival(p), TypeInv, CommitInv
  PROVE  CommitInv'
<1>1. run \in Runs /\ hist \in Seq(Commit) /\ Len(hist) > 0 /\ spent \in Spents /\ disk \in Tree
  BY DEF TypeInv
<1>2. /\ disk' = disk /\ Told(p) /\ disk'[p] \in Held
  <2>1. CASE Add(p) \/ RmCached(p)
    BY <1>1, <2>1, StagesIs DEF Tree
  <2>2. CASE Arrival(p)
    BY <1>1, <2>2, ArrivalIs DEF Tree
  <2> QED
    BY <2>1, <2>2
<1>3. /\ SameRun /\ run.touched \subseteq run'.touched
      /\ DOMAIN run'.seen = DOMAIN run.seen /\ \A q \in DOMAIN run.seen : run.seen[q] \subseteq run'.seen[q]
  BY <1>1, <1>2, ToldRun
<1>4. Numbered'
  <2>1. CASE Add(p) \/ RmCached(p)
    <3>1. hist' = hist /\ Tip' = Tip /\ spent'.ids = spent.ids
      BY <2>1, StagesIs DEF Tip
    <3> QED
      BY <1>3, <3>1 DEF CommitInv, Numbered, SameRun
  <2>2. CASE Arrival(p)
    <3>1. /\ Len(hist') = Len(hist) + 1 /\ spent'.ids = spent.ids + 1
          /\ (\A i \in 1..Len(hist) : hist'[i] = hist[i]) /\ hist'[Len(hist')].id = spent.ids + 1
      <4>1. PICK c \in Held :
               /\ spent'.ids = spent.ids + 1 /\ Len(hist') = Len(hist) + 1
               /\ \A i \in 1..Len(hist) : hist'[i] = hist[i]
               /\ hist'[Len(hist')] = [id |-> spent.ids + 1, tree |-> [Tip.tree EXCEPT ![p] = c]]
        BY <2>2, ArrivalIs
      <4> QED
        BY <4>1
    <3>2. spent.ids \in Nat /\ Len(hist) \in Nat /\ \A i \in 1..Len(hist) : hist[i] \in Commit
      BY <1>1 DEF Spents
    <3>3. \A i \in 1..Len(hist) : hist[i].id \in Nat /\ hist[i].id <= spent.ids
      BY <3>2 DEF CommitInv, Numbered, Commit
    <3>4. \A i \in 1..Len(hist') : hist'[i].id <= spent'.ids
      <4> TAKE i \in 1..Len(hist')
      <4>1. i \in 1..Len(hist) \/ i = Len(hist')
        BY <3>1, <3>2
      <4> QED
        BY <3>1, <3>2, <3>3, <4>1
    <3>5. run'.pc = "stage" => run'.parent <= spent'.ids /\ Tip'.id # run'.parent
      <4>1. run'.pc = run.pc /\ run'.parent = run.parent /\ run.parent \in Nat
        BY <1>1, <1>3 DEF SameRun, Runs
      <4>2. run.pc = "stage" => run.parent <= spent.ids
        BY DEF CommitInv, Numbered
      <4> QED
        BY <3>1, <3>2, <4>1, <4>2 DEF Tip
    <3> QED
      BY <3>4, <3>5 DEF Numbered
  <2> QED
    BY <2>1, <2>2
<1>5. Saw'
  <2>1. run'.op \in Naming /\ run'.pc \in {"parent", "stage"} => run.op \in Naming /\ run.pc \in {"parent", "stage"}
    BY <1>3 DEF SameRun
  <2> QED
    BY <1>2, <1>3, <2>1 DEF CommitInv, Saw, SameRun
<1>6. Built'
  <2> SUFFICES ASSUME run'.op \in Naming, run'.pc = "stage", NEW q \in Path
               PROVE  IF q \notin DOMAIN run'.entries \/ q \in run'.todo THEN run'.tmp[q] = run'.slots[q]
                      ELSE /\ run'.entries[q] = Untrack => run'.tmp[q] = None
                           /\ run'.entries[q] = Whole => run'.tmp[q] \in run'.seen[q]
                           /\ run'.entries[q] \in Region /\ q \notin run'.touched =>
                                 run'.tmp[q] = WithHunk(run'.entries[q], run'.slots[q], disk'[q])
    BY DEF Built
  <2>1. /\ run.op \in Naming /\ run.pc = "stage" /\ run'.entries = run.entries /\ run'.todo = run.todo
        /\ run'.tmp = run.tmp /\ run'.slots = run.slots
    BY <1>3 DEF SameRun
  <2>2. q \in DOMAIN run.entries /\ run.entries[q] = Whole => q \in DOMAIN run.seen
    BY <2>1 DEF CommitInv, Saw
  <2> QED
    BY <1>2, <1>3, <2>1, <2>2 DEF CommitInv, Built
<1> QED
  BY <1>4, <1>5, <1>6 DEF CommitInv

(* Once a run is past its attempt there is nothing more to say.              *)
LEMMA CommitFrame ==
  ASSUME CommitInv, UNCHANGED <<hist, spent>>, run'.pc \notin {"parent", "stage"}
  PROVE  CommitInv'
BY DEF CommitInv, Numbered, Saw, Built

LEMMA BeginsCommit ==
  ASSUME Begins, TypeInv, CommitInv
  PROVE  CommitInv'
<1>1. hist' = hist /\ disk' = disk /\ run' \in Runs
  BY BeginsType DEF Untouched, TypeInv
<1>2. spent'.ids = spent.ids
  <2>1. spent' = [spent EXCEPT !.runs = @ + 1]
    BY DEF Begins, BeginCommit, BeginReword, BeginUndo, BeginMv, BeginReset, BeginDoctor, Starts
  <2> QED
    BY <2>1 DEF TypeInv, Spents
<1>3. ASSUME NEW op, NEW pc, NEW e, Starts(op, pc, e) PROVE Saw' /\ run'.pc = pc
  <2> DEFINE D == {q \in DOMAIN e : e[q] = Whole}
  <2>1. run'.entries = e /\ run'.seen = [p \in D |-> {disk[p]}] /\ run'.pc = pc
    BY <1>3 DEF Starts, Idle
  <2> QED
    BY <1>1, <2>1 DEF Saw
<1>4. CASE BeginMv \/ BeginDoctor
  <2>1. run'.pc \in {"move", "replan"}
    BY <1>4 DEF BeginMv, BeginDoctor, Idle
  <2> QED
    BY <1>1, <1>2, <2>1 DEF CommitInv, Numbered, Saw, Built
<1>5. CASE ~(BeginMv \/ BeginDoctor)
  <2>1. Saw' /\ run'.pc # "stage"
    BY <1>3, <1>5 DEF Begins, BeginCommit, BeginReword, BeginUndo, BeginReset
  <2> QED
    BY <1>1, <1>2, <2>1 DEF CommitInv, Numbered, Built
<1> QED
  BY <1>4, <1>5

LEMMA ReadParentCommit ==
  ASSUME ReadParent, TypeInv, Shape, CommitInv
  PROVE  CommitInv'
<1>1. /\ RunAlone /\ run.pc = "parent" /\ Tip' = Tip
      /\ run' = [run EXCEPT !.pc = "stage", !.parent = Tip.id, !.base = IF run.op = "mv" THEN @ ELSE Tip.tree,
                            !.tmp = IndexEdits(Tip.tree), !.slots = Tip.tree, !.todo = DOMAIN run.entries]
  BY DEF ReadParent, RunAlone, Tip
<1>2. run \in Runs /\ hist \in Seq(Commit) /\ Len(hist) > 0
  BY DEF TypeInv
<1>3. /\ run'.op = run.op /\ run'.entries = run.entries /\ run'.seen = run.seen /\ run'.parent = Tip.id
      /\ run'.tmp = IndexEdits(Tip.tree) /\ run'.slots = Tip.tree /\ run'.todo = DOMAIN run.entries
  BY <1>1, <1>2 DEF Runs
<1>4. Numbered'
  <2>1. Len(hist) \in 1..Len(hist) /\ hist' = hist /\ spent' = spent
    BY <1>1, <1>2 DEF RunAlone
  <2>2. Tip.id <= spent.ids
    BY <2>1 DEF CommitInv, Numbered, Tip
  <2> QED
    BY <1>1, <1>3, <2>1, <2>2 DEF CommitInv, Numbered
<1>5. Saw'
  BY <1>1, <1>3 DEF CommitInv, Saw, RunAlone
<1>6. Built'
  <2>1. run.op \in Naming => IndexEdits(Tip.tree) = Tip.tree
    BY <1>2, TipIsCommit, IndexEditsIs DEF Shape
  <2> QED
    BY <1>3, <2>1 DEF Built
<1> QED
  BY <1>4, <1>5, <1>6 DEF CommitInv

LEMMA StageFileCommit ==
  ASSUME NEW p \in Path, StageFile(p), TypeInv, Shape, CommitInv
  PROVE  CommitInv'
<1>1. /\ run.pc = "stage" /\ p \in run.todo /\ p \in DOMAIN run.entries
      /\ UNCHANGED <<hist, index, disk, staged, foreign, spent>>
      /\ \/ run' = Idle
         \/ /\ CanStage(p) /\ StagedAs(p) \in Held
            /\ run' = [run EXCEPT !.tmp = [run.tmp EXCEPT ![p] = StagedAs(p)], !.todo = @ \ {p}]
  <2>1. run.pc = "stage"
    BY DEF StageFile
  <2> QED
    BY <2>1, StageFileIs DEF Shape
<1>2. CASE run' = Idle
  <2>1. run'.pc = "idle"
    BY <1>2 DEF Idle
  <2> QED
    BY <1>1, <2>1, CommitFrame
<1>3. CASE run' # Idle
  <2>1. run \in Runs /\ run.tmp \in Tree /\ Tip' = Tip
    BY <1>1 DEF TypeInv, Runs, Tip
  <2>2. /\ run'.pc = "stage" /\ run'.op = run.op /\ run'.entries = run.entries /\ run'.seen = run.seen
        /\ run'.parent = run.parent /\ run'.slots = run.slots /\ run'.todo = run.todo \ {p}
        /\ run'.touched = run.touched /\ run'.tmp = [run.tmp EXCEPT ![p] = StagedAs(p)]
    BY <1>1, <1>3, <2>1 DEF Runs
  <2>3. run'.tmp[p] = StagedAs(p) /\ \A q \in Path \ {p} : run'.tmp[q] = run.tmp[q]
    BY <2>1, <2>2 DEF Tree
  <2>4. Numbered' /\ Saw'
    BY <1>1, <2>1, <2>2 DEF CommitInv, Numbered, Saw
  <2>5. Built'
    <3> SUFFICES ASSUME run'.op \in Naming, NEW q \in Path
                 PROVE  IF q \notin DOMAIN run'.entries \/ q \in run'.todo THEN run'.tmp[q] = run'.slots[q]
                        ELSE /\ run'.entries[q] = Untrack => run'.tmp[q] = None
                             /\ run'.entries[q] = Whole => run'.tmp[q] \in run'.seen[q]
                             /\ run'.entries[q] \in Region /\ q \notin run'.touched =>
                                   run'.tmp[q] = WithHunk(run'.entries[q], run'.slots[q], disk'[q])
      BY DEF Built
    <3>1. CASE q # p
      BY <1>1, <2>2, <2>3, <3>1 DEF CommitInv, Built
    <3>2. CASE q = p
      <4>1. run.tmp[p] = run.slots[p] /\ (run.entries[p] = Whole => disk[p] \in run.seen[p])
        BY <1>1, <2>2, <3>2 DEF CommitInv, Built, Saw
      <4>2. p \in DOMAIN run'.entries /\ p \notin run'.todo /\ disk' = disk
        BY <1>1, <2>2
      <4>3. /\ run.entries[p] = Untrack => StagedAs(p) = None
            /\ run.entries[p] = Whole => StagedAs(p) = disk[p]
            /\ run.entries[p] \in Region => StagedAs(p) = WithHunk(run.entries[p], run.tmp[p], disk[p])
        BY StagedAsIs
      <4> QED
        BY <2>2, <2>3, <3>2, <4>1, <4>2, <4>3
    <3> QED
      BY <3>1, <3>2
  <2> QED
    BY <2>4, <2>5 DEF CommitInv
<1> QED
  BY <1>2, <1>3

LEMMA RetryCommit ==
  ASSUME Retry, TypeInv, CommitInv
  PROVE  CommitInv'
<1>1. /\ RunAlone /\ run.pc = "stage" /\ Tip' = Tip
      /\ (run' = Idle \/ run' = [run EXCEPT !.pc = "parent", !.attempt = @ + 1, !.tmp = NoTree])
  BY DEF Retry, RunAlone, Again, End, Staged, Tip
<1>2. CASE run' = Idle
  <2>1. run'.pc = "idle"
    BY <1>2 DEF Idle
  <2> QED
    BY <1>1, <2>1, CommitFrame DEF RunAlone
<1>3. CASE run' # Idle
  <2>1. run'.pc = "parent" /\ run'.op = run.op /\ run'.entries = run.entries /\ run'.seen = run.seen
    BY <1>1, <1>3 DEF TypeInv, Runs
  <2> QED
    BY <1>1, <2>1 DEF RunAlone, CommitInv, Numbered, Saw, Built
<1> QED
  BY <1>2, <1>3

LEMMA LandCommit ==
  ASSUME Land, TypeInv, CommitInv
  PROVE  CommitInv'
<1>1. /\ \A i \in 1..Len(hist') : hist'[i] = New \/ \E j \in 1..Len(hist) : hist'[i] = hist[j]
      /\ run.op = "undo" => \A i \in 1..Len(hist') : \E j \in 1..Len(hist) : hist'[i] = hist[j]
      /\ run.op = "undo" => spent' = spent
      /\ run.op # "undo" => spent'.ids = spent.ids + 1
      /\ run' = [run EXCEPT !.pc = "slots", !.base = Tip.tree, !.slots = NoTree, !.tmp = NoTree, !.seen = Empty]
  BY LandIs
<1>2. spent.ids \in Nat /\ run \in Runs /\ \A j \in 1..Len(hist) : hist[j].id \in Nat
  <2>1. \A j \in 1..Len(hist) : hist[j] \in Commit
    BY DEF TypeInv
  <2> QED
    BY <2>1 DEF TypeInv, Spents, Commit
<1>3. \A j \in 1..Len(hist) : hist[j].id <= spent.ids
  BY DEF CommitInv, Numbered
<1>4. New.id = spent.ids + 1
  BY DEF New
<1>5. \A i \in 1..Len(hist') : hist'[i].id <= spent'.ids
  BY <1>1, <1>2, <1>3, <1>4
<1>6. run'.pc = "slots"
  BY <1>1, <1>2 DEF Runs
<1> QED
  BY <1>5, <1>6 DEF CommitInv, Numbered, Saw, Built

LEMMA ResetCommit ==
  ASSUME GitReset, TypeInv, CommitInv
  PROVE  CommitInv'
<1>1. /\ run' = Idle /\ spent' = spent /\ Len(hist') <= Len(hist) /\ hist' \in Seq(Commit)
      /\ \A i \in 1..Len(hist') : hist'[i] = hist[i]
  BY ResetIs
<1>2. hist \in Seq(Commit) /\ run'.pc = "idle"
  BY <1>1 DEF TypeInv, Idle
<1>3. \A i \in 1..Len(hist') : i \in 1..Len(hist)
  BY <1>1, <1>2
<1> QED
  BY <1>1, <1>2, <1>3 DEF CommitInv, Numbered, Saw, Built

LEMMA CommitStep == TypeInv /\ Shape /\ CommitInv /\ [Next]_vars => CommitInv'
<1> SUFFICES ASSUME TypeInv, Shape, CommitInv, [Next]_vars PROVE CommitInv'
  OBVIOUS
<1>1. run \in Runs
  BY DEF TypeInv
<1>2. CASE Others
  <2>1. PICK p \in Path : Edit(p) \/ Add(p) \/ RmCached(p) \/ Arrival(p)
    BY <1>2, WorktreeConstants DEF Others
  <2> QED
    BY <2>1, EditCommit, OtherCommit
<1>3. CASE RefuseEmpty \/ ReadSlots \/ ReadTree \/ ReplayBatch \/ ReconcileFails \/ RolledBack \/ Replan \/ Repaired
  <2>1. UNCHANGED <<hist, spent>>
    BY <1>3 DEF RefuseEmpty, ReadSlots, ReadTree, ReplayBatch, ReconcileFails, RolledBack, Replan, Repaired
  <2>2. Idle.pc = "idle"
    BY DEF Idle
  <2>3. \/ run' = Idle \/ run' = [run EXCEPT !.pc = "sync", !.slots = index] \/ run' = [run EXCEPT !.pc = "replay"]
        \/ run' = [run EXCEPT !.pc = "repair", !.todo = Orphans, !.slots = disk]
    BY <1>3 DEF RefuseEmpty, ReadSlots, ReadTree, ReplayBatch, ReconcileFails, RolledBack, Replan, Repaired, End
  <2>4. run'.pc \notin {"parent", "stage"}
    <3>1. CASE run' # Idle
      BY <1>1, <2>3, <3>1 DEF Runs
    <3> QED
      BY <2>2, <3>1
  <2> QED
    BY <2>1, <2>4, CommitFrame
<1>4. CASE Rename \/ RollBack
  <2>1. UNCHANGED <<hist, spent>>
    BY <1>4 DEF Rename, RollBack
  <2>2. run.pc \in {"move", "rollback"} /\ \/ run' = [run EXCEPT !.done = Append(@, run.pairs[Len(run.done) + 1])]
                                           \/ run' = [run EXCEPT !.pc = "rollback"]
                                           \/ run' = [run EXCEPT !.done = Front(run.done)]
                                           \/ run' = [run EXCEPT !.done = Front(run.done), !.warned = TRUE]
    BY <1>4 DEF Rename, RollBack
  <2>3. run'.pc \notin {"parent", "stage"}
    BY <1>1, <2>2 DEF Runs
  <2> QED
    BY <2>1, <2>3, CommitFrame
<1>5. CASE MovesMade
  <2>1. /\ UNCHANGED <<hist, spent>> /\ run.pc = "move" /\ (run' = Idle \/ run' = [run EXCEPT !.pc = "parent"])
    BY <1>5 DEF MovesMade, End
  <2>2. run'.pc # "stage" /\ run'.op \notin Naming
    <3>1. Idle.pc = "idle" /\ Idle.op = "none"
      BY DEF Idle
    <3>2. CASE run' # Idle
      BY <1>1, <2>1, <3>2 DEF Runs, Shape, Naming
    <3> QED
      BY <3>1, <3>2 DEF Naming
  <2> QED
    BY <2>1, <2>2 DEF CommitInv, Numbered, Saw, Built
<1>6. ASSUME NEW p \in Path, Repair(p) PROVE CommitInv'
  <2>1. UNCHANGED <<hist, spent>> /\ run.pc = "repair" /\ run' = [run EXCEPT !.todo = @ \ {p}]
    BY <1>6 DEF Repair
  <2>2. run'.pc = "repair"
    BY <1>1, <2>1 DEF Runs
  <2> QED
    BY <2>1, <2>2, CommitFrame
<1>7. CASE Steps
  BY <1>3, <1>4, <1>5, <1>6, <1>7, ReadParentCommit, StageFileCommit, RetryCommit, LandCommit, ResetCommit DEF Steps
<1>8. CASE UNCHANGED vars
  <2>1. UNCHANGED <<hist, disk, run, spent>> /\ Tip' = Tip
    BY <1>8 DEF vars, Tip
  <2> QED
    BY <2>1 DEF CommitInv, Numbered, Saw, Built
<1> QED
  BY <1>2, <1>7, <1>8, BeginsCommit DEF Next

LEMMA InitCommit == Init => CommitInv
<1> SUFFICES ASSUME Init PROVE CommitInv
  OBVIOUS
<1>1. Len(hist) = 1 /\ hist[1].id = 1 /\ spent.ids = 1 /\ run.pc = "idle"
  BY DEF Init, Idle
<1> QED
  BY <1>1 DEF CommitInv, Numbered, Saw, Built

(* Only a landing goes from staging to the reconciliation.                   *)
LEMMA LandsAlone ==
  ASSUME TypeInv, Next, Landed
  PROVE  Land
<1>1. run \in Runs /\ run.pc = "stage" /\ run'.pc = "slots" /\ Idle.pc = "idle"
  BY DEF TypeInv, Landed, Idle
<1>2. ~Others
  <2> SUFFICES ASSUME NEW p \in Path, Edit(p) \/ Add(p) \/ RmCached(p) \/ Arrival(p) PROVE FALSE
    BY WorktreeConstants DEF Others
  <2>1. disk'[p] \in Held /\ Told(p)
    <3>1. disk[p] \in Held
      BY DEF TypeInv, Tree
    <3>2. CASE Edit(p)
      BY <3>2, EditIs
    <3>3. CASE Add(p) \/ RmCached(p)
      BY <3>1, <3>3, StagesIs
    <3>4. CASE Arrival(p)
      BY <3>1, <3>4, ArrivalIs
    <3> QED
      BY <3>2, <3>3, <3>4
  <2>2. run'.pc = run.pc
    BY <1>1, <2>1, ToldRun DEF SameRun
  <2> QED
    BY <1>1, <2>2
<1>3. ~Begins
  BY <1>1, BeginsType
<1>4. ASSUME NEW p \in Path, StageFile(p) PROVE FALSE
  <2>1. run' = Idle \/ run' = [run EXCEPT !.tmp[p] = StagedAs(p), !.todo = @ \ {p}]
    BY <1>4 DEF StageFile, End
  <2>2. CASE run' # Idle
    BY <1>1, <2>1, <2>2 DEF Runs
  <2> QED
    BY <1>1, <2>2
<1>5. ~RefuseEmpty
  BY <1>1 DEF RefuseEmpty, End
<1>6. ASSUME Retry PROVE FALSE
  <2>1. run' = Idle \/ run' = [run EXCEPT !.pc = "parent", !.attempt = @ + 1, !.tmp = NoTree]
    BY <1>6 DEF Retry, Again, End
  <2>2. CASE run' # Idle
    BY <1>1, <2>1, <2>2 DEF Runs
  <2> QED
    BY <1>1, <2>2
<1>7. ~ReadParent /\ ~ReadSlots /\ ~ReadTree /\ ~ReplayBatch /\ ~ReconcileFails /\ ~Rename /\ ~MovesMade
      /\ ~RollBack /\ ~RolledBack /\ ~GitReset /\ ~Replan /\ ~Repaired /\ \A p \in Path : ~Repair(p)
  BY <1>1 DEF ReadParent, ReadSlots, ReadTree, ReplayBatch, ReconcileFails, Reconciling, Rename, MovesMade,
     RollBack, RolledBack, GitReset, Replan, Repaired, Repair
<1> QED
  BY <1>2, <1>3, <1>4, <1>5, <1>6, <1>7 DEF Next, Steps

(* A commit is the tree it is put on, with what was named.                   *)
LEMMA LandedIsNamed ==
  ASSUME TypeInv, CommitInv, Land, run.op \in Naming, NEW p \in Path
  PROVE  IF p \notin DOMAIN run.entries THEN NewTree[p] = Tip.tree[p]
         ELSE CASE run.entries[p] = Untrack -> NewTree[p] = None
                [] run.entries[p] = Whole   -> NewTree[p] \in run.seen[p]
                [] OTHER -> p \notin run.touched =>
                               NewTree[p] = WithHunk(run.entries[p], Tip.tree[p], disk[p])
<1>1. run.pc = "stage" /\ run.todo = {} /\ Tip.id = run.parent /\ NewTree = run.tmp
  <2>1. run.op # "undo"
    BY DEF Naming
  <2> QED
    BY <2>1, LandIs DEF New, NewTree
<1>2. run.slots = Tip.tree
  BY <1>1 DEF CommitInv, Numbered
<1>3. CASE p \notin DOMAIN run.entries
  BY <1>1, <1>2, <1>3 DEF CommitInv, Built
<1>4. CASE p \in DOMAIN run.entries
  <2>1. /\ run.entries[p] = Untrack => NewTree[p] = None
        /\ run.entries[p] = Whole => NewTree[p] \in run.seen[p]
        /\ run.entries[p] \in Region /\ p \notin run.touched =>
              NewTree[p] = WithHunk(run.entries[p], Tip.tree[p], disk[p])
    BY <1>1, <1>2, <1>4 DEF CommitInv, Built
  <2>2. run.entries[p] \in Kinds
    BY <1>4 DEF TypeInv, Runs, Some
  <2>3. CASE run.entries[p] = Untrack
    <3>1. NewTree[p] = None
      BY <2>1, <2>3
    <3> QED
      BY <1>4, <2>3, <3>1, EntryKinds, Zenon
  <2>4. CASE run.entries[p] = Whole
    <3>1. NewTree[p] \in run.seen[p] /\ run.entries[p] # Untrack
      BY <2>1, <2>4, EntryKinds
    <3> QED
      BY <1>4, <2>4, <3>1, Zenon
  <2>5. CASE run.entries[p] \in Region
    <3>1. run.entries[p] # Untrack /\ run.entries[p] # Whole
          /\ (p \notin run.touched => NewTree[p] = WithHunk(run.entries[p], Tip.tree[p], disk[p]))
      BY <2>1, <2>5, EntryKinds
    <3> QED
      BY <1>4, <3>1, Zenon
  <2> QED
    BY <2>2, <2>3, <2>4, <2>5, EntryKinds
<1> QED
  BY <1>3, <1>4

(* A commit holds what it is put on and what was named, as it was on disk at *)
(* some time of the run; nothing else of the files, and nothing of others.   *)
THEOREM CommitNamed == Spec => CommitIsWhatWasNamed
<1>1. Init => TypeInv /\ Shape /\ CommitInv
  BY InitType, InitShape, InitCommit
<1>2. TypeInv /\ Shape /\ CommitInv /\ [Next]_vars => TypeInv' /\ Shape' /\ CommitInv'
  BY TypeStep, CommitStep
<1>3. TypeInv /\ CommitInv /\ [Next]_vars =>
        [Landed /\ run.op \in {"commit", "amend", "reword"} =>
           \A p \in Path :
              IF p \notin DOMAIN run.entries THEN NewTree[p] = Tip.tree[p]
              ELSE CASE run.entries[p] = Untrack -> NewTree[p] = None
                     [] run.entries[p] = Whole   -> NewTree[p] \in run.seen[p]
                     [] OTHER -> p \notin run.touched =>
                                    NewTree[p] = WithHunk(run.entries[p], Tip.tree[p], disk[p])]_vars
  <2> SUFFICES ASSUME TypeInv, CommitInv, [Next]_vars, ~UNCHANGED vars, Landed,
                      run.op \in {"commit", "amend", "reword"}, NEW p \in Path
               PROVE  IF p \notin DOMAIN run.entries THEN NewTree[p] = Tip.tree[p]
                      ELSE CASE run.entries[p] = Untrack -> NewTree[p] = None
                             [] run.entries[p] = Whole   -> NewTree[p] \in run.seen[p]
                             [] OTHER -> p \notin run.touched =>
                                            NewTree[p] = WithHunk(run.entries[p], Tip.tree[p], disk[p])
    BY Zenon
  <2>1. Land /\ run.op \in Naming
    BY LandsAlone DEF Naming
  <2> QED
    BY <2>1, LandedIsNamed, Zenon
<1> QED
  BY <1>1, <1>2, <1>3, PTL DEF Spec, CommitIsWhatWasNamed

---------------------------------------------------------------------------
(* The moves.  No name is in two pairs, what was moved is at its new name    *)
(* and what was not yet, or was put back, at its old one.                    *)
Distinct(pairs) ==
    \A i, j \in 1..Len(pairs) :
       /\ pairs[i].old # pairs[j].new
       /\ i # j => pairs[i].old # pairs[j].old /\ pairs[i].new # pairs[j].new
Gone(p) == p \notin run.touched => disk[p] = None
Apiece(i) ==
    LET pair == run.pairs[i]
        alone == pair.old \notin run.touched /\ pair.new \notin run.touched
    IN  IF i <= Len(run.done)
        THEN Gone(pair.old) /\ (alone => disk[pair.new] = run.disk0[pair.old])
        ELSE ~run.warned => Gone(pair.new) /\ (alone => disk[pair.old] = run.disk0[pair.old])
MovesInv ==
    run.pc \in {"move", "rollback"} =>
       /\ Distinct(run.pairs) /\ Len(run.done) <= Len(run.pairs)
       /\ \A i \in 1..Len(run.done) : run.done[i] = run.pairs[i]
       /\ run.pc = "move" => ~run.warned
       /\ \A i \in 1..Len(run.pairs) : Apiece(i)

(* What a reset found clean is as the tip has it, unless others changed it.  *)
ResetInv == run.pc = "git" => \A p \in Path \ run.touched : disk[p] = Tip.tree[p]

FilesInv == MovesInv /\ ResetInv

(* What a run names and how it got there is only read from here on.          *)
LEMMA PairsAre ==
  ASSUME TypeInv, MovesInv, run.pc \in {"move", "rollback"}
  PROVE  /\ Len(run.pairs) \in Nat /\ Len(run.done) \in Nat /\ Len(run.done) <= Len(run.pairs)
         /\ \A i \in 1..Len(run.pairs) : run.pairs[i] \in Pair /\ run.pairs[i].old \in Path /\ run.pairs[i].new \in Path
         /\ \A i, j \in 1..Len(run.pairs) :
               /\ run.pairs[i].old # run.pairs[j].new
               /\ i # j => run.pairs[i].old # run.pairs[j].old /\ run.pairs[i].new # run.pairs[j].new
         /\ \A i \in 1..Len(run.done) : i \in 1..Len(run.pairs) /\ run.done[i] = run.pairs[i]
<1>1. run.pairs \in Seq(Pair) /\ run.done \in Seq(Pair)
  BY DEF TypeInv, Runs
<1>2. \A i \in 1..Len(run.pairs) : run.pairs[i] \in Pair
  BY <1>1
<1>3. /\ Distinct(run.pairs) /\ Len(run.done) <= Len(run.pairs)
      /\ \A i \in 1..Len(run.done) : run.done[i] = run.pairs[i]
  BY DEF MovesInv
<1>4. \A i \in 1..Len(run.pairs) : run.pairs[i].old \in Path /\ run.pairs[i].new \in Path
  BY <1>2 DEF Pair
<1>5. Len(run.pairs) \in Nat /\ Len(run.done) \in Nat
  BY <1>1
<1>6. \A i \in 1..Len(run.done) : i \in 1..Len(run.pairs)
  BY <1>3, <1>5
<1> QED
  BY <1>2, <1>3, <1>4, <1>5, <1>6 DEF Distinct

(* Steps after which no move is under way and no reset.                      *)
LEMMA FilesFrame ==
  ASSUME run'.pc \notin {"move", "rollback", "git"}
  PROVE  FilesInv'
BY DEF FilesInv, MovesInv, ResetInv

LEMMA OthersFiles ==
  ASSUME Others, TypeInv, FilesInv
  PROVE  FilesInv'
<1>1. PICK p \in Path : Edit(p) \/ Add(p) \/ RmCached(p) \/ Arrival(p)
  BY WorktreeConstants DEF Others
<1>2. run \in Runs /\ disk \in Tree /\ hist \in Seq(Commit) /\ Len(hist) > 0
  BY DEF TypeInv
<1>3. Told(p) /\ disk'[p] \in Held /\ \A q \in Path : q # p => disk'[q] = disk[q]
  <2>1. CASE Edit(p)
    BY <2>1, EditIs
  <2>2. CASE Add(p) \/ RmCached(p)
    <3>1. Told(p) /\ disk' = disk
      BY <2>2, StagesIs
    <3> QED
      BY <1>2, <3>1 DEF Tree
  <2>3. CASE Arrival(p)
    <3>1. Told(p) /\ disk' = disk
      BY <2>3, ArrivalIs
    <3> QED
      BY <1>2, <3>1 DEF Tree
  <2> QED
    BY <1>1, <2>1, <2>2, <2>3
<1>4. \A q \in Path : q # p => Tip'.tree[q] = Tip.tree[q]
  <2>1. CASE Edit(p)
    BY <2>1, EditIs DEF Tip
  <2>2. CASE Add(p) \/ RmCached(p)
    BY <2>2, StagesIs DEF Tip
  <2>3. CASE Arrival(p)
    <3>1. PICK c \in Held : hist'[Len(hist')] = [id |-> spent.ids + 1, tree |-> [Tip.tree EXCEPT ![p] = c]]
      BY <2>3, ArrivalIs
    <3>2. Tip'.tree = [Tip.tree EXCEPT ![p] = c]
      BY <3>1 DEF Tip
    <3> QED
      BY <1>2, <3>2, TipIsCommit DEF Tree
  <2> QED
    BY <1>1, <2>1, <2>2, <2>3
<1>5. SameRun /\ run.touched \subseteq run'.touched /\ (run.pc # "idle" => p \in run'.touched)
  BY <1>2, <1>3, ToldRun
<1>6. MovesInv'
  <2> SUFFICES ASSUME run'.pc \in {"move", "rollback"} PROVE MovesInv'
    BY DEF MovesInv
  <2>1. /\ run.pc \in {"move", "rollback"} /\ run'.pairs = run.pairs /\ run'.done = run.done /\ run'.pc = run.pc
        /\ run'.disk0 = run.disk0 /\ run'.warned = run.warned /\ p \in run'.touched
    BY <1>5 DEF SameRun
  <2>2. \A q \in Path : q \notin run'.touched => q \notin run.touched /\ disk'[q] = disk[q]
    BY <1>3, <1>5, <2>1
  <2>3. ASSUME NEW i \in 1..Len(run.pairs) PROVE Apiece(i)'
    <3>1. Apiece(i) /\ run.pairs[i].old \in Path /\ run.pairs[i].new \in Path
      BY <2>1, PairsAre DEF FilesInv, MovesInv
    <3> QED
      BY <2>1, <2>2, <3>1 DEF Apiece, Gone
  <2> QED
    BY <2>1, <2>3 DEF FilesInv, MovesInv, Distinct
<1>7. ResetInv'
  <2> SUFFICES ASSUME run'.pc = "git", NEW q \in Path \ run'.touched PROVE disk'[q] = Tip'.tree[q]
    BY DEF ResetInv
  <2>1. run.pc = "git" /\ q \notin run.touched /\ q # p
    BY <1>5 DEF SameRun
  <2> QED
    BY <1>3, <1>4, <2>1 DEF FilesInv, ResetInv
<1> QED
  BY <1>6, <1>7 DEF FilesInv

LEMMA BeginsFiles ==
  ASSUME Begins, TypeInv
  PROVE  FilesInv'
<1>1. hist' = hist /\ disk' = disk /\ Tip' = Tip
  BY BeginsType DEF Untouched, Tip
<1>2. CASE BeginCommit \/ BeginReword \/ BeginUndo \/ BeginDoctor
  <2>1. run'.pc \in {"parent", "replan"}
    BY <1>2 DEF BeginCommit, BeginReword, BeginUndo, BeginDoctor, Starts, Idle
  <2> QED
    BY <2>1, FilesFrame
<1>3. CASE BeginReset
  <2>1. run'.pc = "git" /\ \A p \in Path : ~Dirty(p)
    BY <1>3 DEF BeginReset, Starts, Idle
  <2>2. \A p \in Path : disk'[p] = Tip'.tree[p]
    BY <1>1, <2>1 DEF Dirty
  <2> QED
    BY <2>1, <2>2 DEF FilesInv, MovesInv, ResetInv
<1>4. CASE BeginMv
  <2>1. PICK pairs \in Moves :
           /\ \A i \in DOMAIN pairs : disk[pairs[i].old] # None /\ disk[pairs[i].new] = None
           /\ run' = [Idle EXCEPT !.pc = "move", !.op = "mv", !.pairs = pairs, !.attempt = 1,
                                  !.disk0 = disk, !.base = Tip.tree]
    BY <1>4 DEF BeginMv
  <2>2. /\ run'.pc = "move" /\ run'.pairs = pairs /\ run'.done = <<>> /\ run'.disk0 = disk
        /\ run'.warned = FALSE
    BY <2>1 DEF Idle
  <2>3. pairs \in Seq(Pair) /\ DOMAIN pairs = 1..Len(pairs) /\ Len(pairs) \in Nat /\ Len(<<>>) = 0
    <3>1. pairs \in Seq(Pair)
      BY <2>1, WorktreeConstants DEF Pair
    <3> QED
      BY <3>1
  <2>4. Distinct(pairs)
    <3>1. \A i, j \in DOMAIN pairs : i # j => pairs[i].old # pairs[j].old /\ pairs[i].new # pairs[j].new
      BY <2>1, WorktreeConstants
    <3>2. \A i, j \in DOMAIN pairs : pairs[i].old # pairs[j].new
      BY <2>1
    <3> QED
      BY <2>3, <3>1, <3>2 DEF Distinct
  <2>5. ASSUME NEW i \in 1..Len(pairs) PROVE Apiece(i)'
    <3>1. ~(i <= Len(run'.done)) /\ disk'[pairs[i].new] = None
      BY <1>1, <2>1, <2>2, <2>3
    <3> QED
      BY <1>1, <2>2, <3>1 DEF Apiece, Gone
  <2> QED
    BY <2>2, <2>3, <2>4, <2>5 DEF FilesInv, MovesInv, ResetInv
<1> QED
  BY <1>2, <1>3, <1>4 DEF Begins

(* What a rename does, and what its undoing.                                 *)
LEMMA RenameIs ==
  ASSUME Rename, TypeInv, MovesInv
  PROVE  LET k == Len(run.done) + 1
         IN  /\ run.pc = "move" /\ k \in 1..Len(run.pairs) /\ ~run.warned
             /\ run'.pairs = run.pairs /\ run'.disk0 = run.disk0 /\ run'.warned = run.warned
             /\ run'.touched = run.touched /\ Tip' = Tip /\ spent' = spent
             /\ \/ /\ disk' = Renamed(run.pairs[k].old, run.pairs[k].new) /\ run'.pc = "move"
                   /\ Len(run'.done) = k /\ run'.done[k] = run.pairs[k]
                   /\ \A i \in 1..Len(run.done) : run'.done[i] = run.done[i]
                \/ disk' = disk /\ run'.pc = "rollback" /\ run'.done = run.done
<1> DEFINE k == Len(run.done) + 1
<1>1. /\ run.pc = "move" /\ Len(run.done) < Len(run.pairs) /\ Tip' = Tip /\ spent' = spent
      /\ \/ disk' = Renamed(run.pairs[k].old, run.pairs[k].new) /\ run' = [run EXCEPT !.done = Append(@, run.pairs[k])]
         \/ disk' = disk /\ run' = [run EXCEPT !.pc = "rollback"]
  BY DEF Rename, Tip
<1>2. run \in Runs /\ run.done \in Seq(Pair) /\ run.pairs \in Seq(Pair) /\ ~run.warned
  BY <1>1 DEF TypeInv, Runs, MovesInv
<1>3. k \in 1..Len(run.pairs) /\ run.pairs[k] \in Pair
  BY <1>1, <1>2
<1>4. CASE disk' = Renamed(run.pairs[k].old, run.pairs[k].new) /\ run' = [run EXCEPT !.done = Append(@, run.pairs[k])]
  <2> DEFINE D == Append(run.done, run.pairs[k])
  <2>1. Len(D) = k /\ D[k] = run.pairs[k] /\ \A i \in 1..Len(run.done) : D[i] = run.done[i]
    BY <1>2, <1>3
  <2>2. run' = [run EXCEPT !.done = D]
    BY <1>4
  <2> HIDE DEF D, k
  <2>3. /\ run'.pairs = run.pairs /\ run'.disk0 = run.disk0 /\ run'.warned = run.warned
        /\ run'.touched = run.touched /\ run'.pc = run.pc /\ run'.done = D
    BY <1>2, <2>2 DEF Runs
  <2>4. /\ run.pc = "move" /\ k \in 1..Len(run.pairs) /\ ~run.warned
        /\ run'.pairs = run.pairs /\ run'.disk0 = run.disk0 /\ run'.warned = run.warned
        /\ run'.touched = run.touched /\ Tip' = Tip /\ spent' = spent
        /\ disk' = Renamed(run.pairs[k].old, run.pairs[k].new) /\ run'.pc = "move"
        /\ Len(run'.done) = k /\ run'.done[k] = run.pairs[k]
        /\ \A i \in 1..Len(run.done) : run'.done[i] = run.done[i]
    BY <1>1, <1>2, <1>3, <1>4, <2>1, <2>3
  <2> QED
    BY <2>4 DEF k
<1>5. CASE disk' = disk /\ run' = [run EXCEPT !.pc = "rollback"]
  <2>1. /\ run'.pairs = run.pairs /\ run'.disk0 = run.disk0 /\ run'.warned = run.warned
        /\ run'.touched = run.touched /\ run'.pc = "rollback" /\ run'.done = run.done
    BY <1>2, <1>5 DEF Runs
  <2> QED
    BY <1>1, <1>2, <1>3, <1>5, <2>1
<1> QED
  BY <1>1, <1>4, <1>5

LEMMA RollBackIs ==
  ASSUME RollBack, TypeInv, MovesInv
  PROVE  LET k == Len(run.done)
         IN  /\ run.pc = "rollback" /\ run'.pc = "rollback" /\ k \in 1..Len(run.pairs)
             /\ run'.pairs = run.pairs /\ run'.disk0 = run.disk0
             /\ run'.touched = run.touched /\ Tip' = Tip /\ spent' = spent
             /\ Len(run'.done) = k - 1 /\ \A i \in 1..(k - 1) : run'.done[i] = run.done[i]
             /\ \/ disk' = Renamed(run.pairs[k].new, run.pairs[k].old) /\ run'.warned = run.warned
                \/ disk' = disk /\ run'.warned
<1> DEFINE k == Len(run.done)
           D == SubSeq(run.done, 1, k - 1)
<1>1. /\ run.pc = "rollback" /\ run.done # <<>> /\ Tip' = Tip /\ spent' = spent
      /\ \/ disk' = Renamed(run.done[k].new, run.done[k].old) /\ run' = [run EXCEPT !.done = D]
         \/ disk' = disk /\ run' = [run EXCEPT !.done = D, !.warned = TRUE]
  BY DEF RollBack, PutBack, Last, Front, Tip
<1>2. run \in Runs /\ run.done \in Seq(Pair)
  BY DEF TypeInv, Runs
<1>3. k \in 1..Len(run.done) /\ k \in Nat
  BY <1>1, <1>2
<1>4. k \in 1..Len(run.pairs) /\ run.done[k] = run.pairs[k]
  BY <1>1, <1>3, PairsAre
<1>5. Len(D) = k - 1 /\ \A i \in 1..(k - 1) : D[i] = run.done[i]
  <2>1. k - 1 \in Int /\ 1 \in Int /\ \A i \in 1..(k - 1) : run.done[i] \in Pair
    BY <1>2, <1>3
  <2>2. Len(D) = (IF 1 <= k - 1 THEN k - 1 - 1 + 1 ELSE 0)
        /\ \A i \in 1..(k - 1 - 1 + 1) : D[i] = run.done[1 + i - 1]
    <3> HIDE DEF k
    <3> QED
      BY <2>1, SubSeqProperties
  <2> HIDE DEF D
  <2>3. Len(D) = k - 1
    <3>1. Len(D) = (IF 1 <= k - 1 THEN k - 1 - 1 + 1 ELSE 0)
      BY <2>2
    <3> QED
      BY <1>3, <3>1
  <2>4. ASSUME NEW i \in 1..(k - 1) PROVE D[i] = run.done[i]
    <3>1. i \in 1..(k - 1 - 1 + 1) /\ 1 + i - 1 = i
      BY <1>3
    <3> QED
      BY <2>2, <3>1
  <2> QED
    BY <2>3, <2>4
<1> HIDE DEF D, k
<1>6. CASE disk' = Renamed(run.done[k].new, run.done[k].old) /\ run' = [run EXCEPT !.done = D]
  <2>1. /\ run'.pairs = run.pairs /\ run'.disk0 = run.disk0 /\ run'.warned = run.warned
        /\ run'.touched = run.touched /\ run'.pc = run.pc /\ run'.done = D
    BY <1>2, <1>6 DEF Runs
  <2> QED
    BY <1>1, <1>4, <1>5, <1>6, <2>1 DEF k
<1>7. CASE disk' = disk /\ run' = [run EXCEPT !.done = D, !.warned = TRUE]
  <2>1. /\ run'.pairs = run.pairs /\ run'.disk0 = run.disk0 /\ run'.warned
        /\ run'.touched = run.touched /\ run'.pc = run.pc /\ run'.done = D
    BY <1>2, <1>7 DEF Runs
  <2> QED
    BY <1>1, <1>4, <1>5, <1>7, <2>1 DEF k
<1> QED
  BY <1>1, <1>6, <1>7

(* Names of other pairs are not theirs.                                      *)
LEMMA RenameFiles ==
  ASSUME Rename, TypeInv, FilesInv
  PROVE  FilesInv'
<1> DEFINE k == Len(run.done) + 1
           old == run.pairs[k].old
           new == run.pairs[k].new
<1>1. /\ run.pc = "move" /\ k \in 1..Len(run.pairs) /\ ~run.warned
      /\ run'.pairs = run.pairs /\ run'.disk0 = run.disk0 /\ run'.warned = run.warned
      /\ run'.touched = run.touched
      /\ \/ /\ disk' = Renamed(old, new) /\ run'.pc = "move"
            /\ Len(run'.done) = k /\ run'.done[k] = run.pairs[k]
            /\ \A i \in 1..Len(run.done) : run'.done[i] = run.done[i]
         \/ disk' = disk /\ run'.pc = "rollback" /\ run'.done = run.done
  BY RenameIs DEF FilesInv
<1>2. /\ Len(run.pairs) \in Nat /\ Len(run.done) \in Nat /\ Len(run.done) <= Len(run.pairs)
      /\ \A i \in 1..Len(run.pairs) : run.pairs[i].old \in Path /\ run.pairs[i].new \in Path
      /\ \A i, j \in 1..Len(run.pairs) :
            /\ run.pairs[i].old # run.pairs[j].new
            /\ i # j => run.pairs[i].old # run.pairs[j].old /\ run.pairs[i].new # run.pairs[j].new
      /\ \A i \in 1..Len(run.done) : i \in 1..Len(run.pairs) /\ run.done[i] = run.pairs[i]
  BY <1>1, PairsAre DEF FilesInv
<1>3. Distinct(run'.pairs) /\ \A i \in 1..Len(run.pairs) : Apiece(i)
  BY <1>1 DEF FilesInv, MovesInv
<1>4. CASE disk' = disk /\ run'.pc = "rollback" /\ run'.done = run.done
  <2>1. ASSUME NEW i \in 1..Len(run.pairs) PROVE Apiece(i)'
    BY <1>1, <1>3, <1>4 DEF Apiece, Gone
  <2> QED
    BY <1>1, <1>2, <1>3, <1>4, <2>1 DEF FilesInv, MovesInv, ResetInv
<1>5. CASE /\ disk' = Renamed(old, new) /\ run'.pc = "move"
           /\ Len(run'.done) = k /\ run'.done[k] = run.pairs[k]
           /\ \A i \in 1..Len(run.done) : run'.done[i] = run.done[i]
  <2>1. old \in Path /\ new \in Path /\ old # new /\ disk \in Tree
    BY <1>1, <1>2 DEF TypeInv
  <2>2. disk'[old] = None /\ disk'[new] = disk[old] /\ \A q \in Path \ {old, new} : disk'[q] = disk[q]
    BY <1>5, <2>1, RenamedIs
  <2>3. ASSUME NEW i \in 1..Len(run.pairs) PROVE Apiece(i)'
    <3>1. CASE i = k
      <4>1. /\ i <= Len(run'.done) /\ ~(i <= Len(run.done))
        BY <1>2, <1>5, <3>1
      <4> QED
        BY <1>1, <1>3, <2>2, <3>1, <4>1, SMTT(30) DEF Apiece, Gone
    <3>2. CASE i # k
      <4>1. /\ run.pairs[i].old \in Path \ {old, new} /\ run.pairs[i].new \in Path \ {old, new}
        BY <1>1, <1>2, <3>2
      <4>2. disk'[run.pairs[i].old] = disk[run.pairs[i].old] /\ disk'[run.pairs[i].new] = disk[run.pairs[i].new]
        BY <2>2, <4>1
      <4>3. i <= Len(run'.done) <=> i <= Len(run.done)
        BY <1>2, <1>5, <3>2
      <4> HIDE DEF old, new, k
      <4> QED
        BY <1>1, <1>3, <4>2, <4>3 DEF Apiece, Gone
    <3> QED
      BY <3>1, <3>2
  <2>4. \A i \in 1..Len(run'.done) : run'.done[i] = run'.pairs[i]
    <3> TAKE i \in 1..Len(run'.done)
    <3>1. i \in 1..Len(run.done) \/ i = k
      BY <1>2, <1>5
    <3> QED
      BY <1>1, <1>2, <1>5, <3>1
  <2> QED
    BY <1>1, <1>3, <1>5, <2>3, <2>4 DEF FilesInv, MovesInv, ResetInv
<1> QED
  BY <1>1, <1>4, <1>5

LEMMA RollBackFiles ==
  ASSUME RollBack, TypeInv, FilesInv
  PROVE  FilesInv'
<1> DEFINE k == Len(run.done)
           old == run.pairs[k].old
           new == run.pairs[k].new
<1>1. /\ run.pc = "rollback" /\ run'.pc = "rollback" /\ k \in 1..Len(run.pairs)
      /\ run'.pairs = run.pairs /\ run'.disk0 = run.disk0 /\ run'.touched = run.touched
      /\ Len(run'.done) = k - 1 /\ \A i \in 1..(k - 1) : run'.done[i] = run.done[i]
      /\ \/ disk' = Renamed(new, old) /\ run'.warned = run.warned
         \/ disk' = disk /\ run'.warned
  BY RollBackIs DEF FilesInv
<1>2. /\ Len(run.pairs) \in Nat /\ k \in Nat /\ k <= Len(run.pairs)
      /\ \A i \in 1..Len(run.pairs) : run.pairs[i].old \in Path /\ run.pairs[i].new \in Path
      /\ \A i, j \in 1..Len(run.pairs) :
            /\ run.pairs[i].old # run.pairs[j].new
            /\ i # j => run.pairs[i].old # run.pairs[j].old /\ run.pairs[i].new # run.pairs[j].new
      /\ \A i \in 1..k : i \in 1..Len(run.pairs) /\ run.done[i] = run.pairs[i]
  BY <1>1, PairsAre DEF FilesInv
<1>3. Distinct(run'.pairs) /\ \A i \in 1..Len(run.pairs) : Apiece(i)
  BY <1>1 DEF FilesInv, MovesInv
<1>4. ASSUME NEW i \in 1..Len(run.pairs) PROVE Apiece(i)'
  <2>1. CASE disk' = disk /\ run'.warned
    <3>1. i <= Len(run'.done) => i <= Len(run.done)
      BY <1>1, <1>2
    <3> HIDE DEF old, new
    <3> QED
      BY <1>1, <1>3, <2>1, <3>1 DEF Apiece, Gone
  <2>2. CASE disk' = Renamed(new, old) /\ run'.warned = run.warned
    <3>1. old \in Path /\ new \in Path /\ old # new /\ disk \in Tree
      BY <1>1, <1>2 DEF TypeInv
    <3>2. disk'[new] = None /\ disk'[old] = disk[new] /\ \A q \in Path \ {old, new} : disk'[q] = disk[q]
      BY <2>2, <3>1, RenamedIs
    <3>3. CASE i = k
      <4>1. i <= Len(run.done) /\ ~(i <= Len(run'.done))
        BY <1>1, <1>2, <3>3
      <4> QED
        BY <1>1, <1>3, <3>2, <3>3, <4>1 DEF Apiece, Gone
    <3>4. CASE i # k
      <4>1. run.pairs[i].old \in Path \ {old, new} /\ run.pairs[i].new \in Path \ {old, new}
        BY <1>1, <1>2, <3>4
      <4>2. disk'[run.pairs[i].old] = disk[run.pairs[i].old] /\ disk'[run.pairs[i].new] = disk[run.pairs[i].new]
        BY <3>2, <4>1
      <4>3. i <= Len(run'.done) <=> i <= Len(run.done)
        BY <1>1, <1>2, <3>4
      <4> HIDE DEF old, new, k
      <4> QED
        BY <1>1, <1>3, <2>2, <4>2, <4>3 DEF Apiece, Gone
    <3> QED
      BY <3>3, <3>4
  <2> QED
    BY <1>1, <2>1, <2>2
<1>5. Len(run'.done) <= Len(run'.pairs) /\ \A i \in 1..Len(run'.done) : run'.done[i] = run'.pairs[i]
  BY <1>1, <1>2
<1> QED
  BY <1>1, <1>3, <1>4, <1>5 DEF FilesInv, MovesInv, ResetInv

LEMMA FilesStep == TypeInv /\ Shape /\ FilesInv /\ [Next]_vars => FilesInv'
<1> SUFFICES ASSUME TypeInv, Shape, FilesInv, [Next]_vars PROVE FilesInv'
  OBVIOUS
<1>1. run \in Runs /\ Idle.pc = "idle"
  BY DEF TypeInv, Idle
<1>2. ASSUME run' = Idle PROVE FilesInv'
  BY <1>1, <1>2, FilesFrame
<1>3. CASE RefuseEmpty \/ ReplayBatch \/ ReconcileFails \/ RolledBack \/ GitReset \/ Repaired
  BY <1>2, <1>3 DEF RefuseEmpty, ReplayBatch, ReconcileFails, RolledBack, GitReset, Repaired, End
<1>4. CASE ReadParent \/ ReadSlots \/ ReadTree
  <2>1. run'.pc \in {"stage", "sync", "replay"}
    BY <1>1, <1>4 DEF ReadParent, ReadSlots, ReadTree, Runs
  <2> QED
    BY <2>1, FilesFrame
<1>5. CASE (\E p \in Path : StageFile(p)) \/ Retry \/ MovesMade \/ Replan \/ \E p \in Path : Repair(p)
  <2>1. \/ run' = Idle
        \/ run' = [run EXCEPT !.pc = "parent", !.attempt = @ + 1, !.tmp = NoTree]
        \/ run' = [run EXCEPT !.pc = "parent"]
        \/ run' = [run EXCEPT !.pc = "repair", !.todo = Orphans, !.slots = disk]
        \/ run.pc = "stage" /\ \E p \in Path : run' = [run EXCEPT !.tmp[p] = StagedAs(p), !.todo = @ \ {p}]
        \/ run.pc = "repair" /\ \E p \in Path : run' = [run EXCEPT !.todo = @ \ {p}]
    BY <1>5 DEF StageFile, Retry, Again, MovesMade, Replan, Repair, End
  <2>2. CASE run' # Idle
    <3>1. run'.pc \in {"parent", "repair", "stage"}
      BY <1>1, <2>1, <2>2 DEF Runs
    <3> QED
      BY <3>1, FilesFrame
  <2> QED
    BY <1>2, <2>2
<1>6. CASE Land
  <2>1. run' = [run EXCEPT !.pc = "slots", !.base = Tip.tree, !.slots = NoTree, !.tmp = NoTree, !.seen = Empty]
    BY <1>6, LandIs
  <2>2. run'.pc = "slots"
    BY <1>1, <2>1 DEF Runs
  <2> QED
    BY <2>2, FilesFrame
<1>7. CASE Steps
  BY <1>3, <1>4, <1>5, <1>6, <1>7, RenameFiles, RollBackFiles DEF Steps
<1>8. CASE UNCHANGED vars
  <2>1. UNCHANGED <<disk, run>> /\ Tip' = Tip
    BY <1>8 DEF vars, Tip
  <2> QED
    BY <2>1 DEF FilesInv, MovesInv, ResetInv, Apiece, Gone, Distinct
<1> QED
  BY <1>7, <1>8, OthersFiles, BeginsFiles DEF Next

LEMMA InitFiles == Init => FilesInv
BY DEF Init, Idle, FilesInv, MovesInv, ResetInv

(* What changes files while nobody else acts.                                *)
LEMMA FilesChange ==
  ASSUME TypeInv, Shape, Next, disk' # disk, spent' = spent
  PROVE  Rename \/ RollBack \/ GitReset
<1>1. ~Begins
  BY BeginsType DEF Untouched
<1>2. ~Others
  <2> SUFFICES ASSUME NEW p \in Path, Edit(p) \/ Add(p) \/ RmCached(p) \/ Arrival(p) PROVE FALSE
    BY WorktreeConstants DEF Others
  <2>1. ~Edit(p)
    BY EditIs
  <2>2. disk' = disk
    BY <2>1, StagesIs, ArrivalIs
  <2> QED
    BY <2>2
<1>3. ~Land
  BY LandIs
<1> QED
  BY <1>1, <1>2, <1>3 DEF Next, Steps, ReadParent, StageFile, RefuseEmpty, Retry, ReadSlots, ReadTree,
     ReplayBatch, ReconcileFails, MovesMade, RolledBack, Replan, Repair, Repaired

LEMMA StepKeepsEdits ==
  ASSUME TypeInv, Shape, FilesInv, Next, NEW p \in Path \ run.touched, disk'[p] # disk[p], spent' = spent
  PROVE  disk[p] \in {None, Tip.tree[p]} \/ \E q \in Path : disk'[q] = disk[p]
<1>1. Rename \/ RollBack \/ GitReset
  BY FilesChange
<1>2. disk \in Tree
  BY DEF TypeInv
<1>3. CASE Rename
  <2> DEFINE k == Len(run.done) + 1
             old == run.pairs[k].old
             new == run.pairs[k].new
  <2>1. /\ run.pc = "move" /\ k \in 1..Len(run.pairs) /\ ~run.warned
        /\ disk' = Renamed(old, new) \/ disk' = disk
    BY <1>3, RenameIs DEF FilesInv
  <2>2. old \in Path /\ new \in Path /\ old # new /\ Len(run.done) \in Nat
    BY <2>1, PairsAre DEF FilesInv
  <2>3. Gone(new)
    <3>1. Apiece(k) /\ ~(k <= Len(run.done))
      BY <2>1, <2>2 DEF FilesInv, MovesInv
    <3> QED
      BY <2>1, <3>1 DEF Apiece
  <2>4. disk'[new] = disk[old] /\ \A q \in Path \ {old, new} : disk'[q] = disk[q]
    BY <1>2, <2>1, <2>2, RenamedIs
  <2> HIDE DEF old, new, k
  <2> QED
    BY <2>2, <2>3, <2>4 DEF Gone
<1>4. CASE RollBack
  <2> DEFINE k == Len(run.done)
             old == run.pairs[k].old
             new == run.pairs[k].new
  <2>1. /\ run.pc = "rollback" /\ k \in 1..Len(run.pairs)
        /\ disk' = Renamed(new, old) \/ disk' = disk
    BY <1>4, RollBackIs DEF FilesInv
  <2>2. old \in Path /\ new \in Path /\ old # new /\ k \in Nat
    BY <2>1, PairsAre DEF FilesInv
  <2>3. Gone(old)
    <3>1. Apiece(k) /\ k <= Len(run.done)
      BY <2>1, <2>2 DEF FilesInv, MovesInv
    <3> QED
      BY <3>1 DEF Apiece
  <2>4. disk'[old] = disk[new] /\ \A q \in Path \ {old, new} : disk'[q] = disk[q]
    BY <1>2, <2>1, <2>2, RenamedIs
  <2> HIDE DEF old, new, k
  <2> QED
    BY <2>2, <2>3, <2>4 DEF Gone
<1>5. CASE GitReset
  <2>1. run.pc = "git"
    BY <1>5, ResetIs
  <2> QED
    BY <2>1 DEF FilesInv, ResetInv
<1> QED
  BY <1>1, <1>3, <1>4, <1>5

(* No run takes from a file what only the file has, unless it was put there  *)
(* after the run looked.                                                     *)
THEOREM EditsStay == Spec => EditsKept
<1>1. Init => TypeInv /\ Shape /\ FilesInv
  BY InitType, InitShape, InitFiles
<1>2. TypeInv /\ Shape /\ FilesInv /\ [Next]_vars => TypeInv' /\ Shape' /\ FilesInv'
  BY TypeStep, FilesStep
<1>3. TypeInv /\ Shape /\ FilesInv /\ [Next]_vars =>
        [\A p \in Path \ run.touched : disk'[p] # disk[p] /\ run' # run /\ spent' = spent =>
            \/ disk[p] \in {None, Tip.tree[p]}
            \/ \E q \in Path : disk'[q] = disk[p]]_vars
  BY StepKeepsEdits
<1> QED
  BY <1>1, <1>2, <1>3, PTL DEF Spec, EditsKept

(* A run that puts its moves back ends where there is nothing left to.       *)
LEMMA EndsRolledBack ==
  ASSUME TypeInv, Shape, MovesInv, Next, run.pc = "rollback", run'.pc = "idle"
  PROVE  RolledBack
<1>1. run \in Runs
  BY DEF TypeInv
<1>2. ~Others
  <2> SUFFICES ASSUME NEW p \in Path, Edit(p) \/ Add(p) \/ RmCached(p) \/ Arrival(p) PROVE FALSE
    BY WorktreeConstants DEF Others
  <2>1. disk'[p] \in Held /\ Told(p)
    <3>1. disk[p] \in Held
      BY DEF TypeInv, Tree
    <3>2. CASE Edit(p)
      BY <3>2, EditIs
    <3>3. CASE Add(p) \/ RmCached(p)
      BY <3>1, <3>3, StagesIs
    <3>4. CASE Arrival(p)
      BY <3>1, <3>4, ArrivalIs
    <3> QED
      BY <3>2, <3>3, <3>4
  <2> QED
    BY <1>1, <2>1, ToldRun DEF SameRun
<1>3. ~Begins
  BY BeginsType
<1>4. ~RollBack
  BY RollBackIs
<1> QED
  BY <1>2, <1>3, <1>4 DEF Next, Steps, ReadParent, StageFile, RefuseEmpty, Staged, Land, Retry, ReadSlots,
     ReadTree, ReplayBatch, ReconcileFails, Reconciling, Rename, MovesMade, GitReset, Replan, Repair, Repaired

(* A move that says it put everything back has.                              *)
THEOREM BackMeansBack == Spec => PutBackIsTrue
<1>1. Init => TypeInv /\ Shape /\ FilesInv
  BY InitType, InitShape, InitFiles
<1>2. TypeInv /\ Shape /\ FilesInv /\ [Next]_vars => TypeInv' /\ Shape' /\ FilesInv'
  BY TypeStep, FilesStep
<1>3. TypeInv /\ Shape /\ FilesInv /\ [Next]_vars =>
        [run.pc = "rollback" /\ run'.pc = "idle" /\ ~run.warned =>
            \A pair \in Range(run.pairs) :
               {pair.old, pair.new} \cap run.touched = {} =>
                  disk[pair.old] = run.disk0[pair.old] /\ disk[pair.new] = None]_vars
  <2> SUFFICES ASSUME TypeInv, Shape, FilesInv, Next, run.pc = "rollback", run'.pc = "idle", ~run.warned,
                      NEW pair \in Range(run.pairs), {pair.old, pair.new} \cap run.touched = {}
               PROVE  disk[pair.old] = run.disk0[pair.old] /\ disk[pair.new] = None
    BY DEF vars
  <2>1. run.done = <<>>
    BY EndsRolledBack DEF FilesInv, RolledBack
  <2>2. PICK i \in 1..Len(run.pairs) : pair = run.pairs[i]
    <3>1. DOMAIN run.pairs = 1..Len(run.pairs)
      BY DEF TypeInv, Runs
    <3> QED
      BY <3>1 DEF Range
  <2>3. Apiece(i) /\ ~(i <= Len(run.done))
    BY <2>1, <2>2 DEF FilesInv, MovesInv
  <2>4. pair.old \notin run.touched /\ pair.new \notin run.touched
    OBVIOUS
  <2> QED
    BY <2>2, <2>3, <2>4 DEF Apiece, Gone
<1> QED
  BY <1>1, <1>2, <1>3, PTL DEF Spec, PutBackIsTrue

---------------------------------------------------------------------------
(***************************************************************************)
(* Moves and intake, whatever the order of the names of paths: how moves   *)
(* are recorded and followed, and what naming a path comes to.             *)
(***************************************************************************)
(* A sequence has members of its set.                                        *)
LEMMA MemberOf ==
  ASSUME NEW S, NEW s \in Seq(S), NEW i \in DOMAIN s
  PROVE  s[i] \in S
OBVIOUS

(* The moves a commit has records of: of paths, which are sequences of       *)
(* names; one thing about each path, and none of a path into itself.         *)
MovesOf(c) == {r.move : r \in c.records}
Movable(Name) == [old : Seq(Name), new : Seq(Name), subtree : BOOLEAN]
WellRecorded(c, Name) ==
    /\ MovesOf(c) \subseteq Movable(Name)
    /\ M!Consistent(MovesOf(c)) /\ \A m \in MovesOf(c) : M!ValidPair(m)

(* Two beginnings of one path begin one another.                             *)
LEMMA BeginningsNest ==
  ASSUME NEW Name, NEW p \in Seq(Name), NEW q \in Seq(Name), NEW r \in Seq(Name), M!IsPrefix(p, r), M!IsPrefix(q, r)
  PROVE  M!Nests(p, q)
<1>1. Len(p) \in Nat /\ Len(q) \in Nat /\ Len(r) \in Nat
  OBVIOUS
<1>2. Len(p) <= Len(r) /\ \A i \in 1..Len(p) : p[i] = r[i]
  <2>1. Len(p) <= Len(r) /\ SubSeq(p, 1, Len(p)) = SubSeq(r, 1, Len(p))
    BY DEF M!IsPrefix
  <2>2. \A i \in 1..Len(p) : SubSeq(p, 1, Len(p))[i] = p[i] /\ SubSeq(r, 1, Len(p))[i] = r[i]
    BY <1>1, <2>1
  <2>3. QED
    BY <2>1, <2>2
<1>3. Len(q) <= Len(r) /\ \A i \in 1..Len(q) : q[i] = r[i]
  <2>1. Len(q) <= Len(r) /\ SubSeq(q, 1, Len(q)) = SubSeq(r, 1, Len(q))
    BY DEF M!IsPrefix
  <2>2. \A i \in 1..Len(q) : SubSeq(q, 1, Len(q))[i] = q[i] /\ SubSeq(r, 1, Len(q))[i] = r[i]
    BY <1>1, <2>1
  <2>3. QED
    BY <2>1, <2>2
<1>4. CASE Len(p) <= Len(q)
  <2>1. \A i \in 1..Len(p) : p[i] = q[i]
    BY <1>1, <1>2, <1>3, <1>4
  <2>2. SubSeq(p, 1, Len(p)) = SubSeq(q, 1, Len(p))
    BY <1>1, <1>4, <2>1
  <2>3. QED
    BY <1>4, <2>2 DEF M!Nests, M!IsPrefix
<1>5. CASE Len(q) <= Len(p)
  <2>1. \A i \in 1..Len(q) : q[i] = p[i]
    BY <1>1, <1>2, <1>3, <1>5
  <2>2. SubSeq(q, 1, Len(q)) = SubSeq(p, 1, Len(q))
    BY <1>1, <1>5, <2>1
  <2>3. QED
    BY <1>5, <2>2 DEF M!Nests, M!IsPrefix
<1>6. QED
  BY <1>1, <1>4, <1>5

(* What begins with a path is that path and the rest.                        *)
LEMMA RestOf ==
  ASSUME NEW Name, NEW d \in Seq(Name), NEW p \in Seq(Name), M!IsPrefix(d, p)
  PROVE  M!Rel(d, p) \in Seq(Name) /\ p = d \o M!Rel(d, p)
<1>1. Len(d) \in Nat /\ Len(p) \in Nat /\ Len(d) <= Len(p) /\ SubSeq(d, 1, Len(d)) = SubSeq(p, 1, Len(d))
  BY DEF M!IsPrefix
<1>2. \A i \in 1..Len(d) : d[i] = p[i]
  <2>1. \A i \in 1..Len(d) : SubSeq(d, 1, Len(d))[i] = d[i] /\ SubSeq(p, 1, Len(d))[i] = p[i]
    BY <1>1
  <2>2. QED
    BY <1>1, <2>1
<1>3. M!Rel(d, p) = SubSeq(p, Len(d) + 1, Len(p))
  BY DEF M!Rel
<1>4. M!Rel(d, p) \in Seq(Name) /\ Len(M!Rel(d, p)) = Len(p) - Len(d)
      /\ \A i \in 1..(Len(p) - Len(d)) : M!Rel(d, p)[i] = p[Len(d) + i]
  BY <1>1, <1>3
<1>5. p = d \o M!Rel(d, p)
  <2>1. Len(d \o M!Rel(d, p)) = Len(p) /\ d \o M!Rel(d, p) \in Seq(Name)
    BY <1>1, <1>4
  <2>2. \A i \in 1..Len(p) : (d \o M!Rel(d, p))[i] = p[i]
    <3> TAKE i \in 1..Len(p)
    <3>1. CASE i <= Len(d)
      BY <1>1, <1>2, <1>4, <3>1
    <3>2. CASE i > Len(d)
      <4>1. i - Len(d) \in 1..(Len(p) - Len(d)) /\ Len(d) + (i - Len(d)) = i
        BY <1>1, <3>2
      <4>2. (d \o M!Rel(d, p))[i] = M!Rel(d, p)[i - Len(d)]
        BY <1>1, <1>4, <3>2
      <4>3. QED
        BY <1>4, <4>1, <4>2
    <3>3. i <= Len(d) \/ i > Len(d)
      BY <1>1
    <3>4. QED
      BY Zenon, <3>1, <3>2, <3>3
  <2>3. QED
    BY <2>1, <2>2, SeqEqual
<1>6. QED
  BY <1>4, <1>5

(* A path is a beginning of itself and of what continues it.                 *)
LEMMA BeginsItself ==
  ASSUME NEW Name, NEW p \in Seq(Name), NEW q \in Seq(Name)
  PROVE  M!IsPrefix(p, p) /\ M!IsPrefix(p, p \o q)
<1>1. Len(p) \in Nat /\ Len(q) \in Nat /\ p \o q \in Seq(Name) /\ Len(p \o q) = Len(p) + Len(q)
  OBVIOUS
<1>2. \A i \in 1..Len(p) : (p \o q)[i] = p[i]
  BY <1>1
<1>3. SubSeq(p, 1, Len(p)) = SubSeq(p \o q, 1, Len(p))
  BY <1>1, <1>2
<1>4. QED
  BY <1>1, <1>3 DEF M!IsPrefix

(* Of one path, no two records speak.                                        *)
LEMMA OneClaims ==
  ASSUME NEW Name, NEW c, WellRecorded(c, Name), NEW p \in Seq(Name),
         NEW m \in MovesOf(c), NEW n \in MovesOf(c), M!Claims(c, m, p), M!Claims(c, n, p)
  PROVE  m = n
<1>1. m \in Movable(Name) /\ n \in Movable(Name)
  BY DEF WellRecorded
<1>2. m.old \in Seq(Name) /\ n.old \in Seq(Name)
  BY <1>1 DEF Movable
<1>3. M!IsPrefix(m.old, p) /\ M!IsPrefix(n.old, p)
  BY BeginsItself DEF M!Claims
<1>4. M!Nests(m.old, n.old)
  BY <1>2, <1>3, BeginningsNest
<1>5. QED
  BY <1>4 DEF WellRecorded, M!Consistent, M!Overlap

(* A path is followed to where the one record that claims it says, if that   *)
(* is in the tree, and else stays.                                           *)
LEMMA StepOf ==
  ASSUME NEW Name, NEW c, WellRecorded(c, Name), NEW p \in Seq(Name), NEW retracted
  PROVE  \/ M!Step(c, p, retracted) = p
         \/ \E m \in MovesOf(c) : /\ M!Claims(c, m, p) /\ M!Answer(m, p) \in DOMAIN c.tree
                                  /\ M!Step(c, p, retracted) = M!Answer(m, p)
<1> DEFINE claims == {r.move : r \in {s \in c.records : s.id \notin retracted /\ M!Claims(c, s.move, p)}}
           borne  == {m \in claims : M!Answer(m, p) \in DOMAIN c.tree}
           Goes(m) == \A n \in borne :
                     \/ Len(m.old) > Len(n.old)
                     \/ Len(m.old) = Len(n.old) /\ (m.new = n.new \/ M!Before(M!Answer(m, p), M!Answer(n, p)))
           first  == CHOOSE m \in borne : Goes(m)
<1>1. M!Step(c, p, retracted) = IF borne = {} THEN p ELSE M!Answer(first, p)
  BY DEF M!Step
<1>2. \A m \in borne : m \in MovesOf(c) /\ M!Claims(c, m, p) /\ M!Answer(m, p) \in DOMAIN c.tree
  BY DEF MovesOf
<1>3. \A m, n \in borne : m = n
  BY <1>2, OneClaims
<1>4. CASE borne = {}
  BY <1>1, <1>4
<1>5. CASE borne # {}
  <2>1. PICK m \in borne : TRUE
    BY <1>5
  <2>2. Goes(m)
    BY <1>3, <2>1
  <2> HIDE DEF Goes, borne
  <2>3. first \in borne
    BY <2>1, <2>2
  <2>4. QED
    BY <1>1, <1>2, <1>5, <2>3
<1>6. QED
  BY <1>4, <1>5

(* Where a record leads begins with its new path, and what it leads there    *)
(* from can be told.                                                         *)
Leads(m, p, Name) ==
    /\ M!Answer(m, p) \in Seq(Name) /\ M!IsPrefix(m.new, M!Answer(m, p))
    /\ M!IsPrefix(m.old, p) /\ M!Rel(m.old, p) \in Seq(Name)
    /\ p = m.old \o M!Rel(m.old, p) /\ M!Answer(m, p) = m.new \o M!Rel(m.old, p)
LEMMA AnswerOf ==
  ASSUME NEW Name, NEW m \in Movable(Name), NEW c, NEW p \in Seq(Name), M!Claims(c, m, p)
  PROVE  Leads(m, p, Name)
<1>1. m.old \in Seq(Name) /\ m.new \in Seq(Name)
  BY DEF Movable
<1>2. M!IsPrefix(m.old, p)
  BY <1>1, BeginsItself DEF M!Claims
<1>3. M!Rel(m.old, p) \in Seq(Name) /\ p = m.old \o M!Rel(m.old, p)
  BY <1>1, <1>2, RestOf
<1>4. M!Answer(m, p) = m.new \o M!Rel(m.old, p)
  BY DEF M!Answer
<1>5. m.new \o M!Rel(m.old, p) \in Seq(Name) /\ M!IsPrefix(m.new, m.new \o M!Rel(m.old, p))
  BY <1>1, <1>3, BeginsItself
<1>6. QED
  BY <1>2, <1>3, <1>4, <1>5 DEF Leads

(* What is left of one thing when its beginning is taken off is one thing.   *)
LEMMA SameRest ==
  ASSUME NEW Name, NEW d \in Seq(Name), NEW x \in Seq(Name), NEW y \in Seq(Name), d \o x = d \o y
  PROVE  x = y
<1>1. Len(d) \in Nat /\ Len(x) \in Nat /\ Len(y) \in Nat
  OBVIOUS
<1>2. Len(d \o x) = Len(d) + Len(x) /\ Len(d \o y) = Len(d) + Len(y)
  OBVIOUS
<1>3. Len(x) = Len(y)
  BY <1>1, <1>2
<1>4. \A i \in 1..Len(x) : x[i] = y[i]
  <2> TAKE i \in 1..Len(x)
  <2>1. (d \o x)[Len(d) + i] = x[i]
    BY <1>1
  <2>2. (d \o y)[Len(d) + i] = y[i]
    BY <1>1, <1>3
  <2>3. QED
    BY <2>1, <2>2
<1>5. QED
  BY <1>3, <1>4, SeqEqual

(* Two paths that are followed through one commit come to one only when one  *)
(* of them stays where it is and the other is moved onto it: no commit       *)
(* merges two histories by its records, whatever was retracted since (step,  *)
(* Forward of trailer/project.go).                                           *)
THEOREM FollowedApart ==
  ASSUME NEW Name, NEW c, WellRecorded(c, Name), NEW retracted, NEW p \in Seq(Name), NEW q \in Seq(Name), p # q,
         M!Step(c, p, retracted) = M!Step(c, q, retracted)
  PROVE  M!Step(c, p, retracted) \in {p, q}
<1> SUFFICES ASSUME M!Step(c, p, retracted) \notin {p, q}
             PROVE  FALSE
  OBVIOUS
<1>1. PICK m \in MovesOf(c) : M!Claims(c, m, p) /\ M!Step(c, p, retracted) = M!Answer(m, p)
  BY StepOf
<1>2. PICK n \in MovesOf(c) : M!Claims(c, n, q) /\ M!Step(c, q, retracted) = M!Answer(n, q)
  BY StepOf
<1>3. m \in Movable(Name) /\ n \in Movable(Name)
  BY DEF WellRecorded
<1>4. m.new \in Seq(Name) /\ n.new \in Seq(Name) /\ m.old \in Seq(Name) /\ n.old \in Seq(Name)
  BY <1>3 DEF Movable
<1>5. /\ M!Answer(m, p) \in Seq(Name) /\ M!IsPrefix(m.new, M!Answer(m, p)) /\ M!Rel(m.old, p) \in Seq(Name)
      /\ p = m.old \o M!Rel(m.old, p) /\ M!Answer(m, p) = m.new \o M!Rel(m.old, p)
  <2>1. Leads(m, p, Name)
    BY <1>1, <1>3, AnswerOf
  <2>2. QED
    BY <2>1 DEF Leads
<1>6. /\ M!Answer(n, q) \in Seq(Name) /\ M!IsPrefix(n.new, M!Answer(n, q)) /\ M!Rel(n.old, q) \in Seq(Name)
      /\ q = n.old \o M!Rel(n.old, q) /\ M!Answer(n, q) = n.new \o M!Rel(n.old, q)
  <2>1. Leads(n, q, Name)
    BY <1>2, <1>3, AnswerOf
  <2>2. QED
    BY <2>1 DEF Leads
<1>7. M!Answer(m, p) = M!Answer(n, q)
  BY <1>1, <1>2
<1>8. M!Nests(m.new, n.new)
  BY <1>4, <1>5, <1>6, <1>7, BeginningsNest
<1>9. m = n
  BY <1>8 DEF WellRecorded, M!Consistent, M!Overlap
<1>10. M!Rel(m.old, p) = M!Rel(m.old, q)
  <2>1. m.new \o M!Rel(m.old, p) = m.new \o M!Rel(m.old, q)
    BY <1>5, <1>6, <1>7, <1>9
  <2>2. M!Rel(m.old, q) \in Seq(Name)
    BY <1>6, <1>9
  <2>3. QED
    BY ZenonT(30), <1>4, <1>5, <2>1, <2>2, SameRest
<1>11. QED
  BY <1>5, <1>6, <1>9, <1>10

(* The records of one commit are no chain: what one of them moves is in the  *)
(* commit's tree where that says, and no other, nor the same again, takes it *)
(* on from there (step of trailer/project.go).                               *)
THEOREM FollowedOnce ==
  ASSUME NEW Name, NEW c, WellRecorded(c, Name), NEW retracted, NEW p \in Seq(Name), M!Step(c, p, retracted) # p
  PROVE  /\ M!Step(c, p, retracted) \in DOMAIN c.tree
         /\ M!Step(c, M!Step(c, p, retracted), retracted) = M!Step(c, p, retracted)
<1> DEFINE end == M!Step(c, p, retracted)
<1>1. PICK m \in MovesOf(c) : M!Claims(c, m, p) /\ end = M!Answer(m, p) /\ end \in DOMAIN c.tree
  BY StepOf
<1> HIDE DEF end
<1>2. m \in Movable(Name) /\ m.new \in Seq(Name) /\ m.old \in Seq(Name)
  BY DEF WellRecorded, Movable
<1>3. end \in Seq(Name) /\ M!IsPrefix(m.new, end)
  <2>1. Leads(m, p, Name)
    BY <1>1, <1>2, AnswerOf
  <2>2. QED
    BY <1>1, <2>1 DEF Leads
<1>4. ASSUME NEW n \in MovesOf(c), M!Claims(c, n, end)
      PROVE  FALSE
  <2>1. n \in Movable(Name) /\ n.old \in Seq(Name)
    BY DEF WellRecorded, Movable
  <2>2. M!IsPrefix(n.old, end)
    BY <1>3, <1>4, <2>1, AnswerOf DEF Leads
  <2>3. M!Nests(m.new, n.old) /\ M!Nests(n.old, m.new)
    BY <1>2, <1>3, <2>1, <2>2, BeginningsNest
  <2>4. m = n
    BY <2>3 DEF WellRecorded, M!Consistent, M!Overlap
  <2>5. QED
    BY <2>3, <2>4 DEF WellRecorded, M!ValidPair
<1>5. M!Step(c, end, retracted) = end
  BY <1>3, <1>4, StepOf
<1>6. QED
  BY <1>1, <1>5 DEF end

---------------------------------------------------------------------------
(* A set of numbers up to some one that has a member has a greatest.         *)
LEMMA GreatestUpTo ==
  ASSUME NEW n \in Nat, NEW S \in SUBSET (1..n), S # {}
  PROVE  M!Max(S) \in S /\ \A m \in S : m <= M!Max(S)
<1> DEFINE short == {n - m : m \in S}
<1>1. short \in SUBSET Nat /\ short # {}
  <2>1. \A m \in S : m \in 1..n /\ n - m \in Nat
    OBVIOUS
  <2>2. QED
    BY <2>1
<1>2. PICK k \in short : \A l \in short : k <= l
  <2> HIDE DEF short
  <2>1. QED
    BY <1>1, LeastNatural
<1>3. PICK m \in S : k = n - m
  BY <1>2
<1>4. \A l \in S : m >= l
  <2> TAKE l \in S
  <2>1. n - l \in short
    OBVIOUS
  <2>2. k <= n - l
    BY <1>2, <2>1
  <2>3. QED
    BY <1>3, <2>2
<1>5. M!Max(S) \in S /\ \A l \in S : M!Max(S) >= l
  BY <1>3, <1>4 DEF M!Max
<1>6. QED
  BY <1>5

(* What is folded over the places of a sequence, the last one last, has a    *)
(* value for every set of them.                                              *)
Greatest(S) == M!Max(S)
Folded(f, n, a, g) == f = [s \in SUBSET (1..n) |-> IF s = {} THEN a ELSE g[Greatest(s)][f[s \ {Greatest(s)}]]]
LEMMA GreatestOK ==
  ASSUME NEW n \in Nat, NEW s \in SUBSET (1..n), s # {}
  PROVE  Greatest(s) \in s /\ \A m \in s : m <= Greatest(s)
  BY GreatestUpTo DEF Greatest
LEMMA FoldExists ==
  ASSUME NEW n \in Nat, NEW a, NEW g
  PROVE  \E f : Folded(f, n, a, g)
<1> DEFINE without == {k \in 0..n : ~\E f : Folded(f, k, a, g)}
<1>1. ASSUME without # {}
      PROVE  FALSE
  <2>1. PICK k \in without : \A l \in without : k <= l
    <3>1. without \in SUBSET Nat
      OBVIOUS
    <3> HIDE DEF without
    <3>2. QED
      BY <1>1, <3>1, LeastNatural
  <2>2. k # 0
    <3>1. \A s \in SUBSET (1..0) : s = {}
      OBVIOUS
    <3>2. Folded([s \in SUBSET (1..0) |-> a], 0, a, g)
      BY <3>1 DEF Folded
    <3>3. QED
      BY <3>2
  <2>3. k \in 1..n /\ k - 1 \in 0..n /\ ~(k <= k - 1)
    BY <2>2
  <2>4. PICK f : Folded(f, k - 1, a, g)
    BY <2>1, <2>3
  <2> DEFINE h == [s \in SUBSET (1..k) |-> IF k \in s THEN g[k][f[s \ {k}]] ELSE f[s]]
  <2>5. \A s \in SUBSET (1..k) : k \notin s => s \in SUBSET (1..(k - 1))
    BY <2>3
  <2>6. \A s \in SUBSET (1..(k - 1)) : s \in SUBSET (1..k) /\ k \notin s /\ h[s] = f[s]
    BY <2>3
  <2>7. \A s \in SUBSET (1..(k - 1)) : f[s] = IF s = {} THEN a ELSE g[Greatest(s)][f[s \ {Greatest(s)}]]
    BY <2>4 DEF Folded
  <2>8. ASSUME NEW s \in SUBSET (1..k)
        PROVE  h[s] = IF s = {} THEN a ELSE g[Greatest(s)][h[s \ {Greatest(s)}]]
    <3>1. CASE k \in s
      <4>1. Greatest(s) = k
        <5>1. k \in Nat /\ s # {}
          BY <2>3, <3>1
        <5>2. Greatest(s) \in s /\ \A m \in s : m <= Greatest(s)
          BY <5>1, GreatestOK
        <5>3. Greatest(s) \in 1..k /\ k <= Greatest(s)
          BY <3>1, <5>2
        <5>4. QED
          BY <2>3, <5>3
      <4>2. s \ {k} \in SUBSET (1..(k - 1))
        BY <2>3
      <4>3. h[s \ {k}] = f[s \ {k}]
        BY <2>6, <4>2
      <4>4. h[s] = g[k][f[s \ {k}]]
        BY <3>1
      <4> HIDE DEF h
      <4>5. QED
        BY <3>1, <4>1, <4>3, <4>4
    <3>2. CASE k \notin s
      <4>1. s \in SUBSET (1..(k - 1)) /\ h[s] = f[s]
        BY <2>5, <2>6, <3>2
      <4>2. s # {} => s \ {Greatest(s)} \in SUBSET (1..(k - 1))
        BY <4>1
      <4>3. s # {} => h[s \ {Greatest(s)}] = f[s \ {Greatest(s)}]
        BY <2>6, <4>2
      <4> HIDE DEF h
      <4>4. QED
        BY <2>7, <4>1, <4>3
    <3>3. QED
      BY <3>1, <3>2
  <2>9. h = [s \in SUBSET (1..k) |-> h[s]]
    OBVIOUS
  <2> HIDE DEF h
  <2>10. Folded(h, k, a, g)
    BY <2>8, <2>9 DEF Folded
  <2>11. QED
    BY <2>1, <2>10
<1>2. n \in 0..n /\ n \notin without
  BY <1>1
<1>3. QED
  BY <1>2

(* What the value at each set has from the value without its last, all have. *)
LEMMA FoldKeeps ==
  ASSUME NEW n \in Nat, NEW f, NEW Good,
         f[{}] \in Good,
         \A s \in SUBSET (1..n) : s # {} /\ f[s \ {Greatest(s)}] \in Good => f[s] \in Good
  PROVE  \A s \in SUBSET (1..n) : f[s] \in Good
<1> DEFINE bad == {k \in 0..n : \E s \in SUBSET (1..k) : f[s] \notin Good}
<1>1. ASSUME bad # {}
      PROVE  FALSE
  <2>1. PICK k \in bad : \A l \in bad : k <= l
    <3>1. bad \in SUBSET Nat
      OBVIOUS
    <3> HIDE DEF bad
    <3>2. QED
      BY <1>1, <3>1, LeastNatural
  <2>2. PICK s \in SUBSET (1..k) : f[s] \notin Good
    BY <2>1
  <2>3. s # {} /\ k \in 1..n /\ s \in SUBSET (1..n)
    <3>1. s # {}
      BY <2>2
    <3>2. k \in 0..n
      BY <2>1
    <3>3. PICK m \in s : m \in 1..k
      BY <2>2, <3>1
    <3>4. k # 0
      BY <3>2, <3>3
    <3>5. QED
      BY <3>1, <3>2, <3>4
  <2>4. k - 1 \in 0..n /\ ~(k <= k - 1)
    BY <2>3
  <2>5. k - 1 \notin bad
    BY <2>1, <2>4
  <2>6. Greatest(s) \in s /\ \A m \in s : m <= Greatest(s)
    BY <2>3, GreatestOK
  <2>7. s \ {Greatest(s)} \in SUBSET (1..(k - 1))
    <3> SUFFICES ASSUME NEW m \in s, m # Greatest(s)
                 PROVE  m \in 1..(k - 1)
      OBVIOUS
    <3>1. m \in 1..k /\ m <= Greatest(s) /\ Greatest(s) \in 1..k
      BY <2>6
    <3>2. QED
      BY <2>3, <3>1
  <2>8. f[s \ {Greatest(s)}] \in Good
    BY <2>4, <2>5, <2>7
  <2>9. QED
    BY <2>2, <2>3, <2>8
<1>2. n \in 0..n /\ ~(n \in bad)
  <2>1. n \in 0..n
    OBVIOUS
  <2> HIDE DEF bad
  <2>2. QED
    BY <1>1, <2>1
<1>3. QED
  BY <1>2

(* What dropOverlapping keeps of moves in an order: a subset of them that no *)
(* two speak of one path in, nor one and a declared one.                     *)
Kept(kept, m, declared) == IF \E n \in kept \cup declared : M!Overlap(m, n) THEN kept ELSE kept \cup {m}
Dropping(f, ordered, declared) ==
    f = [s \in SUBSET DOMAIN ordered |-> IF s = {} THEN {} ELSE Kept(f[s \ {Greatest(s)}], ordered[Greatest(s)], declared)]
LEMMA DropIs ==
  ASSUME NEW ordered, NEW declared
  PROVE  M!DropOverlapping(ordered, declared) = (CHOOSE f : Dropping(f, ordered, declared))[DOMAIN ordered]
  BY Zenon DEF M!DropOverlapping, M!FoldLeft, M!MapThenFoldSet, Dropping, Kept, Greatest

LEMMA DropScans ==
  ASSUME NEW X, NEW ordered \in Seq(X), NEW declared
  PROVE  \E f : Dropping(f, ordered, declared) /\ M!DropOverlapping(ordered, declared) = f[DOMAIN ordered]
<1> DEFINE n == Len(ordered)
           g == [i \in 1..n |-> [kept \in SUBSET X |-> Kept(kept, ordered[i], declared)]]
<1>1. n \in Nat /\ DOMAIN ordered = 1..n
  OBVIOUS
<1>2. PICK f : Folded(f, n, {}, g)
  BY <1>1, FoldExists
<1>3. f = [s \in SUBSET (1..n) |-> IF s = {} THEN {} ELSE g[Greatest(s)][f[s \ {Greatest(s)}]]]
  BY <1>2 DEF Folded
<1>4. \A s \in SUBSET (1..n) : s # {} => Greatest(s) \in 1..n
  BY <1>1, GreatestOK
<1>5. \A i \in 1..n : \A kept \in SUBSET X : g[i][kept] = Kept(kept, ordered[i], declared)
  OBVIOUS
<1>6. \A i \in 1..n : \A kept \in SUBSET X : Kept(kept, ordered[i], declared) \in SUBSET X
  BY DEF Kept
<1> HIDE DEF g, n
<1>7. \A s \in SUBSET (1..n) : f[s] \in SUBSET X
  <2>1. f[{}] \in SUBSET X
    BY <1>3
  <2>2. ASSUME NEW s \in SUBSET (1..n), s # {}, f[s \ {Greatest(s)}] \in SUBSET X
        PROVE  f[s] \in SUBSET X
    <3>1. f[s] = g[Greatest(s)][f[s \ {Greatest(s)}]]
      BY <1>3, <2>2
    <3>2. Greatest(s) \in 1..n
      BY <1>4, <2>2
    <3>3. g[Greatest(s)][f[s \ {Greatest(s)}]] = Kept(f[s \ {Greatest(s)}], ordered[Greatest(s)], declared)
      BY Zenon, <1>5, <2>2, <3>2
    <3>4. Kept(f[s \ {Greatest(s)}], ordered[Greatest(s)], declared) \in SUBSET X
      BY Zenon, <1>6, <2>2, <3>2
    <3>5. QED
      BY Zenon, <3>1, <3>3, <3>4
  <2>3. QED
    BY Zenon, <1>1, <2>1, <2>2, FoldKeeps
<1>8. ASSUME NEW s \in SUBSET (1..n), s # {}
      PROVE  g[Greatest(s)][f[s \ {Greatest(s)}]] = Kept(f[s \ {Greatest(s)}], ordered[Greatest(s)], declared)
  <2>1. s \ {Greatest(s)} \in SUBSET (1..n)
    OBVIOUS
  <2>2. QED
    BY <1>4, <1>5, <1>7, <1>8, <2>1
<1>9. Dropping(f, ordered, declared)
  BY <1>1, <1>3, <1>8 DEF Dropping
<1>10. Dropping(CHOOSE h : Dropping(h, ordered, declared), ordered, declared)
  BY Zenon, <1>9
<1>11. QED
  BY Zenon, <1>10, DropIs

(* No two of the moves a commit records, declared or inferred, speak of one  *)
(* path, in whatever order the pairs came (dropOverlapping).                 *)
LEMMA DropIsConsistent ==
  ASSUME NEW X, NEW ordered \in Seq(X), NEW declared, M!Consistent(declared)
  PROVE  /\ M!DropOverlapping(ordered, declared) \subseteq X
         /\ M!Consistent(declared \cup M!DropOverlapping(ordered, declared))
<1> DEFINE n == Len(ordered)
           Good == {kept \in SUBSET X : M!Consistent(declared \cup kept)}
<1>1. PICK f : Dropping(f, ordered, declared) /\ M!DropOverlapping(ordered, declared) = f[DOMAIN ordered]
  BY DropScans
<1>2. n \in Nat /\ DOMAIN ordered = 1..n /\ \A i \in 1..n : ordered[i] \in X
  OBVIOUS
<1>3. \A s \in SUBSET (1..n) : f[s] = IF s = {} THEN {} ELSE Kept(f[s \ {Greatest(s)}], ordered[Greatest(s)], declared)
  BY <1>1, <1>2 DEF Dropping
<1> HIDE DEF n
<1>4. f[{}] \in Good
  <2>1. f[{}] = {}
    BY <1>3
  <2>2. QED
    BY <2>1
<1>5. ASSUME NEW s \in SUBSET (1..n), s # {}, f[s \ {Greatest(s)}] \in Good
      PROVE  f[s] \in Good
  <2> DEFINE kept == f[s \ {Greatest(s)}]
             m == ordered[Greatest(s)]
  <2>1. m \in X
    BY <1>2, <1>5, GreatestOK
  <2>2. f[s] = Kept(kept, m, declared)
    BY <1>3, <1>5
  <2>3. kept \in SUBSET X /\ M!Consistent(declared \cup kept)
    BY <1>5
  <2> HIDE DEF kept, m, Good
  <2>4. CASE \E o \in kept \cup declared : M!Overlap(m, o)
    BY <1>5, <2>2, <2>4 DEF Kept, kept
  <2>5. CASE ~\E o \in kept \cup declared : M!Overlap(m, o)
    <3>1. f[s] = kept \cup {m}
      BY <2>2, <2>5 DEF Kept
    <3>2. \A o \in declared \cup kept : ~M!Overlap(m, o) /\ ~M!Overlap(o, m)
      BY <2>5 DEF M!Overlap, M!Nests
    <3>3. M!Consistent(declared \cup (kept \cup {m}))
      BY <2>3, <3>2 DEF M!Consistent
    <3>4. QED
      BY <2>1, <2>3, <3>1, <3>3 DEF Good
  <2>6. QED
    BY <2>4, <2>5
<1>6. f[1..n] \in Good
  <2> HIDE DEF Good
  <2>1. \A s \in SUBSET (1..n) : f[s] \in Good
    BY Zenon, <1>2, <1>4, <1>5, FoldKeeps
  <2>2. QED
    BY <2>1
<1>7. QED
  BY <1>1, <1>2, <1>6

(* A record is of its move.                                                  *)
LEMMA RecordsOf ==
  ASSUME NEW moves, NEW observed
  PROVE  {r.move : r \in M!Records(moves, observed)} = moves
<1>1. \A m \in moves : [id |-> <<observed, m>>, move |-> m, observed |-> observed].move = m
  OBVIOUS
<1>2. QED
  BY <1>1 DEF M!Records

(* A commit that is accepted has records as they are followed: of the moves  *)
(* declared to it and those it infers, no two speak of one path, and none    *)
(* moves a path into itself, whatever was paired and in whatever order       *)
(* (verifyDeclaredMoves, dropOverlapping).                                   *)
THEOREM RecordsFitTogether ==
  ASSUME NEW Name, NEW w, NEW commit, NEW declared \in SUBSET Movable(Name), NEW ordered \in Seq(Movable(Name)), NEW cap,
         M!WithRecords(w, commit, declared, M!AtMost(cap, M!DropOverlapping(ordered, declared))).ok
  PROVE  WellRecorded(M!WithRecords(w, commit, declared, M!AtMost(cap, M!DropOverlapping(ordered, declared))).commit, Name)
<1> DEFINE kept == M!DropOverlapping(ordered, declared)
           inferred == M!AtMost(cap, kept)
           c == M!WithRecords(w, commit, declared, inferred).commit
<1>1. inferred = {} \/ inferred = kept
  BY DEF M!AtMost
<1>2. M!WithRecords(w, commit, declared, inferred).ok
  OBVIOUS
<1> HIDE DEF inferred
<1>3. /\ M!Consistent(declared) /\ \A m \in declared : M!MayBeDeclared(w, m)
      /\ \A m \in inferred : M!ValidPair(m)
  BY <1>2 DEF M!WithRecords
<1>4. kept \subseteq Movable(Name) /\ M!Consistent(declared \cup kept)
  BY <1>3, DropIsConsistent
<1>5. inferred \subseteq Movable(Name) /\ M!Consistent(declared \cup inferred)
  <2> HIDE DEF kept
  <2>1. declared \cup {} = declared
    OBVIOUS
  <2>2. QED
    BY <1>1, <1>3, <1>4, <2>1
<1>6. MovesOf(c) = declared \cup inferred
  <2>1. c.records = M!Records(declared, FALSE) \cup M!Records(inferred, TRUE)
    BY DEF M!WithRecords
  <2>2. /\ {r.move : r \in M!Records(declared, FALSE)} = declared
        /\ {r.move : r \in M!Records(inferred, TRUE)} = inferred
    BY RecordsOf
  <2> HIDE DEF c
  <2>3. MovesOf(c) = {r.move : r \in M!Records(declared, FALSE)} \cup {r.move : r \in M!Records(inferred, TRUE)}
    BY Zenon, <2>1 DEF MovesOf
  <2>4. QED
    BY <2>2, <2>3
<1>7. \A m \in declared \cup inferred : M!ValidPair(m)
  BY <1>3 DEF M!MayBeDeclared
<1> HIDE DEF kept, c
<1>8. WellRecorded(c, Name)
  BY <1>5, <1>6, <1>7 DEF WellRecorded
<1>9. QED
  BY <1>8 DEF c, inferred, kept

(* What collapseSubtrees makes of pairs, one candidate after another.        *)
Collapsing(f, pairs, candidates, base, tree) ==
    f = [s \in SUBSET DOMAIN candidates |->
            IF s = {} THEN pairs ELSE M!Collapse(f[s \ {Greatest(s)}], candidates[Greatest(s)], base, tree)]
LEMMA CollapseIs ==
  ASSUME NEW pairs, NEW candidates, NEW base, NEW tree
  PROVE  M!CollapseSubtrees(pairs, candidates, base, tree)
             = (CHOOSE f : Collapsing(f, pairs, candidates, base, tree))[DOMAIN candidates]
  BY Zenon DEF M!CollapseSubtrees, M!FoldLeft, M!MapThenFoldSet, Collapsing, Greatest

(* What each candidate keeps of the pairs, all of them keep.                 *)
LEMMA CollapseKeeps ==
  ASSUME NEW C, NEW candidates \in Seq(C), NEW pairs, NEW base, NEW tree, NEW Good, pairs \in Good,
         \A done \in Good : \A c \in C : M!Collapse(done, c, base, tree) \in Good
  PROVE  M!CollapseSubtrees(pairs, candidates, base, tree) \in Good
<1> DEFINE n == Len(candidates)
           g == [i \in 1..n |-> [done \in Good |-> M!Collapse(done, candidates[i], base, tree)]]
<1>1. n \in Nat /\ DOMAIN candidates = 1..n /\ \A i \in 1..n : candidates[i] \in C
  OBVIOUS
<1>2. PICK f : Folded(f, n, pairs, g)
  BY <1>1, FoldExists
<1>3. f = [s \in SUBSET (1..n) |-> IF s = {} THEN pairs ELSE g[Greatest(s)][f[s \ {Greatest(s)}]]]
  BY <1>2 DEF Folded
<1>4. \A s \in SUBSET (1..n) : s # {} => Greatest(s) \in 1..n
  BY <1>1, GreatestOK
<1>5. \A i \in 1..n : \A done \in Good : g[i][done] = M!Collapse(done, candidates[i], base, tree)
  OBVIOUS
<1>6. \A i \in 1..n : \A done \in Good : M!Collapse(done, candidates[i], base, tree) \in Good
  BY <1>1
<1> HIDE DEF g, n
<1>7. \A s \in SUBSET (1..n) : f[s] \in Good
  <2>1. f[{}] \in Good
    BY <1>3
  <2>2. ASSUME NEW s \in SUBSET (1..n), s # {}, f[s \ {Greatest(s)}] \in Good
        PROVE  f[s] \in Good
    <3>1. f[s] = g[Greatest(s)][f[s \ {Greatest(s)}]]
      BY <1>3, <2>2
    <3>2. Greatest(s) \in 1..n
      BY <1>4, <2>2
    <3>3. g[Greatest(s)][f[s \ {Greatest(s)}]] = M!Collapse(f[s \ {Greatest(s)}], candidates[Greatest(s)], base, tree)
      BY Zenon, <1>5, <2>2, <3>2
    <3>4. M!Collapse(f[s \ {Greatest(s)}], candidates[Greatest(s)], base, tree) \in Good
      BY Zenon, <1>6, <2>2, <3>2
    <3>5. QED
      BY Zenon, <3>1, <3>3, <3>4
  <2>3. QED
    BY Zenon, <1>1, <2>1, <2>2, FoldKeeps
<1>8. ASSUME NEW s \in SUBSET (1..n), s # {}
      PROVE  g[Greatest(s)][f[s \ {Greatest(s)}]] = M!Collapse(f[s \ {Greatest(s)}], candidates[Greatest(s)], base, tree)
  <2>1. s \ {Greatest(s)} \in SUBSET (1..n)
    OBVIOUS
  <2>2. QED
    BY Zenon, <1>4, <1>5, <1>7, <1>8, <2>1
<1>9. Collapsing(f, pairs, candidates, base, tree)
  BY <1>1, <1>3, <1>8 DEF Collapsing
<1>10. Collapsing(CHOOSE h : Collapsing(h, pairs, candidates, base, tree), pairs, candidates, base, tree)
  BY Zenon, <1>9
<1> DEFINE h == CHOOSE h : Collapsing(h, pairs, candidates, base, tree)
<1> HIDE DEF h
<1>11. /\ h = [s \in SUBSET (1..n) |->
            IF s = {} THEN pairs ELSE M!Collapse(h[s \ {Greatest(s)}], candidates[Greatest(s)], base, tree)]
       /\ M!CollapseSubtrees(pairs, candidates, base, tree) = h[1..n]
  BY <1>1, <1>10, CollapseIs DEF Collapsing, h
<1>12. h[{}] \in Good
  BY <1>11
<1>13. ASSUME NEW s \in SUBSET (1..n), s # {}, h[s \ {Greatest(s)}] \in Good
       PROVE  h[s] \in Good
  <2>1. h[s] = M!Collapse(h[s \ {Greatest(s)}], candidates[Greatest(s)], base, tree)
    BY <1>11, <1>13
  <2>2. Greatest(s) \in 1..n
    BY <1>4, <1>13
  <2>3. QED
    BY Zenon, <1>6, <1>13, <2>1, <2>2
<1>14. \A s \in SUBSET (1..n) : h[s] \in Good
  BY Zenon, <1>1, <1>12, <1>13, FoldKeeps
<1>15. h[1..n] \in Good
  <2>1. (1..n) \in SUBSET (1..n)
    OBVIOUS
  <2>2. QED
    BY Zenon, <1>14, <2>1
<1>16. QED
  BY Zenon, <1>11, <1>15

(* A move accounts for what was below its old path when all of that is gone, *)
(* and came where the move says, as it was, and when nothing else is there.  *)
Arrives(m, p, base, tree, hidden) ==
    /\ p \notin DOMAIN tree \cup hidden
    /\ M!Answer(m, p) \in DOMAIN tree \ (DOMAIN base \cup hidden)
    /\ tree[M!Answer(m, p)] = base[p]
Accounts(m, base, tree, hidden) ==
    /\ M!Side(base, m, m.old) # {}
    /\ \A p \in M!Side(base, m, m.old) : Arrives(m, p, base, tree, hidden)
    /\ \A q \in M!Side(tree, m, m.new) : \E p \in M!Side(base, m, m.old) : q = M!Answer(m, p)

(* A path leads to the new path of the move of the whole of it.              *)
LEMMA AnswerOfWhole ==
  ASSUME NEW Name, NEW m \in Movable(Name)
  PROVE  M!Answer(m, m.old) = m.new
<1>1. m.old \in Seq(Name) /\ m.new \in Seq(Name)
  BY DEF Movable
<1>2. M!Rel(m.old, m.old) = <<>>
  BY <1>1 DEF M!Rel
<1>3. m.new \o <<>> = m.new
  BY <1>1
<1>4. QED
  BY <1>2, <1>3 DEF M!Answer

(* A pair of a file that is gone and one that is new accounts for it.        *)
LEMMA PairAccounts ==
  ASSUME NEW Name, NEW base, NEW tree, NEW hidden, DOMAIN base \subseteq Seq(Name), DOMAIN tree \subseteq Seq(Name),
         NEW m \in M!FilePairs(base, tree, hidden)
  PROVE  /\ m \in Movable(Name) /\ ~m.subtree /\ Accounts(m, base, tree, hidden)
         /\ m.old \in DOMAIN base /\ m.new \in DOMAIN tree /\ Arrives(m, m.old, base, tree, hidden)
<1>1. /\ m \in [old : DOMAIN base \ (DOMAIN tree \cup hidden), new : DOMAIN tree \ (DOMAIN base \cup hidden), subtree : {FALSE}]
      /\ base[m.old] = tree[m.new]
  BY Zenon DEF M!FilePairs
<1>2. /\ m.old \in DOMAIN base \ (DOMAIN tree \cup hidden) /\ m.new \in DOMAIN tree \ (DOMAIN base \cup hidden)
      /\ m.subtree = FALSE
  BY <1>1
<1>3. m = [old |-> m.old, new |-> m.new, subtree |-> m.subtree]
  BY <1>1
<1>4. m \in Movable(Name)
  BY <1>2, <1>3 DEF Movable
<1>5. M!Answer(m, m.old) = m.new
  BY <1>4, AnswerOfWhole
<1>6. Arrives(m, m.old, base, tree, hidden)
  BY <1>1, <1>2, <1>5 DEF Arrives
<1>7. M!Side(base, m, m.old) = {m.old} /\ M!Side(tree, m, m.new) = {m.new}
  BY <1>2 DEF M!Side
<1>8. Accounts(m, base, tree, hidden)
  BY <1>5, <1>6, <1>7 DEF Accounts
<1>9. QED
  BY <1>2, <1>4, <1>6, <1>8

(* A candidate moves paths, all that is below one.                           *)
LEMMA CandidateOK ==
  ASSUME NEW Name, NEW pairs \in SUBSET Movable(Name), NEW c \in M!PrefixCandidates(pairs)
  PROVE  c \in Movable(Name) /\ c.subtree
<1>1. PICK m \in pairs : \E k \in 1..(Len(m.old) - 1) \cap 1..(Len(m.new) - 1) :
          c = [old |-> SubSeq(m.old, 1, Len(m.old) - k), new |-> SubSeq(m.new, 1, Len(m.new) - k), subtree |-> TRUE]
  BY Zenon DEF M!PrefixCandidates
<1>2. PICK k \in 1..(Len(m.old) - 1) \cap 1..(Len(m.new) - 1) :
          c = [old |-> SubSeq(m.old, 1, Len(m.old) - k), new |-> SubSeq(m.new, 1, Len(m.new) - k), subtree |-> TRUE]
  BY <1>1
<1>3. m.old \in Seq(Name) /\ m.new \in Seq(Name)
  BY DEF Movable
<1>4. SubSeq(m.old, 1, Len(m.old) - k) \in Seq(Name) /\ SubSeq(m.new, 1, Len(m.new) - k) \in Seq(Name)
  BY <1>3
<1>5. QED
  BY <1>2, <1>4 DEF Movable

(* A group of two has a member.                                              *)
LEMMA SomeMember ==
  ASSUME NEW S, M!Cardinality(S) >= 2
  PROVE  S # {}
<1>1. M!Cardinality(S) = Cardinality(S)
  BY Zenon DEF M!Cardinality, Cardinality
<1>2. QED
  BY <1>1, FS_EmptySet

(* A directory that is witnessed accounts for what was below it.             *)
LEMMA GroupAccounts ==
  ASSUME NEW Name, NEW base, NEW tree, NEW hidden, DOMAIN base \subseteq Seq(Name), DOMAIN tree \subseteq Seq(Name),
         NEW c \in Movable(Name), c.subtree, NEW group \in SUBSET M!FilePairs(base, tree, hidden), group # {},
         \A m \in group : /\ M!IsStrictPrefix(c.old, m.old) /\ M!IsStrictPrefix(c.new, m.new)
                          /\ M!Rel(c.old, m.old) = M!Rel(c.new, m.new),
         M!Witnessed(c, group, base, tree)
  PROVE  Accounts(c, base, tree, hidden)
<1>1. M!Side(base, c, c.old) = {m.old : m \in group} /\ M!Side(tree, c, c.new) = {m.new : m \in group}
  BY DEF M!Side, M!Witnessed
<1>2. ASSUME NEW m \in group
      PROVE  M!Answer(c, m.old) = m.new /\ M!Answer(m, m.old) = m.new /\ Arrives(c, m.old, base, tree, hidden)
  <2>1. m \in Movable(Name) /\ Arrives(m, m.old, base, tree, hidden)
    BY PairAccounts
  <2>2. m.new \in Seq(Name) /\ c.new \in Seq(Name)
    BY <2>1 DEF Movable
  <2>3. M!IsPrefix(c.new, m.new)
    BY DEF M!IsStrictPrefix
  <2>4. m.new = c.new \o M!Rel(c.new, m.new)
    BY <2>2, <2>3, RestOf
  <2>5. M!Answer(c, m.old) = m.new
    BY <2>4 DEF M!Answer
  <2>6. M!Answer(m, m.old) = m.new
    BY <2>1, AnswerOfWhole
  <2>7. QED
    BY <2>1, <2>5, <2>6 DEF Arrives
<1>3. QED
  BY <1>1, <1>2 DEF Accounts

(* What a commit infers is true of it: each of its moves is of a file, or of *)
(* a directory, that is gone, and all there was of it is now where the move  *)
(* says and as it was, where there was nothing of it and is nothing else;    *)
(* whatever the declarations, and in whatever order directories and pairs    *)
(* are weighed (inferMoves, collapseSubtrees, witnessed).                    *)
THEOREM InferredIsTrue ==
  ASSUME NEW Name, NEW base, NEW tree, NEW hidden, DOMAIN base \subseteq Seq(Name), DOMAIN tree \subseteq Seq(Name),
         NEW candidates \in Seq(M!PrefixCandidates(M!FilePairs(base, tree, hidden))),
         NEW m \in M!CollapseSubtrees(M!FilePairs(base, tree, hidden), candidates, base, tree)
  PROVE  m \in Movable(Name) /\ Accounts(m, base, tree, hidden)
<1> DEFINE pairs == M!FilePairs(base, tree, hidden)
           C == M!PrefixCandidates(pairs)
           Good == {done \in SUBSET {n \in Movable(Name) : Accounts(n, base, tree, hidden)} : \A n \in done : n.subtree \/ n \in pairs}
<1>1. pairs \in Good
  BY PairAccounts
<1>2. ASSUME NEW done \in Good, NEW c \in C
      PROVE  M!Collapse(done, c, base, tree) \in Good
  <2> DEFINE group == M!CoveredBy(c, {n \in done : ~n.subtree})
  <2>1. c \in Movable(Name) /\ c.subtree
    <3>1. pairs \in SUBSET Movable(Name)
      BY PairAccounts
    <3> HIDE DEF pairs
    <3>2. QED
      BY <3>1, CandidateOK
  <2>2. /\ group \in SUBSET pairs
        /\ \A n \in group : /\ M!IsStrictPrefix(c.old, n.old) /\ M!IsStrictPrefix(c.new, n.new)
                            /\ M!Rel(c.old, n.old) = M!Rel(c.new, n.new)
    BY DEF M!CoveredBy
  <2> HIDE DEF pairs
  <2>3. M!Collapse(done, c, base, tree) =
            IF M!Cardinality(group) >= 2 /\ M!Witnessed(c, group, base, tree) /\ M!ValidPair(c) THEN (done \ group) \cup {c} ELSE done
    BY Zenon DEF M!Collapse
  <2> HIDE DEF group
  <2>4. CASE M!Cardinality(group) >= 2 /\ M!Witnessed(c, group, base, tree) /\ M!ValidPair(c)
    <3>1. group # {}
      BY <2>4, SomeMember
    <3>2. Accounts(c, base, tree, hidden)
      BY <2>1, <2>2, <2>4, <3>1, GroupAccounts DEF pairs
    <3>3. QED
      BY <2>1, <2>3, <2>4, <3>2
  <2>5. CASE ~(M!Cardinality(group) >= 2 /\ M!Witnessed(c, group, base, tree) /\ M!ValidPair(c))
    BY <2>3, <2>5
  <2>6. QED
    BY <2>4, <2>5
<1>3. M!CollapseSubtrees(pairs, candidates, base, tree) \in Good
  <2> HIDE DEF Good, C
  <2>1. candidates \in Seq(C)
    BY DEF C, pairs
  <2> HIDE DEF pairs
  <2>2. QED
    BY Zenon, <1>1, <1>2, <2>1, CollapseKeeps
<1>4. QED
  BY <1>3

(* A path that a record claims goes where that leads, if it leads into the   *)
(* tree.                                                                     *)
LEMMA StepTo ==
  ASSUME NEW Name, NEW c, WellRecorded(c, Name), NEW p \in Seq(Name), NEW m \in MovesOf(c),
         M!Claims(c, m, p), M!Answer(m, p) \in DOMAIN c.tree
  PROVE  M!Step(c, p, {}) = M!Answer(m, p)
<1> DEFINE claims == {r.move : r \in {s \in c.records : s.id \notin {} /\ M!Claims(c, s.move, p)}}
           borne  == {n \in claims : M!Answer(n, p) \in DOMAIN c.tree}
           Goes(n) == \A o \in borne :
                     \/ Len(n.old) > Len(o.old)
                     \/ Len(n.old) = Len(o.old) /\ (n.new = o.new \/ M!Before(M!Answer(n, p), M!Answer(o, p)))
           first  == CHOOSE n \in borne : Goes(n)
<1>1. M!Step(c, p, {}) = IF borne = {} THEN p ELSE M!Answer(first, p)
  BY DEF M!Step
<1>2. \A n \in borne : n \in MovesOf(c) /\ M!Claims(c, n, p)
  BY DEF MovesOf
<1>3. m \in borne
  BY DEF MovesOf
<1>4. \A n \in borne : n = m
  BY <1>2, OneClaims
<1>5. Goes(m)
  BY <1>4
<1> HIDE DEF Goes, borne
<1>6. first \in borne
  BY <1>3, <1>5
<1>7. first = m
  BY <1>4, <1>6
<1>8. QED
  BY <1>1, <1>3, <1>7

(* A tree of files: nothing is below a file.                                 *)
IsTree(tree, Name) == DOMAIN tree \subseteq Seq(Name) /\ \A p, q \in DOMAIN tree : M!IsPrefix(p, q) => p = q

(* What a record claims of the files of the tree before is below its old     *)
(* path.                                                                     *)
LEMMA ClaimedIsBelow ==
  ASSUME NEW Name, NEW base, IsTree(base, Name), NEW m \in Movable(Name), NEW p \in DOMAIN base, NEW c, c.parents = {base}
  PROVE  M!Claims(c, m, p) <=> p \in M!Side(base, m, m.old)
<1>1. m.old \in Seq(Name) /\ m.subtree \in BOOLEAN
  BY DEF Movable
<1>2. M!IsPrefix(m.old, m.old)
  BY <1>1, BeginsItself
<1>3. CASE m.subtree
  <2>1. M!IsPrefix(m.old, p) <=> p = m.old \/ M!IsStrictPrefix(m.old, p)
    BY <1>2 DEF M!IsStrictPrefix
  <2>2. M!Side(base, m, m.old) = {q \in DOMAIN base : M!IsStrictPrefix(m.old, q)}
    BY <1>3 DEF M!Side, M!Under
  <2>3. M!Claims(c, m, p) <=> M!IsPrefix(m.old, p) /\ M!Side(base, m, m.old) # {}
    BY <1>3 DEF M!Claims
  <2>4. p = m.old => M!Side(base, m, m.old) = {}
    BY <2>2 DEF IsTree, M!IsStrictPrefix
  <2>5. QED
    BY <2>1, <2>2, <2>3, <2>4
<1>4. CASE ~m.subtree
  <2>1. M!Side(base, m, m.old) = {m.old} \cap DOMAIN base
    BY <1>4 DEF M!Side
  <2>2. M!Claims(c, m, p) <=> p = m.old /\ M!Side(base, m, m.old) # {}
    BY <1>4 DEF M!Claims
  <2>3. QED
    BY <1>4, <2>1, <2>2
<1>5. QED
  BY <1>3, <1>4

(* What is below the old path of a declaration is not in the tree: it is     *)
(* below it there too.                                                       *)
LEMMA DeclaredIsGone ==
  ASSUME NEW base, NEW tree, NEW m, M!BorneOutBy(tree, m), NEW p \in M!Side(base, m, m.old)
  PROVE  p \notin DOMAIN tree
  BY DEF M!BorneOutBy, M!Side, M!Under

(* The records of a commit, followed: a file that is still there stays where *)
(* it is; one that an inferred move speaks of is followed to where it went,  *)
(* and is there as it was; and two files that there were are followed to one *)
(* only if the one was there, and a declaration moves the other onto it      *)
(* (tryCommit, verifyDeclaredMoves, step of trailer/project.go).             *)
THEOREM RecordsTell ==
  ASSUME NEW Name, NEW w, NEW commit, NEW hidden, IsTree(w.base, Name), DOMAIN commit.tree \subseteq Seq(Name),
         NEW declared \in SUBSET Movable(Name),
         NEW candidates \in Seq(M!PrefixCandidates(M!FilePairs(w.base, commit.tree, hidden))),
         NEW ordered \in Seq(M!CollapseSubtrees(M!FilePairs(w.base, commit.tree, hidden), candidates, w.base, commit.tree)),
         NEW cap,
         M!WithRecords(w, commit, declared, M!AtMost(cap, M!DropOverlapping(ordered, declared))).ok
  PROVE  LET inferred == M!AtMost(cap, M!DropOverlapping(ordered, declared))
             c == M!WithRecords(w, commit, declared, inferred).commit
         IN  \A p \in DOMAIN w.base :
                /\ p \in DOMAIN c.tree => M!Step(c, p, {}) = p
                /\ \A m \in inferred : p \in M!Side(w.base, m, m.old) =>
                      Arrives(m, p, w.base, c.tree, hidden) /\ M!Step(c, p, {}) = M!Answer(m, p)
                /\ \A q \in DOMAIN w.base : p # q /\ M!Step(c, p, {}) = M!Step(c, q, {}) =>
                      /\ M!Step(c, p, {}) \in {p, q}
                      /\ \E m \in declared : {p, q} \cap M!Side(w.base, m, m.old) # {}
<1> DEFINE made == M!CollapseSubtrees(M!FilePairs(w.base, commit.tree, hidden), candidates, w.base, commit.tree)
           inferred == M!AtMost(cap, M!DropOverlapping(ordered, declared))
           c == M!WithRecords(w, commit, declared, inferred).commit
<1>1. /\ M!Consistent(declared) /\ \A m \in declared : M!BorneOutBy(commit.tree, m)
      /\ c.tree = commit.tree /\ c.parents = {w.base}
      /\ c.records = M!Records(declared, FALSE) \cup M!Records(inferred, TRUE)
  <2>1. M!WithRecords(w, commit, declared, inferred).ok
    OBVIOUS
  <2> HIDE DEF inferred
  <2>2. QED
    BY <2>1 DEF M!WithRecords
<1>2. \A m \in made : m \in Movable(Name) /\ Accounts(m, w.base, commit.tree, hidden)
  BY InferredIsTrue DEF IsTree
<1> HIDE DEF made
<1>3. inferred \subseteq made
  <2>1. ordered \in Seq(made)
    BY DEF made
  <2>2. M!DropOverlapping(ordered, declared) \subseteq made
    BY <1>1, <2>1, DropIsConsistent
  <2>3. QED
    BY <2>2 DEF M!AtMost
<1>4. WellRecorded(c, Name)
  <2>1. ordered \in Seq(Movable(Name))
    <3>1. ordered \in Seq(made) /\ made \subseteq Movable(Name)
      BY <1>2 DEF made
    <3>2. QED
      BY <3>1
  <2>2. QED
    BY <2>1, RecordsFitTogether
<1> HIDE DEF inferred, c
<1>5. MovesOf(c) = declared \cup inferred
  <2>1. /\ {r.move : r \in M!Records(declared, FALSE)} = declared
        /\ {r.move : r \in M!Records(inferred, TRUE)} = inferred
    BY RecordsOf
  <2>2. MovesOf(c) = {r.move : r \in M!Records(declared, FALSE)} \cup {r.move : r \in M!Records(inferred, TRUE)}
    BY Zenon, <1>1 DEF MovesOf
  <2>3. QED
    BY <2>1, <2>2
<1>6. \A p \in DOMAIN w.base : p \in Seq(Name)
  BY DEF IsTree
<1>7. \A m \in MovesOf(c) : \A p \in DOMAIN w.base : M!Claims(c, m, p) <=> p \in M!Side(w.base, m, m.old)
  <2>1. \A m \in MovesOf(c) : m \in Movable(Name)
    BY <1>4 DEF WellRecorded
  <2>2. QED
    BY Zenon, <1>1, <2>1, ClaimedIsBelow
<1>8. ASSUME NEW m \in inferred, NEW p \in DOMAIN w.base, p \in M!Side(w.base, m, m.old)
      PROVE  Arrives(m, p, w.base, c.tree, hidden) /\ M!Step(c, p, {}) = M!Answer(m, p)
  <2>1. Arrives(m, p, w.base, c.tree, hidden)
    BY <1>1, <1>2, <1>3, <1>8 DEF Accounts
  <2>2. M!Claims(c, m, p) /\ m \in MovesOf(c)
    BY <1>5, <1>7, <1>8
  <2>3. M!Answer(m, p) \in DOMAIN c.tree
    BY <2>1 DEF Arrives
  <2>4. QED
    BY <1>4, <1>6, <2>1, <2>2, <2>3, StepTo
<1>9. ASSUME NEW p \in DOMAIN w.base, p \in DOMAIN c.tree
      PROVE  M!Step(c, p, {}) = p
  <2>1. ASSUME NEW m \in MovesOf(c), M!Claims(c, m, p)
        PROVE  FALSE
    <3>1. p \in M!Side(w.base, m, m.old)
      BY <1>7, <2>1
    <3>2. CASE m \in declared
      BY <1>1, <1>9, <3>1, <3>2, DeclaredIsGone
    <3>3. CASE m \in inferred
      BY <1>8, <1>9, <3>1, <3>3 DEF Arrives
    <3>4. QED
      BY <1>5, <3>2, <3>3
  <2>2. QED
    BY <1>4, <1>6, <2>1, StepOf
<1>10. ASSUME NEW p \in DOMAIN w.base, NEW q \in DOMAIN w.base, p # q, M!Step(c, p, {}) = M!Step(c, q, {})
       PROVE  M!Step(c, p, {}) \in {p, q} /\ \E m \in declared : {p, q} \cap M!Side(w.base, m, m.old) # {}
  <2>1. M!Step(c, p, {}) \in {p, q}
    BY <1>4, <1>6, <1>10, FollowedApart
  <2>2. PICK r \in {p, q} : M!Step(c, r, {}) # r /\ M!Step(c, r, {}) \in DOMAIN w.base
    BY <1>10, <2>1
  <2>3. PICK m \in MovesOf(c) : M!Claims(c, m, r)
    BY <1>4, <1>6, <2>2, StepOf
  <2>4. r \in M!Side(w.base, m, m.old)
    BY <1>7, <2>3
  <2>5. m \notin inferred
    BY <1>8, <2>2, <2>4 DEF Arrives
  <2>6. QED
    BY <1>5, <2>1, <2>4, <2>5
<1>11. QED
  BY <1>8, <1>9, <1>10 DEF c, inferred

---------------------------------------------------------------------------
(* A working tree: paths of names, directories above what is in it, and      *)
(* links that lead to paths.                                                 *)
IsWorkingTree(w, Name) ==
    /\ DOMAIN w.disk \subseteq Seq(Name)
    /\ \A p \in DOMAIN w.disk : \A d \in M!Parents(p) : M!RealDirectory(w, d)
    /\ \A p \in DOMAIN w.disk : M!Has(w.disk, p, "link") => w.disk[p][2] \in Seq(Name)
Arguments(Name) == Seq([path : Seq(Name), slash : BOOLEAN, hunks : BOOLEAN])

(* What an argument is read as is a path.                                    *)
LEMMA CanonicalOK ==
  ASSUME NEW Name, NEW w, IsWorkingTree(w, Name), NEW a \in [path : Seq(Name), slash : BOOLEAN, hunks : BOOLEAN]
  PROVE  M!Canonical(w, a) \in Seq(Name)
  BY DEF M!Canonical, IsWorkingTree, M!Has

(* A path above one that is below a directory is below it too, is it, or is  *)
(* above it.                                                                 *)
LEMMA AboveOf ==
  ASSUME NEW Name, NEW prefix \in Seq(Name), NEW p \in Seq(Name), M!IsStrictPrefix(prefix, p), NEW d \in M!Parents(p)
  PROVE  M!IsStrictPrefix(prefix, d) \/ (d = prefix /\ prefix # M!Root) \/ d \in M!Parents(prefix)
<1>1. Len(prefix) \in Nat /\ Len(p) \in Nat
  OBVIOUS
<1>2. M!IsPrefix(prefix, p)
  BY DEF M!IsStrictPrefix
<1>3. p = prefix \o M!Rel(prefix, p) /\ M!Rel(prefix, p) \in Seq(Name)
  BY <1>2, RestOf
<1>4. Len(prefix) <= Len(p) /\ \A k \in 1..Len(prefix) : p[k] = prefix[k]
  <2>1. Len(prefix) <= Len(p)
    BY <1>2 DEF M!IsPrefix
  <2>2. \A k \in 1..Len(prefix) : (prefix \o M!Rel(prefix, p))[k] = prefix[k]
    BY <1>1, <1>3
  <2>3. QED
    BY Zenon, <1>3, <2>1, <2>2
<1>5. PICK i \in 1..(Len(p) - 1) : d = SubSeq(p, 1, i)
  BY DEF M!Parents
<1>6. d \in Seq(Name) /\ Len(d) = i /\ i \in Nat /\ i # 0 /\ \A k \in 1..i : d[k] = p[k]
  BY <1>1, <1>5
<1>7. CASE i > Len(prefix)
  <2>1. \A k \in 1..Len(prefix) : d[k] = prefix[k]
    BY <1>1, <1>4, <1>6, <1>7
  <2>2. SubSeq(prefix, 1, Len(prefix)) = SubSeq(d, 1, Len(prefix))
    BY <1>1, <1>6, <1>7, <2>1
  <2>3. prefix # d
    BY <1>1, <1>6, <1>7
  <2>4. QED
    BY <1>1, <1>6, <1>7, <2>2, <2>3 DEF M!IsStrictPrefix, M!IsPrefix
<1>8. CASE i = Len(prefix)
  <2>1. d = prefix
    BY <1>1, <1>4, <1>6, <1>8, SeqEqual
  <2>2. prefix # M!Root
    BY <1>6, <1>8 DEF M!Root
  <2>3. QED
    BY <2>1, <2>2
<1>9. CASE i < Len(prefix)
  <2>1. \A k \in 1..i : SubSeq(prefix, 1, i)[k] = d[k]
    BY <1>1, <1>4, <1>6, <1>9
  <2>2. SubSeq(prefix, 1, i) \in Seq(Name) /\ Len(SubSeq(prefix, 1, i)) = i
    BY <1>1, <1>6, <1>9
  <2>3. d = SubSeq(prefix, 1, i)
    BY <1>6, <2>1, <2>2, SeqEqual
  <2>4. i \in 1..(Len(prefix) - 1)
    BY <1>1, <1>6, <1>9
  <2>5. QED
    BY <2>3, <2>4 DEF M!Parents
<1>10. QED
  BY <1>1, <1>6, <1>7, <1>8, <1>9

(* What the walk of a directory finds is of this repository, when the        *)
(* directory is one that may be named.                                       *)
LEMMA WalkedIsOurs ==
  ASSUME NEW Name, NEW w, IsWorkingTree(w, Name), NEW prefix \in Seq(Name), M!BelongsHere(w, prefix),
         M!NamesADirectory(w, prefix, FALSE), NEW p \in M!Walked(w, prefix)
  PROVE  M!BelongsHere(w, p) /\ ~M!IsIgnored(w, p) /\ p \in DOMAIN w.disk
<1>1. /\ p \in DOMAIN w.disk /\ M!IsStrictPrefix(prefix, p) /\ ~M!RealDirectory(w, p) /\ ~M!IsIgnored(w, p)
      /\ \A d \in M!Under(M!Parents(p), prefix) : ~M!At(w, d)
  BY DEF M!Walked, M!Under
<1>2. p \in Seq(Name) /\ \A d \in M!Parents(p) : M!RealDirectory(w, d)
  BY <1>1 DEF IsWorkingTree
<1>3. ~M!Above(w, prefix)
  BY DEF M!BelongsHere
<1>4. ASSUME NEW d \in M!Parents(p), M!At(w, d)
      PROVE  FALSE
  <2>1. CASE M!IsStrictPrefix(prefix, d)
    BY <1>1, <1>4, <2>1 DEF M!Under
  <2>2. CASE d = prefix /\ prefix # M!Root
    <3>1. M!RealDirectory(w, prefix)
      BY <1>2, <1>4, <2>2
    <3>2. QED
      BY <1>4, <2>2, <3>1 DEF M!NamesADirectory
  <2>3. CASE d \in M!Parents(prefix)
    BY <1>3, <1>4, <2>3 DEF M!Above
  <2>4. QED
    BY <1>1, <1>2, <1>4, <2>1, <2>2, <2>3, AboveOf
<1>5. ~M!Above(w, p)
  BY <1>4 DEF M!Above
<1>6. ~M!UnrecordedRepositoryAt(w, p)
  BY <1>1 DEF M!UnrecordedRepositoryAt, M!At
<1>7. QED
  BY <1>1, <1>5, <1>6 DEF M!BelongsHere

(* What one argument of an accepted list brings in.                          *)
Ours(w, p, links) ==
    /\ p \in DOMAIN w.base \/ M!BelongsHere(w, p)
    /\ p \in DOMAIN w.disk /\ M!IsIgnored(w, p) => p \in DOMAIN w.base
    /\ p \in DOMAIN w.base \/ p \in links
LEMMA ArgumentIsOurs ==
  ASSUME NEW Name, NEW w, IsWorkingTree(w, Name), NEW q \in Seq(Name), M!BelongsHere(w, q), NEW hunks \in BOOLEAN, NEW before,
         M!Admissible(w, M!Argument(w, q, hunks), before), NEW p \in M!Argument(w, q, hunks).members
  PROVE  Ours(w, p, M!Argument(w, q, hunks).links)
<1> DEFINE a == M!Argument(w, q, hunks)
<1>1. (a.isDir => a.self) => M!ValidNamedPath(w, a.path, a.hunks)
  BY DEF M!Admissible
<1>2. CASE ~M!NamesADirectory(w, q, hunks)
  <2>1. ~a.isDir /\ a.path = q /\ a.members = {q} /\ a.links = {q}
    BY <1>2 DEF M!Argument
  <2> HIDE DEF a
  <2>2. M!ValidNamedPath(w, q, a.hunks)
    BY <1>1, <2>1
  <2>3. q \in DOMAIN w.disk => ~M!IsIgnored(w, q)
    BY <2>2 DEF M!ValidNamedPath, M!OnDisk, M!MayBeNamed, M!IsIgnored
  <2>4. p = q
    BY <2>1 DEF a
  <2>5. QED
    BY <2>1, <2>3, <2>4 DEF Ours, a
<1>3. CASE M!NamesADirectory(w, q, hunks)
  <2>1. /\ a.isDir /\ a.path = q /\ a.self = (M!Self(w, q) # {}) /\ a.members = M!ExpandDirectory(w, q)
        /\ a.links = M!Walked(w, q) \cup M!Self(w, q)
    BY <1>3 DEF M!Argument
  <2>2. M!NamesADirectory(w, q, FALSE)
    BY <1>3 DEF M!NamesADirectory
  <2> HIDE DEF a
  <2>3. p \in M!NotGitlinks(w, q) \/ p \in M!Walked(w, q) \/ p \in M!Self(w, q)
    BY <2>1 DEF M!ExpandDirectory, a
  <2>4. CASE p \in M!NotGitlinks(w, q)
    BY <2>4 DEF M!NotGitlinks, M!Under, Ours
  <2>5. CASE p \in M!Walked(w, q)
    <3>1. M!BelongsHere(w, p) /\ ~M!IsIgnored(w, p)
      BY <2>2, <2>5, WalkedIsOurs
    <3>2. QED
      BY <2>1, <2>5, <3>1 DEF Ours, a
  <2>6. CASE p \in M!Self(w, q)
    <3>1. p = q /\ p \in DOMAIN w.disk
      BY <2>6 DEF M!Self
    <3>2. M!ValidNamedPath(w, q, a.hunks)
      BY <1>1, <2>1, <2>6
    <3>3. ~M!IsIgnored(w, q)
      BY <3>1, <3>2 DEF M!ValidNamedPath, M!OnDisk, M!MayBeNamed, M!IsIgnored
    <3>4. QED
      BY <2>1, <2>6, <3>1, <3>3 DEF Ours, a
  <2>7. QED
    BY <2>3, <2>4, <2>5, <2>6
<1>4. QED
  BY <1>2, <1>3

(* What an accepted list has gone by, and what is made of it.                *)
LEMMA ResolvedOK ==
  ASSUME NEW w, NEW given, NEW gone, NEW dropped, NEW allow, M!ResolvedTo(w, given, gone, dropped, allow).ok
  PROVE  LET r == M!ResolvedTo(w, given, gone, dropped, allow)
         IN  /\ \A p \in M!Given(given) : M!BelongsHere(w, p) /\ p \notin dropped
             /\ \A i \in DOMAIN given : M!Admissible(w, given[i], {given[j] : j \in 1..(i - 1)})
             /\ allow \/ \A p \in M!Met(given) \cap DOMAIN w.disk : ~M!NonPortable(w.disk[p])
             /\ r.untrack = dropped
             /\ \A p \in r.whole : p \notin dropped /\ \E i \in DOMAIN given : p \in given[i].members
             /\ \A p \in r.hunks : \E i \in DOMAIN given : given[i].hunks /\ given[i].path = p
<1> DEFINE r == M!ResolvedTo(w, given, gone, dropped, allow)
<1>1. M!ToSet(given) = {given[i] : i \in DOMAIN given}
  BY DEF M!ToSet
<1>2. /\ M!Acceptable(w, given, gone, dropped, allow)
      /\ r.untrack = dropped /\ r.hunks = M!InHunks(given) /\ r.whole = M!Members(given) \ (M!InHunks(given) \cup dropped)
  <2>1. M!ResolvedTo(w, given, gone, dropped, allow).ok
    OBVIOUS
  <2>2. M!ResolvedTo(w, given, gone, dropped, allow).ok <=> M!Acceptable(w, given, gone, dropped, allow)
    BY Zenon DEF M!ResolvedTo
  <2>3. M!ResolvedTo(w, given, gone, dropped, allow).untrack = dropped
    BY Zenon DEF M!ResolvedTo
  <2>4. M!ResolvedTo(w, given, gone, dropped, allow).hunks = M!InHunks(given)
    BY Zenon DEF M!ResolvedTo
  <2>5. M!ResolvedTo(w, given, gone, dropped, allow).whole = M!Members(given) \ (M!InHunks(given) \cup dropped)
    BY Zenon DEF M!ResolvedTo
  <2>6. QED
    BY Zenon, <2>1, <2>2, <2>3, <2>4, <2>5
<1>3. /\ \A p \in M!Given(given) : M!BelongsHere(w, p) /\ p \notin dropped
      /\ \A i \in DOMAIN given : M!Admissible(w, given[i], {given[j] : j \in 1..(i - 1)})
      /\ allow \/ \A p \in M!Met(given) \cap DOMAIN w.disk : ~M!NonPortable(w.disk[p])
  <2>1. /\ \A p \in gone \cup M!Given(given) : M!BelongsHere(w, p)
        /\ M!Given(given) \cap (gone \cup dropped) = {}
    BY Zenon, <1>2 DEF M!Acceptable
  <2>2. \A i \in DOMAIN given : M!Admissible(w, given[i], {given[j] : j \in 1..(i - 1)})
    BY Zenon, <1>2 DEF M!Acceptable
  <2>3. allow \/ \A p \in M!Met(given) \cap DOMAIN w.disk : ~M!NonPortable(w.disk[p])
    BY Zenon, <1>2 DEF M!Acceptable
  <2>4. QED
    BY <2>1, <2>2, <2>3
<1>4. \A p \in M!Members(given) : \E i \in DOMAIN given : p \in given[i].members
  BY <1>1 DEF M!Members
<1>5. \A p \in M!InHunks(given) : \E i \in DOMAIN given : given[i].hunks /\ given[i].path = p
  BY <1>1 DEF M!InHunks
<1> HIDE DEF r
<1>6. QED
  BY <1>2, <1>3, <1>4, <1>5 DEF r

(* What a commit is to record of the paths it was given is of this           *)
(* repository, is not ignored and leads nowhere out of it, unless the base   *)
(* has it already: naming a path, naming a directory above it, or one at the *)
(* other end of a link, does not reach into another repository; and what is  *)
(* to be dropped is not recorded (resolveFiles,                              *)
(* refuseInsideOtherRepositories, walkForCommit).                            *)
THEOREM NamedIsOurs ==
  ASSUME NEW Name, NEW w, IsWorkingTree(w, Name), NEW args \in Arguments(Name), NEW untrack, NEW allow \in BOOLEAN,
         M!Resolved(w, args, untrack, allow).ok
  PROVE  LET r == M!Resolved(w, args, untrack, allow)
         IN  \A p \in r.whole \cup r.hunks :
                /\ p \in DOMAIN w.base \/ M!BelongsHere(w, p)
                /\ p \in DOMAIN w.disk /\ M!IsIgnored(w, p) => p \in DOMAIN w.base
                /\ p \in DOMAIN w.disk /\ M!NonPortable(w.disk[p]) => allow \/ p \in DOMAIN w.base
                /\ p \notin r.untrack
<1> DEFINE gone == {M!Canonical(w, a) : a \in untrack}
           dropped == UNION {M!UntrackTargets(w, p) : p \in gone}
           q(i) == M!Canonical(w, args[i])
           given == [i \in DOMAIN args |-> M!Argument(w, q(i), args[i].hunks)]
           links == M!Met(given)
           r == M!ResolvedTo(w, given, gone, dropped, allow)
<1>1. M!Resolved(w, args, untrack, allow) = r
  BY DEF M!Resolved
<1>2. \A i \in DOMAIN args : args[i] \in [path : Seq(Name), slash : BOOLEAN, hunks : BOOLEAN]
  BY Zenon, MemberOf DEF Arguments
<1>3. \A i \in DOMAIN args : q(i) \in Seq(Name) /\ args[i].hunks \in BOOLEAN
  <2> TAKE i \in DOMAIN args
  <2>1. args[i].hunks \in BOOLEAN
    BY <1>2
  <2>2. q(i) \in Seq(Name)
    BY <1>2, CanonicalOK
  <2>3. QED
    BY <2>1, <2>2
<1>4. DOMAIN given = DOMAIN args /\ \A i \in DOMAIN args : given[i] = M!Argument(w, q(i), args[i].hunks)
  OBVIOUS
<1>5. \A i \in DOMAIN args : given[i].path = q(i) /\ given[i].hunks = args[i].hunks
  BY DEF M!Argument
<1>6. r.ok
  BY <1>1
<1> HIDE DEF given, gone, dropped, q, r
<1>7. /\ \A p \in M!Given(given) : M!BelongsHere(w, p) /\ p \notin dropped
      /\ \A i \in DOMAIN given : M!Admissible(w, given[i], {given[j] : j \in 1..(i - 1)})
      /\ allow \/ \A p \in links \cap DOMAIN w.disk : ~M!NonPortable(w.disk[p])
      /\ r.untrack = dropped
      /\ \A p \in r.whole : p \notin dropped /\ \E i \in DOMAIN given : p \in given[i].members
      /\ \A p \in r.hunks : \E i \in DOMAIN given : given[i].hunks /\ given[i].path = p
  BY <1>6, ResolvedOK DEF r
<1>8. \A i \in DOMAIN args : q(i) \in M!Given(given)
  BY <1>4, <1>5 DEF M!Given, M!ToSet
<1>9. ASSUME NEW i \in DOMAIN args, NEW p \in given[i].members
      PROVE  Ours(w, p, links)
  <2>1. M!BelongsHere(w, q(i)) /\ q(i) \in Seq(Name) /\ args[i].hunks \in BOOLEAN
    BY <1>3, <1>7, <1>8
  <2>2. M!Admissible(w, M!Argument(w, q(i), args[i].hunks), {given[j] : j \in 1..(i - 1)})
    BY <1>4, <1>7
  <2>3. Ours(w, p, given[i].links)
    BY <1>4, <2>1, <2>2, ArgumentIsOurs
  <2>4. given[i].links \subseteq links
    BY <1>4 DEF M!Met, M!ToSet
  <2> HIDE DEF links
  <2>5. QED
    BY <2>3, <2>4 DEF Ours
<1>10. ASSUME NEW p \in r.whole \cup r.hunks
       PROVE  p \notin dropped /\ Ours(w, p, links)
  <2> HIDE DEF links
  <2>1. CASE p \in r.whole
    BY <1>4, <1>7, <1>9, <2>1
  <2>2. CASE p \in r.hunks
    <3>1. PICK i \in DOMAIN args : given[i].hunks /\ given[i].path = p
      BY <1>4, <1>7, <2>2
    <3>2. p = q(i) /\ args[i].hunks
      BY <1>5, <3>1
    <3>3. given[i].members = {p}
      <4>1. ~M!NamesADirectory(w, q(i), args[i].hunks)
        BY <3>2 DEF M!NamesADirectory
      <4>2. M!Argument(w, q(i), args[i].hunks).members = {q(i)}
        BY <4>1 DEF M!Argument
      <4>3. QED
        BY <1>4, <3>2, <4>2
    <3>4. p \notin dropped
      BY <1>7, <1>8, <3>2
    <3>5. QED
      BY <1>9, <3>3, <3>4
  <2>3. QED
    BY <2>1, <2>2
<1> HIDE DEF links
<1>11. QED
  BY <1>1, <1>7, <1>10 DEF Ours

---------------------------------------------------------------------------
(***************************************************************************)
(* Staging: what a commit makes of the paths it was given, one after       *)
(* another, in whatever order.                                             *)
(***************************************************************************)
(* A set of subsets of a finite set has one that has none of the others one  *)
(* element less.                                                             *)
LEMMA LeastSubset ==
  ASSUME NEW S, IsFiniteSet(S), NEW B \in SUBSET SUBSET S, B # {}
  PROVE  \E s \in B : \A x \in s : s \ {x} \notin B
<1>1. B \subseteq FiniteSubsetsOf(S)
  BY FS_FiniteSubsetsOfFinite
<1>2. \E s \in B : \A t \in B : <<t, s>> \notin StrictSubsetOrdering(S)
  BY <1>1, FS_StrictSubsetOrderingWellFounded, WFMin
<1>3. PICK s \in B : \A t \in B : <<t, s>> \notin StrictSubsetOrdering(S)
  BY <1>2
<1>4. ASSUME NEW x \in s, s \ {x} \in B
      PROVE  FALSE
  <2>1. <<s \ {x}, s>> \in StrictSubsetOrdering(S)
    BY DEF StrictSubsetOrdering
  <2>2. QED
    BY <1>3, <1>4, <2>1
<1>5. QED
  BY <1>3, <1>4

(* Staging of hunks, or of whole paths, one after another: a set of them is  *)
(* staged by staging all but one, and then that one.                         *)
One(s) == CHOOSE x \in s : TRUE
Stage(whole, w, x, idx) == IF whole THEN M!StageWhole(w, x, idx) ELSE M!StageHunks(w, idx, x)
Staging(f, whole, w, a, S) ==
    f = [s \in SUBSET S |-> IF s = {} THEN a ELSE Stage(whole, w, One(s), f[s \ {One(s)}])]

(* There is such a staging.                                                  *)
LEMMA StagingExists ==
  ASSUME NEW S, IsFiniteSet(S), NEW whole, NEW w, NEW a
  PROVE  \E f : Staging(f, whole, w, a, S)
<1> DEFINE Small(k) == {s \in SUBSET S : Cardinality(s) <= k}
           Upto(f, k) == f = [s \in Small(k) |-> IF s = {} THEN a ELSE Stage(whole, w, One(s), f[s \ {One(s)}])]
           n == Cardinality(S)
           without == {k \in 0..n : ~\E f : Upto(f, k)}
<1>1. /\ n \in Nat
      /\ \A s \in SUBSET S : IsFiniteSet(s) /\ Cardinality(s) \in 0..n /\ (s # {} => Cardinality(s) # 0)
      /\ \A s \in SUBSET S : \A x \in s : s \ {x} \in SUBSET S /\ Cardinality(s \ {x}) = Cardinality(s) - 1
  <2>1. \A s \in SUBSET S : IsFiniteSet(s) /\ Cardinality(s) <= n
    BY FS_Subset
  <2>2. n \in Nat /\ \A s \in SUBSET S : Cardinality(s) \in Nat
    BY <2>1, FS_CardinalityType
  <2>3. \A s \in SUBSET S : s # {} => Cardinality(s) # 0
    BY <2>1, FS_EmptySet
  <2>4. \A s \in SUBSET S : \A x \in s : Cardinality(s \ {x}) = Cardinality(s) - 1
    BY <2>1, FS_RemoveElement
  <2> HIDE DEF n
  <2>5. QED
    BY <2>1, <2>2, <2>3, <2>4
<1> HIDE DEF n
<1>2. \A s \in SUBSET S : s # {} => One(s) \in s
  BY DEF One
<1>3. ASSUME without # {}
      PROVE  FALSE
  <2>1. PICK k \in without : \A l \in without : k <= l
    <3>1. without \in SUBSET Nat
      BY <1>1
    <3> HIDE DEF without
    <3>2. QED
      BY <1>3, <3>1, LeastNatural
  <2>2. k # 0
    <3>1. \A s \in Small(0) : s = {}
      BY <1>1
    <3>2. Upto([s \in Small(0) |-> a], 0)
      BY <3>1
    <3>3. QED
      BY <2>1, <3>2
  <2>3. k \in 1..n /\ k - 1 \in 0..n /\ ~(k <= k - 1)
    BY <1>1, <2>1, <2>2
  <2>4. PICK f : Upto(f, k - 1)
    BY <2>1, <2>3
  <2>5. \A s \in Small(k - 1) : f[s] = IF s = {} THEN a ELSE Stage(whole, w, One(s), f[s \ {One(s)}])
    BY <2>4
  <2> DEFINE h == [s \in Small(k) |-> IF s \in Small(k - 1) THEN f[s] ELSE Stage(whole, w, One(s), f[s \ {One(s)}])]
  <2>6. {} \in Small(k - 1)
    BY <1>1, <2>3, FS_EmptySet
  <2>7. \A s \in Small(k) : s # {} => s \ {One(s)} \in Small(k - 1)
    BY <1>1, <1>2, <2>3
  <2>8. \A s \in Small(k - 1) : s \in Small(k)
    BY <1>1, <2>3
  <2> HIDE DEF Small
  <2>9. \A s \in Small(k - 1) : h[s] = f[s]
    BY <2>8
  <2>10. \A s \in Small(k) : h[s] = IF s \in Small(k - 1) THEN f[s] ELSE Stage(whole, w, One(s), f[s \ {One(s)}])
    OBVIOUS
  <2>11. h = [s \in Small(k) |-> h[s]]
    OBVIOUS
  <2> HIDE DEF h
  <2>12. ASSUME NEW s \in Small(k)
         PROVE  h[s] = IF s = {} THEN a ELSE Stage(whole, w, One(s), h[s \ {One(s)}])
    <3>1. CASE s = {}
      BY <2>5, <2>6, <2>9, <3>1
    <3>2. CASE s # {}
      <4>1. h[s \ {One(s)}] = f[s \ {One(s)}]
        BY <2>7, <2>9, <3>2
      <4>2. h[s] = Stage(whole, w, One(s), f[s \ {One(s)}])
        BY <2>5, <2>9, <2>10, <3>2
      <4>3. QED
        BY <3>2, <4>1, <4>2
    <3>3. QED
      BY <3>1, <3>2
  <2>13. Upto(h, k)
    BY <2>11, <2>12
  <2>14. QED
    BY <2>1, <2>13
<1>4. PICK f : Upto(f, n)
  <2>1. n \in 0..n
    BY <1>1
  <2>2. QED
    BY <1>3, <2>1
<1>5. Small(n) = SUBSET S
  BY <1>1
<1>6. QED
  BY <1>4, <1>5 DEF Staging

(* Beginnings of a path, and the paths above it.                             *)
LEMMA StrictlyBegins ==
  ASSUME NEW Name, NEW p \in Seq(Name), NEW q \in Seq(Name)
  PROVE  /\ M!IsStrictPrefix(p, q) <=> M!IsPrefix(p, q) /\ p # q
         /\ M!IsStrictPrefix(p, q) /\ p # M!Root => p \in M!Parents(q)
         /\ p \in M!Parents(q) => M!IsStrictPrefix(p, q) /\ p # M!Root
         /\ ~(M!IsStrictPrefix(p, q) /\ M!IsStrictPrefix(q, p))
<1>1. Len(p) \in Nat /\ Len(q) \in Nat
  OBVIOUS
<1>2. M!IsPrefix(p, q) <=> Len(p) <= Len(q) /\ SubSeq(p, 1, Len(p)) = SubSeq(q, 1, Len(p))
  BY DEF M!IsPrefix
<1>3. M!IsPrefix(q, p) <=> Len(q) <= Len(p) /\ SubSeq(q, 1, Len(q)) = SubSeq(p, 1, Len(q))
  BY DEF M!IsPrefix
<1>4. SubSeq(p, 1, Len(p)) = p /\ SubSeq(q, 1, Len(q)) = q
  BY SeqEqual
<1>5. M!IsStrictPrefix(p, q) <=> M!IsPrefix(p, q) /\ p # q
  BY DEF M!IsStrictPrefix
<1>6. M!IsStrictPrefix(q, p) <=> M!IsPrefix(q, p) /\ p # q
  BY DEF M!IsStrictPrefix
<1>7. M!IsPrefix(p, q) /\ p # q => Len(p) < Len(q)
  BY <1>1, <1>2, <1>4
<1>8. ASSUME M!IsStrictPrefix(p, q), p # M!Root
      PROVE  p \in M!Parents(q)
  <2>1. Len(p) # 0
    BY <1>8 DEF M!Root
  <2>2. Len(p) \in 1..(Len(q) - 1) /\ p = SubSeq(q, 1, Len(p))
    BY <1>1, <1>2, <1>4, <1>5, <1>7, <1>8, <2>1
  <2>3. QED
    BY <2>2 DEF M!Parents
<1>9. ASSUME p \in M!Parents(q)
      PROVE  M!IsStrictPrefix(p, q) /\ p # M!Root
  <2>1. PICK i \in 1..(Len(q) - 1) : p = SubSeq(q, 1, i)
    BY <1>9 DEF M!Parents
  <2>2. i \in Nat /\ i <= Len(q) /\ i # 0
    BY <1>1, <2>1
  <2>3. Len(p) = i
    BY <2>1, <2>2
  <2>4. p # M!Root
    BY <2>2, <2>3 DEF M!Root
  <2>5. M!IsPrefix(p, q)
    BY <1>2, <1>4, <2>1, <2>2, <2>3
  <2>6. p # q
    BY <1>1, <2>1, <2>2, <2>3
  <2>7. QED
    BY <1>5, <2>4, <2>5, <2>6
<1>10. QED
  BY <1>1, <1>2, <1>3, <1>4, <1>5, <1>6, <1>7, <1>8, <1>9

(* What begins a beginning begins the whole.                                 *)
LEMMA BeginsOn ==
  ASSUME NEW Name, NEW p \in Seq(Name), NEW q \in Seq(Name), NEW r \in Seq(Name), M!IsPrefix(p, q), M!IsPrefix(q, r)
  PROVE  /\ M!IsPrefix(p, r)
         /\ M!IsStrictPrefix(p, q) \/ M!IsStrictPrefix(q, r) => M!IsStrictPrefix(p, r)
<1>1. Len(p) \in Nat /\ Len(q) \in Nat /\ Len(r) \in Nat
  OBVIOUS
<1>2. Len(p) <= Len(q) /\ Len(q) <= Len(r)
  BY DEF M!IsPrefix
<1>3. \A i \in 1..Len(p) : p[i] = q[i]
  <2>1. \A i \in 1..Len(p) : SubSeq(p, 1, Len(p))[i] = p[i] /\ SubSeq(q, 1, Len(p))[i] = q[i]
    BY <1>1, <1>2
  <2>2. SubSeq(p, 1, Len(p)) = SubSeq(q, 1, Len(p))
    BY DEF M!IsPrefix
  <2>3. QED
    BY <2>1, <2>2
<1>4. \A i \in 1..Len(q) : q[i] = r[i]
  <2>1. \A i \in 1..Len(q) : SubSeq(q, 1, Len(q))[i] = q[i] /\ SubSeq(r, 1, Len(q))[i] = r[i]
    BY <1>1, <1>2
  <2>2. SubSeq(q, 1, Len(q)) = SubSeq(r, 1, Len(q))
    BY DEF M!IsPrefix
  <2>3. QED
    BY <2>1, <2>2
<1>5. M!IsPrefix(p, r)
  <2>1. \A i \in 1..Len(p) : p[i] = r[i]
    BY <1>1, <1>2, <1>3, <1>4
  <2>2. SubSeq(p, 1, Len(p)) = SubSeq(r, 1, Len(p))
    BY <1>1, <1>2, <2>1
  <2>3. QED
    BY <1>1, <1>2, <2>2 DEF M!IsPrefix
<1>6. ASSUME p = r
      PROVE  p = q /\ q = r
  BY <1>1, <1>2, <1>3, <1>6, SeqEqual
<1>7. QED
  BY <1>5, <1>6, StrictlyBegins

(* A world whose paths are as git and the file system have them: nothing is  *)
(* above an entry of a tree, and what is above a path on disk, or has a      *)
(* repository, is a directory.                                               *)
IsIndex(idx, Name) == IsTree(idx, Name) /\ M!Root \notin DOMAIN idx

IsWorld(w, Name) ==
    /\ IsWorkingTree(w, Name) /\ IsIndex(w.base, Name) /\ M!Root \notin DOMAIN w.disk
    /\ \A d \in w.repos : M!RealDirectory(w, d)

(* What git add of q makes an entry of p of.                                 *)
AddedBy(w, q, p) ==
    /\ q \in DOMAIN w.disk /\ p \in DOMAIN w.disk /\ M!IsPrefix(q, p)
    /\ M!RealDirectory(w, p) => p \in w.repos
    /\ \A d \in M!Under(M!Parents(p), q) : d \notin w.repos

(* A path on disk that is no directory, of no other repository.              *)
OwnFile(w, p) == p \in DOMAIN w.disk /\ ~M!RealDirectory(w, p) /\ M!Parents(p) \cap w.repos = {}

(* What such a world has on disk.                                            *)
LEMMA WorldOK ==
  ASSUME NEW Name, NEW w, IsWorld(w, Name)
  PROVE  /\ \A p \in DOMAIN w.disk : p \in Seq(Name) /\ p # M!Root
         /\ \A p \in DOMAIN w.disk : \A d \in Seq(Name) :
               M!IsStrictPrefix(d, p) /\ d # M!Root => M!RealDirectory(w, d)
         /\ \A p : M!RealDirectory(w, p) => p \in DOMAIN w.disk
         /\ \A d \in w.repos : M!RealDirectory(w, d)
<1>1. \A p \in DOMAIN w.disk : p \in Seq(Name) /\ p # M!Root
  BY DEF IsWorld, IsWorkingTree
<1>2. \A p \in DOMAIN w.disk : \A d \in M!Parents(p) : M!RealDirectory(w, d)
  BY DEF IsWorld, IsWorkingTree
<1>3. QED
  BY <1>1, <1>2, StrictlyBegins DEF IsWorld, M!RealDirectory, M!Has

(* What becomes of an index when entries of what git add reads are put into  *)
(* it, none of them above another.                                           *)
LEMMA PutOf ==
  ASSUME NEW Name, NEW w, IsWorld(w, Name), NEW idx, IsIndex(idx, Name), NEW p \in DOMAIN w.disk, NEW new,
         \A x \in new : AddedBy(w, p, x), \A x, y \in new : ~M!IsStrictPrefix(x, y)
  PROVE  LET out == M!Put(w, idx, new)
         IN  /\ IsIndex(out, Name)
             /\ \A x \in DOMAIN out : x \in new \/ (x \in DOMAIN idx /\ out[x] = idx[x])
             /\ \A x \in new : x \in DOMAIN out /\ out[x] = M!Entry(w, x)
             /\ \A x \in DOMAIN idx : x \notin DOMAIN out =>
                   \E y \in new : M!IsStrictPrefix(x, y) \/ M!IsStrictPrefix(y, x)
             /\ \A x \in DOMAIN idx : x \notin DOMAIN out => M!Nests(x, p)
<1> DEFINE kept == {q \in DOMAIN idx : \A x \in new : ~M!IsStrictPrefix(x, q) /\ ~M!IsStrictPrefix(q, x)}
           out == [q \in new \cup kept |-> IF q \in new THEN M!Entry(w, q) ELSE idx[q]]
<1>1. M!Put(w, idx, new) = out
  BY DEF M!Put
<1>2. \A x \in new : x \in Seq(Name) /\ x # M!Root /\ M!IsPrefix(p, x)
  BY WorldOK DEF AddedBy
<1>3. \A x \in DOMAIN idx : x \in Seq(Name) /\ x # M!Root
  BY DEF IsIndex, IsTree
<1>4. p \in Seq(Name)
  BY WorldOK
<1>5. \A x, y \in DOMAIN idx : ~M!IsStrictPrefix(x, y)
  BY <1>3, StrictlyBegins DEF IsIndex, IsTree
<1>6. IsIndex(out, Name)
  <2>1. \A x \in DOMAIN out : x \in Seq(Name) /\ x # M!Root
    BY <1>2, <1>3
  <2>2. \A x, y \in DOMAIN out : ~M!IsStrictPrefix(x, y)
    BY <1>5
  <2>3. \A x, y \in DOMAIN out : M!IsPrefix(x, y) => x = y
    BY <2>1, <2>2, StrictlyBegins
  <2> HIDE DEF out
  <2>4. QED
    BY <2>1, <2>3 DEF IsIndex, IsTree
<1>7. ASSUME NEW x \in DOMAIN idx, x \notin DOMAIN out
      PROVE  /\ \E y \in new : M!IsStrictPrefix(x, y) \/ M!IsStrictPrefix(y, x)
             /\ M!Nests(x, p)
  <2>1. PICK y \in new : M!IsStrictPrefix(x, y) \/ M!IsStrictPrefix(y, x)
    BY <1>7
  <2>2. M!Nests(x, p)
    <3>1. CASE M!IsStrictPrefix(x, y)
      BY <1>2, <1>3, <1>4, <3>1, StrictlyBegins, BeginningsNest
    <3>2. CASE M!IsStrictPrefix(y, x)
      BY <1>2, <1>3, <1>4, <3>2, StrictlyBegins, BeginsOn DEF M!Nests
    <3>3. QED
      BY <2>1, <3>1, <3>2
  <2>3. QED
    BY <2>1, <2>2
<1>8. \A x \in DOMAIN out : x \in new \/ (x \in DOMAIN idx /\ out[x] = idx[x])
  OBVIOUS
<1>9. \A x \in new : x \in DOMAIN out /\ out[x] = M!Entry(w, x)
  OBVIOUS
<1> HIDE DEF out
<1>10. QED
  BY <1>1, <1>6, <1>7, <1>8, <1>9

(* What staging a whole path makes of an index.                              *)
TakenIn(w, p, idx, out) ==
    /\ \A x \in DOMAIN out : \/ x \in DOMAIN idx /\ out[x] = idx[x]
                             \/ /\ AddedBy(w, p, x) /\ out[x] = M!Entry(w, x)
                                /\ x \in w.ignored => x = p \/ x \in DOMAIN idx
    /\ \A x \in DOMAIN idx : x \notin DOMAIN out => M!Nests(x, p)
    /\ p \notin DOMAIN w.disk => p \notin DOMAIN out
    /\ OwnFile(w, p) => p \in DOMAIN out /\ out[p] = w.disk[p]
    /\ \A x \in DOMAIN idx : OwnFile(w, x) /\ idx[x] = w.disk[x] => x \in DOMAIN out /\ out[x] = w.disk[x]

(* An index stays one when entries leave it.                                 *)
LEMMA DropOf ==
  ASSUME NEW Name, NEW idx, IsIndex(idx, Name), NEW gone
  PROVE  IsIndex(M!Drop(idx, gone), Name)
  BY DEF M!Drop, IsIndex, IsTree

(* A path begins itself, and not strictly.                                   *)
LEMMA BeginsSelf ==
  ASSUME NEW Name, NEW p \in Seq(Name)
  PROVE  M!IsPrefix(p, p) /\ M!Nests(p, p) /\ ~M!IsStrictPrefix(p, p)
<1>1. SubSeq(p, 1, Len(p)) = SubSeq(p, 1, Len(p)) /\ Len(p) <= Len(p)
  OBVIOUS
<1>2. QED
  BY <1>1 DEF M!IsPrefix, M!Nests, M!IsStrictPrefix

(* A file, a link, or a repository that takes a place of its own.            *)
LEMMA PutAlone ==
  ASSUME NEW Name, NEW w, IsWorld(w, Name), NEW idx, IsIndex(idx, Name), NEW p \in DOMAIN w.disk,
         M!RealDirectory(w, p) => p \in w.repos /\ M!Under(DOMAIN idx, p) = {}
  PROVE  IsIndex(M!Put(w, idx, {p}), Name) /\ TakenIn(w, p, idx, M!Put(w, idx, {p}))
<1> DEFINE out == M!Put(w, idx, {p})
<1>1. p \in Seq(Name)
  BY WorldOK
<1>2. AddedBy(w, p, p) /\ ~M!IsStrictPrefix(p, p)
  <2>1. M!Under(M!Parents(p), p) = {}
    <3>1. \A d \in M!Parents(p) : d \in Seq(Name)
      BY <1>1 DEF M!Parents
    <3>2. QED
      BY <1>1, <3>1, StrictlyBegins DEF M!Under
  <2>2. QED
    BY <1>1, <2>1, BeginsSelf DEF AddedBy
<1>3. \A x \in {p} : AddedBy(w, p, x)
  BY <1>2
<1>4. \A x, y \in {p} : ~M!IsStrictPrefix(x, y)
  BY <1>2
<1>5. /\ IsIndex(out, Name)
      /\ \A x \in DOMAIN out : x \in {p} \/ (x \in DOMAIN idx /\ out[x] = idx[x])
      /\ \A x \in {p} : x \in DOMAIN out /\ out[x] = M!Entry(w, x)
      /\ \A x \in DOMAIN idx : x \notin DOMAIN out => \E y \in {p} : M!IsStrictPrefix(x, y) \/ M!IsStrictPrefix(y, x)
      /\ \A x \in DOMAIN idx : x \notin DOMAIN out => M!Nests(x, p)
  BY <1>3, <1>4, PutOf
<1>6. p \in DOMAIN out /\ out[p] = M!Entry(w, p)
  BY <1>5
<1>7. ASSUME NEW x, OwnFile(w, x)
      PROVE  x \notin w.repos /\ M!Entry(w, x) = w.disk[x]
  BY <1>7, WorldOK DEF OwnFile, M!Entry
<1>8. ASSUME NEW x \in DOMAIN idx, OwnFile(w, x), idx[x] = w.disk[x]
      PROVE  x \in DOMAIN out /\ out[x] = w.disk[x]
  <2>1. CASE x = p
    BY <1>6, <1>7, <1>8, <2>1
  <2>2. CASE x # p
    <3>1. x \in DOMAIN w.disk /\ ~M!RealDirectory(w, x) /\ x \in Seq(Name) /\ x # M!Root /\ p # M!Root
      BY <1>8, WorldOK DEF OwnFile
    <3>2. ~M!IsStrictPrefix(x, p)
      BY <1>1, <3>1, WorldOK
    <3>3. ~M!IsStrictPrefix(p, x)
      <4>1. CASE M!RealDirectory(w, p)
        BY <4>1 DEF M!Under
      <4>2. CASE ~M!RealDirectory(w, p)
        BY <1>1, <3>1, <4>2, WorldOK
      <4>3. QED
        BY <4>1, <4>2
    <3>4. x \in DOMAIN out
      BY <1>5, <3>2, <3>3
    <3>5. QED
      BY <1>5, <1>8, <2>2, <3>4
  <2>3. QED
    BY <2>1, <2>2
<1>9. TakenIn(w, p, idx, out)
  <2> HIDE DEF out
  <2>1. \A x \in DOMAIN out : \/ x \in DOMAIN idx /\ out[x] = idx[x]
                              \/ /\ AddedBy(w, p, x) /\ out[x] = M!Entry(w, x)
                                 /\ x \in w.ignored => x = p \/ x \in DOMAIN idx
    BY <1>2, <1>5
  <2>2. OwnFile(w, p) => p \in DOMAIN out /\ out[p] = w.disk[p]
    BY <1>6, <1>7
  <2>3. QED
    BY <1>5, <1>8, <2>1, <2>2 DEF TakenIn
<1>10. QED
  BY <1>5, <1>9

(* A directory, with all that git add finds in it.                           *)
LEMMA PutBelow ==
  ASSUME NEW Name, NEW w, IsWorld(w, Name), NEW idx, IsIndex(idx, Name), NEW p, M!RealDirectory(w, p)
  PROVE  LET out == M!Put(w, M!Drop(idx, {p} \cup M!Under(DOMAIN idx, p)), M!Below(w, idx, p))
         IN  IsIndex(out, Name) /\ TakenIn(w, p, idx, out)
<1> DEFINE rest == M!Drop(idx, {p} \cup M!Under(DOMAIN idx, p))
           new == M!Below(w, idx, p)
           out == M!Put(w, rest, new)
<1>1. p \in DOMAIN w.disk /\ p \in Seq(Name) /\ p # M!Root
  BY WorldOK
<1>2. /\ IsIndex(rest, Name)
      /\ \A x : x \in DOMAIN rest <=> x \in DOMAIN idx /\ x # p /\ ~M!IsStrictPrefix(p, x)
      /\ \A x \in DOMAIN rest : rest[x] = idx[x]
  <2>1. IsIndex(rest, Name)
    BY DropOf
  <2>2. DOMAIN rest = DOMAIN idx \ ({p} \cup M!Under(DOMAIN idx, p)) /\ \A x \in DOMAIN rest : rest[x] = idx[x]
    BY DEF M!Drop
  <2>3. QED
    BY <2>1, <2>2 DEF M!Under
<1>3. \A x : x \in new <=> /\ x \in DOMAIN w.disk /\ M!IsStrictPrefix(p, x)
                           /\ \A q \in M!Under(M!Parents(x), p) : q \notin w.repos
                           /\ x \in w.repos \/ ~M!RealDirectory(w, x)
                           /\ x \in w.ignored => x \in DOMAIN idx
  BY DEF M!Below, M!Under
<1> HIDE DEF rest, new
<1>4. \A x \in DOMAIN idx : x \in Seq(Name) /\ x # M!Root
  BY DEF IsIndex, IsTree
<1>5. \A x \in new : AddedBy(w, p, x) /\ x \in Seq(Name) /\ x # M!Root /\ M!IsStrictPrefix(p, x)
  BY <1>1, <1>3, WorldOK, StrictlyBegins DEF AddedBy
<1>6. ASSUME NEW x \in new, NEW y \in new, M!IsStrictPrefix(x, y)
      PROVE  FALSE
  <2>1. M!RealDirectory(w, x)
    BY <1>3, <1>5, <1>6, WorldOK
  <2>2. x \in M!Under(M!Parents(y), p)
    BY <1>5, <1>6, StrictlyBegins DEF M!Under
  <2>3. QED
    BY <1>3, <2>1, <2>2
<1>7. /\ IsIndex(out, Name)
      /\ \A x \in DOMAIN out : x \in new \/ (x \in DOMAIN rest /\ out[x] = rest[x])
      /\ \A x \in new : x \in DOMAIN out /\ out[x] = M!Entry(w, x)
      /\ \A x \in DOMAIN rest : x \notin DOMAIN out => \E y \in new : M!IsStrictPrefix(x, y) \/ M!IsStrictPrefix(y, x)
      /\ \A x \in DOMAIN rest : x \notin DOMAIN out => M!Nests(x, p)
  BY <1>1, <1>2, <1>5, <1>6, PutOf
<1> HIDE DEF out
<1>8. \A x \in DOMAIN out : \/ x \in DOMAIN idx /\ out[x] = idx[x]
                            \/ /\ AddedBy(w, p, x) /\ out[x] = M!Entry(w, x)
                               /\ x \in w.ignored => x = p \/ x \in DOMAIN idx
  BY <1>2, <1>3, <1>5, <1>7
<1>9. ASSUME NEW x \in DOMAIN idx, x \notin DOMAIN out
      PROVE  M!Nests(x, p)
  <2>1. CASE x \in DOMAIN rest
    BY <1>7, <1>9, <2>1
  <2>2. CASE x \notin DOMAIN rest
    BY <1>1, <1>2, <1>4, <2>2, BeginsSelf, StrictlyBegins DEF M!Nests
  <2>3. QED
    BY <2>1, <2>2
<1>10. ASSUME NEW x \in DOMAIN idx, OwnFile(w, x), idx[x] = w.disk[x]
       PROVE  x \in DOMAIN out /\ out[x] = w.disk[x]
  <2>1. /\ x \in DOMAIN w.disk /\ ~M!RealDirectory(w, x) /\ x # p /\ x \notin w.repos
        /\ M!Entry(w, x) = w.disk[x] /\ \A q \in M!Parents(x) : q \notin w.repos
    BY <1>10, WorldOK DEF OwnFile, M!Entry
  <2>2. CASE M!IsStrictPrefix(p, x)
    <3>1. x \in new
      BY <1>3, <2>1, <2>2 DEF M!Under
    <3>2. QED
      BY <1>7, <2>1, <3>1
  <2>3. CASE ~M!IsStrictPrefix(p, x)
    <3>1. x \in DOMAIN rest /\ rest[x] = w.disk[x]
      BY <1>2, <1>10, <2>1, <2>3
    <3>2. ASSUME NEW y \in new
          PROVE  ~M!IsStrictPrefix(x, y) /\ ~M!IsStrictPrefix(y, x)
      <4>1. ~M!IsStrictPrefix(x, y)
        BY <1>3, <1>4, <2>1, WorldOK
      <4>2. ~M!IsStrictPrefix(y, x)
        BY <1>1, <1>4, <1>5, <2>3, BeginsOn, StrictlyBegins
      <4>3. QED
        BY <4>1, <4>2
    <3>3. x \in DOMAIN out
      BY <1>7, <3>1, <3>2
    <3>4. x \notin new
      BY <1>3, <2>3
    <3>5. QED
      BY <1>7, <3>1, <3>3, <3>4
  <2>4. QED
    BY <2>2, <2>3
<1>11. TakenIn(w, p, idx, out)
  <2>1. ~OwnFile(w, p)
    BY DEF OwnFile
  <2>2. QED
    BY <1>1, <1>8, <1>9, <1>10, <2>1 DEF TakenIn
<1>12. QED
  BY <1>7, <1>11 DEF out, rest, new

(* Whatever a whole path is: gone, a file, a directory, a repository.        *)
LEMMA StageWholeOf ==
  ASSUME NEW Name, NEW w, IsWorld(w, Name), NEW idx, IsIndex(idx, Name), NEW p \in Seq(Name)
  PROVE  IsIndex(M!StageWhole(w, p, idx), Name) /\ TakenIn(w, p, idx, M!StageWhole(w, p, idx))
<1>1. CASE p \notin DOMAIN w.disk
  <2> DEFINE out == M!Drop(idx, {p})
  <2>1. M!StageWhole(w, p, idx) = out
    BY <1>1 DEF M!StageWhole
  <2>2. IsIndex(out, Name) /\ DOMAIN out = DOMAIN idx \ {p} /\ \A x \in DOMAIN idx : x # p => out[x] = idx[x]
    <3>1. IsIndex(out, Name)
      BY DropOf
    <3>2. QED
      BY <3>1 DEF M!Drop
  <2> HIDE DEF out
  <2>3. TakenIn(w, p, idx, out)
    <3>1. \A x : OwnFile(w, x) => x # p
      BY <1>1 DEF OwnFile
    <3>2. M!Nests(p, p)
      BY BeginsSelf
    <3>3. QED
      BY <1>1, <2>2, <3>1, <3>2 DEF TakenIn
  <2>4. QED
    BY <2>1, <2>2, <2>3
<1>2. CASE p \in DOMAIN w.disk /\ ~M!RealDirectory(w, p)
  <2>1. M!StageWhole(w, p, idx) = M!Put(w, idx, {p})
    BY <1>2 DEF M!StageWhole, M!AddFile
  <2>2. QED
    BY <1>2, <2>1, PutAlone
<1>3. CASE M!RealDirectory(w, p)
  <2>1. p \in DOMAIN w.disk
    BY <1>3, WorldOK
  <2>2. M!StageWhole(w, p, idx) = M!AddDirectory(w, idx, p)
    BY <1>3, <2>1 DEF M!StageWhole, M!AddFile
  <2>3. CASE p \in w.repos /\ M!Under(DOMAIN idx, p) = {}
    BY <2>1, <2>2, <2>3, PutAlone DEF M!AddDirectory
  <2>4. CASE ~(p \in w.repos /\ M!Under(DOMAIN idx, p) = {}) /\ M!Has(idx, p, "commit")
    <3>1. M!StageWhole(w, p, idx) = idx
      BY <2>2, <2>4 DEF M!AddDirectory
    <3>2. TakenIn(w, p, idx, idx)
      BY <1>3, <2>1 DEF TakenIn, OwnFile
    <3>3. QED
      BY <3>1, <3>2
  <2>5. CASE ~(p \in w.repos /\ M!Under(DOMAIN idx, p) = {}) /\ ~M!Has(idx, p, "commit")
    BY <1>3, <2>2, <2>5, PutBelow DEF M!AddDirectory
  <2>6. QED
    BY <2>3, <2>4, <2>5
<1>4. QED
  BY <1>1, <1>2, <1>3

(* The stagings of stageAll, of the hunks and then of the whole paths.       *)
HunkStaging(f, w, a, S) ==
    f = [s \in SUBSET S |-> IF s = {} THEN a ELSE M!StageHunks(w, f[s \ {One(s)}], One(s))]
WholeStaging(f, w, a, S) ==
    f = [s \in SUBSET S |-> IF s = {} THEN a ELSE M!StageWhole(w, One(s), f[s \ {One(s)}])]

(* stageAll is such a staging of the whole paths on one of the hunks.        *)
LEMMA StageAllIs ==
  ASSUME NEW w, NEW r
  PROVE  M!StageAll(w, r) =
            (CHOOSE f : WholeStaging(f, w, (CHOOSE g : HunkStaging(g, w, M!Drop(w.base, r.untrack), r.hunks))[r.hunks],
                                     r.whole))[r.whole]
  BY Zenon DEF M!StageAll, M!FoldSet, M!MapThenFoldSet, HunkStaging, WholeStaging, One

(* There are such stagings, of finite sets of paths.                         *)
LEMMA StagingsExist ==
  ASSUME NEW S, IsFiniteSet(S), NEW w, NEW a
  PROVE  (\E f : HunkStaging(f, w, a, S)) /\ (\E f : WholeStaging(f, w, a, S))
<1>1. PICK f : Staging(f, FALSE, w, a, S)
  BY StagingExists
<1>2. PICK g : Staging(g, TRUE, w, a, S)
  BY StagingExists
<1>3. HunkStaging(f, w, a, S)
  BY <1>1 DEF Staging, HunkStaging, Stage
<1>4. WholeStaging(g, w, a, S)
  BY <1>2 DEF Staging, WholeStaging, Stage
<1>5. QED
  BY <1>3, <1>4

(* A set of paths is staged by staging one after the rest.                   *)
LEMMA LastHunk ==
  ASSUME NEW S, NEW w, NEW a, NEW f, HunkStaging(f, w, a, S)
  PROVE  /\ f[{}] = a
         /\ \A s \in SUBSET S : s # {} => One(s) \in s /\ f[s] = M!StageHunks(w, f[s \ {One(s)}], One(s))
  BY DEF HunkStaging, One

(* So is a set of whole paths.                                               *)
LEMMA LastWhole ==
  ASSUME NEW S, NEW w, NEW a, NEW f, WholeStaging(f, w, a, S)
  PROVE  /\ f[{}] = a
         /\ \A s \in SUBSET S : s # {} => One(s) \in s /\ f[s] = M!StageWhole(w, One(s), f[s \ {One(s)}])
  BY DEF WholeStaging, One

(* What the hunks of some paths make of an index.                            *)
Parts(w, a, s) ==
    [p \in {q \in DOMAIN a : q \in s => M!Has(w.disk, q, "file")} |-> IF p \in s THEN <<"part", w.disk[p][2]>> ELSE a[p]]

(* The hunks of one more path.                                               *)
LEMMA StageHunksOf ==
  ASSUME NEW w, NEW a, NEW s, NEW p \in s
  PROVE  M!StageHunks(w, Parts(w, a, s \ {p}), p) = Parts(w, a, s)
<1> DEFINE idx == Parts(w, a, s \ {p})
           out == M!StageHunks(w, idx, p)
<1>1. CASE M!Has(w.disk, p, "file")
  <2>1. out = [idx EXCEPT ![p] = <<"part", w.disk[p][2]>>]
    BY <1>1 DEF M!StageHunks
  <2>2. idx = [q \in DOMAIN idx |-> idx[q]] /\ DOMAIN idx = {q \in DOMAIN a : q \in s \ {p} => M!Has(w.disk, q, "file")}
    BY DEF Parts
  <2>3. DOMAIN idx = {q \in DOMAIN a : q \in s => M!Has(w.disk, q, "file")}
    BY <1>1, <2>2
  <2>4. \A q \in DOMAIN idx : idx[q] = IF q \in s \ {p} THEN <<"part", w.disk[q][2]>> ELSE a[q]
    BY DEF Parts
  <2> HIDE DEF idx
  <2>5. out = [q \in DOMAIN idx |-> IF q \in s THEN <<"part", w.disk[q][2]>> ELSE a[q]]
    BY <2>1, <2>2, <2>4
  <2>6. QED
    BY <2>3, <2>5 DEF Parts, idx, out
<1>2. CASE ~M!Has(w.disk, p, "file")
  <2>1. out = [q \in DOMAIN idx \ {p} |-> idx[q]]
    BY <1>2 DEF M!StageHunks, M!Drop
  <2>2. DOMAIN idx = {q \in DOMAIN a : q \in s \ {p} => M!Has(w.disk, q, "file")}
    BY DEF Parts
  <2>3. DOMAIN idx \ {p} = {q \in DOMAIN a : q \in s => M!Has(w.disk, q, "file")}
    BY <1>2, <2>2
  <2>4. \A q \in DOMAIN idx \ {p} : idx[q] = IF q \in s THEN <<"part", w.disk[q][2]>> ELSE a[q]
    BY DEF Parts
  <2> HIDE DEF idx
  <2>5. out = [q \in DOMAIN idx \ {p} |-> IF q \in s THEN <<"part", w.disk[q][2]>> ELSE a[q]]
    BY <2>1, <2>4
  <2>6. QED
    BY <2>3, <2>5 DEF Parts, idx, out
<1>3. QED
  BY <1>1, <1>2

(* What staging hunks comes to, whatever the order.                          *)
LEMMA HunksOf ==
  ASSUME NEW S, IsFiniteSet(S), NEW w, NEW a, a = [p \in DOMAIN a |-> a[p]], NEW f, HunkStaging(f, w, a, S)
  PROVE  \A s \in SUBSET S : f[s] = Parts(w, a, s)
<1> DEFINE bad == {s \in SUBSET S : f[s] # Parts(w, a, s)}
<1>0. /\ f[{}] = a
      /\ \A s \in SUBSET S : s # {} => One(s) \in s /\ f[s] = M!StageHunks(w, f[s \ {One(s)}], One(s))
  BY LastHunk
<1>1. ASSUME bad # {}
      PROVE  FALSE
  <2>1. PICK s \in bad : \A x \in s : s \ {x} \notin bad
    <3>1. bad \in SUBSET SUBSET S
      OBVIOUS
    <3> HIDE DEF bad
    <3>2. QED
      BY <1>1, <3>1, LeastSubset
  <2>2. CASE s = {}
    <3>1. Parts(w, a, {}) = [p \in DOMAIN a |-> a[p]]
      BY DEF Parts
    <3>2. QED
      BY <2>1, <1>0, <2>2, <3>1
  <2>3. CASE s # {}
    <3>1. s \in SUBSET S /\ One(s) \in s /\ f[s] = M!StageHunks(w, f[s \ {One(s)}], One(s))
      BY <1>0, <2>1, <2>3
    <3>2. f[s \ {One(s)}] = Parts(w, a, s \ {One(s)})
      BY <2>1, <3>1
    <3>3. f[s] = Parts(w, a, s)
      BY <3>1, <3>2, StageHunksOf
    <3>4. QED
      BY <2>1, <3>3
  <2>4. QED
    BY <2>2, <2>3
<1>2. QED
  BY <1>1

(* What is staged of whole paths, a set of them on an index.                 *)
AllTakenIn(w, a, s, idx) ==
    /\ \A x \in DOMAIN idx : \/ x \in DOMAIN a /\ idx[x] = a[x]
                             \/ /\ idx[x] = M!Entry(w, x) /\ \E q \in s : AddedBy(w, q, x)
                                /\ x \in w.ignored => x \in s \cup DOMAIN a
    /\ \A x \in DOMAIN a : x \notin DOMAIN idx => \E q \in s : M!Nests(x, q)
    /\ \A q \in s : q \notin DOMAIN w.disk => q \notin DOMAIN idx
    /\ \A q \in s : OwnFile(w, q) => q \in DOMAIN idx /\ idx[q] = w.disk[q]

(* One more path.                                                            *)
LEMMA StagedAsStep ==
  ASSUME NEW w, NEW a, NEW s, NEW p \in s, NEW idx, AllTakenIn(w, a, s \ {p}, idx), NEW out, TakenIn(w, p, idx, out)
  PROVE  AllTakenIn(w, a, s, out)
<1>1. ASSUME NEW x \in DOMAIN out
      PROVE  \/ x \in DOMAIN a /\ out[x] = a[x]
             \/ /\ out[x] = M!Entry(w, x) /\ \E q \in s : AddedBy(w, q, x)
                /\ x \in w.ignored => x \in s \cup DOMAIN a
  <2>1. ASSUME x \in DOMAIN idx
        PROVE  \/ x \in DOMAIN a /\ idx[x] = a[x]
               \/ /\ idx[x] = M!Entry(w, x) /\ \E q \in s \ {p} : AddedBy(w, q, x)
                  /\ x \in w.ignored => x \in s \cup DOMAIN a
    BY <2>1 DEF AllTakenIn
  <2>2. CASE x \in DOMAIN idx /\ out[x] = idx[x]
    BY <2>1, <2>2
  <2>3. CASE /\ AddedBy(w, p, x) /\ out[x] = M!Entry(w, x)
             /\ x \in w.ignored => x = p \/ x \in DOMAIN idx
    BY <2>1, <2>3
  <2>4. QED
    BY <2>2, <2>3 DEF TakenIn
<1>2. ASSUME NEW x \in DOMAIN a, x \notin DOMAIN out
      PROVE  \E q \in s : M!Nests(x, q)
  BY <1>2 DEF AllTakenIn, TakenIn
<1>3. ASSUME NEW q \in s, q \notin DOMAIN w.disk
      PROVE  q \notin DOMAIN out
  BY <1>3 DEF AllTakenIn, TakenIn, AddedBy
<1>4. ASSUME NEW q \in s, OwnFile(w, q)
      PROVE  q \in DOMAIN out /\ out[q] = w.disk[q]
  BY <1>4 DEF AllTakenIn, TakenIn
<1>5. QED
  BY <1>1, <1>2, <1>3, <1>4 DEF AllTakenIn

(* What staging whole paths comes to, whatever the order.                    *)
LEMMA WholeOf ==
  ASSUME NEW Name, NEW w, IsWorld(w, Name), NEW S \in SUBSET Seq(Name), IsFiniteSet(S), NEW a, IsIndex(a, Name),
         NEW f, WholeStaging(f, w, a, S)
  PROVE  IsIndex(f[S], Name) /\ AllTakenIn(w, a, S, f[S])
<1> DEFINE bad == {s \in SUBSET S : ~(IsIndex(f[s], Name) /\ AllTakenIn(w, a, s, f[s]))}
<1>0. /\ f[{}] = a
      /\ \A s \in SUBSET S : s # {} => One(s) \in s /\ f[s] = M!StageWhole(w, One(s), f[s \ {One(s)}])
  BY LastWhole
<1>1. ASSUME bad # {}
      PROVE  FALSE
  <2>1. PICK s \in bad : \A x \in s : s \ {x} \notin bad
    <3>1. bad \in SUBSET SUBSET S
      OBVIOUS
    <3> HIDE DEF bad
    <3>2. QED
      BY <1>1, <3>1, LeastSubset
  <2>2. CASE s = {}
    <3>1. f[s] = a
      BY <1>0, <2>2
    <3>2. AllTakenIn(w, a, {}, a)
      BY DEF AllTakenIn
    <3>3. QED
      BY <2>1, <2>2, <3>1, <3>2
  <2>3. CASE s # {}
    <3>1. s \in SUBSET S /\ One(s) \in s /\ f[s] = M!StageWhole(w, One(s), f[s \ {One(s)}])
      BY <1>0, <2>1, <2>3
    <3>2. IsIndex(f[s \ {One(s)}], Name) /\ AllTakenIn(w, a, s \ {One(s)}, f[s \ {One(s)}])
      BY <2>1, <3>1
    <3>3. IsIndex(f[s], Name) /\ TakenIn(w, One(s), f[s \ {One(s)}], f[s])
      BY <3>1, <3>2, StageWholeOf
    <3>4. AllTakenIn(w, a, s, f[s])
      BY <3>1, <3>2, <3>3, StagedAsStep
    <3>5. QED
      BY <2>1, <3>3, <3>4
  <2>4. QED
    BY <2>2, <2>3
<1>2. QED
  BY <1>1

(* What stageAll makes of the base.                                          *)
LEMMA StageAllOf ==
  ASSUME NEW Name, NEW w, IsWorld(w, Name), NEW r, IsFiniteSet(r.hunks), IsFiniteSet(r.whole), r.whole \subseteq Seq(Name)
  PROVE  LET a == Parts(w, M!Drop(w.base, r.untrack), r.hunks)
         IN  IsIndex(M!StageAll(w, r), Name) /\ AllTakenIn(w, a, r.whole, M!StageAll(w, r))
<1> DEFINE b == M!Drop(w.base, r.untrack)
           g == CHOOSE h : HunkStaging(h, w, b, r.hunks)
           a == Parts(w, b, r.hunks)
           f == CHOOSE h : WholeStaging(h, w, g[r.hunks], r.whole)
<1>1. HunkStaging(g, w, b, r.hunks)
  BY StagingsExist
<1>2. b = [p \in DOMAIN b |-> b[p]]
  BY DEF M!Drop
<1>3. IsIndex(b, Name)
  BY DropOf DEF IsWorld
<1> HIDE DEF b
<1>4. IsIndex(a, Name)
  BY <1>3 DEF IsIndex, IsTree, Parts
<1> HIDE DEF g
<1>5. g[r.hunks] = a
  BY <1>1, <1>2, HunksOf
<1>6. WholeStaging(f, w, g[r.hunks], r.whole)
  BY StagingsExist
<1>7. M!StageAll(w, r) = f[r.whole]
  BY StageAllIs DEF b, g
<1> HIDE DEF f, a
<1>8. IsIndex(f[r.whole], Name) /\ AllTakenIn(w, a, r.whole, f[r.whole])
  BY <1>4, <1>5, <1>6, WholeOf
<1>9. QED
  BY <1>7, <1>8 DEF a, b

(* A path that is to be recorded whole is in the base or on disk.            *)
LEMMA WholeIsThere ==
  ASSUME NEW w, NEW q, NEW before, M!Admissible(w, M!Argument(w, q, FALSE), before),
         NEW p \in M!Argument(w, q, FALSE).members
  PROVE  p \in DOMAIN w.base \cup DOMAIN w.disk
<1> DEFINE a == M!Argument(w, q, FALSE)
<1>1. (a.isDir => a.self) => M!ValidNamedPath(w, a.path, a.hunks)
  BY DEF M!Admissible
<1>2. CASE ~M!NamesADirectory(w, q, FALSE)
  <2>1. ~a.isDir /\ a.path = q /\ a.members = {q}
    BY <1>2 DEF M!Argument
  <2> HIDE DEF a
  <2>2. M!ValidNamedPath(w, q, a.hunks)
    BY <1>1, <2>1
  <2>3. M!OnDisk(w, q) \/ M!IsTracked(w, q)
    BY <2>2 DEF M!ValidNamedPath
  <2>4. q # M!Root /\ (M!RealDirectory(w, q) \/ M!Under(DOMAIN w.base, q) = {} \/ q \in DOMAIN w.base)
    BY <1>2 DEF M!NamesADirectory
  <2>5. M!RealDirectory(w, q) => q \in DOMAIN w.disk
    BY DEF M!RealDirectory, M!Has
  <2>6. q \in DOMAIN w.base \cup DOMAIN w.disk
    BY <2>3, <2>4, <2>5 DEF M!OnDisk, M!IsTracked
  <2>7. QED
    BY <2>1, <2>6 DEF a
<1>3. CASE M!NamesADirectory(w, q, FALSE)
  <2>1. a.members = M!ExpandDirectory(w, q)
    BY <1>3 DEF M!Argument
  <2>2. QED
    BY <2>1 DEF M!ExpandDirectory, M!NotGitlinks, M!Walked, M!Self, M!Under
<1>4. QED
  BY <1>2, <1>3

(* So is all of what an accepted list is resolved to.                        *)
LEMMA ResolvedIsThere ==
  ASSUME NEW w, NEW args, NEW untrack, NEW allow, \A i \in DOMAIN args : args[i].hunks \in BOOLEAN,
         M!Resolved(w, args, untrack, allow).ok
  PROVE  M!Resolved(w, args, untrack, allow).whole \subseteq DOMAIN w.base \cup DOMAIN w.disk
<1> DEFINE gone == {M!Canonical(w, a) : a \in untrack}
           dropped == UNION {M!UntrackTargets(w, p) : p \in gone}
           q(i) == M!Canonical(w, args[i])
           given == [i \in DOMAIN args |-> M!Argument(w, q(i), args[i].hunks)]
           r == M!ResolvedTo(w, given, gone, dropped, allow)
<1>1. M!Resolved(w, args, untrack, allow) = r
  BY DEF M!Resolved
<1>2. DOMAIN given = DOMAIN args /\ \A i \in DOMAIN args : given[i] = M!Argument(w, q(i), args[i].hunks)
  OBVIOUS
<1>3. \A i \in DOMAIN args : given[i].path = q(i) /\ given[i].hunks = args[i].hunks
  BY DEF M!Argument
<1>4. r.ok
  BY <1>1
<1> HIDE DEF given, gone, dropped, q
<1>5. /\ \A i \in DOMAIN given : M!Admissible(w, given[i], {given[j] : j \in 1..(i - 1)})
      /\ \A p \in r.whole : \E i \in DOMAIN given : p \in given[i].members
  BY <1>4, ResolvedOK
<1>6. r.whole = M!Members(given) \ (M!InHunks(given) \cup dropped)
  BY Zenon DEF M!ResolvedTo
<1> HIDE DEF r
<1>7. ASSUME NEW p \in r.whole
      PROVE  p \in DOMAIN w.base \cup DOMAIN w.disk
  <2>1. PICK i \in DOMAIN args : p \in given[i].members
    BY <1>2, <1>5, <1>7
  <2>2. CASE args[i].hunks
    <3>1. ~M!NamesADirectory(w, q(i), args[i].hunks)
      BY <2>2 DEF M!NamesADirectory
    <3>2. p = q(i)
      BY <1>2, <2>1, <3>1 DEF M!Argument
    <3>3. given[i].hunks /\ given[i].path = p
      BY <1>3, <2>2, <3>2
    <3>4. p \in M!InHunks(given)
      BY <1>2, <3>3 DEF M!InHunks, M!ToSet
    <3>5. QED
      BY <1>6, <3>4
  <2>3. CASE ~args[i].hunks
    <3>1. given[i] = M!Argument(w, q(i), FALSE)
      BY <1>2, <2>3
    <3>2. M!Admissible(w, M!Argument(w, q(i), FALSE), {given[j] : j \in 1..(i - 1)})
      BY <1>2, <1>5, <3>1
    <3>3. p \in M!Argument(w, q(i), FALSE).members
      BY <2>1, <3>1
    <3>4. QED
      BY <3>2, <3>3, WholeIsThere
  <2>4. QED
    BY <2>2, <2>3
<1>8. QED
  BY <1>1, <1>7

(* A commit that is made has the base's tree but for what was named to it:   *)
(* an entry of its tree is the base's, the hunks picked of it, or the disk's *)
(* at or below a path named whole, which git add has not taken from another  *)
(* repository or against the ignore rules; an entry of the base is missing   *)
(* only where it was untracked, deleted, or stood in the way of such a path; *)
(* and a path named whole is as on disk, or gone when it is not there        *)
(* (resolveFiles, stageAll).                                                 *)
THEOREM CommitsWhatIsNamed ==
  ASSUME NEW Name, NEW w, IsWorld(w, Name), IsFiniteSet(DOMAIN w.base), IsFiniteSet(DOMAIN w.disk),
         NEW args \in Arguments(Name), NEW untrack, NEW allow \in BOOLEAN,
         M!Commit(w, args, untrack, allow).ok
  PROVE  LET r == M!Resolved(w, args, untrack, allow)
             T == M!Commit(w, args, untrack, allow).tree
             part(p) == <<"part", w.disk[p][2]>>
         IN  /\ IsIndex(T, Name)
             /\ \A p \in DOMAIN T :
                   \/ p \in DOMAIN w.base /\ p \notin r.untrack \cup r.hunks /\ T[p] = w.base[p]
                   \/ p \in r.hunks /\ M!Has(w.disk, p, "file") /\ T[p] = part(p)
                   \/ /\ T[p] = M!Entry(w, p) /\ \E q \in r.whole : AddedBy(w, q, p)
                      /\ p \in w.ignored => p \in DOMAIN w.base
             /\ \A p \in DOMAIN w.base : p \notin DOMAIN T =>
                   \/ p \in r.untrack
                   \/ p \in r.hunks /\ ~M!Has(w.disk, p, "file")
                   \/ \E q \in r.whole : M!Nests(p, q)
             /\ \A q \in r.whole : q \notin DOMAIN w.disk => q \notin DOMAIN T
             /\ \A q \in r.whole : OwnFile(w, q) => q \in DOMAIN T /\ T[q] = w.disk[q]
             /\ \A p \in r.hunks : M!Has(w.disk, p, "file") /\ (\A q \in r.whole : ~M!Nests(p, q)) =>
                   p \in DOMAIN T /\ T[p] = part(p)
<1> DEFINE r == M!Resolved(w, args, untrack, allow)
           T == M!StageAll(w, r)
           b == M!Drop(w.base, r.untrack)
           a == Parts(w, b, r.hunks)
<1>1. r.ok /\ M!Stageable(w, r) /\ M!Commit(w, args, untrack, allow).tree = T
  <2> DEFINE ok == r.ok /\ M!Stageable(w, r) /\ \A src \in r.sources : M!Contributed(src, M!Changed(w, T))
  <2>1. M!Commit(w, args, untrack, allow) = M!Committed(w, r, T)
    BY Zenon DEF M!Commit, M!CommitResolved
  <2> HIDE DEF T, r
  <2>2. M!Committed(w, r, T).ok <=> ok
    BY Zenon DEF M!Committed
  <2>3. M!Committed(w, r, T).tree = IF ok THEN T ELSE w.base
    BY Zenon DEF M!Committed
  <2> HIDE DEF ok
  <2>4. ok /\ M!Commit(w, args, untrack, allow).tree = T
    BY <2>1, <2>2, <2>3
  <2>5. QED
    BY <2>4 DEF ok
<1>2. /\ \A p \in r.hunks : p \in DOMAIN w.base /\ p \notin r.untrack
      /\ \A p \in r.whole : p \in DOMAIN w.disk /\ p \in w.ignored => p \in DOMAIN w.base
  <2>1. \A p \in r.hunks : p \notin r.untrack
    BY <1>1, NamedIsOurs DEF IsWorld
  <2> HIDE DEF r
  <2>2. QED
    BY <1>1, <2>1 DEF M!Stageable, M!HasHunks, M!Has
<1>3. r.whole \subseteq DOMAIN w.base \cup DOMAIN w.disk
  <2>1. \A i \in DOMAIN args : args[i] \in [path : Seq(Name), slash : BOOLEAN, hunks : BOOLEAN]
    BY Zenon, MemberOf DEF Arguments
  <2>2. QED
    BY <1>1, <2>1, ResolvedIsThere
<1> HIDE DEF r
<1>4. IsFiniteSet(r.hunks) /\ IsFiniteSet(r.whole) /\ r.whole \subseteq Seq(Name)
  <2>1. IsFiniteSet(DOMAIN w.base \cup DOMAIN w.disk)
    BY FS_Union
  <2>2. r.hunks \subseteq DOMAIN w.base
    BY <1>2
  <2>3. DOMAIN w.base \cup DOMAIN w.disk \subseteq Seq(Name)
    BY DEF IsWorld, IsWorkingTree, IsIndex, IsTree
  <2>4. QED
    BY <1>3, <2>1, <2>2, <2>3, FS_Subset
<1>5. IsIndex(T, Name) /\ AllTakenIn(w, a, r.whole, T)
  BY <1>4, StageAllOf
<1> HIDE DEF T
<1>6. /\ \A p : p \in DOMAIN a <=> p \in DOMAIN w.base /\ p \notin r.untrack /\ (p \in r.hunks => M!Has(w.disk, p, "file"))
      /\ \A p \in DOMAIN a : p \in r.hunks => a[p] = <<"part", w.disk[p][2]>>
      /\ \A p \in DOMAIN a : p \notin r.hunks => a[p] = w.base[p]
  BY DEF Parts, M!Drop
<1> HIDE DEF a
<1>7. ASSUME NEW p \in DOMAIN T
      PROVE  \/ p \in DOMAIN w.base /\ p \notin r.untrack \cup r.hunks /\ T[p] = w.base[p]
             \/ p \in r.hunks /\ M!Has(w.disk, p, "file") /\ T[p] = <<"part", w.disk[p][2]>>
             \/ /\ T[p] = M!Entry(w, p) /\ \E q \in r.whole : AddedBy(w, q, p)
                /\ p \in w.ignored => p \in DOMAIN w.base
  <2>1. CASE p \in DOMAIN a /\ T[p] = a[p]
    BY <1>6, <2>1
  <2>2. CASE /\ T[p] = M!Entry(w, p) /\ \E q \in r.whole : AddedBy(w, q, p)
             /\ p \in w.ignored => p \in r.whole \cup DOMAIN a
    BY <1>2, <1>6, <2>2 DEF AddedBy
  <2>3. QED
    BY <1>5, <2>1, <2>2 DEF AllTakenIn
<1>8. ASSUME NEW p \in DOMAIN w.base, p \notin DOMAIN T
      PROVE  \/ p \in r.untrack
             \/ p \in r.hunks /\ ~M!Has(w.disk, p, "file")
             \/ \E q \in r.whole : M!Nests(p, q)
  BY <1>5, <1>6, <1>8 DEF AllTakenIn
<1>9. ASSUME NEW p \in r.hunks, M!Has(w.disk, p, "file"), \A q \in r.whole : ~M!Nests(p, q)
      PROVE  p \in DOMAIN T /\ T[p] = <<"part", w.disk[p][2]>>
  <2>1. p \in DOMAIN a /\ a[p] = <<"part", w.disk[p][2]>>
    BY <1>2, <1>6, <1>9
  <2>2. p \in DOMAIN T
    BY <1>5, <1>9, <2>1 DEF AllTakenIn
  <2>3. \A q \in r.whole : ~AddedBy(w, q, p)
    BY <1>9 DEF AddedBy, M!Nests
  <2>4. T[p] = a[p]
    BY <1>5, <2>2, <2>3 DEF AllTakenIn
  <2>5. QED
    BY <2>1, <2>2, <2>4
<1>10. /\ \A q \in r.whole : q \notin DOMAIN w.disk => q \notin DOMAIN T
       /\ \A q \in r.whole : OwnFile(w, q) => q \in DOMAIN T /\ T[q] = w.disk[q]
  BY <1>5 DEF AllTakenIn
<1>11. QED
  BY <1>1, <1>5, <1>7, <1>8, <1>9, <1>10 DEF r
=============================================================================

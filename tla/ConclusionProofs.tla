-------------------------- MODULE ConclusionProofs ---------------------------
(* Proofs about Conclusion: an operation is concluded by one commit and not  *)
(* swallowed, an edit is not overwritten unelected, the work set aside is    *)
(* kept and put back once, and a report is true -- for any number of         *)
(* operations, sources and commits, whatever is killed and run again.  And   *)
(* about Resolution: what a conclusion takes for resolved, of any files.     *)
EXTENDS Conclusion, FiniteSetTheorems, WellFoundedInduction, TLAPS

V == INSTANCE Resolution

---------------------------------------------------------------------------
(* The inductive invariant.  Numbers are given out once: no commit, tree or  *)
(* state file names an operation that has not begun.                         *)
Numbered ==
    /\ \A c \in DOMAIN commits : commits[c].by \in 1..ops /\ commits[c].tree \subseteq 1..ops
    /\ index.holds \subseteq 1..ops /\ me.tree \subseteq 1..ops
    /\ InFlight => parked.by \in 1..ops
    /\ aside \subseteq 1..ops

(* What a command knows at each of its steps: its operation is the one in    *)
(* flight up to the moment the state files go; an edit it has seen is one    *)
(* that it may overwrite only by election.                                   *)
InHand ==
    /\ pc = "idle" => me = NoRun
    /\ pc # "idle" => me.by \in 1..ops /\ me.kind \in Kinds /\ me.of \in Sources
    /\ pc \in {"mark", "unpark", "forward", "sync", "record"} => me.door = "start" /\ ~me.stood
    /\ pc \in {"attempt", "land", "log"} => ~me.stood
    /\ me.door = "start" => ~me.gives /\ ~me.stood
    /\ pc = "mark" => me.kind = "cherry-pick"
    /\ pc \in {"apply", "drop"} => me.kind = "merge" /\ me.stash # None
    /\ pc \in {"attempt", "land", "log", "clear", "unpark"} => parked = Flight(me.kind, me.of, me.by)
    /\ pc \in {"mark", "forward", "sync", "record", "settle", "write", "apply", "drop"} => parked = None
    /\ pc \in {"mark", "forward", "attempt", "land", "unpark"} => me.made = 0 /\ ~me.left
Seen == me.seen => me.door = "continue" /\ (me.stood \/ me.choice = "side" => me.discard)

(* What a fresh operation gives is nowhere yet.                              *)
NotYet ==
    /\ me.door = "start" /\ pc \in {"mark", "attempt", "land", "unpark"} =>
          \A c \in DOMAIN commits : commits[c].by # me.by /\ me.by \notin commits[c].tree
    /\ pc = "unpark" => me.by \notin index.holds

(* The log's entries name the kind of the commit they name with a source.    *)
EntryTrue == entry.source # None => entry.sha \in DOMAIN commits /\ commits[entry.sha].kind = entry.op

(* What looks like the conclusion of what is in flight is it, or a twin's.   *)
Recognised ==
    /\ InFlight /\ parked.kind = "merge" /\ tip # 0 /\ commits[tip].kind = "merge" /\ commits[tip].of = parked.of
         => commits[tip].by = parked.by
    /\ InFlight /\ parked.kind # "merge" /\ entry = [op |-> parked.kind, sha |-> tip, source |-> parked.of]
         => parked.by \in twins \/ tip \in Conclusions(parked.by)
    /\ pc = "mark" /\ entry = [op |-> me.kind, sha |-> tip, source |-> me.of] => me.by \in twins

(* The commit a command has made or found.                                   *)
Made ==
    /\ pc = "log" => me.made = tip /\ tip \in Conclusions(me.by)
    /\ pc \in {"sync", "record"} => me.made = tip /\ tip # 0
    /\ pc \in {"log", "clear", "settle", "write", "apply", "drop", "sync", "record", "exit"} /\ me.made # 0 =>
          /\ me.made \in DOMAIN commits
          /\ commits[me.made].by = me.by \/ me.by \in twins
          /\ commits[me.made].kind = me.kind \/ commits[me.made].kind = "forward"
    /\ pc \in {"log", "clear", "settle", "write", "apply", "drop"} =>
          me.made # 0 /\ (me.made \in Conclusions(me.by) \/ me.by \in twins)

(* An operation that was concluded and is still in flight is recognised.     *)
Known(n) == n \in disturbed \cup unlogged
Once ==
    /\ \A n \in Ops : Conclusions(n) = {} \/ Known(n) \/ \E c \in DOMAIN commits : Conclusions(n) = {c}
    /\ pc \in {"mark", "attempt", "land", "unpark", "forward"} => Conclusions(me.by) = {} \/ Known(me.by)
    /\ pc = "exit" /\ me.made = 0 => Conclusions(me.by) = {} \/ Known(me.by)
    /\ InFlight /\ Conclusions(parked.by) # {} =>
          \/ Known(parked.by) \/ pc = "log"
          \/ /\ tip \in Conclusions(parked.by)
             /\ commits[tip].kind = parked.kind /\ commits[tip].of = parked.of
             /\ entry = [op |-> parked.kind, sha |-> tip, source |-> parked.of]
    /\ pc = "log" => commits[tip].kind = parked.kind /\ commits[tip].of = parked.of

Inv == TypeOK /\ Numbered /\ InHand /\ Seen /\ NotYet /\ EntryTrue /\ Recognised /\ Made /\ Once

---------------------------------------------------------------------------
(* What the report of the index rests on.  While nobody else moves the       *)
(* branch, the index, the tip and what the command makes differ by what the  *)
(* operation gives, and by nothing else.                                     *)
Same(n, S, T) == S \ {n} = T \ {n}
Untouched(n) == n \notin disturbed

Agree ==
    /\ InFlight /\ Untouched(parked.by) =>
          /\ Same(parked.by, index.holds, Tree(tip))
          /\ ~index.unmerged /\ parked.by \notin index.holds =>
                \A c \in DOMAIN commits : parked.by \notin commits[c].tree
          /\ \A c \in Conclusions(parked.by) : Same(parked.by, commits[c].tree, Tree(commits[c].parent))
    /\ pc = "mark" /\ Untouched(me.by) =>
          /\ Same(me.by, index.holds, Tree(tip))
          /\ ~index.unmerged /\ me.by \notin index.holds =>
                \A c \in DOMAIN commits : me.by \notin commits[c].tree

Attempted ==
    /\ pc = "land" /\ Untouched(me.by) =>
          /\ me.parent = tip /\ Same(me.by, me.tree, Tree(tip))
          /\ index.holds \subseteq me.tree /\ (me.by \in me.tree => index.unmerged \/ me.by \in index.holds)
    /\ pc = "log" => commits[tip].parent = me.parent

Concluding ==
    /\ pc \in {"log", "clear", "settle"} /\ Untouched(me.by) /\ (pc = "log" \/ me.by \notin twins) =>
          /\ me.made = tip
          /\ Same(me.by, index.holds, Tree(tip)) /\ Same(me.by, Tree(me.parent), Tree(tip))
          /\ me.by \in Tree(tip) => index.unmerged \/ me.by \in index.holds
          /\ me.by \in index.holds => me.stood \/ me.by \in Tree(tip)
    /\ pc \in {"write", "apply", "drop"} \/ (pc = "exit" /\ me.made # 0 /\ ~me.left) =>
          me.by \in disturbed \cup twins \/ IndexFollows
    /\ pc = "record" /\ ~me.left => index = [holds |-> Tree(tip), unmerged |-> FALSE] /\ disk = "clean" /\ ~me.stood

(* What the rest of the report rests on.                                     *)
Finishing ==
    /\ pc \notin {"idle", "exit"} => me.stash = autostash
    /\ pc \in {"apply", "drop"} => disk \in {"clean", "edit"}
    /\ pc \in {"sync", "record"} => commits[me.made].kind = "forward"
    /\ pc = "exit" /\ me.made # 0 /\ ~me.left =>
          /\ parked = None /\ disk \in {"clean", "edit"}
          /\ commits[me.made].kind = "merge" => autostash = None

ReportInv == Agree /\ Attempted /\ Concluding /\ Finishing

(* What the work that was set aside rests on.  A pick may repeat what the    *)
(* tip did, a merge does not.                                                *)
Merged ==
    /\ twins \subseteq 1..ops
    /\ InFlight /\ parked.kind = "merge" => parked.by \notin twins
    /\ pc # "idle" /\ me.kind = "merge" => me.by \notin twins

(* Work is put back when its merge is out of flight, which it never is       *)
(* again.                                                                    *)
Spent ==
    \A n \in Ops : restored[n] > 0 =>
        /\ n \in 1..ops
        /\ InFlight => parked.by # n
        /\ pc \in {"mark", "unpark", "forward", "attempt", "land", "log", "clear", "settle", "write", "apply"} =>
              me.by # n

(* The commit of a command stays in the history of the tip, and nothing is   *)
(* concluded after it.                                                       *)
Behind ==
    pc \in {"log", "clear", "settle", "write", "apply"} =>
        /\ me.made \in Line(tip) /\ me.parent = Parent(me.made)
        /\ \A c \in Line(tip) : c > me.made => commits[c].kind \notin Kinds

(* Work is set aside on the tip, before its merge is concluded.              *)
Older == autostash # None => \A c \in Conclusions(autostash.by) : c > autostash.base

PutAway == pc = "drop" => restored[me.stash.by] > 0 \/ me.stash.by \in safe

WorkInv == Merged /\ Spent /\ Behind /\ Older /\ PutAway /\ WorkIsKeptOnce

---------------------------------------------------------------------------
(* Lemmas about the history of commits.                                      *)
LEMMA PlacesOK ==
  ASSUME TypeOK
  PROVE  /\ Len(commits) \in Nat /\ DOMAIN commits = 1..Len(commits) /\ Place = {0} \cup DOMAIN commits
         /\ tip \in Place /\ entry.sha \in Place
         /\ \A c \in DOMAIN commits : /\ commits[c] \in Commit /\ c \in Nat /\ c # 0
                                      /\ commits[c].parent \in Place /\ commits[c].parent < c
<1>1. commits \in Seq(Commit) /\ \A c \in DOMAIN commits : commits[c].parent < c
  BY DEF TypeOK
<1>2. Len(commits) \in Nat /\ DOMAIN commits = 1..Len(commits) /\ \A c \in 1..Len(commits) : commits[c] \in Commit
  BY <1>1
<1>3. \A c \in DOMAIN commits : commits[c].parent \in Nat /\ commits[c].parent < c
  BY <1>1, <1>2 DEF Commit
<1>4. tip \in Place /\ entry.sha \in Place
  BY DEF TypeOK
<1>5. QED
  BY <1>2, <1>3, <1>4 DEF Place

LEMMA Appended ==
  ASSUME TypeOK, NEW c \in Commit, c.parent \in Place, commits' = Append(commits, c)
  PROVE  /\ commits' \in Seq(Commit) /\ Len(commits') = Len(commits) + 1
         /\ DOMAIN commits' = DOMAIN commits \cup {Len(commits')} /\ Len(commits') \notin Place
         /\ Place \subseteq Place' /\ Len(commits') \in Place'
         /\ \A d \in DOMAIN commits : commits'[d] = commits[d]
         /\ commits'[Len(commits')] = c
         /\ \A d \in DOMAIN commits' : commits'[d].parent < d
<1>1. commits \in Seq(Commit) /\ Len(commits) \in Nat /\ \A d \in DOMAIN commits : commits[d].parent < d
  BY DEF TypeOK
<1>2. /\ commits' \in Seq(Commit) /\ Len(commits') = Len(commits) + 1
      /\ \A d \in 1..Len(commits) : commits'[d] = commits[d]
      /\ commits'[Len(commits')] = c
  BY <1>1
<1>3. DOMAIN commits = 1..Len(commits) /\ DOMAIN commits' = 1..(Len(commits) + 1)
  BY <1>1, <1>2
<1>4. c.parent < Len(commits')
  BY <1>1, <1>2 DEF Place
<1>5. \A d \in DOMAIN commits' : commits'[d].parent < d
  BY <1>1, <1>2, <1>3, <1>4
<1>6. QED
  BY <1>1, <1>2, <1>3, <1>5 DEF Place

(* What a new commit adds to the conclusions, and leaves of the trees.       *)
LEMMA AppendedKeeps ==
  ASSUME TypeOK, NEW c \in Commit, c.parent \in Place, commits' = Append(commits, c)
  PROVE  /\ \A n \in Ops : Conclusions(n)' = Conclusions(n) \cup {d \in {Len(commits')} : c.by = n /\ c.kind \in Kinds}
         /\ \A d \in Place : Tree(d)' = Tree(d) /\ Parent(d)' = Parent(d)
         /\ \A d : d = Len(commits') => Tree(d)' = c.tree /\ Parent(d)' = c.parent
<1>1. /\ DOMAIN commits' = DOMAIN commits \cup {Len(commits')} /\ Len(commits') \notin Place
      /\ \A d \in DOMAIN commits : commits'[d] = commits[d]
      /\ commits'[Len(commits')] = c
  BY Appended
<1>2. Place = {0} \cup DOMAIN commits
  BY PlacesOK
<1>3. ASSUME NEW n \in Ops
      PROVE  Conclusions(n)' = Conclusions(n) \cup {d \in {Len(commits')} : c.by = n /\ c.kind \in Kinds}
  BY <1>1, <1>2 DEF Conclusions
<1>4. \A d : d = Len(commits') => d # 0
  BY <1>1, <1>2
<1>5. QED
  BY <1>1, <1>2, <1>3, <1>4 DEF Tree, Parent

LEMMA ConclusionsKept ==
  ASSUME UNCHANGED commits
  PROVE  /\ Place' = Place /\ \A n : Conclusions(n)' = Conclusions(n)
         /\ \A d : Tree(d)' = Tree(d) /\ Parent(d)' = Parent(d)
BY DEF Place, Conclusions, Tree, Parent

LEMMA NoRunOK == TypeOK => NoRun \in Run
BY DEF TypeOK, NoRun, Run, Place

---------------------------------------------------------------------------
(* Types.  The bodies of the commands that compute something share theirs.   *)
IndexOK == [holds : SUBSET Ops, unmerged : BOOLEAN]

LEMMA ReplayOK ==
  ASSUME TypeOK, NEW held \in SUBSET Ops, NEW from \in Place, NEW to \in Place
  PROVE  Replay(held, from, to) \in SUBSET Ops /\ Tree(to) \in SUBSET Ops
<1>1. \A c \in Place : Tree(c) \subseteq Ops
  BY PlacesOK DEF Tree, Commit
<1>2. QED
  BY <1>1 DEF Replay

LEMMA ComputedOK ==
  ASSUME TypeOK, NEW n \in Ops, NEW outcome \in Outcomes, Computed(n, outcome)
  PROVE  index' \in IndexOK /\ disk' \in {"clean", "sides"}
<1>1. Tree(tip) \in SUBSET Ops
  BY PlacesOK DEF Tree, Commit
<1>2. QED
  BY <1>1 DEF Computed, Outcomes, IndexOK

LEMMA BegunOK ==
  ASSUME TypeOK, NEW kind \in Kinds, NEW s \in Sources, NEW to, Begun(kind, s, to)
  PROVE  /\ me' \in Run' /\ pc' = to /\ ops + 1 \in Ops /\ ops' = ops + 1 /\ twins' \subseteq Ops
         /\ UNCHANGED <<commits, tip, entry, autostash, restored, aside, safe, disturbed, unlogged>>
<1>1. /\ ops + 1 \in Ops /\ ops' = ops + 1 /\ pc' = to /\ twins \subseteq Ops
      /\ UNCHANGED <<commits, tip, entry, autostash, restored, aside, safe, disturbed, unlogged>>
  BY ConclusionConstants DEF Begun, TypeOK, Ops, branch, Go
<1>2. twins' \subseteq Ops
  BY <1>1 DEF Begun
<1>3. tip \in Place /\ 0 \in Place /\ Place' = Place
  BY <1>1, PlacesOK, ConclusionsKept
<1>4. autostash \in {None} \cup [base : Place, by : Ops]
  BY DEF TypeOK
<1>5. me' = [NoRun EXCEPT !.door = "start", !.kind = kind, !.of = s, !.by = ops + 1,
                          !.parent = IF to = "forward" THEN tip ELSE 0, !.stash = autostash]
  BY DEF Begun, Know
<1>6. me' \in Run
  BY <1>1, <1>3, <1>4, <1>5 DEF NoRun, Run
<1>7. QED
  BY <1>1, <1>2, <1>3, <1>6 DEF Run

(* TypeOK, for the steps that make no commit.                                *)
LEMMA TypeKept ==
  ASSUME TypeOK, UNCHANGED commits, tip' \in Place,
         entry' \in [op : Kinds \cup {"none", "commit", "undo"}, sha : Place, source : Sources \cup {None}],
         parked' \in {None} \cup [kind : Kinds, of : Sources, by : Ops],
         aside' \subseteq Ops, autostash' \in {None} \cup [base : Place, by : aside'],
         index' \in IndexOK, disk' \in {"clean", "sides", "edit", "recorded"},
         pc' \in {"idle", "mark", "unpark", "attempt", "land", "log", "clear", "settle",
                  "write", "apply", "drop", "exit", "forward", "sync", "record"},
         me' \in Run, ops' \in 0..MaxOps, restored' \in [Ops -> Nat],
         safe' \subseteq Ops, disturbed' \subseteq Ops, unlogged' \subseteq Ops, twins' \subseteq Ops
  PROVE  TypeOK'
BY ConclusionsKept DEF TypeOK, IndexOK, Run, Commit


(* The parts of the state, as TypeOK has them, one by one.                   *)
LEMMA TypeParts ==
  ASSUME TypeOK
  PROVE  /\ tip \in Place
         /\ entry \in [op : Kinds \cup {"none", "commit", "undo"}, sha : Place, source : Sources \cup {None}]
         /\ parked \in {None} \cup [kind : Kinds, of : Sources, by : Ops]
         /\ aside \subseteq Ops /\ autostash \in {None} \cup [base : Place, by : aside]
         /\ index \in IndexOK /\ disk \in {"clean", "sides", "edit", "recorded"}
         /\ me \in Run /\ ops \in 0..MaxOps /\ restored \in [Ops -> Nat]
         /\ safe \subseteq Ops /\ disturbed \subseteq Ops /\ unlogged \subseteq Ops /\ twins \subseteq Ops
BY DEF TypeOK, IndexOK

LEMMA TypeOfStarts ==
  ASSUME TypeOK, NothingToMerge \/ Merge \/ Pull \/ Revert \/ CherryPick
  PROVE  TypeOK'
<1>1. CASE NothingToMerge
  <2>1. /\ UNCHANGED <<commits, tip, parked, autostash, index, disk, pc, me, ops, restored, aside, safe, disturbed,
                       unlogged, twins>>
        /\ entry' = [op |-> "merge", sha |-> tip, source |-> None]
    BY <1>1 DEF NothingToMerge, files, command, others, history
  <2>2. entry' \in [op : Kinds \cup {"none", "commit", "undo"}, sha : Place, source : Sources \cup {None}]
    BY <2>1, TypeParts DEF Kinds
  <2>3. pc \in {"idle"}
    BY <1>1 DEF NothingToMerge, MayCompute
  <2>4. QED
    BY <2>1, <2>2, <2>3, TypeParts, TypeKept
<1>2. ASSUME NEW kind \in Kinds, NEW s \in Sources, NEW to \in {"forward", "exit", "attempt", "mark"},
             Begun(kind, s, to), parked' \in {parked, Flight(kind, s, ops + 1)},
             UNCHANGED <<index, disk>> \/ \E outcome \in Outcomes : Computed(ops + 1, outcome)
      PROVE  TypeOK'
  <2>1. /\ me' \in Run' /\ pc' = to /\ ops + 1 \in Ops /\ ops' = ops + 1 /\ twins' \subseteq Ops
        /\ UNCHANGED <<commits, tip, entry, autostash, restored, aside, safe, disturbed, unlogged>>
    BY <1>2, BegunOK
  <2>2. index' \in IndexOK /\ disk' \in {"clean", "sides", "edit", "recorded"}
    BY <1>2, <2>1, ComputedOK, TypeParts
  <2>3. parked' \in {None} \cup [kind : Kinds, of : Sources, by : Ops]
    BY <1>2, <2>1, TypeParts DEF Flight
  <2>4. ops' \in 0..MaxOps /\ me' \in Run
    BY <2>1, ConclusionsKept DEF Ops, Run
  <2>5. QED
    BY <1>2, <2>1, <2>2, <2>3, <2>4, TypeParts, TypeKept
<1>3. ASSUME NEW s \in Sources, NEW park \in BOOLEAN, PerformMerge(s, park)
      PROVE  TypeOK'
  <2>1. "merge" \in Kinds
    BY DEF Kinds
  <2>2. \E to \in {"forward", "exit", "attempt"} :
           /\ Begun("merge", s, to) /\ parked' \in {parked, Flight("merge", s, ops + 1)}
           /\ UNCHANGED <<index, disk>> \/ \E outcome \in Outcomes : Computed(ops + 1, outcome)
    BY <1>3 DEF PerformMerge
  <2>3. QED
    BY <1>2, <2>1, <2>2
<1>4. CASE Merge \/ Pull
  BY <1>3, <1>4 DEF Merge, Pull
<1>5. CASE Revert
  <2>1. "revert" \in Kinds
    BY DEF Kinds
  <2>2. \E s \in Sources, to \in {"exit", "attempt"} :
           /\ Begun("revert", s, to) /\ parked' = Flight("revert", s, ops + 1)
           /\ \E outcome \in Outcomes : Computed(ops + 1, outcome)
    BY <1>5 DEF Revert
  <2>3. QED
    BY <1>2, <2>1, <2>2
<1>6. CASE CherryPick
  <2>1. "cherry-pick" \in Kinds
    BY DEF Kinds
  <2>2. parked' = parked /\ \E s \in Sources : /\ Begun("cherry-pick", s, "mark")
                                               /\ \E outcome \in Outcomes : Computed(ops + 1, outcome)
    BY <1>6 DEF CherryPick
  <2>3. QED
    BY <1>2, <2>1, <2>2
<1>7. QED
  BY <1>1, <1>4, <1>5, <1>6

(* What a command knows, after it has learned more.                          *)
LEMMA RunUpdates ==
  ASSUME NEW k \in Run
  PROVE  /\ \A left \in BOOLEAN : [k EXCEPT !.left = left] \in Run
         /\ \A parent \in Place, tree \in SUBSET Ops, took \in BOOLEAN :
               [k EXCEPT !.parent = parent, !.tree = tree, !.took = took] \in Run
         /\ \A parent, made \in Place, stood \in BOOLEAN :
               [k EXCEPT !.stood = stood, !.parent = parent, !.made = made] \in Run
         /\ [k EXCEPT !.seen = FALSE, !.took = FALSE] \in Run
<1>1. \A left \in BOOLEAN : [k EXCEPT !.left = left] \in Run
  BY DEF Run
<1>2. \A parent \in Place, tree \in SUBSET Ops, took \in BOOLEAN :
         [k EXCEPT !.parent = parent, !.tree = tree, !.took = took] \in Run
  BY DEF Run
<1>3. \A parent, made \in Place, stood \in BOOLEAN :
         [k EXCEPT !.stood = stood, !.parent = parent, !.made = made] \in Run
  BY DEF Run
<1>4. [k EXCEPT !.seen = FALSE, !.took = FALSE] \in Run
  BY DEF Run
<1>5. QED
  BY <1>1, <1>2, <1>3, <1>4

LEMMA RunFields ==
  ASSUME NEW k \in Run
  PROVE  /\ k.made \in Place /\ k.parent \in Place /\ k.tree \in SUBSET Ops
         /\ k.stash \in {None} \cup [base : Place, by : Ops]
         /\ k.by \in {0} \cup Ops /\ k.of \in Sources \cup {None} /\ k.left \in BOOLEAN
         /\ k.choice \in {"none", "side", "worktree"} /\ k.gives \in BOOLEAN
BY DEF Run

LEMMA ContinuingOK ==
  ASSUME TypeOK, InFlight, NEW choice \in {"none", "side", "worktree"}, NEW gives \in BOOLEAN, NEW discard \in BOOLEAN
  PROVE  Continuing(choice, gives, discard) \in Run
<1>1. parked \in [kind : Kinds, of : Sources, by : Ops] /\ 0 \in Place
  BY TypeParts DEF InFlight, Place, TypeOK
<1>2. autostash \in {None} \cup [base : Place, by : Ops]
  BY TypeParts
<1> DEFINE edit == (disk = "edit")
<1>3. edit \in BOOLEAN
  OBVIOUS
<1>4. Continuing(choice, gives, discard) =
         [NoRun EXCEPT !.door = "continue", !.kind = parked.kind, !.of = parked.of, !.by = parked.by,
                       !.choice = choice, !.gives = gives, !.discard = discard, !.seen = edit,
                       !.stash = autostash]
  BY DEF Continuing
<1> HIDE DEF edit
<1>5. Continuing(choice, gives, discard) =
         [door |-> "continue", kind |-> parked.kind, of |-> parked.of, by |-> parked.by, stood |-> FALSE,
          choice |-> choice, gives |-> gives, discard |-> discard, seen |-> edit,
          took |-> FALSE, parent |-> 0, tree |-> {}, made |-> 0, left |-> FALSE, stash |-> autostash]
  BY <1>4, ZenonT(30) DEF NoRun
<1>6. parked.kind \in Kinds /\ parked.of \in Sources /\ parked.by \in Ops
  BY <1>1
<1>7. QED
  BY <1>1, <1>2, <1>3, <1>5, <1>6 DEF Run

(* What the steps of a command leave.                                        *)
LEMMA TypeOfCommands ==
  ASSUME TypeOK, InHand, Made,
         \/ MarkPick \/ Unpark \/ Sync \/ Record \/ Continue \/ FinishWhatCrashed \/ Attempt \/ AppendLog
         \/ Clear \/ Settle \/ Materialize \/ PutBack \/ Drop \/ Exit \/ Crash
  PROVE  TypeOK'
<1> USE DEF files, branch, command, others, history
<1>p. /\ tip \in Place
      /\ entry \in [op : Kinds \cup {"none", "commit", "undo"}, sha : Place, source : Sources \cup {None}]
      /\ parked \in {None} \cup [kind : Kinds, of : Sources, by : Ops]
      /\ aside \subseteq Ops /\ autostash \in {None} \cup [base : Place, by : aside]
      /\ index \in IndexOK /\ disk \in {"clean", "sides", "edit", "recorded"}
      /\ me \in Run /\ ops \in 0..MaxOps /\ restored \in [Ops -> Nat]
      /\ safe \subseteq Ops /\ disturbed \subseteq Ops /\ unlogged \subseteq Ops /\ twins \subseteq Ops
  BY TypeParts
<1>0. NoRun \in Run /\ [me EXCEPT !.left = TRUE] \in Run
  BY <1>p, NoRunOK, RunUpdates
<1>1. \A c \in Place : Tree(c) \in SUBSET Ops
  BY PlacesOK DEF Tree, Commit
<1>2. pc # "idle" => me.by \in Ops /\ me.kind \in Kinds /\ me.of \in Sources
  <2>1. pc # "idle" => me.by # 0 /\ me.kind \in Kinds /\ me.of \in Sources
    BY <1>p DEF InHand
  <2>2. QED
    BY <1>p, <2>1, RunFields
<1>i. \A S \in SUBSET Ops : [holds |-> S, unmerged |-> FALSE] \in IndexOK
  BY DEF IndexOK
<1>r. me.made \in Place /\ me.parent \in Place /\ me.stash \in {None} \cup [base : Place, by : Ops]
  BY <1>p, RunFields
<1>3. CASE MarkPick
  <2>1. parked' \in {None} \cup [kind : Kinds, of : Sources, by : Ops]
    BY <1>2, <1>3 DEF MarkPick, Flight, Kinds
  <2>2. QED
    BY <1>p, <1>3, <2>1, TypeKept DEF MarkPick, Go
<1>4. CASE Unpark
  <2>1. index' \in IndexOK /\ disk' \in {"clean", "sides", "edit", "recorded"}
    BY <1>p, <1>i, <1>1, <1>4 DEF Unpark
  <2>2. QED
    BY <1>p, <1>4, <2>1, TypeKept DEF Unpark, Go
<1>5. CASE Sync
  <2>1. index' \in IndexOK /\ disk' \in {"clean", "sides", "edit", "recorded"}
    BY <1>p, <1>i, <1>1, <1>r, <1>5 DEF Sync
  <2>2. me' \in Run
    BY <1>p, <1>0, <1>5 DEF Sync, Know
  <2>3. QED
    BY <1>p, <1>5, <2>1, <2>2, TypeKept DEF Sync, Go
<1>6. CASE Record
  <2>1. entry' \in [op : Kinds \cup {"none", "commit", "undo"}, sha : Place, source : Sources \cup {None}]
    BY <1>p, <1>6 DEF Record, Kinds
  <2>2. unlogged' \subseteq Ops
    BY <1>p, <1>2, <1>6 DEF Record
  <2>3. QED
    BY <1>p, <1>6, <2>1, <2>2, TypeKept DEF Record, Go
<1>7. CASE Continue \/ FinishWhatCrashed
  <2>1. InFlight /\ Parent(tip) \in Place
    BY <1>p, <1>7, PlacesOK DEF Continue, FinishWhatCrashed, Parent
  <2>2. \A choice \in {"none", "side", "worktree"}, gives, discard \in BOOLEAN :
           Continuing(choice, gives, discard) \in Run
    BY <2>1, ContinuingOK
  <2>3. CASE Continue
    <3>1. me' \in Run /\ pc' = "attempt"
      BY <2>2, <2>3 DEF Continue, Know, Go
    <3>2. QED
      BY <1>p, <2>3, <3>1, TypeKept DEF Continue
  <2>4. CASE FinishWhatCrashed
    <3>1. PICK discard \in BOOLEAN :
             me' = [Continuing("none", FALSE, discard) EXCEPT !.stood = TRUE, !.parent = Parent(tip), !.made = tip]
      BY <2>4 DEF FinishWhatCrashed, Know
    <3>2. Continuing("none", FALSE, discard) \in Run
      BY <2>2
    <3>3. me' \in Run /\ pc' = "clear"
      BY <1>p, <2>1, <2>4, <3>1, <3>2, RunUpdates DEF FinishWhatCrashed, Go
    <3>4. QED
      BY <1>p, <2>4, <3>3, TypeKept DEF FinishWhatCrashed
  <2>5. QED
    BY <1>7, <2>3, <2>4
<1>8. CASE Attempt
  <2>1. Content \in SUBSET Ops
    BY <1>p, <1>2, <1>8 DEF Content, Attempt, IndexOK
  <2>2. [me EXCEPT !.parent = tip, !.tree = Content, !.took = (me.choice = "worktree")] \in Run
    BY <1>p, <2>1, RunUpdates
  <2>3. me' \in Run /\ pc' \in {"unpark", "exit", "land"}
    BY <1>p, <1>8, <2>2 DEF Attempt, Know, Go
  <2>4. QED
    BY <1>p, <1>8, <2>3, TypeKept DEF Attempt
<1>9. CASE AppendLog
  <2>1. index' \in IndexOK
    <3>1. Replay(index.holds, me.parent, tip) \in SUBSET Ops
      BY <1>p, <1>r, ReplayOK DEF IndexOK
    <3>2. QED
      BY <1>p, <1>9, <3>1 DEF AppendLog, IndexOK
  <2>2. me' \in Run
    BY <1>p, <1>0, <1>9 DEF AppendLog, Know
  <2>3. entry' \in [op : Kinds \cup {"none", "commit", "undo"}, sha : Place, source : Sources \cup {None}]
    BY <1>p, <1>2, <1>9, <1>r DEF AppendLog, Logged
  <2>4. unlogged' \subseteq Ops
    BY <1>p, <1>2, <1>9 DEF AppendLog
  <2>5. QED
    BY <1>p, <1>9, <2>1, <2>2, <2>3, <2>4, TypeKept DEF AppendLog, Go
<1>10. CASE Clear
  BY <1>p, <1>0, <1>10, TypeKept DEF Clear, Leave, Know, Go
<1>11. CASE Settle
  <2>1. Edited \in SUBSET Ops
    BY <1>p, <1>2, <1>11 DEF Edited, Settle, IndexOK
  <2>2. Replay(Edited, me.parent, tip) \in SUBSET Ops
    BY <1>p, <1>r, <2>1, ReplayOK
  <2>3. index' \in IndexOK
    BY <1>p, <1>i, <1>11, <2>1, <2>2 DEF Settle
  <2>4. QED
    BY <1>p, <1>0, <1>11, <2>3, TypeKept DEF Settle, Leave, Know, Go
<1>12. CASE Materialize
  <2>1. Written \in {"clean", "sides", "edit", "recorded"}
    BY <1>p DEF Written
  <2>2. QED
    BY <1>p, <1>0, <1>12, <2>1, TypeKept DEF Materialize, Leave, Know, Go
<1>13. CASE PutBack
  <2>1. me.stash.by \in Ops
    BY <1>r, <1>13 DEF PutBack, InHand
  <2>2. [restored EXCEPT ![me.stash.by] = @ + 1] \in [Ops -> Nat]
    BY <1>p, <2>1
  <2>3. safe' \subseteq Ops /\ restored' \in [Ops -> Nat]
    BY <1>p, <1>13, <2>1, <2>2 DEF PutBack
  <2>4. me' \in Run /\ pc' \in {"drop", "exit"}
    BY <1>p, <1>0, <1>13 DEF PutBack, Leave, Know, Go
  <2>5. QED
    BY <1>p, <1>13, <2>3, <2>4, TypeKept DEF PutBack
<1>14. CASE Drop
  BY <1>p, <1>0, <1>14, TypeKept DEF Drop, Leave, Know, Go
<1>15. CASE Exit
  BY <1>p, <1>0, <1>15, TypeKept DEF Exit, Know, Go
<1>16. CASE Crash
  BY <1>p, <1>0, <1>2, <1>16, TypeKept DEF Crash, Know, Go
<1>17. QED
  BY <1>3, <1>4, <1>5, <1>6, <1>7, <1>8, <1>9, <1>10, <1>11, <1>12, <1>13, <1>14, <1>15, <1>16

LEMMA TypeOfOthers ==
  ASSUME TypeOK, InHand, Edit \/ Stage \/ RawMerge \/ Abandon \/ TakeBack \/ UndoTip \/ UNCHANGED vars
  PROVE  TypeOK'
<1> USE DEF files, branch, command, others, history
<1>p. /\ tip \in Place
      /\ entry \in [op : Kinds \cup {"none", "commit", "undo"}, sha : Place, source : Sources \cup {None}]
      /\ parked \in {None} \cup [kind : Kinds, of : Sources, by : Ops]
      /\ aside \subseteq Ops /\ autostash \in {None} \cup [base : Place, by : aside]
      /\ index \in IndexOK /\ disk \in {"clean", "sides", "edit", "recorded"}
      /\ me \in Run /\ ops \in 0..MaxOps /\ restored \in [Ops -> Nat]
      /\ safe \subseteq Ops /\ disturbed \subseteq Ops /\ unlogged \subseteq Ops /\ twins \subseteq Ops
  BY TypeParts
<1>q. pc \in {"idle", "mark", "unpark", "attempt", "land", "log", "clear", "settle",
              "write", "apply", "drop", "exit", "forward", "sync", "record"}
  BY DEF TypeOK
<1>1. \A c \in Place : Tree(c) \in SUBSET Ops
  BY PlacesOK DEF Tree, Commit
<1>i. \A S \in SUBSET Ops : [holds |-> S, unmerged |-> FALSE] \in IndexOK
  BY DEF IndexOK
<1>2. CASE Edit
  <2>1. me' \in Run
    BY <1>p, <1>2, RunUpdates DEF Edit, Know
  <2>2. QED
    BY <1>p, <1>q, <1>2, <2>1, TypeKept DEF Edit
<1>3. CASE Stage
  <2>1. index.holds \cup {parked.by} \in SUBSET Ops
    BY <1>p, <1>3 DEF Stage, InFlight, IndexOK
  <2>2. index' \in IndexOK
    BY <1>3, <1>i, <2>1 DEF Stage
  <2>3. QED
    BY <1>p, <1>q, <1>3, <2>2, TypeKept DEF Stage
<1>4. CASE RawMerge
  <2>1. ops + 1 \in Ops /\ ops' = ops + 1 /\ ops' \in 0..MaxOps
    BY <1>p, <1>4, ConclusionConstants DEF RawMerge, Ops
  <2>2. index' \in IndexOK /\ disk' \in {"clean", "sides", "edit", "recorded"}
    BY <1>4, <2>1, ComputedOK DEF RawMerge, Outcomes
  <2>3. parked' \in {None} \cup [kind : Kinds, of : Sources, by : Ops]
    BY <1>4, <2>1 DEF RawMerge, Flight, Kinds
  <2>4. aside' \subseteq Ops /\ autostash' \in {None} \cup [base : Place, by : aside']
    BY <1>p, <1>4, <2>1 DEF RawMerge
  <2>5. QED
    BY <1>p, <1>q, <1>4, <2>1, <2>2, <2>3, <2>4, TypeKept DEF RawMerge
<1>5. CASE Abandon
  <2>1. index' \in IndexOK
    BY <1>p, <1>1, <1>5, <1>i DEF Abandon
  <2>2. safe' \subseteq Ops /\ autostash' \in {None} \cup [base : Place, by : aside']
    BY <1>p, <1>5 DEF Abandon
  <2>3. QED
    BY <1>p, <1>q, <1>5, <2>1, <2>2, TypeKept DEF Abandon
<1>6. CASE TakeBack
  <2>1. safe' \subseteq Ops
    BY <1>p, <1>6 DEF TakeBack
  <2>2. QED
    BY <1>p, <1>q, <1>6, <2>1, TypeKept DEF TakeBack
<1>7. CASE UndoTip
  <2>1. Parent(tip) \in Place
    BY <1>p, PlacesOK DEF Parent, Place
  <2>2. tip' \in Place /\ entry' \in [op : Kinds \cup {"none", "commit", "undo"}, sha : Place, source : Sources \cup {None}]
    BY <1>7, <2>1 DEF UndoTip
  <2>3. Replay(index.holds, tip, Parent(tip)) \in SUBSET Ops
    BY <1>p, <2>1, ReplayOK DEF IndexOK
  <2>4. index' \in IndexOK
    <3>1. index' = [index EXCEPT !.holds = Replay(@, tip, Parent(tip))]
      BY <1>7 DEF UndoTip
    <3>2. QED
      BY <1>p, <2>3, <3>1 DEF IndexOK
  <2>5. QED
    BY <1>p, <1>q, <1>7, <2>2, <2>4, TypeKept DEF UndoTip
<1>8. CASE UNCHANGED vars
  BY <1>p, <1>q, <1>8, TypeKept DEF vars
<1>9. QED
  BY <1>2, <1>3, <1>4, <1>5, <1>6, <1>7, <1>8

(* The steps that make a commit: which, and what else they may change.       *)
LEMMA TypeGrows ==
  ASSUME TypeOK, NEW c \in Commit, c.parent \in Place, commits' = Append(commits, c), tip' = Len(commits'),
         entry' \in [op : Kinds \cup {"none", "commit", "undo"}, sha : Place \cup {Len(commits')},
                     source : Sources \cup {None}],
         UNCHANGED <<parked, autostash, aside, restored, safe, unlogged, twins>>, index' \in IndexOK,
         disk' \in {"clean", "sides", "edit", "recorded"}, pc' \in {pc, "log", "sync"},
         \/ me' = me
         \/ me' = [me EXCEPT !.made = Len(commits'), !.tree = {}] \/ me' = [me EXCEPT !.made = Len(commits')],
         ops' \in 0..MaxOps, disturbed' \subseteq Ops
  PROVE  TypeOK'
<1>1. /\ commits' \in Seq(Commit) /\ tip' \in Place' /\ Place \subseteq Place'
      /\ \A d \in DOMAIN commits' : commits'[d].parent < d
  BY Appended
<1>2. me' \in Run'
  <2> DEFINE L == Len(commits')
  <2>1. me \in Run /\ L \in Place'
    BY <1>1, TypeParts
  <2> HIDE DEF L
  <2>2. me' = me \/ me' = [me EXCEPT !.made = L, !.tree = {}] \/ me' = [me EXCEPT !.made = L]
    BY DEF L
  <2> DEFINE P == Place'
             R == [door : {"none", "start", "continue"}, kind : Kinds \cup {"none"},
                   of : Sources \cup {None}, by : {0} \cup Ops, stood : BOOLEAN,
                   choice : {"none", "side", "worktree"}, gives : BOOLEAN, discard : BOOLEAN,
                   seen : BOOLEAN, took : BOOLEAN, parent : P, tree : SUBSET Ops, made : P,
                   left : BOOLEAN, stash : {None} \cup [base : P, by : Ops]]
  <2>3. Run' = R
    BY DEF Run, Kinds, Ops
  <2>4. Place \subseteq P /\ L \in P
    BY <1>1, <2>1
  <2> HIDE DEF P
  <2>5. me.stash \in {None} \cup [base : P, by : Ops] /\ me.parent \in P /\ me.made \in P
    BY <2>1, <2>4, RunFields
  <2>6. me \in R
    BY <2>1, <2>4, <2>5 DEF Run
  <2>7. [me EXCEPT !.made = L, !.tree = {}] \in R /\ [me EXCEPT !.made = L] \in R
    BY <2>4, <2>6
  <2> HIDE DEF R
  <2>8. me' \in R
    BY <2>2, <2>6, <2>7
  <2>9. QED
    BY <2>3, <2>8
<1>3. entry' \in [op : Kinds \cup {"none", "commit", "undo"}, sha : Place', source : Sources \cup {None}]
  BY <1>1
<1>4. autostash' \in {None} \cup [base : Place', by : aside']
  BY <1>1, TypeParts
<1>5. Commit' = Commit
  BY DEF Commit
<1>6. QED
  BY <1>1, <1>2, <1>3, <1>4, <1>5 DEF TypeOK, IndexOK

LEMMA CommitsOK ==
  ASSUME TypeOK, Numbered, InHand
  PROVE  /\ pc = "forward" => [parent |-> tip, kind |-> "forward", of |-> me.of,
                               by |-> me.by, tree |-> Tree(tip) \cup {me.by}] \in Commit
         /\ pc = "land" => [parent |-> tip, kind |-> me.kind, of |-> me.of, by |-> me.by, tree |-> me.tree] \in Commit
         /\ ops < MaxOps => NewCommit \in Commit
<1>1. tip \in Nat /\ Tree(tip) \in SUBSET Ops /\ me \in Run
  BY TypeParts, PlacesOK DEF Tree, Commit
<1>2. pc # "idle" => me.by \in Ops /\ me.kind \in Kinds /\ me.of \in Sources
  <2>1. pc # "idle" => me.by # 0 /\ me.kind \in Kinds /\ me.of \in Sources
    BY TypeParts DEF InHand
  <2>2. QED
    BY <1>1, <2>1, RunFields
<1>3. me.tree \in SUBSET Ops
  BY <1>1, RunFields
<1>4. ops < MaxOps => ops + 1 \in Ops
  BY ConclusionConstants, TypeParts DEF Ops
<1>5. QED
  BY <1>1, <1>2, <1>3, <1>4 DEF NewCommit, Commit, Kinds

LEMMA TypeOfCommits ==
  ASSUME TypeOK, Numbered, InHand, FastForward \/ Land \/ Elsewhere \/ Ordinary
  PROVE  TypeOK'
<1> USE DEF files, branch, command, others, history
<1>p. /\ tip \in Place /\ index \in IndexOK /\ disk \in {"clean", "sides", "edit", "recorded"}
      /\ entry \in [op : Kinds \cup {"none", "commit", "undo"}, sha : Place, source : Sources \cup {None}]
      /\ parked \in {None} \cup [kind : Kinds, of : Sources, by : Ops]
      /\ aside \subseteq Ops /\ autostash \in {None} \cup [base : Place, by : aside]
      /\ me \in Run /\ ops \in 0..MaxOps /\ restored \in [Ops -> Nat]
      /\ safe \subseteq Ops /\ disturbed \subseteq Ops /\ unlogged \subseteq Ops /\ twins \subseteq Ops
  BY TypeParts
<1>1. entry \in [op : Kinds \cup {"none", "commit", "undo"}, sha : Place \cup {Len(commits')},
                 source : Sources \cup {None}]
  BY <1>p
<1>2. CASE FastForward
  <2> DEFINE c == [parent |-> tip, kind |-> "forward", of |-> me.of, by |-> me.by, tree |-> Tree(tip) \cup {me.by}]
  <2>1. c \in Commit /\ c.parent \in Place
    BY <1>p, <1>2, CommitsOK DEF FastForward
  <2>2. CASE tip = me.parent
    <3>1. /\ commits' = Append(commits, c) /\ tip' = Len(commits') /\ pc' = "sync"
          /\ me' = [me EXCEPT !.made = Len(commits')]
          /\ UNCHANGED <<parked, autostash, aside, restored, safe, unlogged, twins, index, disk, entry, ops, disturbed>>
      BY <1>2, <2>2 DEF FastForward, Know, Go
    <3> HIDE DEF c
    <3>2. QED
      BY <1>p, <1>1, <2>1, <3>1, TypeGrows
  <2>3. CASE tip # me.parent
    BY <1>p, <1>2, <2>3, TypeKept DEF FastForward, Go
  <2>4. QED
    BY <2>2, <2>3
<1>3. CASE Land
  <2> DEFINE c == [parent |-> tip, kind |-> me.kind, of |-> me.of, by |-> me.by, tree |-> me.tree]
  <2>1. c \in Commit /\ c.parent \in Place
    BY <1>p, <1>3, CommitsOK DEF Land
  <2>2. CASE tip = me.parent
    <3>1. /\ commits' = Append(commits, c) /\ tip' = Len(commits') /\ pc' = "log"
          /\ me' = [me EXCEPT !.made = Len(commits'), !.tree = {}]
          /\ disk' \in {"clean", "sides", "edit", "recorded"}
          /\ UNCHANGED <<parked, autostash, aside, restored, safe, unlogged, twins, index, entry, ops, disturbed>>
      BY <1>p, <1>3, <2>2 DEF Land, Know, Go
    <3> HIDE DEF c
    <3>2. QED
      BY <1>p, <1>1, <2>1, <3>1, TypeGrows
  <2>3. CASE tip # me.parent
    BY <1>p, <1>3, <2>3, TypeKept DEF Land, Go
  <2>4. QED
    BY <2>2, <2>3
<1>4. ASSUME ops < MaxOps
      PROVE  ops + 1 \in 0..MaxOps /\ ops + 1 \in Ops /\ NewCommit \in Commit /\ NewCommit.parent \in Place
  BY <1>p, <1>4, ConclusionConstants, CommitsOK DEF Ops, NewCommit
<1>5. CASE Elsewhere
  <2>1. ops < MaxOps /\ commits' = Append(commits, NewCommit) /\ tip' = Len(commits') /\ ops' = ops + 1
    BY <1>5 DEF Elsewhere
  <2>2. disturbed' \subseteq Ops
    <3>1. pc # "idle" => me.by \in Ops
      <4>1. pc # "idle" => me.by # 0
        BY <1>p DEF InHand
      <4>2. QED
        BY <1>p, <4>1, RunFields
    <3>2. InFlight => parked.by \in Ops
      BY <1>p DEF InFlight
    <3>3. QED
      BY <1>p, <1>5, <3>1, <3>2 DEF Elsewhere, Disturbs
  <2>3. QED
    BY <1>p, <1>1, <1>4, <1>5, <2>1, <2>2, TypeGrows DEF Elsewhere
<1>6. CASE Ordinary
  <2>1. ops < MaxOps /\ commits' = Append(commits, NewCommit) /\ tip' = Len(commits') /\ ops' = ops + 1
    BY <1>6 DEF Ordinary
  <2>2. index' \in IndexOK
    BY <1>p, <1>4, <1>6 DEF Ordinary, IndexOK
  <2>3. entry' \in [op : Kinds \cup {"none", "commit", "undo"}, sha : Place \cup {Len(commits')},
                    source : Sources \cup {None}]
    BY <1>6 DEF Ordinary
  <2>4. QED
    BY <1>p, <1>4, <1>6, <2>1, <2>2, <2>3, TypeGrows DEF Ordinary
<1>7. QED
  BY <1>2, <1>3, <1>5, <1>6

LEMMA TypeStep == TypeOK /\ Numbered /\ InHand /\ Made /\ [Next]_vars => TypeOK'
BY TypeOfStarts, TypeOfCommands, TypeOfOthers, TypeOfCommits DEF Next

---------------------------------------------------------------------------
(* What the steps do, field by field.                                        *)

(* A command keeps what it began with; what it learns of its attempt; what   *)
(* it saw on disk.                                                           *)
Carried ==
    /\ me'.door = me.door /\ me'.kind = me.kind /\ me'.of = me.of /\ me'.by = me.by
    /\ me'.stood = me.stood /\ me'.choice = me.choice /\ me'.gives = me.gives
    /\ me'.discard = me.discard /\ me'.stash = me.stash
Attempts == me'.parent = me.parent /\ me'.tree = me.tree /\ me'.made = me.made
Looked == me'.seen = me.seen /\ me'.took = me.took

LEMMA RunLearns ==
  ASSUME TypeOK
  PROVE  /\ me' = me => Carried /\ Attempts /\ Looked /\ me'.left = me.left
         /\ me' = [me EXCEPT !.left = TRUE] => Carried /\ Attempts /\ Looked /\ me'.left
         /\ \A p, t, k : me' = [me EXCEPT !.parent = p, !.tree = t, !.took = k] =>
               /\ Carried /\ me'.parent = p /\ me'.tree = t /\ me'.took = k
               /\ me'.made = me.made /\ me'.seen = me.seen /\ me'.left = me.left
         /\ \A d : me' = [me EXCEPT !.made = d, !.tree = {}] =>
               /\ Carried /\ Looked /\ me'.parent = me.parent /\ me'.tree = {} /\ me'.made = d /\ me'.left = me.left
         /\ \A d : me' = [me EXCEPT !.made = d] =>
               /\ Carried /\ Looked /\ me'.parent = me.parent /\ me'.tree = me.tree /\ me'.made = d
               /\ me'.left = me.left
         /\ me' = [me EXCEPT !.seen = FALSE, !.took = FALSE] =>
               Carried /\ Attempts /\ ~me'.seen /\ ~me'.took /\ me'.left = me.left
<1>1. DOMAIN me = {"door", "kind", "of", "by", "stood", "choice", "gives", "discard", "seen", "took", "parent",
                   "tree", "made", "left", "stash"}
  BY TypeParts DEF Run
<1>2. me' = me => Carried /\ Attempts /\ Looked /\ me'.left = me.left
  BY DEF Carried, Attempts, Looked
<1>3. me' = [me EXCEPT !.left = TRUE] => Carried /\ Attempts /\ Looked /\ me'.left
  BY <1>1 DEF Carried, Attempts, Looked
<1>4. ASSUME NEW p, NEW t, NEW k, me' = [me EXCEPT !.parent = p, !.tree = t, !.took = k]
      PROVE  /\ Carried /\ me'.parent = p /\ me'.tree = t /\ me'.took = k
             /\ me'.made = me.made /\ me'.seen = me.seen /\ me'.left = me.left
  BY <1>1, <1>4 DEF Carried
<1>5. ASSUME NEW d, me' = [me EXCEPT !.made = d, !.tree = {}]
      PROVE  Carried /\ Looked /\ me'.parent = me.parent /\ me'.tree = {} /\ me'.made = d /\ me'.left = me.left
  BY <1>1, <1>5 DEF Carried, Looked
<1>6. ASSUME NEW d, me' = [me EXCEPT !.made = d]
      PROVE  /\ Carried /\ Looked /\ me'.parent = me.parent /\ me'.tree = me.tree /\ me'.made = d
             /\ me'.left = me.left
  BY <1>1, <1>6 DEF Carried, Looked
<1>7. me' = [me EXCEPT !.seen = FALSE, !.took = FALSE] =>
         Carried /\ Attempts /\ ~me'.seen /\ ~me'.took /\ me'.left = me.left
  BY <1>1 DEF Carried, Attempts
<1>8. QED
  BY <1>2, <1>3, <1>4, <1>5, <1>6, <1>7

(* What git leaves in the index.                                             *)
LEMMA ComputedDoes ==
  ASSUME NEW n, NEW outcome \in Outcomes, Computed(n, outcome)
  PROVE  /\ outcome = "clean" => index'.holds = Tree(tip) \cup {n} /\ ~index'.unmerged /\ disk' = "clean"
         /\ outcome = "conflict" => index'.holds = Tree(tip) /\ index'.unmerged /\ disk' = "sides"
         /\ outcome = "empty" => index'.holds = Tree(tip) /\ ~index'.unmerged /\ disk' = "clean"
<1>1. CASE outcome = "clean"
  BY <1>1 DEF Computed
<1>2. CASE outcome = "conflict"
  BY <1>2 DEF Computed
<1>3. CASE outcome = "empty"
  BY <1>3 DEF Computed
<1>4. QED
  BY <1>1, <1>2, <1>3 DEF Outcomes

(* An operation begins, with the next number.                                *)
LEMMA Begins ==
  ASSUME TypeOK, NEW kind \in Kinds, NEW s \in Sources, NEW to, Begun(kind, s, to)
  PROVE  /\ pc' = to /\ ops' = ops + 1 /\ ops + 1 \in Ops
         /\ twins' = IF Twin(kind, s) THEN twins \cup {ops + 1} ELSE twins
         /\ me'.door = "start" /\ me'.kind = kind /\ me'.of = s /\ me'.by = ops + 1 /\ ~me'.stood
         /\ me'.choice = "none" /\ ~me'.gives /\ ~me'.discard /\ ~me'.seen /\ ~me'.took /\ me'.tree = {}
         /\ me'.made = 0 /\ ~me'.left /\ me'.stash = autostash /\ me'.parent \in {0, tip}
         /\ UNCHANGED <<commits, tip, entry, autostash, restored, aside, safe, disturbed, unlogged>>
<1>1. /\ pc' = to /\ ops' = ops + 1 /\ ops + 1 \in Ops
      /\ UNCHANGED <<commits, tip, entry, autostash, restored, aside, safe, disturbed, unlogged>>
  BY BegunOK
<1>2. twins' = IF Twin(kind, s) THEN twins \cup {ops + 1} ELSE twins
  BY DEF Begun
<1>3. me' = [NoRun EXCEPT !.door = "start", !.kind = kind, !.of = s, !.by = ops + 1,
                          !.parent = IF to = "forward" THEN tip ELSE 0, !.stash = autostash]
  BY DEF Begun, Know
<1>4. QED
  BY <1>1, <1>2, <1>3 DEF NoRun

Starts == Merge \/ Pull \/ Revert \/ CherryPick

(* merge, pull, revert and cherry-pick begin alike: a fast-forward, or a     *)
(* computation, which git parks or safegit is to park.                       *)
LEMMA StartsDo ==
  ASSUME TypeOK, Starts
  PROVE  MayCompute /\ \E kind \in Kinds, s \in Sources, to \in {"forward", "exit", "attempt", "mark"} :
            /\ Begun(kind, s, to)
            /\ kind = "merge" => ~UpToDate("merge", s)
            /\ \/ to = "forward" /\ kind = "merge" /\ UNCHANGED <<parked, index, disk>>
               \/ /\ to = "mark" /\ kind = "cherry-pick" /\ parked' = parked
                  /\ \E outcome \in Outcomes : Computed(ops + 1, outcome)
               \/ /\ to \in {"exit", "attempt"} /\ parked' = Flight(kind, s, ops + 1)
                  /\ \E outcome \in Outcomes : Computed(ops + 1, outcome)
<1>1. {"merge", "revert", "cherry-pick"} \subseteq Kinds
  BY DEF Kinds
<1>2. ASSUME NEW s \in Sources, NEW park \in BOOLEAN, PerformMerge(s, park)
      PROVE  /\ MayCompute /\ ~UpToDate("merge", s)
             /\ \E to \in {"forward", "exit", "attempt"} :
                   /\ Begun("merge", s, to)
                   /\ \/ to = "forward" /\ UNCHANGED <<parked, index, disk>>
                      \/ /\ to \in {"exit", "attempt"} /\ parked' = Flight("merge", s, ops + 1)
                         /\ \E outcome \in Outcomes : Computed(ops + 1, outcome)
  BY <1>2 DEF PerformMerge
<1>3. CASE Merge \/ Pull
  BY <1>1, <1>2, <1>3 DEF Merge, Pull
<1>4. CASE Revert
  BY <1>1, <1>4 DEF Revert
<1>5. CASE CherryPick
  BY <1>1, <1>5 DEF CherryPick
<1>6. QED
  BY <1>3, <1>4, <1>5 DEF Starts

(* A run of --continue begins.                                               *)
LEMMA ContinueDoes ==
  ASSUME TypeOK, Continue
  PROVE  /\ pc = "idle" /\ pc' = "attempt" /\ InFlight /\ ~AlreadyConcluded
         /\ me'.door = "continue" /\ me'.kind = parked.kind /\ me'.of = parked.of /\ me'.by = parked.by /\ ~me'.stood
         /\ me'.made = 0 /\ ~me'.left /\ me'.tree = {} /\ ~me'.took /\ me'.stash = autostash
         /\ me'.seen => disk = "edit"
         /\ (me'.choice = "none") = ~index.unmerged /\ (~index.unmerged => ~me'.gives)
         /\ me'.choice = "side" => disk # "edit" \/ me'.discard
         /\ UNCHANGED <<files, branch, others, history>>
<1>1. PICK choice \in {"none", "side", "worktree"}, gives \in BOOLEAN, discard \in BOOLEAN :
         /\ (choice = "none") = ~index.unmerged
         /\ ~index.unmerged => ~gives /\ ~discard
         /\ OverwriteAllowed(Continuing(choice, gives, discard))
         /\ me' = Continuing(choice, gives, discard)
  BY DEF Continue, Know
<1> DEFINE edit == (disk = "edit")
<1>2. Continuing(choice, gives, discard) =
         [NoRun EXCEPT !.door = "continue", !.kind = parked.kind, !.of = parked.of, !.by = parked.by,
                       !.choice = choice, !.gives = gives, !.discard = discard, !.seen = edit,
                       !.stash = autostash]
  BY DEF Continuing
<1> HIDE DEF edit
<1>3. me' = [door |-> "continue", kind |-> parked.kind, of |-> parked.of, by |-> parked.by, stood |-> FALSE,
             choice |-> choice, gives |-> gives, discard |-> discard, seen |-> edit,
             took |-> FALSE, parent |-> 0, tree |-> {}, made |-> 0, left |-> FALSE, stash |-> autostash]
  BY <1>1, <1>2, ZenonT(30) DEF NoRun
<1>4. /\ me'.door = "continue" /\ me'.kind = parked.kind /\ me'.of = parked.of /\ me'.by = parked.by /\ ~me'.stood
      /\ me'.made = 0 /\ ~me'.left /\ me'.tree = {} /\ ~me'.took /\ me'.stash = autostash
      /\ me'.choice = choice /\ me'.gives = gives /\ me'.discard = discard
  BY <1>3
<1>5. me'.seen => disk = "edit"
  BY <1>3 DEF edit
<1>6. choice = "side" => disk # "edit" \/ discard
  BY <1>1, <1>3 DEF OverwriteAllowed
<1>7. QED
  BY <1>1, <1>4, <1>5, <1>6 DEF Continue, Go

LEMMA FinishDoes ==
  ASSUME TypeOK, FinishWhatCrashed
  PROVE  /\ pc = "idle" /\ pc' = "clear" /\ InFlight /\ AlreadyConcluded
         /\ me'.door = "continue" /\ me'.kind = parked.kind /\ me'.of = parked.of /\ me'.by = parked.by /\ me'.stood
         /\ me'.made = tip /\ me'.parent = Parent(tip) /\ ~me'.left /\ me'.tree = {} /\ ~me'.took
         /\ me'.stash = autostash /\ (me'.seen => disk = "edit")
         /\ me'.choice = "none" /\ ~me'.gives /\ (disk # "edit" \/ me'.discard)
         /\ UNCHANGED <<files, branch, others, history>>
<1>1. PICK discard \in BOOLEAN :
         LET k == [Continuing("none", FALSE, discard) EXCEPT !.stood = TRUE, !.parent = Parent(tip), !.made = tip]
         IN  OverwriteAllowed(k) /\ me' = k
  BY DEF FinishWhatCrashed, Know
<1> DEFINE edit == (disk = "edit")
<1>2. Continuing("none", FALSE, discard) =
         [NoRun EXCEPT !.door = "continue", !.kind = parked.kind, !.of = parked.of, !.by = parked.by,
                       !.choice = "none", !.gives = FALSE, !.discard = discard, !.seen = edit,
                       !.stash = autostash]
  BY DEF Continuing
<1> HIDE DEF edit
<1>3. me' = [door |-> "continue", kind |-> parked.kind, of |-> parked.of, by |-> parked.by, stood |-> TRUE,
             choice |-> "none", gives |-> FALSE, discard |-> discard, seen |-> edit,
             took |-> FALSE, parent |-> Parent(tip), tree |-> {}, made |-> tip, left |-> FALSE, stash |-> autostash]
  BY <1>1, <1>2, ZenonT(30) DEF NoRun
<1>4. /\ me'.door = "continue" /\ me'.kind = parked.kind /\ me'.of = parked.of /\ me'.by = parked.by /\ me'.stood
      /\ me'.made = tip /\ me'.parent = Parent(tip) /\ ~me'.left /\ me'.tree = {} /\ ~me'.took
      /\ me'.stash = autostash /\ me'.choice = "none" /\ ~me'.gives /\ me'.discard = discard
  BY <1>3
<1>5. me'.seen => disk = "edit"
  BY <1>3 DEF edit
<1>6. OverwriteAllowed(me')
  BY <1>1
<1>7. disk # "edit" \/ me'.discard
  BY <1>4, <1>6 DEF OverwriteAllowed
<1>8. QED
  BY <1>4, <1>5, <1>7 DEF FinishWhatCrashed, Go

(* The steps within a command that make no commit.                           *)
LEMMA CommandDoes ==
  ASSUME TypeOK
  PROVE  /\ MarkPick => /\ pc = "mark" /\ pc' = (IF index.unmerged THEN "exit" ELSE "attempt")
                        /\ parked' = Flight("cherry-pick", me.of, me.by)
                        /\ UNCHANGED <<autostash, index, disk, branch, me, others, history>>
         /\ Unpark => /\ pc = "unpark" /\ pc' = "exit" /\ parked' \in {None, parked}
                      /\ index'.holds \in {Tree(tip), index.holds}
                      /\ UNCHANGED <<autostash, branch, me, others, history>>
         /\ Sync => /\ pc = "sync" /\ pc' = "record" /\ Carried /\ Attempts /\ Looked
                    /\ \/ index' = [holds |-> Tree(me.made), unmerged |-> FALSE] /\ disk' = "clean"
                          /\ me'.left = me.left
                       \/ me'.left /\ UNCHANGED <<index, disk>>
                    /\ UNCHANGED <<parked, autostash, branch, others, history>>
         /\ Record => /\ pc = "record" /\ pc' = "exit"
                      /\ \/ entry' = [op |-> "merge", sha |-> tip, source |-> None] /\ unlogged' = unlogged
                         \/ entry' = entry /\ unlogged' = unlogged \cup {me.by}
                      /\ UNCHANGED <<files, commits, tip, me, others, restored, aside, safe, disturbed, twins>>
         /\ Exit => /\ pc = "exit" /\ pc' = "idle" /\ me' = NoRun
                    /\ UNCHANGED <<files, branch, others, history>>
         /\ Crash => /\ pc # "idle" /\ pc' = "idle" /\ me' = NoRun
                     /\ unlogged' = IF pc \in {"log", "sync", "record"} THEN unlogged \cup {me.by} ELSE unlogged
                     /\ UNCHANGED <<files, branch, others, restored, aside, safe, disturbed, twins>>
<1>1. MarkPick => /\ pc = "mark" /\ pc' = (IF index.unmerged THEN "exit" ELSE "attempt")
                  /\ parked' = Flight("cherry-pick", me.of, me.by)
                  /\ UNCHANGED <<autostash, index, disk, branch, me, others, history>>
  BY DEF MarkPick, Go
<1>2. Unpark => /\ pc = "unpark" /\ pc' = "exit" /\ parked' \in {None, parked}
                /\ index'.holds \in {Tree(tip), index.holds}
                /\ UNCHANGED <<autostash, branch, me, others, history>>
  BY DEF Unpark, Go
<1>3. Sync => /\ pc = "sync" /\ pc' = "record" /\ Carried /\ Attempts /\ Looked
              /\ \/ index' = [holds |-> Tree(me.made), unmerged |-> FALSE] /\ disk' = "clean"
                    /\ me'.left = me.left
                 \/ me'.left /\ UNCHANGED <<index, disk>>
              /\ UNCHANGED <<parked, autostash, branch, others, history>>
  BY RunLearns DEF Sync, Go, Know
<1>4. Record => /\ pc = "record" /\ pc' = "exit"
                /\ \/ entry' = [op |-> "merge", sha |-> tip, source |-> None] /\ unlogged' = unlogged
                   \/ entry' = entry /\ unlogged' = unlogged \cup {me.by}
                /\ UNCHANGED <<files, commits, tip, me, others, restored, aside, safe, disturbed, twins>>
  BY DEF Record, Go
<1>5. Exit => pc = "exit" /\ pc' = "idle" /\ me' = NoRun /\ UNCHANGED <<files, branch, others, history>>
  BY DEF Exit, Go, Know
<1>6. Crash => /\ pc # "idle" /\ pc' = "idle" /\ me' = NoRun
               /\ unlogged' = IF pc \in {"log", "sync", "record"} THEN unlogged \cup {me.by} ELSE unlogged
               /\ UNCHANGED <<files, branch, others, restored, aside, safe, disturbed, twins>>
  BY DEF Crash, Go, Know
<1>7. QED
  BY <1>1, <1>2, <1>3, <1>4, <1>5, <1>6

LEMMA AttemptDoes ==
  ASSUME TypeOK, Attempt
  PROVE  /\ pc = "attempt" /\ Carried /\ me'.made = me.made /\ me'.seen = me.seen /\ me'.left = me.left
         /\ \/ /\ Content = Tree(tip) /\ me.kind # "merge" /\ pc' = IF me.door = "start" THEN "unpark" ELSE "exit"
               /\ me'.tree = me.tree
            \/ (Content # Tree(tip) \/ me.kind = "merge") /\ pc' = "land" /\ me'.parent = tip /\ me'.tree = Content
         /\ UNCHANGED <<files, branch, others, history>>
<1>1. CASE Content = Tree(tip) /\ me.kind # "merge"
  <2>1. /\ pc' = (IF me.door = "start" THEN "unpark" ELSE "exit") /\ me' = me
        /\ pc = "attempt" /\ UNCHANGED <<files, branch, others, history>>
    BY <1>1 DEF Attempt, Go
  <2>2. QED
    BY <1>1, <2>1, RunLearns DEF Attempts, Looked
<1>2. CASE ~(Content = Tree(tip) /\ me.kind # "merge")
  <2> DEFINE took == (me.choice = "worktree")
  <2>1. me' = [me EXCEPT !.parent = tip, !.tree = Content, !.took = took]
    BY <1>2 DEF Attempt, Know
  <2>2. pc = "attempt" /\ pc' = "land" /\ UNCHANGED <<files, branch, others, history>>
    BY <1>2 DEF Attempt, Go
  <2> HIDE DEF took
  <2>3. Carried /\ me'.parent = tip /\ me'.tree = Content /\ me'.made = me.made /\ me'.seen = me.seen
           /\ me'.left = me.left
    BY <2>1, RunLearns
  <2>4. QED
    BY <1>2, <2>2, <2>3
<1>3. QED
  BY <1>1, <1>2

LEMMA AppendLogDoes ==
  ASSUME TypeOK, AppendLog
  PROVE  /\ pc = "log" /\ pc' = "clear" /\ Carried /\ Attempts /\ Looked
         /\ \/ entry' = [op |-> me.kind, sha |-> me.made, source |-> me.of] /\ unlogged' = unlogged
            \/ entry' = entry /\ unlogged' = unlogged \cup {me.by}
         /\ index'.unmerged = index.unmerged
         /\ \/ index'.holds = Replay(index.holds, me.parent, tip) /\ me'.left = me.left
            \/ index'.holds = index.holds /\ me'.left
         /\ UNCHANGED <<parked, autostash, disk, commits, tip, others, restored, aside, safe, disturbed, twins>>
<1>1. index \in IndexOK
  BY TypeParts
<1>2. index' = [index EXCEPT !.holds = Replay(@, me.parent, tip)] =>
         index'.unmerged = index.unmerged /\ index'.holds = Replay(index.holds, me.parent, tip)
  BY <1>1 DEF IndexOK
<1>3. \/ index' = [index EXCEPT !.holds = Replay(@, me.parent, tip)] /\ me' = me
      \/ me' = [me EXCEPT !.left = TRUE] /\ index' = index
  BY DEF AppendLog, Know
<1>4. /\ pc = "log" /\ pc' = "clear"
      /\ \/ entry' = [op |-> me.kind, sha |-> me.made, source |-> me.of] /\ unlogged' = unlogged
         \/ entry' = entry /\ unlogged' = unlogged \cup {me.by}
      /\ UNCHANGED <<parked, autostash, disk, commits, tip, others, restored, aside, safe, disturbed, twins>>
  BY DEF AppendLog, Go, Logged
<1>5. Carried /\ Attempts /\ Looked /\ (me' = me => me'.left = me.left) /\ (me' = [me EXCEPT !.left = TRUE] => me'.left)
  BY <1>3, RunLearns
<1>6. QED
  BY <1>2, <1>3, <1>4, <1>5

LEMMA AftercareDoes ==
  ASSUME TypeOK
  PROVE  /\ Clear => /\ pc = "clear" /\ Carried /\ Attempts /\ Looked /\ parked' \in {None, parked}
                     /\ \/ pc' = "settle" /\ parked' = None /\ me'.left = me.left
                        \/ pc' = "exit" /\ me'.left
                     /\ UNCHANGED <<autostash, index, disk, branch, others, history>>
         /\ Settle => /\ pc = "settle" /\ Carried /\ Attempts /\ Looked
                      /\ \/ /\ index' = [holds |-> Replay(Edited, me.parent, tip), unmerged |-> FALSE]
                            /\ pc' = "write" /\ me'.left = me.left
                         \/ pc' = "exit" /\ me'.left /\ index'.holds \in {index.holds, Edited}
                      /\ UNCHANGED <<parked, autostash, disk, branch, others, history>>
         /\ Materialize => /\ pc = "write" /\ Carried /\ Attempts /\ Looked
                           /\ \/ /\ disk' = Written /\ pc' = (IF OwesWork THEN "apply" ELSE "exit")
                                 /\ me'.left = me.left
                              \/ pc' = "exit" /\ me'.left /\ disk' = disk
                           /\ UNCHANGED <<parked, autostash, index, branch, others, history>>
         /\ PutBack => /\ pc = "apply" /\ Carried /\ Attempts /\ Looked
                       /\ \/ pc' = "exit" /\ me'.left /\ UNCHANGED <<restored, safe>>
                          \/ /\ StashIsOurs /\ pc' = "drop" /\ me'.left = me.left /\ safe' = safe
                             /\ restored' = [restored EXCEPT ![me.stash.by] = @ + 1]
                          \/ /\ StashIsOurs /\ pc' = "drop" /\ me'.left /\ safe' = safe \cup {me.stash.by}
                             /\ restored' = restored
                       /\ UNCHANGED <<files, branch, others, aside, disturbed, unlogged, twins>>
         /\ Drop => /\ pc = "drop" /\ pc' = "exit" /\ Carried /\ Attempts /\ Looked
                    /\ \/ autostash' = None /\ parked' = (IF me.left THEN parked ELSE None) /\ me'.left = me.left
                       \/ me'.left /\ UNCHANGED <<autostash, parked>>
                    /\ UNCHANGED <<index, disk, branch, others, history>>
<1>1. ASSUME Clear
      PROVE  /\ pc = "clear" /\ Carried /\ Attempts /\ Looked /\ parked' \in {None, parked}
             /\ \/ pc' = "settle" /\ parked' = None /\ me'.left = me.left
                \/ pc' = "exit" /\ me'.left
             /\ UNCHANGED <<autostash, index, disk, branch, others, history>>
  BY <1>1, RunLearns DEF Clear, Leave, Go, Know
<1>2. ASSUME Settle
      PROVE  /\ pc = "settle" /\ Carried /\ Attempts /\ Looked
             /\ \/ /\ index' = [holds |-> Replay(Edited, me.parent, tip), unmerged |-> FALSE]
                   /\ pc' = "write" /\ me'.left = me.left
                \/ pc' = "exit" /\ me'.left /\ index'.holds \in {index.holds, Edited}
             /\ UNCHANGED <<parked, autostash, disk, branch, others, history>>
  <2>1. [holds |-> Edited, unmerged |-> FALSE].holds = Edited
    OBVIOUS
  <2>2. \/ /\ index' = [holds |-> Replay(Edited, me.parent, tip), unmerged |-> FALSE]
           /\ pc' = "write" /\ me' = me
        \/ /\ index' = index \/ index' = [holds |-> Edited, unmerged |-> FALSE]
           /\ pc' = "exit" /\ me' = [me EXCEPT !.left = TRUE]
    BY <1>2 DEF Settle, Leave, Go, Know
  <2>3. pc = "settle" /\ UNCHANGED <<parked, autostash, disk, branch, others, history>>
    BY <1>2 DEF Settle
  <2>4. Carried /\ Attempts /\ Looked /\ (me' = me => me'.left = me.left) /\ (me' = [me EXCEPT !.left = TRUE] => me'.left)
    BY <2>2, RunLearns
  <2>5. QED
    BY <2>1, <2>2, <2>3, <2>4
<1>3. ASSUME Materialize
      PROVE  /\ pc = "write" /\ Carried /\ Attempts /\ Looked
             /\ \/ disk' = Written /\ pc' = (IF OwesWork THEN "apply" ELSE "exit") /\ me'.left = me.left
                \/ pc' = "exit" /\ me'.left /\ disk' = disk
             /\ UNCHANGED <<parked, autostash, index, branch, others, history>>
  BY <1>3, RunLearns DEF Materialize, Leave, Go, Know
<1>4. ASSUME PutBack
      PROVE  /\ pc = "apply" /\ Carried /\ Attempts /\ Looked
             /\ \/ pc' = "exit" /\ me'.left /\ UNCHANGED <<restored, safe>>
                \/ /\ StashIsOurs /\ pc' = "drop" /\ me'.left = me.left /\ safe' = safe
                   /\ restored' = [restored EXCEPT ![me.stash.by] = @ + 1]
                \/ /\ StashIsOurs /\ pc' = "drop" /\ me'.left /\ safe' = safe \cup {me.stash.by}
                   /\ restored' = restored
             /\ UNCHANGED <<files, branch, others, aside, disturbed, unlogged, twins>>
  BY <1>4, RunLearns DEF PutBack, Leave, Go, Know
<1>5. ASSUME Drop
      PROVE  /\ pc = "drop" /\ pc' = "exit" /\ Carried /\ Attempts /\ Looked
             /\ \/ autostash' = None /\ parked' = (IF me.left THEN parked ELSE None) /\ me'.left = me.left
                \/ me'.left /\ UNCHANGED <<autostash, parked>>
             /\ UNCHANGED <<index, disk, branch, others, history>>
  BY <1>5, RunLearns DEF Drop, Leave, Go, Know
<1>6. QED
  BY <1>1, <1>2, <1>3, <1>4, <1>5

(* A commit is made: what is new, and what stays.                            *)
LEMMA Grown ==
  ASSUME TypeOK, NEW c \in Commit, c.parent \in Place, commits' = Append(commits, c), NEW t, t = Len(commits')
  PROVE  /\ t \notin Place /\ t \in Place' /\ t # 0 /\ t # tip /\ t # entry.sha /\ t \notin DOMAIN commits
         /\ Place \subseteq Place'
         /\ DOMAIN commits' = DOMAIN commits \cup {t} /\ commits'[t] = c
         /\ \A d \in DOMAIN commits : commits'[d] = commits[d]
         /\ \A n \in Ops : Conclusions(n)' = IF c.by = n /\ c.kind \in Kinds THEN Conclusions(n) \cup {t}
                                                                             ELSE Conclusions(n)
         /\ Tree(t)' = c.tree /\ Parent(t)' = c.parent
         /\ \A d \in Place : Tree(d)' = Tree(d) /\ Parent(d)' = Parent(d)
<1>1. /\ DOMAIN commits' = DOMAIN commits \cup {t} /\ t \notin Place /\ Place \subseteq Place' /\ t \in Place'
      /\ \A d \in DOMAIN commits : commits'[d] = commits[d]
      /\ commits'[t] = c
  BY Appended
<1>2. Place = {0} \cup DOMAIN commits /\ tip \in Place /\ entry.sha \in Place
  BY PlacesOK
<1>3. \A n \in Ops : Conclusions(n)' = Conclusions(n) \cup {d \in {t} : c.by = n /\ c.kind \in Kinds}
  BY AppendedKeeps
<1>4. \A n \in Ops : Conclusions(n)' = IF c.by = n /\ c.kind \in Kinds THEN Conclusions(n) \cup {t} ELSE Conclusions(n)
  BY <1>3
<1>5. Tree(t)' = c.tree /\ Parent(t)' = c.parent /\ \A d \in Place : Tree(d)' = Tree(d) /\ Parent(d)' = Parent(d)
  BY AppendedKeeps
<1>6. QED
  BY <1>1, <1>2, <1>4, <1>5

LEMMA FastForwardDoes ==
  ASSUME TypeOK, Numbered, InHand, FastForward
  PROVE  /\ pc = "forward" /\ Carried /\ Looked /\ me'.parent = me.parent /\ me'.tree = me.tree /\ me'.left = me.left
         /\ UNCHANGED <<entry, files, others, history>>
         /\ \/ pc' = "exit" /\ me'.made = me.made /\ UNCHANGED <<commits, tip>>
            \/ /\ pc' = "sync" /\ me'.made = tip' /\ tip' = Len(commits')
               /\ \E c \in Commit : /\ c = [parent |-> tip, kind |-> "forward", of |-> me.of, by |-> me.by,
                                            tree |-> Tree(tip) \cup {me.by}]
                                    /\ commits' = Append(commits, c)
<1>1. CASE tip # me.parent
  BY <1>1, RunLearns DEF FastForward, Go, Attempts
<1>2. CASE tip = me.parent
  <2> DEFINE c == [parent |-> tip, kind |-> "forward", of |-> me.of, by |-> me.by, tree |-> Tree(tip) \cup {me.by}]
  <2>1. /\ pc = "forward" /\ UNCHANGED <<entry, files, others, history>> /\ commits' = Append(commits, c)
        /\ tip' = Len(commits') /\ me' = [me EXCEPT !.made = tip'] /\ pc' = "sync"
    BY <1>2 DEF FastForward, Go, Know
  <2>2. c \in Commit
    BY <2>1, CommitsOK
  <2>3. /\ Carried /\ Looked /\ me'.parent = me.parent /\ me'.tree = me.tree /\ me'.made = tip'
        /\ me'.left = me.left
    BY <2>1, RunLearns
  <2>4. QED
    BY <2>1, <2>2, <2>3
<1>3. QED
  BY <1>1, <1>2

LEMMA LandDoes ==
  ASSUME TypeOK, Numbered, InHand, Land
  PROVE  /\ pc = "land" /\ Carried /\ Looked /\ me'.parent = me.parent /\ me'.left = me.left
         /\ UNCHANGED <<entry, parked, autostash, index, others, history>>
         /\ \/ /\ pc' \in {"attempt", "exit"} /\ me'.made = me.made /\ me'.tree = me.tree
               /\ UNCHANGED <<commits, tip, disk>>
            \/ /\ pc' = "log" /\ me'.made = tip' /\ me'.tree = {} /\ tip' = Len(commits') /\ tip = me.parent
               /\ disk' \in {disk, "recorded"}
               /\ \E c \in Commit : /\ c = [parent |-> tip, kind |-> me.kind, of |-> me.of, by |-> me.by,
                                            tree |-> me.tree]
                                    /\ commits' = Append(commits, c)
<1>1. CASE tip # me.parent
  BY <1>1, RunLearns DEF Land, Go, Attempts
<1>2. CASE tip = me.parent
  <2> DEFINE c == [parent |-> tip, kind |-> me.kind, of |-> me.of, by |-> me.by, tree |-> me.tree]
  <2>1. /\ pc = "land" /\ UNCHANGED <<entry, parked, autostash, index, others, history>> /\ commits' = Append(commits, c)
        /\ tip' = Len(commits') /\ me' = [me EXCEPT !.made = tip', !.tree = {}] /\ pc' = "log"
        /\ disk' \in {disk, "recorded"}
    BY <1>2 DEF Land, Go, Know
  <2>2. c \in Commit
    BY <2>1, CommitsOK
  <2>3. /\ Carried /\ Looked /\ me'.parent = me.parent /\ me'.tree = {} /\ me'.made = tip'
        /\ me'.left = me.left
    BY <2>1, RunLearns
  <2>4. QED
    BY <1>2, <2>1, <2>2, <2>3
<1>3. QED
  BY <1>1, <1>2

LEMMA OthersDo ==
  ASSUME TypeOK
  PROVE  /\ NothingToMerge => /\ pc = "idle" /\ ~InFlight /\ entry' = [op |-> "merge", sha |-> tip, source |-> None]
                              /\ UNCHANGED <<files, commits, tip, command, others, history>>
         /\ Edit => /\ Carried /\ Attempts /\ ~me'.seen /\ ~me'.took /\ me'.left = me.left
                    /\ disk' = "edit" /\ disk # "clean"
                    /\ UNCHANGED <<parked, autostash, index, pc, branch, others, history>>
         /\ Stage => /\ pc = "idle" /\ InFlight /\ index'.holds = index.holds \cup {parked.by} /\ ~index'.unmerged
                     /\ disk' = "clean"
                     /\ UNCHANGED <<parked, autostash, branch, command, others, history>>
         /\ Abandon => /\ pc = "idle" /\ parked' = None /\ index'.holds = Tree(tip) /\ disk' = "clean"
                       /\ \/ autostash' = None /\ safe' = safe \cup {autostash.by}
                          \/ UNCHANGED <<autostash, safe>>
                       /\ UNCHANGED <<branch, command, others, restored, aside, disturbed, unlogged, twins>>
         /\ TakeBack => /\ pc = "idle" /\ ~InFlight /\ safe' = safe \cup {autostash.by} /\ autostash' = None
                        /\ UNCHANGED <<parked, index, disk, branch, command, others, restored, aside, disturbed,
                                       unlogged, twins>>
<1>1. NothingToMerge => /\ pc = "idle" /\ ~InFlight /\ entry' = [op |-> "merge", sha |-> tip, source |-> None]
                        /\ UNCHANGED <<files, commits, tip, command, others, history>>
  BY DEF NothingToMerge, MayCompute
<1>2. Edit => /\ Carried /\ Attempts /\ ~me'.seen /\ ~me'.took /\ me'.left = me.left
              /\ disk' = "edit" /\ disk # "clean"
              /\ UNCHANGED <<parked, autostash, index, pc, branch, others, history>>
  BY RunLearns DEF Edit, Know
<1>3. Stage => /\ pc = "idle" /\ InFlight /\ index'.holds = index.holds \cup {parked.by} /\ ~index'.unmerged
               /\ disk' = "clean"
               /\ UNCHANGED <<parked, autostash, branch, command, others, history>>
  BY DEF Stage
<1>4. Abandon => /\ pc = "idle" /\ parked' = None /\ index'.holds = Tree(tip) /\ disk' = "clean"
                 /\ \/ autostash' = None /\ safe' = safe \cup {autostash.by}
                    \/ UNCHANGED <<autostash, safe>>
                 /\ UNCHANGED <<branch, command, others, restored, aside, disturbed, unlogged, twins>>
  BY DEF Abandon
<1>5. TakeBack => /\ pc = "idle" /\ ~InFlight /\ safe' = safe \cup {autostash.by} /\ autostash' = None
                  /\ UNCHANGED <<parked, index, disk, branch, command, others, restored, aside, disturbed,
                                 unlogged, twins>>
  BY DEF TakeBack
<1>6. QED
  BY <1>1, <1>2, <1>3, <1>4, <1>5

LEMMA RawMergeDoes ==
  ASSUME TypeOK, RawMerge
  PROVE  /\ pc = "idle" /\ ~InFlight /\ ops' = ops + 1 /\ ops + 1 \in Ops
         /\ index'.holds = Tree(tip) /\ index'.unmerged /\ index.holds = Tree(tip)
         /\ \E s \in Sources : /\ ~UpToDate("merge", s) /\ parked' = Flight("merge", s, ops + 1)
                               /\ \/ autostash = None /\ autostash' = [base |-> tip, by |-> ops + 1]
                                     /\ aside' = aside \cup {ops + 1}
                                  \/ UNCHANGED <<autostash, aside>>
         /\ UNCHANGED <<branch, command, restored, safe, disturbed, unlogged, twins>>
<1>1. index'.holds = Tree(tip) /\ index'.unmerged
  BY ComputedDoes DEF RawMerge, Outcomes
<1>2. ops + 1 \in Ops
  BY TypeParts, ConclusionConstants DEF RawMerge, Ops
<1>3. \E s \in Sources : /\ ~UpToDate("merge", s) /\ parked' = Flight("merge", s, ops + 1)
                         /\ \/ autostash = None /\ autostash' = [base |-> tip, by |-> ops + 1]
                               /\ aside' = aside \cup {ops + 1}
                            \/ UNCHANGED <<autostash, aside>>
  BY DEF RawMerge
<1>4. QED
  BY <1>1, <1>2, <1>3 DEF RawMerge, Clean

(* Somebody else's commit, and what undo does.                               *)
LEMMA NewCommitDoes ==
  ASSUME TypeOK, Numbered, InHand, Elsewhere \/ Ordinary
  PROVE  /\ ops + 1 \in Ops /\ ops' = ops + 1 /\ tip' = Len(commits')
         /\ \E c \in Commit : /\ c = [parent |-> tip, kind |-> "commit", of |-> None, by |-> ops + 1,
                                      tree |-> Tree(tip) \cup {ops + 1}]
                              /\ commits' = Append(commits, c)
         /\ UNCHANGED <<parked, autostash, disk, command, restored, aside, safe, unlogged, twins>>
         /\ Elsewhere => /\ pc \notin {"log", "sync", "record"} /\ UNCHANGED <<entry, index>> /\ disturbed \subseteq disturbed'
                         /\ InFlight => parked.by \in disturbed'
                         /\ pc # "idle" => me.by \in disturbed'
         /\ Ordinary => /\ pc = "idle" /\ ~InFlight /\ disturbed' = disturbed /\ ~index.unmerged
                        /\ entry' = [op |-> "commit", sha |-> tip', source |-> None]
                        /\ index'.holds = index.holds \cup {ops + 1} /\ index'.unmerged = index.unmerged
<1>1. ops < MaxOps
  BY DEF Elsewhere, Ordinary
<1>2. NewCommit \in Commit /\ ops + 1 \in Ops
  BY <1>1, CommitsOK, TypeParts, ConclusionConstants DEF Ops
<1>3. commits' = Append(commits, NewCommit) /\ ops' = ops + 1 /\ tip' = Len(commits')
  BY DEF Elsewhere, Ordinary
<1>4. Elsewhere => /\ pc \notin {"log", "sync", "record"} /\ UNCHANGED <<entry, index>> /\ disturbed \subseteq disturbed'
                   /\ InFlight => parked.by \in disturbed'
                   /\ pc # "idle" => me.by \in disturbed'
                   /\ UNCHANGED <<parked, autostash, disk, command, restored, aside, safe, unlogged, twins>>
  BY DEF Elsewhere, RefLockFree, Disturbs, files
<1>5. index \in IndexOK
  BY TypeParts
<1>6. Ordinary => /\ pc = "idle" /\ ~InFlight /\ disturbed' = disturbed /\ ~index.unmerged
                  /\ entry' = [op |-> "commit", sha |-> tip', source |-> None]
                  /\ index'.holds = index.holds \cup {ops + 1} /\ index'.unmerged = index.unmerged
                  /\ UNCHANGED <<parked, autostash, disk, command, restored, aside, safe, unlogged, twins>>
  BY <1>5 DEF Ordinary, IndexOK, history
<1>7. QED
  BY <1>2, <1>3, <1>4, <1>6 DEF NewCommit

LEMMA UndoDoes ==
  ASSUME TypeOK, UndoTip
  PROVE  /\ pc = "idle" /\ ~InFlight /\ tip # 0 /\ entry.sha = tip /\ tip' = Parent(tip)
         /\ entry' = [op |-> "undo", sha |-> tip', source |-> None]
         /\ index'.holds = Replay(index.holds, tip, tip') /\ index'.unmerged = index.unmerged
         /\ UNCHANGED <<commits, parked, autostash, disk, command, others, history>>
<1>1. index \in IndexOK
  BY TypeParts
<1>2. QED
  BY <1>1 DEF UndoTip, IndexOK

---------------------------------------------------------------------------
(* The invariant is kept.                                                    *)

(* A number that has not been given out is nowhere.                          *)
LEMMA Fresh ==
  ASSUME TypeOK, Numbered
  PROVE  /\ ops \in Nat /\ 1..ops \subseteq 1..(ops + 1) /\ ops + 1 \in 1..(ops + 1) /\ ops + 1 \notin 1..ops
         /\ \A c \in DOMAIN commits : commits[c].by # ops + 1 /\ ops + 1 \notin commits[c].tree
         /\ Conclusions(ops + 1) = {} /\ ops + 1 \notin index.holds
         /\ \A c \in Place : Tree(c) \subseteq 1..ops
<1>1. ops \in Nat
  BY TypeParts, ConclusionConstants
<1>2. 1..ops \subseteq 1..(ops + 1) /\ ops + 1 \in 1..(ops + 1) /\ ops + 1 \notin 1..ops
  BY <1>1
<1>3. \A c \in DOMAIN commits : commits[c].by # ops + 1 /\ ops + 1 \notin commits[c].tree
  BY <1>2 DEF Numbered
<1>4. \A c \in Place : Tree(c) \subseteq 1..ops
  BY PlacesOK DEF Numbered, Tree
<1>5. QED
  BY <1>1, <1>2, <1>3, <1>4 DEF Conclusions, Numbered

LEMMA AtTip ==
  ASSUME TypeOK, tip # 0
  PROVE  tip \in DOMAIN commits /\ tip \in Line(tip)
BY PlacesOK DEF Line

(* What a command knows when none runs.                                      *)
LEMMA NoRunDoes ==
  /\ NoRun.door = "none" /\ NoRun.made = 0 /\ NoRun.tree = {} /\ NoRun.by = 0
  /\ ~NoRun.seen /\ ~NoRun.took /\ ~NoRun.left /\ ~NoRun.stood /\ NoRun.stash = None
BY DEF NoRun

LEMMA InvInit == Init => Inv
<1> SUFFICES ASSUME Init
             PROVE  Inv
  OBVIOUS
<1>1. /\ commits = <<>> /\ tip = 0 /\ entry = [op |-> "none", sha |-> 0, source |-> None]
      /\ parked = None /\ autostash = None /\ index = [holds |-> {}, unmerged |-> FALSE]
      /\ disk = "clean" /\ pc = "idle" /\ me = NoRun /\ ops = 0
      /\ restored = [n \in Ops |-> 0]
      /\ aside = {} /\ safe = {} /\ disturbed = {} /\ unlogged = {} /\ twins = {}
  BY DEF Init
<1>2. Len(commits) = 0 /\ DOMAIN commits = {} /\ commits \in Seq(Commit) /\ Place = {0}
  BY <1>1 DEF Place
<1>3. me \in Run
  <2>1. NoRun \in Run
    BY <1>2 DEF Run, NoRun
  <2>2. QED
    BY <1>1, <2>1
<1>4. TypeOK
  BY <1>1, <1>2, <1>3, ConclusionConstants DEF TypeOK
<1>5. Numbered /\ NotYet /\ Seen
  BY <1>1, <1>2, NoRunDoes DEF Numbered, NotYet, Seen, InFlight
<1>6. InHand
  BY <1>1, NoRunDoes DEF InHand
<1>7. EntryTrue /\ Recognised /\ Made
  BY <1>1, NoRunDoes DEF EntryTrue, Recognised, Made, InFlight
<1>8. \A n : Conclusions(n) = {}
  BY <1>2 DEF Conclusions
<1>9. Once
  BY <1>1, <1>8 DEF Once, InFlight
<1>10. QED
  BY <1>4, <1>5, <1>6, <1>7, <1>9 DEF Inv

(* merge, pull, revert, cherry-pick.                                         *)
LEMMA StartStep ==
  ASSUME Inv, Starts
  PROVE  Inv'
<1>t. TypeOK' /\ TypeOK /\ Numbered
  BY TypeStep DEF Inv, Next, Starts
<1>1. PICK kind \in Kinds, s \in Sources, to \in {"forward", "exit", "attempt", "mark"} :
         /\ MayCompute /\ Begun(kind, s, to)
         /\ kind = "merge" => ~UpToDate("merge", s)
         /\ \/ to = "forward" /\ kind = "merge" /\ UNCHANGED <<parked, index, disk>>
            \/ /\ to = "mark" /\ kind = "cherry-pick" /\ parked' = parked
               /\ \E outcome \in Outcomes : Computed(ops + 1, outcome)
            \/ /\ to \in {"exit", "attempt"} /\ parked' = Flight(kind, s, ops + 1)
               /\ \E outcome \in Outcomes : Computed(ops + 1, outcome)
  BY <1>t, StartsDo
<1>2. pc = "idle" /\ parked = None
  BY <1>1 DEF MayCompute, InFlight
<1>3. /\ pc' = to /\ ops' = ops + 1 /\ ops + 1 \in Ops
      /\ twins' = IF Twin(kind, s) THEN twins \cup {ops + 1} ELSE twins
      /\ me'.door = "start" /\ me'.kind = kind /\ me'.of = s /\ me'.by = ops + 1 /\ ~me'.stood
      /\ me'.choice = "none" /\ ~me'.gives /\ ~me'.discard /\ ~me'.seen /\ ~me'.took /\ me'.tree = {}
      /\ me'.made = 0 /\ ~me'.left /\ me'.stash = autostash
      /\ UNCHANGED <<commits, tip, entry, autostash, aside, disturbed, unlogged>>
  BY <1>t, <1>1, Begins
<1>4. /\ ops \in Nat /\ 1..ops \subseteq 1..(ops + 1) /\ ops + 1 \in 1..(ops + 1) /\ ops + 1 \notin 1..ops
      /\ \A c \in DOMAIN commits : commits[c].by # ops + 1 /\ ops + 1 \notin commits[c].tree
      /\ Conclusions(ops + 1) = {}
      /\ Tree(tip) \subseteq 1..ops /\ index.holds \subseteq 1..ops
  BY <1>t, Fresh, TypeParts DEF Numbered
<1>5. Place' = Place /\ \A n : Conclusions(n)' = Conclusions(n)
  BY <1>3, ConclusionsKept
<1>6. parked' \in {None, Flight(kind, s, ops + 1)} /\ (to \in {"exit", "attempt"} => parked' = Flight(kind, s, ops + 1))
         /\ (to \in {"forward", "mark"} => parked' = None) /\ (to = "mark" => kind = "cherry-pick")
  BY <1>1, <1>2
<1>7. parked' # None => parked'.kind = kind /\ parked'.of = s /\ parked'.by = ops + 1
  BY <1>6 DEF Flight
<1>8. index'.holds \subseteq 1..(ops + 1)
  <2>1. CASE \E outcome \in Outcomes : Computed(ops + 1, outcome)
    BY <1>4, <2>1, ComputedDoes DEF Outcomes
  <2>2. QED
    BY <1>1, <1>4, <2>1
<1>9. Numbered'
  BY <1>t, <1>3, <1>4, <1>7, <1>8 DEF Numbered, InFlight
<1>10. InHand'
  BY <1>3, <1>4, <1>6 DEF InHand
<1>11. Seen' /\ NotYet' /\ EntryTrue'
  BY <1>3, <1>4, <1>5 DEF Seen, NotYet, EntryTrue, Inv
<1>12. Recognised'
  <2>1. Twin(kind, s) => ops + 1 \in twins'
    BY <1>3
  <2>2. kind = "merge" => tip = 0 \/ commits[tip].kind # "merge" \/ commits[tip].of # s
    <3>1. ASSUME tip # 0, commits[tip].kind = "merge", commits[tip].of = s
          PROVE  UpToDate("merge", s)
      BY <1>t, <3>1, AtTip DEF UpToDate
    <3>2. QED
      BY <1>1, <3>1
  <2>3. kind # "merge" /\ entry = [op |-> kind, sha |-> tip, source |-> s] => ops + 1 \in twins'
    BY <2>1 DEF Twin
  <2>4. QED
    BY <1>3, <1>6, <1>7, <2>2, <2>3 DEF Recognised, InFlight
<1>13. Made'
  BY <1>3 DEF Made
<1>14. Once'
  BY <1>3, <1>4, <1>5, <1>7 DEF Once, Known, InFlight, Inv
<1>15. QED
  BY <1>t, <1>9, <1>10, <1>11, <1>12, <1>13, <1>14 DEF Inv

(* A commit of the command's own: a fast-forward.                            *)
LEMMA FastForwardStep ==
  ASSUME Inv, FastForward
  PROVE  Inv'
<1>t. TypeOK' /\ TypeOK /\ Numbered /\ InHand
  BY TypeStep DEF Inv, Next
<1>1. /\ pc = "forward" /\ Carried /\ Looked /\ me'.parent = me.parent /\ me'.tree = me.tree /\ me'.left = me.left
      /\ UNCHANGED <<entry, files, others, history>>
      /\ \/ pc' = "exit" /\ me'.made = me.made /\ UNCHANGED <<commits, tip>>
         \/ /\ pc' = "sync" /\ me'.made = tip' /\ tip' = Len(commits')
            /\ \E c \in Commit : /\ c = [parent |-> tip, kind |-> "forward", of |-> me.of, by |-> me.by,
                                         tree |-> Tree(tip) \cup {me.by}]
                                 /\ commits' = Append(commits, c)
  BY <1>t, FastForwardDoes
<1>2. /\ me.by \in 1..ops /\ me.kind \in Kinds /\ me.of \in Sources /\ me.door = "start" /\ ~me.stood /\ ~me.gives
      /\ parked = None /\ me.made = 0 /\ ~me.left /\ ~me.seen
  BY <1>1 DEF Inv, InHand, Seen
<1>3. /\ me'.by = me.by /\ me'.kind = me.kind /\ me'.of = me.of /\ me'.door = "start" /\ ~me'.stood /\ ~me'.gives
      /\ ~me'.seen /\ ~me'.left
  BY <1>1, <1>2 DEF Carried, Looked
<1>4. UNCHANGED <<entry, parked, autostash, index, disk, ops, aside, disturbed, unlogged, twins>>
  BY <1>1 DEF files, others, history
<1>5. Seen' /\ NotYet' /\ InHand'
  BY <1>1, <1>2, <1>3, <1>4 DEF Seen, NotYet, InHand
<1>6. CASE pc' = "exit" /\ me'.made = me.made /\ UNCHANGED <<commits, tip>>
  <2>1. \A n : Conclusions(n)' = Conclusions(n)
    BY <1>6, ConclusionsKept
  <2>2. Numbered' /\ EntryTrue' /\ Recognised' /\ Made'
    BY <1>1, <1>2, <1>3, <1>4, <1>6, <2>1 DEF Inv, Numbered, EntryTrue, Recognised, Made, InFlight
  <2>3. Once'
    BY <1>1, <1>2, <1>3, <1>4, <1>6, <2>1 DEF Inv, Once, Known, InFlight
  <2>4. QED
    BY <1>t, <1>5, <2>2, <2>3 DEF Inv
<1>7. ASSUME pc' = "sync", me'.made = tip', tip' = Len(commits'), NEW c \in Commit,
             c = [parent |-> tip, kind |-> "forward", of |-> me.of, by |-> me.by, tree |-> Tree(tip) \cup {me.by}],
             commits' = Append(commits, c)
      PROVE  Inv'
  <2>1. c.parent = tip /\ c.kind = "forward" /\ c.by = me.by /\ c.tree = Tree(tip) \cup {me.by} /\ tip \in Place
    BY <1>t, <1>7, TypeParts
  <2>2. /\ tip' # 0 /\ tip' # entry.sha
        /\ DOMAIN commits' = DOMAIN commits \cup {tip'} /\ commits'[tip'] = c
        /\ \A d \in DOMAIN commits : commits'[d] = commits[d]
        /\ \A n \in Ops : Conclusions(n)' = Conclusions(n)
    <3>1. c.kind \notin Kinds /\ c.parent \in Place
      BY <2>1 DEF Kinds
    <3>2. QED
      BY <1>t, <1>7, <3>1, Grown
  <2>3. Numbered'
    <3>1. Tree(tip) \subseteq 1..ops
      BY <1>t, <2>1, Fresh
    <3>2. QED
      BY <1>t, <1>1, <1>2, <1>4, <2>1, <2>2, <3>1 DEF Numbered, InFlight
  <2>4. EntryTrue' /\ Recognised'
    BY <1>2, <1>4, <1>7, <2>2 DEF Inv, EntryTrue, Recognised, InFlight
  <2>5. Made'
    BY <1>2, <1>3, <1>7, <2>1, <2>2 DEF Made
  <2>6. Once'
    <3>1. \A n \in Ops : Conclusions(n)' = Conclusions(n) /\ Known(n)' = Known(n)
      BY <1>4, <2>2 DEF Known
    <3>2. QED
      BY <1>2, <1>4, <1>7, <2>2, <3>1 DEF Inv, Once, InFlight
  <2>7. QED
    BY <1>t, <1>5, <2>3, <2>4, <2>5, <2>6 DEF Inv
<1>8. QED
  BY <1>1, <1>6, <1>7

(* A conclusion lands.                                                       *)
LEMMA LandStep ==
  ASSUME Inv, Land
  PROVE  Inv'
<1>t. TypeOK' /\ TypeOK /\ Numbered /\ InHand
  BY TypeStep DEF Inv, Next
<1>1. /\ pc = "land" /\ Carried /\ Looked /\ me'.parent = me.parent /\ me'.left = me.left
      /\ UNCHANGED <<entry, parked, autostash, index, others, history>>
      /\ \/ /\ pc' \in {"attempt", "exit"} /\ me'.made = me.made /\ me'.tree = me.tree
            /\ UNCHANGED <<commits, tip, disk>>
         \/ /\ pc' = "log" /\ me'.made = tip' /\ me'.tree = {} /\ tip' = Len(commits') /\ tip = me.parent
            /\ disk' \in {disk, "recorded"}
            /\ \E c \in Commit : /\ c = [parent |-> tip, kind |-> me.kind, of |-> me.of, by |-> me.by,
                                         tree |-> me.tree]
                                 /\ commits' = Append(commits, c)
  BY <1>t, LandDoes
<1>2. /\ me.by \in 1..ops /\ me.kind \in Kinds /\ me.of \in Sources /\ ~me.stood /\ (me.door = "start" => ~me.gives)
      /\ parked = Flight(me.kind, me.of, me.by) /\ me.made = 0 /\ ~me.left
  BY <1>1 DEF Inv, InHand
<1>3. /\ me'.by = me.by /\ me'.kind = me.kind /\ me'.of = me.of /\ me'.door = me.door /\ ~me'.stood
      /\ me'.gives = me.gives /\ me'.seen = me.seen /\ ~me'.left /\ me'.choice = me.choice /\ me'.discard = me.discard
  BY <1>1, <1>2 DEF Carried, Looked
<1>4. UNCHANGED <<entry, parked, autostash, index, ops, aside, disturbed, unlogged, twins>>
  BY <1>1 DEF others, history
<1>5. parked.kind = me.kind /\ parked.of = me.of /\ parked.by = me.by /\ me.by \in Ops
  BY <1>2, <1>t, TypeParts, ConclusionConstants DEF Flight, Ops
<1>6. Seen' /\ InHand'
  BY <1>1, <1>2, <1>3, <1>4 DEF Inv, Seen, InHand
<1>7. CASE pc' \in {"attempt", "exit"} /\ me'.made = me.made /\ me'.tree = me.tree /\ UNCHANGED <<commits, tip>>
  <2>1. \A n : Conclusions(n)' = Conclusions(n)
    BY <1>7, ConclusionsKept
  <2>2. Numbered' /\ EntryTrue' /\ Recognised' /\ Made' /\ NotYet'
    BY <1>1, <1>2, <1>3, <1>4, <1>7, <2>1 DEF Inv, Numbered, EntryTrue, Recognised, Made, InFlight, NotYet
  <2>3. Once'
    BY <1>1, <1>2, <1>3, <1>4, <1>5, <1>7, <2>1 DEF Inv, Once, Known, InFlight
  <2>4. QED
    BY <1>t, <1>6, <2>2, <2>3 DEF Inv
<1>8. ASSUME pc' = "log", me'.made = tip', me'.tree = {}, tip' = Len(commits'), NEW c \in Commit,
             c = [parent |-> tip, kind |-> me.kind, of |-> me.of, by |-> me.by, tree |-> me.tree],
             commits' = Append(commits, c)
      PROVE  Inv'
  <2>1. c.parent = tip /\ c.kind = me.kind /\ c.of = me.of /\ c.by = me.by /\ c.tree = me.tree /\ tip \in Place
    BY <1>t, <1>8, TypeParts
  <2>2. /\ tip' # 0 /\ tip' # entry.sha
        /\ DOMAIN commits' = DOMAIN commits \cup {tip'} /\ commits'[tip'] = c
        /\ \A d \in DOMAIN commits : commits'[d] = commits[d]
        /\ \A n \in Ops : Conclusions(n)' = IF me.by = n THEN Conclusions(n) \cup {tip'} ELSE Conclusions(n)
    <3>1. c.kind \in Kinds /\ c.parent \in Place
      BY <1>2, <2>1
    <3>2. /\ tip' # 0 /\ tip' # entry.sha
          /\ DOMAIN commits' = DOMAIN commits \cup {tip'} /\ commits'[tip'] = c
          /\ \A d \in DOMAIN commits : commits'[d] = commits[d]
          /\ \A n \in Ops : Conclusions(n)' = IF c.by = n /\ c.kind \in Kinds THEN Conclusions(n) \cup {tip'}
                                                                                ELSE Conclusions(n)
      BY <1>t, <1>8, <3>1, Grown
    <3>3. QED
      BY <2>1, <3>1, <3>2
  <2>3. Numbered'
    BY <1>t, <1>1, <1>2, <1>4, <1>8, <2>1, <2>2 DEF Numbered, InFlight
  <2>4. EntryTrue' /\ Recognised' /\ NotYet'
    BY <1>2, <1>4, <1>5, <1>8, <2>1, <2>2 DEF Inv, EntryTrue, Recognised, InFlight, NotYet
  <2>5. Made'
    BY <1>2, <1>3, <1>5, <1>8, <2>1, <2>2 DEF Made
  <2>6. Once'
    <3>1. Conclusions(me.by) = {} \/ Known(me.by)
      BY <1>1 DEF Inv, Once
    <3>2. \A n \in Ops : Known(n)' = Known(n)
      BY <1>4 DEF Known
    <3>3. \A n \in Ops : Conclusions(n)' = {} \/ Known(n)' \/ \E d \in DOMAIN commits' : Conclusions(n)' = {d}
      BY <1>5, <2>2, <3>1, <3>2 DEF Inv, Once
    <3>4. commits'[tip'].kind = parked'.kind /\ commits'[tip'].of = parked'.of
      BY <1>4, <1>5, <2>1, <2>2
    <3>5. QED
      BY <1>8, <3>3, <3>4 DEF Once
  <2>7. QED
    BY <1>t, <1>6, <2>3, <2>4, <2>5, <2>6 DEF Inv
<1>9. QED
  BY <1>1, <1>7, <1>8

(* The attempt.                                                              *)
LEMMA AttemptStep ==
  ASSUME Inv, Attempt
  PROVE  Inv'
<1>t. TypeOK' /\ TypeOK /\ Numbered /\ InHand
  BY TypeStep DEF Inv, Next
<1>1. /\ pc = "attempt" /\ Carried /\ me'.made = me.made /\ me'.seen = me.seen /\ me'.left = me.left
      /\ \/ /\ Content = Tree(tip) /\ me.kind # "merge" /\ pc' = IF me.door = "start" THEN "unpark" ELSE "exit"
            /\ me'.tree = me.tree
         \/ pc' = "land" /\ me'.parent = tip /\ me'.tree = Content
      /\ UNCHANGED <<files, branch, others, history>>
  BY <1>t, AttemptDoes
<1>2. /\ me.by \in 1..ops /\ me.kind \in Kinds /\ me.of \in Sources /\ ~me.stood /\ (me.door = "start" => ~me.gives)
      /\ parked = Flight(me.kind, me.of, me.by) /\ me.made = 0 /\ ~me.left
  BY <1>1 DEF Inv, InHand
<1>3. /\ me'.by = me.by /\ me'.kind = me.kind /\ me'.of = me.of /\ me'.door = me.door /\ ~me'.stood
      /\ me'.gives = me.gives /\ me'.seen = me.seen /\ ~me'.left /\ me'.made = 0
      /\ me'.choice = me.choice /\ me'.discard = me.discard
  BY <1>1, <1>2 DEF Carried
<1>4. UNCHANGED <<commits, tip, entry, parked, autostash, index, disk, ops, aside, disturbed, unlogged, twins>>
  BY <1>1 DEF files, branch, others, history
<1>5. \A n : Conclusions(n)' = Conclusions(n)
  BY <1>4, ConclusionsKept
<1>6. Seen' /\ InHand'
  BY <1>1, <1>2, <1>3, <1>4 DEF Inv, Seen, InHand
<1>7. Content \subseteq 1..ops /\ index.holds \subseteq Content
  BY <1>t, <1>2 DEF Numbered, Content
<1>8. Numbered' /\ EntryTrue'
  BY <1>1, <1>4, <1>7 DEF Inv, Numbered, EntryTrue, InFlight
<1>9. Recognised' /\ Made'
  BY <1>1, <1>3, <1>4, <1>5 DEF Inv, Recognised, Made, InFlight
<1>10. NotYet'
  <2>1. me.door = "start" => me.by \notin Tree(tip)
    BY <1>t, <1>1, PlacesOK DEF Inv, NotYet, Tree
  <2>2. QED
    BY <1>1, <1>3, <1>4, <1>7, <2>1 DEF Inv, NotYet
<1>11. Once'
  BY <1>1, <1>3, <1>4, <1>5 DEF Inv, Once, Known, InFlight
<1>12. QED
  BY <1>t, <1>6, <1>8, <1>9, <1>10, <1>11 DEF Inv

(* --continue.                                                               *)
LEMMA ContinueStep ==
  ASSUME Inv, Continue
  PROVE  Inv'
<1>t. TypeOK' /\ TypeOK /\ Numbered
  BY TypeStep DEF Inv, Next
<1>1. /\ pc = "idle" /\ pc' = "attempt" /\ InFlight /\ ~AlreadyConcluded
      /\ me'.door = "continue" /\ me'.kind = parked.kind /\ me'.of = parked.of /\ me'.by = parked.by /\ ~me'.stood
      /\ me'.made = 0 /\ ~me'.left /\ me'.tree = {} /\ (me'.seen => disk = "edit")
      /\ me'.choice = "side" => disk # "edit" \/ me'.discard
      /\ UNCHANGED <<files, branch, others, history>>
  BY <1>t, ContinueDoes
<1>2. UNCHANGED <<commits, tip, entry, parked, autostash, index, disk, ops, aside, disturbed, unlogged, twins>>
  BY <1>1 DEF files, branch, others, history
<1>3. \A n : Conclusions(n)' = Conclusions(n)
  BY <1>2, ConclusionsKept
<1>4. parked \in [kind : Kinds, of : Sources, by : Ops] /\ parked.by \in 1..ops
  BY <1>t, <1>1, TypeParts DEF InFlight, Numbered
<1>5. Flight(parked.kind, parked.of, parked.by) = parked
  BY <1>4 DEF Flight
<1>6. Numbered' /\ EntryTrue' /\ NotYet' /\ Seen' /\ Made'
  BY <1>1, <1>2, <1>4 DEF Inv, Numbered, EntryTrue, NotYet, Seen, Made, InFlight
<1>7. InHand'
  BY <1>1, <1>2, <1>4, <1>5 DEF InHand
<1>8. Recognised'
  BY <1>1, <1>2, <1>3 DEF Inv, Recognised, InFlight
<1>9. Conclusions(parked.by) = {} \/ Known(parked.by)
  <2>1. ASSUME tip \in Conclusions(parked.by), commits[tip].kind = parked.kind, commits[tip].of = parked.of,
               entry = [op |-> parked.kind, sha |-> tip, source |-> parked.of]
        PROVE  AlreadyConcluded
    <3>1. tip # 0
      BY <1>t, <2>1, PlacesOK DEF Conclusions
    <3>2. entry.sha = tip /\ entry.op = parked.kind /\ entry.source = parked.of
      BY <2>1
    <3>3. QED
      BY <2>1, <3>1, <3>2 DEF AlreadyConcluded, ConcludesThisState
  <2>2. QED
    BY <1>1, <2>1 DEF Inv, Once
<1>10. Once'
  BY <1>1, <1>2, <1>3, <1>9 DEF Inv, Once, Known, InFlight
<1>11. QED
  BY <1>t, <1>6, <1>7, <1>8, <1>10 DEF Inv

LEMMA FinishStep ==
  ASSUME Inv, FinishWhatCrashed
  PROVE  Inv'
<1>t. TypeOK' /\ TypeOK /\ Numbered
  BY TypeStep DEF Inv, Next
<1>1. /\ pc = "idle" /\ pc' = "clear" /\ InFlight /\ AlreadyConcluded
      /\ me'.door = "continue" /\ me'.kind = parked.kind /\ me'.of = parked.of /\ me'.by = parked.by /\ me'.stood
      /\ me'.made = tip /\ ~me'.left /\ me'.tree = {} /\ (me'.seen => disk = "edit") /\ (disk # "edit" \/ me'.discard)
      /\ UNCHANGED <<files, branch, others, history>>
  BY <1>t, FinishDoes
<1>2. UNCHANGED <<commits, tip, entry, parked, autostash, index, disk, ops, aside, disturbed, unlogged, twins>>
  BY <1>1 DEF files, branch, others, history
<1>3. \A n : Conclusions(n)' = Conclusions(n)
  BY <1>2, ConclusionsKept
<1>4. parked \in [kind : Kinds, of : Sources, by : Ops] /\ parked.by \in 1..ops
  BY <1>t, <1>1, TypeParts DEF InFlight, Numbered
<1>5. Flight(parked.kind, parked.of, parked.by) = parked
  BY <1>4 DEF Flight
<1>6. Numbered' /\ EntryTrue' /\ NotYet' /\ Seen'
  BY <1>1, <1>2, <1>4 DEF Inv, Numbered, EntryTrue, NotYet, Seen, InFlight
<1>7. InHand'
  BY <1>1, <1>2, <1>4, <1>5 DEF InHand
<1>8. Recognised' /\ Once'
  BY <1>1, <1>2, <1>3 DEF Inv, Recognised, Once, Known, InFlight
<1>9. tip # 0 /\ tip \in DOMAIN commits /\ entry.sha = tip /\ entry.op = parked.kind /\ ConcludesThisState(tip)
  BY <1>t, <1>1, AtTip DEF AlreadyConcluded
<1>10. commits[tip].kind = parked.kind /\ (tip \in Conclusions(parked.by) \/ parked.by \in twins)
  <2>1. CASE parked.kind = "merge"
    <3>1. commits[tip].kind = "merge" /\ commits[tip].of = parked.of
      BY <1>9, <2>1 DEF ConcludesThisState
    <3>2. commits[tip].by = parked.by
      BY <1>1, <1>9, <2>1, <3>1 DEF Inv, Recognised
    <3>3. QED
      BY <1>9, <2>1, <3>1, <3>2 DEF Conclusions, Kinds
  <2>2. CASE parked.kind # "merge"
    <3>1. entry.source = parked.of
      BY <1>9, <2>2 DEF ConcludesThisState
    <3>2. entry = [op |-> parked.kind, sha |-> tip, source |-> parked.of]
      BY <1>t, <1>9, <3>1, TypeParts
    <3>3. parked.of # None
      BY <1>4, ConclusionConstants
    <3>4. commits[tip].kind = parked.kind
      BY <1>9, <3>1, <3>3 DEF Inv, EntryTrue
    <3>5. QED
      BY <1>1, <2>2, <3>2, <3>4 DEF Inv, Recognised
  <2>3. QED
    BY <2>1, <2>2
<1>11. Made'
  <2>1. tip \in Conclusions(parked.by) => commits[tip].by = parked.by
    BY DEF Conclusions
  <2>2. QED
    BY <1>1, <1>2, <1>3, <1>9, <1>10, <2>1 DEF Made
<1>12. QED
  BY <1>t, <1>6, <1>7, <1>8, <1>11 DEF Inv

(* The entry in the log.                                                     *)
LEMMA AppendLogStep ==
  ASSUME Inv, AppendLog
  PROVE  Inv'
<1>t. TypeOK' /\ TypeOK /\ Numbered /\ InHand
  BY TypeStep DEF Inv, Next
<1>1. /\ pc = "log" /\ pc' = "clear" /\ Carried /\ Attempts /\ Looked
      /\ \/ entry' = [op |-> me.kind, sha |-> me.made, source |-> me.of] /\ unlogged' = unlogged
         \/ entry' = entry /\ unlogged' = unlogged \cup {me.by}
      /\ index'.holds \in {index.holds, Replay(index.holds, me.parent, tip)}
      /\ UNCHANGED <<parked, autostash, disk, commits, tip, others, aside, disturbed, twins>>
  BY <1>t, AppendLogDoes
<1>2. /\ me.by \in 1..ops /\ me.kind \in Kinds /\ me.of \in Sources
      /\ parked = Flight(me.kind, me.of, me.by) /\ me.made = tip /\ tip \in Conclusions(me.by)
      /\ commits[tip].kind = parked.kind /\ commits[tip].of = parked.of
  BY <1>1 DEF Inv, InHand, Made, Once
<1>3. /\ me'.by = me.by /\ me'.kind = me.kind /\ me'.of = me.of /\ me'.door = me.door /\ me'.stood = me.stood
      /\ me'.gives = me.gives /\ me'.seen = me.seen /\ me'.choice = me.choice /\ me'.discard = me.discard
      /\ me'.made = tip /\ me'.tree = me.tree
  BY <1>1, <1>2 DEF Carried, Attempts, Looked
<1>4. UNCHANGED ops /\ \A n : Conclusions(n)' = Conclusions(n)
  BY <1>1, ConclusionsKept DEF others
<1>5. parked.kind = me.kind /\ parked.of = me.of /\ parked.by = me.by /\ tip \in DOMAIN commits
  BY <1>2 DEF Flight, Conclusions
<1>6. Seen' /\ InHand' /\ NotYet'
  BY <1>1, <1>2, <1>3, <1>4 DEF Inv, Seen, InHand, NotYet
<1>7. Numbered'
  <2>1. Replay(index.holds, me.parent, tip) \subseteq 1..ops
    <3>1. Tree(tip) \subseteq 1..ops /\ index.holds \subseteq 1..ops
      BY <1>t, Fresh, TypeParts DEF Numbered
    <3>2. QED
      BY <3>1 DEF Replay
  <2>2. QED
    BY <1>1, <1>3, <1>4, <2>1 DEF Inv, Numbered, InFlight
<1>8. EntryTrue' /\ Recognised'
  BY <1>1, <1>2, <1>4, <1>5 DEF Inv, EntryTrue, Recognised, InFlight
<1>9. Made'
  BY <1>1, <1>2, <1>3, <1>4, <1>5 DEF Inv, Made
<1>10. Once'
  <2>1. \A n : Known(n) => Known(n)'
    BY <1>1 DEF Known
  <2>2. \/ entry' = [op |-> parked.kind, sha |-> tip, source |-> parked.of]
        \/ Known(parked.by)'
    BY <1>1, <1>2, <1>5 DEF Known
  <2>3. QED
    BY <1>1, <1>2, <1>4, <1>5, <2>1, <2>2 DEF Inv, Once, InFlight
<1>11. QED
  BY <1>t, <1>6, <1>7, <1>8, <1>9, <1>10 DEF Inv

(* The steps around a conclusion: the mark, the way out of an empty one, the *)
(* tail of a fast-forward.                                                   *)
LEMMA AroundStep ==
  ASSUME Inv, MarkPick \/ Unpark \/ Sync \/ Record
  PROVE  Inv'
<1>t. TypeOK' /\ TypeOK /\ Numbered /\ InHand
  BY TypeStep DEF Inv, Next
<1>1. \A c \in Place : Tree(c) \subseteq 1..ops
  BY <1>t, Fresh
<1>2. CASE MarkPick
  <2>1. /\ pc = "mark" /\ pc' \in {"exit", "attempt"} /\ parked' = Flight("cherry-pick", me.of, me.by)
        /\ UNCHANGED <<commits, tip, entry, autostash, index, disk, me, ops, aside, disturbed, unlogged, twins>>
    BY <1>t, <1>2, CommandDoes DEF branch, others, history
  <2>2. /\ me.by \in 1..ops /\ me.kind = "cherry-pick" /\ me.of \in Sources /\ ~me.stood /\ me.door = "start"
        /\ me.made = 0 /\ ~me.left
    BY <2>1 DEF Inv, InHand
  <2>3. parked'.kind = "cherry-pick" /\ parked'.of = me.of /\ parked'.by = me.by
    BY <2>1 DEF Flight
  <2>4. \A n : Conclusions(n)' = Conclusions(n)
    BY <2>1, ConclusionsKept
  <2>5. Numbered' /\ Seen' /\ NotYet' /\ EntryTrue'
    BY <2>1, <2>2, <2>3 DEF Inv, Numbered, Seen, NotYet, EntryTrue, InFlight
  <2>6. InHand'
    BY <2>1, <2>2 DEF Inv, InHand
  <2>7. Recognised' /\ Made'
    BY <2>1, <2>2, <2>3, <2>4 DEF Inv, Recognised, Made, InFlight
  <2>8. Once'
    BY <2>1, <2>2, <2>3, <2>4 DEF Inv, Once, Known, InFlight
  <2>9. QED
    BY <1>t, <2>5, <2>6, <2>7, <2>8 DEF Inv
<1>3. CASE Unpark
  <2>1. /\ pc = "unpark" /\ pc' = "exit" /\ parked' \in {None, parked} /\ index'.holds \in {Tree(tip), index.holds}
        /\ UNCHANGED <<commits, tip, entry, autostash, me, ops, aside, disturbed, unlogged, twins>>
    BY <1>t, <1>3, CommandDoes DEF branch, others, history
  <2>2. \A n : Conclusions(n)' = Conclusions(n)
    BY <2>1, ConclusionsKept
  <2>3. Tree(tip) \subseteq 1..ops
    BY <1>t, <1>1, TypeParts
  <2>4. Numbered' /\ Seen' /\ NotYet' /\ EntryTrue' /\ InHand'
    BY <2>1, <2>3 DEF Inv, Numbered, Seen, NotYet, EntryTrue, InHand, InFlight
  <2>5. Recognised' /\ Made'
    BY <2>1, <2>2 DEF Inv, InHand, Recognised, Made, InFlight
  <2>6. Once'
    BY <2>1, <2>2 DEF Inv, Once, Known, InFlight
  <2>7. QED
    BY <1>t, <2>4, <2>5, <2>6 DEF Inv
<1>4. CASE Sync
  <2>1. /\ pc = "sync" /\ pc' = "record" /\ Carried /\ Attempts /\ Looked
        /\ index'.holds \in {Tree(me.made), index.holds}
        /\ UNCHANGED <<commits, tip, entry, parked, autostash, ops, aside, disturbed, unlogged, twins>>
    BY <1>t, <1>4, CommandDoes DEF branch, others, history
  <2>2. /\ me'.by = me.by /\ me'.kind = me.kind /\ me'.of = me.of /\ me'.door = me.door /\ me'.stood = me.stood
        /\ me'.gives = me.gives /\ me'.seen = me.seen /\ me'.choice = me.choice /\ me'.discard = me.discard
        /\ me'.made = me.made /\ me'.tree = me.tree
    BY <2>1 DEF Carried, Attempts, Looked
  <2>3. \A n : Conclusions(n)' = Conclusions(n)
    BY <2>1, ConclusionsKept
  <2>4. Tree(me.made) \subseteq 1..ops
    BY <1>t, <1>1, TypeParts, RunFields
  <2>5. Numbered' /\ Seen' /\ NotYet' /\ EntryTrue' /\ InHand'
    BY <2>1, <2>2, <2>4 DEF Inv, Numbered, Seen, NotYet, EntryTrue, InHand, InFlight
  <2>6. Recognised' /\ Made'
    BY <2>1, <2>2, <2>3 DEF Inv, InHand, Recognised, Made, InFlight
  <2>7. Once'
    BY <2>1, <2>2, <2>3 DEF Inv, Once, Known, InFlight
  <2>8. QED
    BY <1>t, <2>5, <2>6, <2>7 DEF Inv
<1>5. CASE Record
  <2>1. /\ pc = "record" /\ pc' = "exit"
        /\ entry' = entry \/ entry'.source = None
        /\ unlogged \subseteq unlogged'
        /\ UNCHANGED <<commits, tip, index, parked, autostash, disk, me, ops, aside, disturbed, twins>>
    BY <1>t, <1>5, CommandDoes DEF files, others
  <2>2. \A n : Conclusions(n)' = Conclusions(n)
    BY <2>1, ConclusionsKept
  <2>3. Numbered' /\ Seen' /\ NotYet' /\ EntryTrue' /\ InHand'
    BY <2>1 DEF Inv, Numbered, Seen, NotYet, EntryTrue, InHand, InFlight
  <2>4. parked = None
    BY <2>1 DEF Inv, InHand
  <2>5. Recognised' /\ Made'
    BY <2>1, <2>2, <2>4 DEF Inv, Recognised, Made, InFlight
  <2>6. Once'
    <3>1. \A n : Known(n) => Known(n)'
      BY <2>1 DEF Known
    <3>2. me.made # 0
      BY <2>1 DEF Inv, Made
    <3>3. QED
      BY <2>1, <2>2, <2>4, <3>1, <3>2 DEF Inv, Once, InFlight
  <2>7. QED
    BY <1>t, <2>3, <2>5, <2>6 DEF Inv
<1>6. QED
  BY <1>2, <1>3, <1>4, <1>5

(* A command ends, or dies.                                                  *)
LEMMA EndStep ==
  ASSUME Inv, Exit \/ Crash
  PROVE  Inv'
<1>t. TypeOK' /\ TypeOK /\ Numbered /\ InHand
  BY TypeStep DEF Inv, Next
<1>1. /\ pc' = "idle" /\ me' = NoRun /\ unlogged \subseteq unlogged' /\ (pc = "log" => me.by \in unlogged')
      /\ UNCHANGED <<commits, tip, entry, parked, autostash, index, disk, ops, aside, disturbed, twins>>
  BY <1>t, CommandDoes DEF files, branch, others, history
<1>2. \A n : Conclusions(n)' = Conclusions(n)
  BY <1>1, ConclusionsKept
<1>3. Numbered' /\ Seen' /\ NotYet' /\ EntryTrue' /\ InHand'
  BY <1>1, NoRunDoes DEF Inv, Numbered, Seen, NotYet, EntryTrue, InHand, InFlight
<1>4. Recognised' /\ Made'
  BY <1>1, <1>2 DEF Inv, Recognised, Made, InFlight
<1>5. Once'
  <2>1. \A n : Known(n) => Known(n)'
    BY <1>1 DEF Known
  <2>2. pc = "log" => Known(parked.by)'
    BY <1>1 DEF Inv, InHand, Flight, Known
  <2>3. QED
    BY <1>1, <1>2, <2>1, <2>2 DEF Inv, Once, InFlight
<1>6. QED
  BY <1>t, <1>3, <1>4, <1>5 DEF Inv

(* The aftercare.                                                            *)
LEMMA AftercareStep ==
  ASSUME Inv, Clear \/ Settle \/ Materialize \/ PutBack \/ Drop
  PROVE  Inv'
<1>t. TypeOK' /\ TypeOK /\ Numbered /\ InHand
  BY TypeStep DEF Inv, Next
<1>1. /\ pc \in {"clear", "settle", "write", "apply", "drop"} /\ Carried /\ Attempts /\ Looked
      /\ pc' \in {"settle", "write", "apply", "drop", "exit"} /\ parked' \in {None, parked}
      /\ pc' # "exit" => parked' = None
      /\ pc' = "apply" => OwesWork
      /\ pc' = "drop" => pc = "apply"
      /\ index'.holds \in {index.holds, Edited, Replay(Edited, me.parent, tip)}
      /\ UNCHANGED <<commits, tip, entry, ops, aside, disturbed, unlogged, twins>>
  <2>1. CASE Clear
    BY <1>t, <2>1, AftercareDoes DEF branch, others, history
  <2>2. CASE Settle
    BY <1>t, <2>2, AftercareDoes DEF branch, others, history, Inv, InHand
  <2>3. CASE Materialize
    BY <1>t, <2>3, AftercareDoes DEF branch, others, history, Inv, InHand
  <2>4. CASE PutBack
    BY <1>t, <2>4, AftercareDoes DEF files, branch, others, Inv, InHand
  <2>5. CASE Drop
    BY <1>t, <2>5, AftercareDoes DEF branch, others, history
  <2>6. QED
    BY <2>1, <2>2, <2>3, <2>4, <2>5
<1>2. /\ me'.by = me.by /\ me'.kind = me.kind /\ me'.of = me.of /\ me'.door = me.door /\ me'.stood = me.stood
      /\ me'.gives = me.gives /\ me'.seen = me.seen /\ me'.choice = me.choice /\ me'.discard = me.discard
      /\ me'.made = me.made /\ me'.tree = me.tree /\ me'.stash = me.stash
  BY <1>1 DEF Carried, Attempts, Looked
<1>3. me.by \in 1..ops /\ me.kind \in Kinds /\ me.of \in Sources
  BY <1>1 DEF Inv, InHand
<1>4. \A n : Conclusions(n)' = Conclusions(n)
  BY <1>1, ConclusionsKept
<1>5. Numbered'
  <2>1. \A c \in Place : Tree(c) \subseteq 1..ops
    BY <1>t, Fresh
  <2>2. Edited \subseteq 1..ops
    BY <1>t, <1>3 DEF Numbered, Edited
  <2>3. Replay(Edited, me.parent, tip) \subseteq 1..ops
    BY <1>t, <2>1, <2>2, TypeParts DEF Replay
  <2>4. QED
    BY <1>1, <1>2, <2>2, <2>3 DEF Inv, Numbered, InFlight
<1>6. Seen' /\ NotYet' /\ EntryTrue'
  BY <1>1, <1>2 DEF Inv, Seen, NotYet, EntryTrue
<1>7. InHand'
  BY <1>1, <1>2, <1>3 DEF Inv, InHand, OwesWork
<1>8. Recognised' /\ Made'
  BY <1>1, <1>2, <1>4 DEF Inv, Recognised, Made, InFlight
<1>9. Once'
  <2>1. Made
    BY DEF Inv
  <2>2. me.made # 0
    BY <1>1, <2>1 DEF Made
  <2>3. QED
    BY <1>1, <1>2, <1>4, <2>2 DEF Inv, Once, Known, InFlight
<1>10. QED
  BY <1>t, <1>5, <1>6, <1>7, <1>8, <1>9 DEF Inv

(* The operator, and raw git.                                                *)
LEMMA OperatorStep ==
  ASSUME Inv, NothingToMerge \/ Edit \/ Stage \/ Abandon \/ TakeBack
  PROVE  Inv'
<1>t. TypeOK' /\ TypeOK /\ Numbered /\ InHand
  BY TypeStep DEF Inv, Next
<1>1. CASE Edit
  <2>1. /\ Carried /\ Attempts /\ ~me'.seen /\ pc' = pc
        /\ UNCHANGED <<commits, tip, entry, parked, index, ops, aside, disturbed, unlogged, twins>>
    BY <1>t, <1>1, OthersDo DEF branch, others, history
  <2>2. /\ me'.by = me.by /\ me'.kind = me.kind /\ me'.of = me.of /\ me'.door = me.door /\ me'.stood = me.stood
        /\ me'.gives = me.gives /\ me'.made = me.made /\ me'.tree = me.tree /\ me'.stash = me.stash
    BY <2>1 DEF Carried, Attempts
  <2>3. \A n : Conclusions(n)' = Conclusions(n)
    BY <2>1, ConclusionsKept
  <2>4. Numbered' /\ Seen' /\ NotYet' /\ EntryTrue'
    BY <2>1, <2>2 DEF Inv, Numbered, Seen, NotYet, EntryTrue, InFlight
  <2>5. InHand'
    <3>1. me'.left = me.left
      BY <1>t, <1>1, OthersDo
    <3>2. pc = "idle" => me' = NoRun
      <4>1. [NoRun EXCEPT !.seen = FALSE, !.took = FALSE] = NoRun
        <5>1. NoRun = [f \in DOMAIN NoRun |-> NoRun[f]] /\ NoRun.seen = FALSE /\ NoRun.took = FALSE
          BY DEF NoRun
        <5>2. QED
          BY <5>1
      <4>2. QED
        BY <1>t, <1>1, <4>1 DEF Edit, Know, InHand
    <3>3. QED
      BY <2>1, <2>2, <3>1, <3>2 DEF Inv, InHand
  <2>6. Recognised' /\ Made'
    BY <2>1, <2>2, <2>3 DEF Inv, Recognised, Made, InFlight
  <2>7. Once'
    BY <2>1, <2>2, <2>3 DEF Inv, Once, Known, InFlight
  <2>8. QED
    BY <1>t, <2>4, <2>5, <2>6, <2>7 DEF Inv
<1>2. ASSUME pc = "idle", pc' = pc, me' = me, parked' \in {None, parked},
             entry' = entry \/ (entry'.source = None /\ parked' = None),
             index'.holds \in {index.holds, Tree(tip)} \/ (InFlight /\ index'.holds = index.holds \cup {parked.by}),
             UNCHANGED <<commits, tip, ops, aside, disturbed, unlogged, twins>>
      PROVE  Inv'
  <2>1. \A n : Conclusions(n)' = Conclusions(n)
    BY <1>2, ConclusionsKept
  <2>2. Numbered'
    <3>1. Tree(tip) \subseteq 1..ops
      BY <1>t, Fresh, TypeParts
    <3>2. QED
      BY <1>2, <3>1 DEF Inv, Numbered, InFlight
  <2>3. InHand' /\ Seen' /\ NotYet' /\ EntryTrue'
    BY <1>2 DEF Inv, InHand, Seen, NotYet, EntryTrue
  <2>4. Recognised' /\ Made'
    BY <1>2, <2>1 DEF Inv, Recognised, Made, InFlight
  <2>5. Once'
    BY <1>2, <2>1 DEF Inv, Once, Known, InFlight
  <2>6. QED
    BY <1>t, <2>2, <2>3, <2>4, <2>5 DEF Inv
<1>3. CASE NothingToMerge
  <2>1. /\ pc = "idle" /\ parked = None /\ entry' = [op |-> "merge", sha |-> tip, source |-> None]
        /\ UNCHANGED <<files, commits, tip, command, others, history>>
    BY <1>t, <1>3, OthersDo DEF InFlight
  <2>2. entry'.source = None
    BY <2>1
  <2>3. QED
    BY <1>2, <2>1, <2>2 DEF files, command, others, history
<1>4. CASE Stage
  BY <1>t, <1>2, <1>4, OthersDo DEF branch, command, others, history
<1>5. CASE Abandon
  BY <1>t, <1>2, <1>5, OthersDo DEF branch, command, others
<1>6. CASE TakeBack
  BY <1>t, <1>2, <1>6, OthersDo DEF branch, command, others
<1>7. QED
  BY <1>1, <1>3, <1>4, <1>5, <1>6

(* A merge of raw git's.                                                     *)
LEMMA RawMergeStep ==
  ASSUME Inv, RawMerge
  PROVE  Inv'
<1>t. TypeOK' /\ TypeOK /\ Numbered /\ InHand
  BY TypeStep DEF Inv, Next
<1>1. PICK s \in Sources : ~UpToDate("merge", s) /\ parked' = Flight("merge", s, ops + 1)
  BY <1>t, RawMergeDoes
<1>2. /\ pc = "idle" /\ ops' = ops + 1 /\ index'.holds = Tree(tip) /\ aside' \subseteq aside \cup {ops + 1}
      /\ UNCHANGED <<commits, tip, entry, pc, me, disturbed, unlogged, twins>>
  BY <1>t, RawMergeDoes DEF branch, command
<1>3. /\ ops \in Nat /\ 1..ops \subseteq 1..(ops + 1) /\ ops + 1 \in 1..(ops + 1) /\ Tree(tip) \subseteq 1..ops
      /\ Conclusions(ops + 1) = {}
  BY <1>t, Fresh, TypeParts
<1>4. parked'.kind = "merge" /\ parked'.of = s /\ parked'.by = ops + 1
  BY <1>1 DEF Flight
<1>5. \A n : Conclusions(n)' = Conclusions(n)
  BY <1>2, ConclusionsKept
<1>6. Numbered'
  BY <1>t, <1>2, <1>3, <1>4 DEF Numbered, InFlight
<1>7. InHand' /\ Seen' /\ NotYet' /\ EntryTrue' /\ Made'
  BY <1>2 DEF Inv, InHand, Seen, NotYet, EntryTrue, Made
<1>8. Recognised'
  <2>1. ASSUME tip # 0, commits[tip].kind = "merge", commits[tip].of = s
        PROVE  UpToDate("merge", s)
    BY <1>t, <2>1, AtTip DEF UpToDate
  <2>2. QED
    BY <1>1, <1>2, <1>4, <2>1 DEF Recognised
<1>9. Once'
  BY <1>2, <1>3, <1>4, <1>5 DEF Inv, Once, Known
<1>10. QED
  BY <1>t, <1>6, <1>7, <1>8, <1>9 DEF Inv

(* A commit of somebody else's.                                              *)
LEMMA NewCommitStep ==
  ASSUME Inv, Elsewhere \/ Ordinary
  PROVE  Inv'
<1>t. TypeOK' /\ TypeOK /\ Numbered /\ InHand
  BY TypeStep DEF Inv, Next
<1>1. /\ ops + 1 \in Ops /\ ops' = ops + 1 /\ tip' = Len(commits')
      /\ UNCHANGED <<parked, pc, me, aside, unlogged, twins>> /\ disturbed \subseteq disturbed'
      /\ index'.holds \subseteq index.holds \cup {ops + 1}
      /\ pc = "unpark" => index' = index
      /\ pc \notin {"log", "sync", "record"}
      /\ InFlight => parked.by \in disturbed' /\ entry' = entry
      /\ pc # "idle" => me.by \in disturbed' /\ entry' = entry
      /\ entry' = entry \/ entry'.source = None
  BY <1>t, NewCommitDoes DEF command, InHand
<1>2. PICK c \in Commit : /\ c = [parent |-> tip, kind |-> "commit", of |-> None, by |-> ops + 1,
                                  tree |-> Tree(tip) \cup {ops + 1}]
                          /\ commits' = Append(commits, c)
  BY <1>t, NewCommitDoes
<1>3. c.parent = tip /\ c.kind = "commit" /\ c.by = ops + 1 /\ c.tree = Tree(tip) \cup {ops + 1} /\ tip \in Place
  BY <1>t, <1>2, TypeParts
<1>4. /\ tip' # 0 /\ tip' # entry.sha
      /\ DOMAIN commits' = DOMAIN commits \cup {tip'} /\ commits'[tip'] = c
      /\ \A d \in DOMAIN commits : commits'[d] = commits[d]
      /\ \A n \in Ops : Conclusions(n)' = Conclusions(n)
  <2>1. c.kind \notin Kinds /\ c.parent \in Place
    BY <1>3 DEF Kinds
  <2>2. QED
    BY <1>t, <1>1, <1>2, <2>1, Grown
<1>5. /\ ops \in Nat /\ 1..ops \subseteq 1..(ops + 1) /\ ops + 1 \in 1..(ops + 1) /\ ops + 1 \notin 1..ops
      /\ Tree(tip) \subseteq 1..ops
  BY <1>t, Fresh, TypeParts
<1>6. \A n : Known(n) => Known(n)'
  BY <1>1 DEF Known
<1>7. Numbered'
  BY <1>t, <1>1, <1>3, <1>4, <1>5 DEF Numbered, InFlight
<1>8. InHand' /\ Seen'
  BY <1>1, <1>5 DEF Inv, InHand, Seen
<1>9. NotYet'
  <2>1. pc \in {"mark", "attempt", "land", "unpark"} => me.by \in 1..ops
    BY <1>t DEF InHand
  <2>2. me.door = "start" /\ pc \in {"mark", "attempt", "land", "unpark"} => me.by \notin c.tree /\ me.by # c.by
    BY <1>t, <1>3, <1>5, <2>1, PlacesOK DEF Inv, NotYet, Tree
  <2>3. QED
    BY <1>1, <1>4, <2>2 DEF Inv, NotYet
<1>10. EntryTrue'
  BY <1>1, <1>4 DEF Inv, EntryTrue
<1>11. Recognised'
  <2>1. commits'[tip'].kind # "merge"
    BY <1>3, <1>4
  <2>2. entry' = entry => \A k, s : entry' # [op |-> k, sha |-> tip', source |-> s]
    BY <1>4
  <2>3. QED
    BY <1>1, <2>1, <2>2 DEF Inv, Recognised, InFlight
<1>12. Made'
  <2>1. pc # "idle" => me.by \in Ops
    BY <1>t, TypeParts, RunFields, ConclusionConstants DEF InHand, Ops
  <2>2. QED
    BY <1>1, <1>4, <2>1 DEF Inv, Made
<1>13. Once'
  <2>1. \A n \in Ops : Conclusions(n)' = {} \/ Known(n)' \/ \E d \in DOMAIN commits' : Conclusions(n)' = {d}
    BY <1>4, <1>6 DEF Inv, Once
  <2>2. InFlight => Known(parked.by)'
    BY <1>1 DEF Known
  <2>3. pc # "idle" => Known(me.by)'
    BY <1>1 DEF Known
  <2>4. QED
    BY <1>1, <2>1, <2>2, <2>3 DEF Once, InFlight
<1>14. QED
  BY <1>t, <1>7, <1>8, <1>9, <1>10, <1>11, <1>12, <1>13 DEF Inv

LEMMA UndoStep ==
  ASSUME Inv, UndoTip
  PROVE  Inv'
<1>t. TypeOK' /\ TypeOK /\ Numbered /\ InHand
  BY TypeStep DEF Inv, Next
<1>1. /\ pc = "idle" /\ parked = None /\ tip' = Parent(tip)
      /\ entry' = [op |-> "undo", sha |-> tip', source |-> None]
      /\ index'.holds = Replay(index.holds, tip, tip')
      /\ UNCHANGED <<commits, parked, pc, me, ops, aside, disturbed, unlogged, twins>>
  BY <1>t, UndoDoes DEF InFlight, command, others, history
<1>2. entry'.source = None
  BY <1>1
<1>3. \A n : Conclusions(n)' = Conclusions(n)
  BY <1>1, ConclusionsKept
<1>4. Numbered'
  <2>1. Parent(tip) \in Place
    BY <1>t, TypeParts, PlacesOK DEF Parent, Place
  <2>2. Tree(tip') \subseteq 1..ops
    BY <1>t, <1>1, <2>1, Fresh
  <2>3. Replay(index.holds, tip, tip') \subseteq 1..ops
    BY <1>t, <2>2 DEF Replay, Numbered
  <2>4. QED
    BY <1>1, <2>3 DEF Inv, Numbered, InFlight
<1>5. InHand' /\ Seen' /\ NotYet' /\ EntryTrue'
  BY <1>1, <1>2 DEF Inv, InHand, Seen, NotYet, EntryTrue
<1>6. Recognised' /\ Made' /\ Once'
  BY <1>1, <1>3 DEF Inv, Recognised, Made, Once, Known, InFlight
<1>7. QED
  BY <1>t, <1>4, <1>5, <1>6 DEF Inv

LEMMA InvStep == Inv /\ [Next]_vars => Inv'
<1> SUFFICES ASSUME Inv, [Next]_vars
             PROVE  Inv'
  OBVIOUS
<1>1. CASE Next
  <2>1. CASE Starts
    BY <2>1, StartStep
  <2>2. CASE FastForward \/ Land \/ Attempt \/ Continue \/ FinishWhatCrashed \/ AppendLog
    BY <2>2, FastForwardStep, LandStep, AttemptStep, ContinueStep, FinishStep, AppendLogStep
  <2>3. CASE MarkPick \/ Unpark \/ Sync \/ Record \/ Exit \/ Crash
    BY <2>3, AroundStep, EndStep
  <2>4. CASE Clear \/ Settle \/ Materialize \/ PutBack \/ Drop
    BY <2>4, AftercareStep
  <2>5. CASE NothingToMerge \/ Edit \/ Stage \/ Abandon \/ TakeBack \/ RawMerge
    BY <2>5, OperatorStep, RawMergeStep
  <2>6. CASE Elsewhere \/ Ordinary \/ UndoTip
    BY <2>6, NewCommitStep, UndoStep
  <2>7. QED
    BY <1>1, <2>1, <2>2, <2>3, <2>4, <2>5, <2>6 DEF Next, Starts
<1>2. CASE UNCHANGED vars
  <2>1. TypeOK'
    BY <1>2, TypeStep DEF Inv
  <2>2. UNCHANGED <<commits, tip, entry, parked, index, pc, me, ops, aside, disturbed, unlogged, twins>>
    BY <1>2 DEF vars, files, branch, command, others, history
  <2>3. \A n : Conclusions(n)' = Conclusions(n)
    BY <2>2, ConclusionsKept
  <2>4. Numbered' /\ InHand' /\ Seen' /\ NotYet' /\ EntryTrue'
    BY <2>2 DEF Inv, Numbered, InHand, Seen, NotYet, EntryTrue, InFlight
  <2>5. Recognised' /\ Made' /\ Once'
    BY <2>2, <2>3 DEF Inv, Recognised, Made, Once, Known, InFlight
  <2>6. QED
    BY <2>1, <2>4, <2>5 DEF Inv
<1>3. QED
  BY <1>1, <1>2

LEMMA InvAlways == Spec => []Inv
<1>1. Init => Inv
  BY InvInit
<1>2. Inv /\ [Next]_vars => Inv'
  BY InvStep
<1>3. QED
  BY <1>1, <1>2, PTL DEF Spec

(* The state stays well-formed: a commit's first parent is older than it,    *)
(* and MERGE_AUTOSTASH names work that was set aside.                        *)
THEOREM TypeCorrect == Spec => []TypeOK
<1>1. Inv => TypeOK
  BY DEF Inv
<1>2. QED
  BY <1>1, InvAlways, PTL

(* An operation is concluded by one commit, however often its conclusion is  *)
(* killed and run again (alreadyConcluded, runContinue) -- unless the commit *)
(* is not in the log, or somebody else moved the branch.                     *)
THEOREM ConcludedOnce == Spec => []OneConclusion
<1>1. Inv => OneConclusion
  <2> SUFFICES ASSUME Inv, NEW n \in Ops, Cardinality(Conclusions(n)) > 1
               PROVE  n \in disturbed \cup unlogged
    BY DEF OneConclusion
  <2>1. Conclusions(n) # {}
    BY FS_EmptySet
  <2>2. \A c : Conclusions(n) # {c}
    BY FS_Singleton
  <2>3. QED
    BY <2>1, <2>2 DEF Inv, Once, Known
<1>2. QED
  BY <1>1, InvAlways, PTL

(* The state files of an operation in flight go only with its commit, or     *)
(* because it turned out empty, or was abandoned (Cleanup, cleanEmptyPark).  *)
THEOREM NoneSwallowed == Spec => NothingSwallowed
<1> DEFINE Gone == (InFlight /\ parked' # parked)
                     => \/ Conclusions(parked.by) # {} \/ parked.by \in twins
                        \/ Unpark /\ parked.by \notin index.holds
                        \/ Abandon
<1>1. Inv /\ [Next]_vars => [Gone]_vars
  <2> SUFFICES ASSUME Inv, Next, InFlight, parked' # parked
               PROVE  \/ Conclusions(parked.by) # {} \/ parked.by \in twins
                      \/ Unpark /\ parked.by \notin index.holds
                      \/ Abandon
    OBVIOUS
  <2>t. TypeOK /\ Numbered /\ InHand /\ NotYet /\ Made
    BY DEF Inv
  <2>1. ~(NothingToMerge \/ Sync \/ Record \/ Exit \/ Crash \/ Edit \/ Stage \/ TakeBack)
    BY <2>t, CommandDoes, OthersDo DEF files
  <2>2. ~Starts /\ ~RawMerge
    BY <2>t, StartsDo, RawMergeDoes DEF MayCompute
  <2>3. ~(FastForward \/ Land \/ Attempt \/ Continue \/ FinishWhatCrashed \/ AppendLog)
    BY <2>t, FastForwardDoes, LandDoes, AttemptDoes, ContinueDoes, FinishDoes, AppendLogDoes DEF files
  <2>4. ~(Settle \/ Materialize \/ PutBack)
    BY <2>t, AftercareDoes DEF files
  <2>5. ~(Elsewhere \/ Ordinary \/ UndoTip)
    BY <2>t, NewCommitDoes, UndoDoes
  <2>6. ~MarkPick /\ ~Drop
    BY <2>t, CommandDoes, AftercareDoes DEF InHand, InFlight
  <2>7. CASE Unpark
    <3>1. pc = "unpark" /\ parked.by = me.by
      BY <2>t, <2>7, CommandDoes DEF InHand, Flight
    <3>2. QED
      BY <2>t, <2>7, <3>1 DEF NotYet, InHand
  <2>8. CASE Clear
    <3>1. pc = "clear" /\ parked.by = me.by
      BY <2>t, <2>8, AftercareDoes DEF InHand, Flight
    <3>2. QED
      BY <2>t, <3>1 DEF Made
  <2>9. QED
    BY <2>1, <2>2, <2>3, <2>4, <2>5, <2>6, <2>7, <2>8 DEF Next, Starts
<1>2. QED
  BY <1>1, InvAlways, PTL DEF Spec, NothingSwallowed

(* An edit that was on disk when a command began is overwritten by it only   *)
(* when its loss was elected, or after the command has committed it          *)
(* (refuseWorktreeOverwrite, refuseCrashWorktreeOverwrite).                  *)
THEOREM EditsStay == Spec => EditsKept
<1> DEFINE Kept == (disk = "edit" /\ me.seen /\ disk' # "edit") => (me.discard \/ disk' = "recorded")
<1>1. Inv /\ [Next]_vars => [Kept]_vars
  <2> SUFFICES ASSUME Inv, Next, disk = "edit", me.seen, disk' # "edit"
               PROVE  me.discard \/ disk' = "recorded"
    OBVIOUS
  <2>t. TypeOK /\ Numbered /\ InHand /\ Seen
    BY DEF Inv
  <2>1. pc # "idle"
    BY <2>t, NoRunDoes DEF InHand
  <2>2. me.door = "continue" /\ (me.stood \/ me.choice = "side" => me.discard)
    BY <2>t DEF Seen
  <2>3. ~(NothingToMerge \/ Edit \/ Stage \/ Abandon \/ TakeBack \/ MarkPick \/ Exit \/ Crash \/ Record)
    BY <2>t, <2>1, OthersDo, CommandDoes DEF files
  <2>4. ~Starts /\ ~RawMerge /\ ~(Elsewhere \/ Ordinary \/ UndoTip)
    BY <2>t, <2>1, StartsDo, RawMergeDoes, NewCommitDoes, UndoDoes DEF MayCompute
  <2>5. ~(FastForward \/ Attempt \/ Continue \/ FinishWhatCrashed \/ AppendLog)
    BY <2>t, FastForwardDoes, AttemptDoes, ContinueDoes, FinishDoes, AppendLogDoes DEF files
  <2>6. ~(Clear \/ Settle \/ PutBack \/ Drop)
    BY <2>t, AftercareDoes DEF files
  <2>7. ~Sync /\ ~Unpark
    BY <2>t, <2>2, CommandDoes DEF InHand
  <2>8. CASE Land
    BY <2>t, <2>8, LandDoes
  <2>9. CASE Materialize
    <3>1. disk' = Written
      BY <2>t, <2>9, AftercareDoes
    <3>2. QED
      BY <2>2, <3>1 DEF Written
  <2>10. QED
    BY <2>3, <2>4, <2>5, <2>6, <2>7, <2>8, <2>9 DEF Next, Starts
<1>2. QED
  BY <1>1, InvAlways, PTL DEF Spec, EditsKept

---------------------------------------------------------------------------
(* What a report rests on is kept.                                           *)

(* ReconcileMainIndex, where nothing but n tells the index and both trees    *)
(* apart: nor does it afterwards, and n is kept where both ends have it.     *)
LEMMA ReplaySame ==
  ASSUME NEW n, NEW held, NEW from, NEW to, Same(n, held, Tree(to)), Same(n, Tree(from), Tree(to))
  PROVE  /\ Same(n, Replay(held, from, to), Tree(to))
         /\ n \in held /\ n \in Tree(to) => n \in Replay(held, from, to)
         /\ n \in Replay(held, from, to) => n \in held \/ n \in Tree(to)
BY DEF Same, Replay

(* The operation of a command between its mark and its aftercare is in       *)
(* flight.                                                                   *)
LEMMA OwnInFlight ==
  ASSUME TypeOK, InHand, pc \in {"attempt", "land", "log", "clear", "unpark"}
  PROVE  InFlight /\ parked.by = me.by /\ parked.kind = me.kind /\ parked.of = me.of
<1>1. parked = Flight(me.kind, me.of, me.by) /\ me.kind \in Kinds /\ me.of \in Sources /\ me.by \in 1..ops
  BY DEF InHand
<1>2. ops \in Nat
  BY TypeParts, ConclusionConstants
<1>3. Flight(me.kind, me.of, me.by) \in [kind : {"merge", "cherry-pick", "revert"}, of : Sources, by : Nat]
  BY <1>1, <1>2 DEF Flight, Kinds
<1>4. QED
  BY <1>1, <1>3, ConclusionConstants DEF InFlight, Flight

(* Agree, for the steps that move neither the branch nor what is in flight.  *)
LEMMA AgreeKept ==
  ASSUME Agree, UNCHANGED <<commits, tip, disturbed>>,
         parked' = None \/ (parked' = parked /\ index' = index),
         pc' = "mark" => pc = "mark" /\ me'.by = me.by /\ index' = index
  PROVE  Agree'
<1>1. \A n : Conclusions(n)' = Conclusions(n) /\ \A d : Tree(d)' = Tree(d)
  BY ConclusionsKept
<1>2. /\ InFlight' => InFlight /\ parked' = parked /\ index' = index
      /\ \A n : Untouched(n)' = Untouched(n)
  BY DEF InFlight, Untouched
<1>3. Tree(tip)' = Tree(tip)
  BY DEF Tree
<1>4. QED
  BY <1>1, <1>2, <1>3 DEF Agree

LEMMA AgreeOfNone ==
  ASSUME parked' = None, pc' # "mark"
  PROVE  Agree'
BY DEF Agree, InFlight

(* Agree, for the steps of an operation that is in flight.                   *)
LEMMA AgreeStarts ==
  ASSUME Inv, Starts \/ RawMerge
  PROVE  Agree'
<1>t. TypeOK /\ Numbered
  BY DEF Inv
<1>1. /\ parked = None /\ UNCHANGED <<commits, tip, disturbed>>
      /\ \/ parked' = None /\ pc' # "mark"
         \/ /\ \E outcome \in Outcomes : Computed(ops + 1, outcome)
            /\ parked' # None => parked'.by = ops + 1
            /\ pc' = "mark" => me'.by = ops + 1
  <2>1. CASE Starts
    <3>1. PICK kind \in Kinds, s \in Sources, to \in {"forward", "exit", "attempt", "mark"} :
             /\ MayCompute /\ Begun(kind, s, to)
             /\ \/ to = "forward" /\ kind = "merge" /\ UNCHANGED <<parked, index, disk>>
                \/ /\ to = "mark" /\ kind = "cherry-pick" /\ parked' = parked
                   /\ \E outcome \in Outcomes : Computed(ops + 1, outcome)
                \/ /\ to \in {"exit", "attempt"} /\ parked' = Flight(kind, s, ops + 1)
                   /\ \E outcome \in Outcomes : Computed(ops + 1, outcome)
      BY <1>t, <2>1, StartsDo
    <3>2. pc' = to /\ me'.by = ops + 1 /\ UNCHANGED <<commits, tip, disturbed>>
      BY <1>t, <3>1, Begins
    <3>3. parked = None
      BY <3>1 DEF MayCompute, InFlight
    <3>4. parked' = Flight(kind, s, ops + 1) => parked'.by = ops + 1
      BY DEF Flight
    <3>5. QED
      BY <3>1, <3>2, <3>3, <3>4
  <2>2. CASE RawMerge
    <3>1. Computed(ops + 1, "conflict") /\ pc = "idle" /\ parked = None
      BY <2>2 DEF RawMerge, InFlight
    <3>2. UNCHANGED <<commits, tip, disturbed, pc>> /\ \E s \in Sources : parked' = Flight("merge", s, ops + 1)
      BY <1>t, <2>2, RawMergeDoes DEF branch, command
    <3>3. parked'.by = ops + 1
      BY <3>2 DEF Flight
    <3>4. QED
      BY <3>1, <3>2, <3>3 DEF Outcomes
  <2>3. QED
    BY <2>1, <2>2
<1>2. /\ \A n : Conclusions(n)' = Conclusions(n) /\ \A d : Tree(d)' = Tree(d)
      /\ Tree(tip)' = Tree(tip)
  BY <1>1, ConclusionsKept DEF Tree
<1>3. Conclusions(ops + 1) = {} /\ \A c \in DOMAIN commits : ops + 1 \notin commits[c].tree
  BY <1>t, Fresh
<1>4. CASE parked' = None /\ pc' # "mark"
  BY <1>4, AgreeOfNone
<1>5. ASSUME NEW outcome \in Outcomes, Computed(ops + 1, outcome),
             parked' # None => parked'.by = ops + 1, pc' = "mark" => me'.by = ops + 1
      PROVE  Agree'
  <2>1. Same(ops + 1, index'.holds, Tree(tip))
    BY <1>5, ComputedDoes DEF Same, Outcomes
  <2>2. QED
    BY <1>1, <1>2, <1>3, <1>5, <2>1 DEF Agree, InFlight
<1>6. QED
  BY <1>1, <1>4, <1>5

LEMMA AgreeMark ==
  ASSUME Inv, Agree, MarkPick
  PROVE  Agree'
<1>t. TypeOK /\ NotYet /\ InHand
  BY DEF Inv
<1>1. /\ pc = "mark" /\ pc' \in {"exit", "attempt"} /\ parked' = Flight("cherry-pick", me.of, me.by)
      /\ UNCHANGED <<commits, tip, index, me, disturbed>>
  BY <1>t, CommandDoes DEF branch, others, history
<1>2. parked'.by = me.by
  BY <1>1 DEF Flight
<1>3. \A n : Conclusions(n)' = Conclusions(n) /\ (\A d : Tree(d)' = Tree(d)) /\ Tree(tip)' = Tree(tip)
  BY <1>1, ConclusionsKept DEF Tree
<1>4. Conclusions(me.by) = {}
  BY <1>t, <1>1 DEF NotYet, InHand, Conclusions
<1>5. QED
  BY <1>1, <1>2, <1>3, <1>4 DEF Agree, Untouched

LEMMA AgreeUnpark ==
  ASSUME Inv, Agree, Unpark
  PROVE  Agree'
<1>t. TypeOK /\ NotYet /\ InHand
  BY DEF Inv
<1>1. /\ pc = "unpark" /\ pc' = "exit" /\ parked' \in {None, parked}
      /\ index'.holds \in {Tree(tip), index.holds}
      /\ UNCHANGED <<commits, tip, me, disturbed>>
  BY <1>t, CommandDoes DEF branch, others, history
<1>2. parked.by = me.by /\ \A c \in DOMAIN commits : me.by \notin commits[c].tree
  BY <1>t, <1>1 DEF NotYet, InHand, Flight
<1>3. \A n : Conclusions(n)' = Conclusions(n) /\ (\A d : Tree(d)' = Tree(d)) /\ Tree(tip)' = Tree(tip)
  BY <1>1, ConclusionsKept DEF Tree
<1>4. QED
  BY <1>1, <1>2, <1>3 DEF Agree, Untouched, InFlight, Same

LEMMA AgreeStage ==
  ASSUME Inv, Agree, Stage
  PROVE  Agree'
<1>t. TypeOK /\ InHand
  BY DEF Inv
<1>1. /\ pc = "idle" /\ index'.holds = index.holds \cup {parked.by}
      /\ UNCHANGED <<commits, tip, pc, parked, disturbed>>
  BY <1>t, OthersDo DEF branch, command, others, history
<1>2. \A n : Conclusions(n)' = Conclusions(n) /\ (\A d : Tree(d)' = Tree(d)) /\ Tree(tip)' = Tree(tip)
  BY <1>1, ConclusionsKept DEF Tree
<1>3. QED
  BY <1>1, <1>2 DEF Agree, Untouched, InFlight, Same

LEMMA AgreeNewCommit ==
  ASSUME Inv, Agree, Elsewhere \/ Ordinary
  PROVE  Agree'
<1>t. TypeOK /\ InHand /\ Numbered
  BY DEF Inv
<1>1. /\ UNCHANGED <<parked, pc, me>> /\ (InFlight => parked.by \in disturbed') /\ (pc # "idle" => me.by \in disturbed')
  BY <1>t, NewCommitDoes DEF command
<1>2. QED
  BY <1>1 DEF Agree, Untouched, InFlight

LEMMA AgreeLand ==
  ASSUME Inv, Agree, Attempted, Land
  PROVE  Agree'
<1>t. TypeOK /\ Numbered /\ InHand
  BY DEF Inv
<1>1. /\ pc = "land" /\ UNCHANGED <<parked, index, disturbed>>
      /\ \/ pc' \in {"attempt", "exit"} /\ UNCHANGED <<commits, tip>>
         \/ /\ pc' = "log" /\ tip' = Len(commits')
            /\ \E c \in Commit : /\ c = [parent |-> tip, kind |-> me.kind, of |-> me.of, by |-> me.by,
                                         tree |-> me.tree]
                                 /\ commits' = Append(commits, c)
  BY <1>t, LandDoes DEF history
<1>2. CASE pc' \in {"attempt", "exit"} /\ UNCHANGED <<commits, tip>>
  BY <1>1, <1>2, AgreeKept
<1>3. ASSUME pc' = "log", tip' = Len(commits'), NEW c \in Commit,
             c = [parent |-> tip, kind |-> me.kind, of |-> me.of, by |-> me.by, tree |-> me.tree],
             commits' = Append(commits, c), NEW t, t = tip', NEW n, n = me.by
      PROVE  Agree'
  <2>1. c.parent = tip /\ c.kind = me.kind /\ c.by = n /\ c.tree = me.tree /\ tip \in Place
    BY <1>t, <1>3, TypeParts
  <2>2. parked.by = n /\ me.kind \in Kinds /\ n \in Ops
    BY <1>t, <1>1, <1>3, TypeParts, ConclusionConstants DEF InHand, Flight, Ops
  <2>3. /\ DOMAIN commits' = DOMAIN commits \cup {t} /\ commits'[t] = c
        /\ \A d \in DOMAIN commits : commits'[d] = commits[d]
        /\ Conclusions(n)' = Conclusions(n) \cup {t}
        /\ Tree(t)' = c.tree
        /\ \A d \in Place : Tree(d)' = Tree(d)
    BY <1>t, <1>3, <2>1, <2>2, Grown
  <2>4. ASSUME n \notin disturbed
        PROVE  /\ Same(n, index.holds, Tree(tip)) /\ Same(n, me.tree, Tree(tip))
               /\ n \in me.tree => index.unmerged \/ n \in index.holds
               /\ ~index.unmerged /\ n \notin index.holds => \A d \in DOMAIN commits : n \notin commits[d].tree
               /\ \A d \in Conclusions(n) : Same(n, commits[d].tree, Tree(commits[d].parent))
    <3>1. InFlight
      BY <1>t, <1>1, OwnInFlight
    <3>2. QED
      BY <1>1, <1>3, <2>2, <2>4, <3>1 DEF Agree, Attempted, Untouched
  <2>5. SUFFICES ASSUME n \notin disturbed
                 PROVE  /\ Same(n, index.holds, c.tree)
                        /\ ~index.unmerged /\ n \notin index.holds => \A d \in DOMAIN commits' : n \notin commits'[d].tree
                        /\ \A d \in Conclusions(n) \cup {t} : \A p : p = commits'[d].parent => Same(n, commits'[d].tree, Tree(p)')
    <3>1. parked'.by = n /\ index' = index /\ tip' = t /\ disturbed' = disturbed /\ pc' # "mark"
      BY <1>1, <1>3, <2>2
    <3>2. Tree(tip)' = c.tree /\ Conclusions(parked.by)' = Conclusions(n) \cup {t}
      BY <2>3, <3>1
    <3>3. QED
      BY <3>1, <3>2 DEF Agree, Untouched
  <2>6. Same(n, index.holds, c.tree)
    BY <2>1, <2>4, <2>5 DEF Same
  <2>7. ~index.unmerged /\ n \notin index.holds => \A d \in DOMAIN commits' : n \notin commits'[d].tree
    BY <2>1, <2>3, <2>4, <2>5
  <2>8. ASSUME NEW d \in Conclusions(n), NEW p, p = commits'[d].parent
        PROVE  Same(n, commits'[d].tree, Tree(p)')
    <3>1. d \in DOMAIN commits /\ commits[d].parent \in Place
      BY <1>t, PlacesOK DEF Conclusions
    <3>2. QED
      BY <2>3, <2>4, <2>5, <2>8, <3>1
  <2>9. \A p : p = commits'[t].parent => Same(n, commits'[t].tree, Tree(p)')
    BY <2>1, <2>3, <2>4, <2>5 DEF Same
  <2>10. QED
    BY <2>6, <2>7, <2>8, <2>9
<1>4. QED
  BY <1>1, <1>2, <1>3

LEMMA AgreeAppendLog ==
  ASSUME Inv, Agree, Attempted, Concluding, AppendLog
  PROVE  Agree' /\ Concluding'
<1>t. TypeOK /\ InHand /\ Made
  BY DEF Inv
<1>1. /\ pc = "log" /\ pc' = "clear" /\ Carried /\ Attempts
      /\ index'.unmerged = index.unmerged
      /\ index'.holds \in {index.holds, Replay(index.holds, me.parent, tip)}
      /\ UNCHANGED <<parked, commits, tip, disturbed, twins>>
  BY <1>t, AppendLogDoes
<1>2. me'.by = me.by /\ me'.parent = me.parent /\ me'.made = me.made /\ me'.stood = me.stood /\ ~me.stood
  BY <1>t, <1>1 DEF Carried, Attempts, InHand
<1>3. InFlight /\ parked.by = me.by
  BY <1>t, <1>1, OwnInFlight
<1>4. \A n : Conclusions(n)' = Conclusions(n) /\ (\A d : Tree(d)' = Tree(d)) /\ Tree(tip)' = Tree(tip)
         /\ Tree(me.parent)' = Tree(me.parent)
  BY <1>1, <1>2, ConclusionsKept DEF Tree
<1>5. ASSUME NEW n, n = me.by, n \notin disturbed
      PROVE  /\ Same(n, index.holds, Tree(tip)) /\ Same(n, Tree(me.parent), Tree(tip)) /\ me.made = tip
             /\ n \in Tree(tip) => index.unmerged \/ n \in index.holds
             /\ n \in index.holds => n \in Tree(tip)
             /\ ~index.unmerged /\ n \notin index.holds => \A d \in DOMAIN commits : n \notin commits[d].tree
  BY <1>1, <1>2, <1>3, <1>5 DEF Agree, Concluding, Untouched
<1>6. ASSUME NEW n, n = me.by, n \notin disturbed
      PROVE  /\ Same(n, index'.holds, Tree(tip))
             /\ n \in index.holds => n \in index'.holds
             /\ n \in index'.holds => n \in Tree(tip)
  <2>1. /\ Same(n, index.holds, Tree(tip)) /\ Same(n, Tree(me.parent), Tree(tip))
        /\ n \in index.holds => n \in Tree(tip)
    BY <1>5, <1>6
  <2>2. /\ Same(n, Replay(index.holds, me.parent, tip), Tree(tip))
        /\ n \in index.holds /\ n \in Tree(tip) => n \in Replay(index.holds, me.parent, tip)
        /\ n \in Replay(index.holds, me.parent, tip) => n \in index.holds \/ n \in Tree(tip)
    BY <2>1, ReplaySame
  <2>3. QED
    BY <1>1, <2>1, <2>2
<1>7. Agree'
  <2>1. ASSUME NEW n, n = me.by, n \notin disturbed
        PROVE  /\ Same(n, index'.holds, Tree(tip))
               /\ ~index'.unmerged /\ n \notin index'.holds => \A d \in DOMAIN commits : n \notin commits[d].tree
               /\ \A c \in Conclusions(n) : Same(n, commits[c].tree, Tree(commits[c].parent))
    BY <1>1, <1>3, <1>5, <1>6, <2>1 DEF Agree, Untouched
  <2>2. QED
    BY <1>1, <1>2, <1>3, <1>4, <2>1 DEF Agree, Untouched
<1>8. Concluding'
  <2>1. ASSUME NEW n, n = me.by, n \notin disturbed
        PROVE  /\ me.made = tip /\ Same(n, index'.holds, Tree(tip)) /\ Same(n, Tree(me.parent), Tree(tip))
               /\ n \in Tree(tip) => index'.unmerged \/ n \in index'.holds
               /\ n \in index'.holds => n \in Tree(tip)
    BY <1>1, <1>5, <1>6, <2>1
  <2>2. QED
    BY <1>1, <1>2, <1>4, <2>1 DEF Concluding, Untouched
<1>9. QED
  BY <1>7, <1>8

(* A conclusion's attempt.                                                   *)
LEMMA ReportAttempt ==
  ASSUME Inv, ReportInv, Attempt
  PROVE  ReportInv'
<1>t. TypeOK /\ InHand
  BY DEF Inv
<1>1. /\ pc = "attempt" /\ Carried /\ me'.made = me.made
      /\ \/ pc' \in {"unpark", "exit"}
         \/ pc' = "land" /\ me'.parent = tip /\ me'.tree = Content
      /\ UNCHANGED <<commits, tip, parked, autostash, index, disk, disturbed, twins>>
  BY <1>t, AttemptDoes DEF files, branch, history
<1>2. me'.by = me.by /\ me.made = 0 /\ me'.stash = me.stash /\ InFlight /\ parked.by = me.by
  BY <1>t, <1>1, OwnInFlight DEF Carried, InHand
<1>3. Agree'
  BY <1>1, AgreeKept DEF ReportInv
<1>4. Attempted'
  <2>1. ASSUME NEW n, n = me.by, n \notin disturbed
        PROVE  /\ Same(n, Content, Tree(tip)) /\ index.holds \subseteq Content
               /\ n \in Content => index.unmerged \/ n \in index.holds
    <3>1. Same(n, index.holds, Tree(tip))
      BY <1>2, <2>1 DEF ReportInv, Agree, Untouched
    <3>2. QED
      BY <2>1, <3>1 DEF Content, Same
  <2>2. UNCHANGED Tree(tip)
    BY <1>1 DEF Tree
  <2>3. QED
    BY <1>1, <1>2, <2>1, <2>2 DEF Attempted, Untouched
<1>5. Concluding' /\ Finishing'
  BY <1>1, <1>2 DEF ReportInv, Concluding, Finishing
<1>6. QED
  BY <1>3, <1>4, <1>5 DEF ReportInv

LEMMA ReportLand ==
  ASSUME Inv, ReportInv, Land
  PROVE  ReportInv'
<1>t. TypeOK /\ Numbered /\ InHand
  BY DEF Inv
<1>1. /\ pc = "land" /\ Carried /\ me'.parent = me.parent
      /\ UNCHANGED <<parked, autostash, index, disturbed, twins>>
      /\ \/ /\ pc' \in {"attempt", "exit"} /\ me'.made = me.made /\ me'.tree = me.tree
            /\ UNCHANGED <<commits, tip>>
         \/ /\ pc' = "log" /\ me'.made = tip' /\ tip' = Len(commits') /\ tip = me.parent
            /\ \E c \in Commit : /\ c = [parent |-> tip, kind |-> me.kind, of |-> me.of, by |-> me.by,
                                         tree |-> me.tree]
                                 /\ commits' = Append(commits, c)
  BY <1>t, LandDoes DEF history
<1>2. me'.by = me.by /\ me.made = 0 /\ me'.stash = me.stash /\ InFlight /\ parked.by = me.by
  BY <1>t, <1>1, OwnInFlight DEF Carried, InHand
<1>3. Agree'
  BY AgreeLand DEF ReportInv
<1>4. Finishing'
  BY <1>1, <1>2 DEF ReportInv, Finishing
<1>5. CASE pc' \in {"attempt", "exit"} /\ me'.made = me.made /\ UNCHANGED <<commits, tip>>
  BY <1>2, <1>3, <1>4, <1>5 DEF ReportInv, Attempted, Concluding
<1>6. ASSUME pc' = "log", me'.made = tip', tip' = Len(commits'), tip = me.parent, NEW c \in Commit,
             c = [parent |-> tip, kind |-> me.kind, of |-> me.of, by |-> me.by, tree |-> me.tree],
             commits' = Append(commits, c), NEW t, t = tip', NEW p, p = tip, NEW n, n = me.by
      PROVE  Attempted' /\ Concluding'
  <2>1. c.parent = p /\ c.tree = me.tree /\ p \in Place
    BY <1>t, <1>6, TypeParts
  <2>2. commits'[t] = c /\ Tree(t)' = c.tree /\ Tree(p)' = Tree(p)
    BY <1>t, <1>6, <2>1, Grown
  <2>3. Attempted'
    BY <1>1, <1>6, <2>1, <2>2 DEF Attempted
  <2>4. ASSUME n \notin disturbed
        PROVE  /\ Same(n, index.holds, me.tree) /\ Same(n, Tree(p), me.tree)
               /\ n \in me.tree => index.unmerged \/ n \in index.holds
               /\ n \in index.holds => n \in me.tree
    <3>1. /\ Same(n, index.holds, Tree(tip)) /\ Same(n, me.tree, Tree(tip)) /\ index.holds \subseteq me.tree
          /\ n \in me.tree => index.unmerged \/ n \in index.holds
      BY <1>1, <1>2, <1>6, <2>4 DEF ReportInv, Agree, Attempted, Untouched
    <3>2. QED
      BY <1>6, <3>1 DEF Same
  <2>5. Tree(tip)' = me.tree /\ Tree(me.parent)' = Tree(p)
    BY <1>1, <1>6, <2>1, <2>2
  <2>6. Concluding'
    BY <1>1, <1>2, <1>6, <2>4, <2>5 DEF Concluding, Untouched
  <2>7. QED
    BY <2>3, <2>6
<1>7. QED
  BY <1>1, <1>3, <1>4, <1>5, <1>6 DEF ReportInv

LEMMA ReportAppendLog ==
  ASSUME Inv, ReportInv, AppendLog
  PROVE  ReportInv'
<1>t. TypeOK /\ InHand
  BY DEF Inv
<1>1. /\ pc = "log" /\ pc' = "clear" /\ me'.stash = me.stash /\ UNCHANGED autostash
  BY <1>t, AppendLogDoes DEF Carried
<1>2. Agree' /\ Concluding'
  BY AgreeAppendLog DEF ReportInv
<1>3. QED
  BY <1>1, <1>2 DEF ReportInv, Attempted, Finishing

(* Where no command runs afterwards, only Agree says anything.               *)
LEMMA ReportIdle ==
  ASSUME Agree', pc' = "idle"
  PROVE  ReportInv'
BY DEF ReportInv, Attempted, Concluding, Finishing

LEMMA ReportOfIdle ==
  ASSUME Inv, ReportInv, NothingToMerge \/ Stage \/ RawMerge \/ Abandon \/ TakeBack \/ Ordinary \/ UndoTip \/ Exit \/ Crash
  PROVE  ReportInv'
<1>t. TypeOK /\ Numbered /\ InHand /\ Agree
  BY DEF Inv, ReportInv
<1>1. CASE NothingToMerge
  BY <1>t, <1>1, OthersDo, AgreeKept, ReportIdle DEF files, command, history
<1>2. CASE Stage
  BY <1>t, <1>2, OthersDo, AgreeStage, ReportIdle DEF command
<1>3. CASE RawMerge
  BY <1>t, <1>3, RawMergeDoes, AgreeStarts, ReportIdle DEF command
<1>4. CASE Abandon
  BY <1>t, <1>4, OthersDo, AgreeOfNone, ReportIdle DEF command
<1>5. CASE TakeBack
  BY <1>t, <1>5, OthersDo, AgreeOfNone, ReportIdle DEF command, InFlight
<1>6. CASE Ordinary
  BY <1>t, <1>6, NewCommitDoes, AgreeNewCommit, ReportIdle DEF command
<1>7. CASE UndoTip
  BY <1>t, <1>7, UndoDoes, AgreeOfNone, ReportIdle DEF command, InFlight
<1>8. CASE Exit
  BY <1>t, <1>8, CommandDoes, AgreeKept, ReportIdle DEF files, branch, history
<1>9. CASE Crash
  BY <1>t, <1>9, CommandDoes, AgreeKept, ReportIdle DEF files, branch
<1>10. QED
  BY <1>1, <1>2, <1>3, <1>4, <1>5, <1>6, <1>7, <1>8, <1>9

LEMMA ReportStart ==
  ASSUME Inv, ReportInv, Starts
  PROVE  ReportInv'
<1>t. TypeOK
  BY DEF Inv
<1>1. Agree'
  BY AgreeStarts
<1>2. PICK kind \in Kinds, s \in Sources, to \in {"forward", "exit", "attempt", "mark"} : Begun(kind, s, to)
  BY <1>t, StartsDo
<1>3. pc' = to /\ me'.made = 0 /\ me'.stash = autostash /\ UNCHANGED autostash
  BY <1>t, <1>2, Begins
<1>4. QED
  BY <1>1, <1>3 DEF ReportInv, Attempted, Concluding, Finishing

LEMMA ReportContinue ==
  ASSUME Inv, ReportInv, Continue
  PROVE  ReportInv'
<1>t. TypeOK
  BY DEF Inv
<1>1. pc = "idle" /\ pc' = "attempt" /\ me'.stash = autostash /\ UNCHANGED <<files, branch, history>>
  BY <1>t, ContinueDoes
<1>2. Agree'
  BY <1>1, AgreeKept DEF ReportInv, files, branch, history
<1>3. QED
  BY <1>1, <1>2 DEF ReportInv, Attempted, Concluding, Finishing, files

(* A run that finishes what crashed takes over what Agree says.              *)
LEMMA ReportFinish ==
  ASSUME Inv, ReportInv, FinishWhatCrashed
  PROVE  ReportInv'
<1>t. TypeOK
  BY DEF Inv
<1>1. /\ pc = "idle" /\ pc' = "clear" /\ me'.stash = autostash /\ me'.by = parked.by /\ me'.stood /\ me'.made = tip
      /\ me'.parent = Parent(tip) /\ InFlight /\ AlreadyConcluded
      /\ UNCHANGED <<commits, tip, entry, parked, index, disk, autostash, disturbed, twins>>
  BY <1>t, FinishDoes DEF files, branch, history
<1>2. Agree'
  BY <1>1, AgreeKept DEF ReportInv
<1>3. tip \in DOMAIN commits /\ tip # 0
  BY <1>t, <1>1, AtTip DEF AlreadyConcluded
<1>4. parked.by \in twins \/ tip \in Conclusions(parked.by)
  <2>1. Made'
    BY InvStep DEF Inv, Next
  <2>2. me'.made \in Conclusions(me.by)' \/ me'.by \in twins'
    BY <1>1, <2>1 DEF Made
  <2>3. \A n : Conclusions(n)' = Conclusions(n)
    BY <1>1, ConclusionsKept
  <2>4. Conclusions(me.by)' = Conclusions(parked.by)
    BY <1>1, <2>3
  <2>5. QED
    BY <1>1, <2>2, <2>4
<1>5. ASSUME NEW n, n = parked.by, n \notin disturbed, n \notin twins
      PROVE  /\ Same(n, index.holds, Tree(tip)) /\ Same(n, Tree(Parent(tip)), Tree(tip))
             /\ n \in Tree(tip) => index.unmerged \/ n \in index.holds
  <2>1. Tree(tip) = commits[tip].tree /\ Parent(tip) = commits[tip].parent
    BY <1>3 DEF Tree, Parent
  <2>2. /\ Same(n, index.holds, Tree(tip))
        /\ ~index.unmerged /\ n \notin index.holds => n \notin commits[tip].tree
        /\ Same(n, commits[tip].tree, Tree(commits[tip].parent))
    BY <1>1, <1>3, <1>4, <1>5 DEF ReportInv, Agree, Untouched
  <2>3. QED
    BY <2>1, <2>2 DEF Same
<1>6. UNCHANGED Tree(tip) /\ Tree(me.parent)' = Tree(Parent(tip))
  BY <1>1 DEF Tree
<1>7. Concluding'
  BY <1>1, <1>5, <1>6 DEF Concluding, Untouched
<1>8. QED
  BY <1>1, <1>2, <1>7 DEF ReportInv, Attempted, Finishing

LEMMA ReportMark ==
  ASSUME Inv, ReportInv, MarkPick \/ Unpark
  PROVE  ReportInv'
<1>t. TypeOK /\ InHand
  BY DEF Inv
<1>1. /\ pc \in {"mark", "unpark"} /\ pc' \in {"exit", "attempt"} /\ me' = me /\ UNCHANGED autostash
  BY <1>t, CommandDoes
<1>2. me.made = 0
  BY <1>t, <1>1 DEF InHand
<1>3. Agree'
  BY AgreeMark, AgreeUnpark DEF ReportInv
<1>4. QED
  BY <1>1, <1>2, <1>3 DEF ReportInv, Attempted, Concluding, Finishing

(* The fast-forward.                                                         *)
LEMMA ReportFastForward ==
  ASSUME Inv, ReportInv, FastForward
  PROVE  ReportInv'
<1>t. TypeOK /\ Numbered /\ InHand
  BY DEF Inv
<1>1. /\ pc = "forward" /\ Carried /\ UNCHANGED <<parked, autostash>>
      /\ \/ pc' = "exit" /\ me'.made = me.made
         \/ /\ pc' = "sync" /\ me'.made = tip' /\ tip' = Len(commits')
            /\ \E c \in Commit : /\ c = [parent |-> tip, kind |-> "forward", of |-> me.of, by |-> me.by,
                                         tree |-> Tree(tip) \cup {me.by}]
                                 /\ commits' = Append(commits, c)
  BY <1>t, FastForwardDoes DEF files
<1>2. me'.stash = me.stash /\ me.made = 0 /\ parked = None
  BY <1>t, <1>1 DEF Carried, InHand
<1>3. Agree'
  BY <1>1, <1>2, AgreeOfNone
<1>4. pc' = "sync" => commits'[me'.made].kind = "forward"
  <2>1. ASSUME NEW c \in Commit, c = [parent |-> tip, kind |-> "forward", of |-> me.of, by |-> me.by,
                                      tree |-> Tree(tip) \cup {me.by}],
               commits' = Append(commits, c), NEW t, t = Len(commits')
        PROVE  commits'[t].kind = "forward"
    <3>1. c.parent \in Place /\ c.kind = "forward"
      BY <1>t, <2>1, TypeParts
    <3>2. QED
      BY <1>t, <2>1, <3>1, Grown
  <2>2. QED
    BY <1>1, <2>1
<1>5. QED
  BY <1>1, <1>2, <1>3, <1>4 DEF ReportInv, Attempted, Concluding, Finishing

LEMMA ReportSync ==
  ASSUME Inv, ReportInv, Sync
  PROVE  ReportInv'
<1>t. TypeOK /\ InHand /\ Made
  BY DEF Inv
<1>1. /\ pc = "sync" /\ pc' = "record" /\ Carried /\ Attempts
      /\ \/ index' = [holds |-> Tree(me.made), unmerged |-> FALSE] /\ disk' = "clean"
         \/ me'.left
      /\ UNCHANGED <<commits, tip, parked, autostash>>
  BY <1>t, CommandDoes DEF branch
<1>2. me'.stash = me.stash /\ me'.made = me.made /\ me.made = tip /\ ~me'.stood /\ parked = None
  BY <1>t, <1>1 DEF Carried, Attempts, InHand, Made
<1>3. Agree'
  BY <1>1, <1>2, AgreeOfNone
<1>4. UNCHANGED Tree(tip)
  BY <1>1 DEF Tree
<1>5. QED
  BY <1>1, <1>2, <1>3, <1>4 DEF ReportInv, Attempted, Concluding, Finishing

LEMMA ReportRecord ==
  ASSUME Inv, ReportInv, Record
  PROVE  ReportInv'
<1>t. TypeOK /\ InHand /\ Made
  BY DEF Inv
<1>1. /\ pc = "record" /\ pc' = "exit" /\ UNCHANGED <<commits, tip, me, parked, autostash, index, disk, disturbed, twins>>
  BY <1>t, CommandDoes DEF files
<1>2. parked = None
  BY <1>t, <1>1 DEF InHand
<1>3. Agree'
  BY <1>1, <1>2, AgreeOfNone
<1>4. ~me.left => index.holds = Tree(tip) /\ ~index.unmerged /\ disk = "clean"
  BY <1>1 DEF ReportInv, Concluding
<1>5. UNCHANGED Tree(tip)
  BY <1>1 DEF Tree
<1>6. Concluding'
  BY <1>1, <1>4, <1>5 DEF Concluding, IndexFollows
<1>7. Finishing'
  <2>1. commits[me.made].kind = "forward"
    BY <1>1 DEF ReportInv, Finishing
  <2>2. QED
    BY <1>1, <1>2, <1>4, <2>1 DEF Finishing
<1>8. QED
  BY <1>1, <1>3, <1>6, <1>7 DEF ReportInv, Attempted

(* The aftercare: the state files go, the index is settled, the file is      *)
(* written, the work put back.                                               *)
LEMMA ReportClear ==
  ASSUME Inv, ReportInv, Clear
  PROVE  ReportInv'
<1>t. TypeOK /\ InHand
  BY DEF Inv
<1>1. /\ pc = "clear" /\ Carried /\ Attempts /\ parked' \in {None, parked}
      /\ pc' = "settle" \/ (pc' = "exit" /\ me'.left)
      /\ UNCHANGED <<commits, tip, autostash, index, disk, disturbed, twins>>
  BY <1>t, AftercareDoes DEF branch, history
<1>2. /\ me'.by = me.by /\ me'.stash = me.stash /\ me'.made = me.made /\ me'.parent = me.parent
      /\ me'.stood = me.stood
  BY <1>1 DEF Carried, Attempts
<1>3. Agree'
  BY <1>1, AgreeKept DEF ReportInv
<1>4. UNCHANGED <<Tree(tip), Tree(me.parent)>>
  BY <1>1, <1>2 DEF Tree
<1>5. Concluding'
  BY <1>1, <1>2, <1>4 DEF ReportInv, Concluding, Untouched
<1>6. QED
  BY <1>1, <1>2, <1>3, <1>5 DEF ReportInv, Attempted, Finishing

LEMMA ReportSettle ==
  ASSUME Inv, ReportInv, Settle
  PROVE  ReportInv'
<1>t. TypeOK /\ InHand
  BY DEF Inv
<1>1. /\ pc = "settle" /\ Carried /\ Attempts
      /\ \/ index' = [holds |-> Replay(Edited, me.parent, tip), unmerged |-> FALSE] /\ pc' = "write"
         \/ pc' = "exit" /\ me'.left
      /\ UNCHANGED <<commits, tip, parked, autostash, disk, disturbed, twins>>
  BY <1>t, AftercareDoes DEF branch, history
<1>2. /\ me'.by = me.by /\ me'.stash = me.stash /\ me'.made = me.made /\ me'.stood = me.stood
      /\ parked = None
  BY <1>t, <1>1 DEF Carried, Attempts, InHand
<1>3. Agree'
  BY <1>1, <1>2, AgreeOfNone
<1>4. UNCHANGED Tree(tip)
  BY <1>1 DEF Tree
<1>5. ASSUME NEW n, n = me.by, n \notin disturbed, n \notin twins
      PROVE  /\ Tree(tip) \subseteq Replay(Edited, me.parent, tip)
             /\ Replay(Edited, me.parent, tip) \ Tree(tip) \subseteq (IF me.stood THEN {n} ELSE {})
  <2>1. /\ me.made = tip /\ Same(n, index.holds, Tree(tip)) /\ Same(n, Tree(me.parent), Tree(tip))
        /\ n \in Tree(tip) => index.unmerged \/ n \in index.holds
        /\ n \in index.holds => me.stood \/ n \in Tree(tip)
    BY <1>1, <1>5 DEF ReportInv, Concluding, Untouched
  <2>2. /\ Same(n, Edited, Tree(tip)) /\ (n \in Tree(tip) => n \in Edited)
        /\ n \in Edited => me.stood \/ n \in Tree(tip)
    BY <1>5, <2>1 DEF Edited, Same
  <2>3. /\ Same(n, Replay(Edited, me.parent, tip), Tree(tip))
        /\ n \in Edited /\ n \in Tree(tip) => n \in Replay(Edited, me.parent, tip)
        /\ n \in Replay(Edited, me.parent, tip) => n \in Edited \/ n \in Tree(tip)
    BY <2>1, <2>2, ReplaySame
  <2>4. QED
    BY <2>2, <2>3 DEF Same
<1>6. pc' = "write" => me.by \in disturbed \cup twins \/ IndexFollows'
  <2>1. pc' = "write" => index'.holds = Replay(Edited, me.parent, tip) /\ ~index'.unmerged
    BY <1>1
  <2>2. QED
    BY <1>2, <1>4, <1>5, <2>1 DEF IndexFollows
<1>7. Concluding'
  BY <1>1, <1>2, <1>6 DEF Concluding
<1>8. QED
  BY <1>1, <1>2, <1>3, <1>7 DEF ReportInv, Attempted, Finishing

LEMMA ReportWrite ==
  ASSUME Inv, ReportInv, Materialize
  PROVE  ReportInv'
<1>t. TypeOK /\ InHand /\ Made
  BY DEF Inv
<1>1. /\ pc = "write" /\ Carried /\ Attempts
      /\ \/ disk' = Written /\ pc' = (IF OwesWork THEN "apply" ELSE "exit")
         \/ pc' = "exit" /\ me'.left
      /\ UNCHANGED <<commits, tip, parked, autostash, index, disturbed, twins>>
  BY <1>t, AftercareDoes DEF branch, history
<1>2. /\ me'.by = me.by /\ me'.stash = me.stash /\ me'.made = me.made /\ me'.stood = me.stood /\ me'.kind = me.kind
      /\ parked = None
  BY <1>t, <1>1 DEF Carried, Attempts, InHand
<1>3. Agree'
  BY <1>1, <1>2, AgreeOfNone
<1>4. Written \in {"clean", "edit"}
  BY <1>t, TypeParts DEF Written
<1>5. UNCHANGED IndexFollows
  <2>1. UNCHANGED Tree(tip)
    BY <1>1 DEF Tree
  <2>2. QED
    BY <1>1, <1>2, <2>1 DEF IndexFollows
<1>6. Concluding'
  BY <1>1, <1>2, <1>5 DEF ReportInv, Concluding
<1>7. Finishing'
  <2>1. me.stash = autostash
    BY <1>1 DEF ReportInv, Finishing
  <2>2. me.made # 0 /\ (commits[me.made].kind = "merge" => me.kind = "merge")
    BY <1>t, <1>1 DEF Made
  <2>3. pc' = "exit" /\ ~me'.left => ~OwesWork /\ disk' = Written
    BY <1>1
  <2>4. pc' = "apply" => disk' = Written
    BY <1>1
  <2>5. QED
    BY <1>1, <1>2, <1>4, <2>1, <2>2, <2>3, <2>4 DEF Finishing, OwesWork
<1>8. QED
  BY <1>1, <1>3, <1>6, <1>7 DEF ReportInv, Attempted

LEMMA ReportPutBack ==
  ASSUME Inv, ReportInv, PutBack \/ Drop
  PROVE  ReportInv'
<1>t. TypeOK /\ InHand
  BY DEF Inv
<1>1. /\ pc \in {"apply", "drop"} /\ pc' \in {"drop", "exit"} /\ Carried /\ Attempts
      /\ parked' \in {None, parked}
      /\ pc' = "drop" => UNCHANGED autostash
      /\ pc' = "exit" => me'.left \/ (autostash' = None /\ me'.left = me.left)
      /\ UNCHANGED <<commits, tip, index, disk, disturbed, twins>>
  <2>1. CASE PutBack
    BY <1>t, <2>1, AftercareDoes DEF files, branch
  <2>2. CASE Drop
    BY <1>t, <2>2, AftercareDoes DEF branch, history
  <2>3. QED
    BY <2>1, <2>2
<1>2. /\ me'.by = me.by /\ me'.stash = me.stash /\ me'.made = me.made /\ me'.stood = me.stood
      /\ parked' = None
  BY <1>t, <1>1 DEF Carried, Attempts, InHand
<1>3. Agree'
  BY <1>1, <1>2, AgreeOfNone
<1>4. UNCHANGED IndexFollows
  <2>1. UNCHANGED Tree(tip)
    BY <1>1 DEF Tree
  <2>2. QED
    BY <1>1, <1>2, <2>1 DEF IndexFollows
<1>5. QED
  BY <1>1, <1>2, <1>3, <1>4 DEF ReportInv, Attempted, Concluding, Finishing

(* An edit, and a commit from another worktree.                              *)
LEMMA ReportEdit ==
  ASSUME Inv, ReportInv, Edit
  PROVE  ReportInv'
<1>t. TypeOK
  BY DEF Inv
<1>1. /\ Carried /\ Attempts /\ me'.left = me.left /\ disk' = "edit" /\ disk # "clean"
      /\ UNCHANGED <<commits, tip, parked, autostash, index, pc, disturbed, twins>>
  BY <1>t, OthersDo DEF branch, history
<1>2. /\ me'.by = me.by /\ me'.stash = me.stash /\ me'.made = me.made /\ me'.parent = me.parent /\ me'.tree = me.tree
      /\ me'.stood = me.stood
  BY <1>1 DEF Carried, Attempts
<1>3. Agree'
  BY <1>1, <1>2, AgreeKept DEF ReportInv
<1>4. UNCHANGED <<Tree(tip), Tree(me.parent)>>
  BY <1>1, <1>2 DEF Tree
<1>5. UNCHANGED IndexFollows
  BY <1>1, <1>2, <1>4 DEF IndexFollows
<1>6. Attempted'
  BY <1>1, <1>2, <1>4 DEF ReportInv, Attempted, Untouched
<1>7. Concluding'
  BY <1>1, <1>2, <1>4, <1>5 DEF ReportInv, Concluding, Untouched
<1>8. Finishing'
  BY <1>1, <1>2 DEF ReportInv, Finishing
<1>9. QED
  BY <1>3, <1>6, <1>7, <1>8 DEF ReportInv

LEMMA ReportElsewhere ==
  ASSUME Inv, ReportInv, Elsewhere
  PROVE  ReportInv'
<1>t. TypeOK /\ InHand /\ Numbered /\ Made
  BY DEF Inv
<1>1. /\ UNCHANGED <<parked, autostash, disk, pc, me>> /\ pc \notin {"log", "sync", "record"}
      /\ pc # "idle" => me.by \in disturbed'
  BY <1>t, NewCommitDoes DEF command
<1>2. Agree'
  BY AgreeNewCommit DEF ReportInv
<1>3. \A d \in DOMAIN commits : commits'[d] = commits[d]
  <2>1. PICK c \in Commit : /\ c = [parent |-> tip, kind |-> "commit", of |-> None, by |-> ops + 1,
                                    tree |-> Tree(tip) \cup {ops + 1}]
                            /\ commits' = Append(commits, c)
    BY <1>t, NewCommitDoes
  <2>2. c.parent \in Place
    BY <1>t, <2>1, TypeParts
  <2>3. QED
    BY <1>t, <2>1, <2>2, Grown
<1>4. Attempted' /\ Concluding'
  BY <1>1 DEF Attempted, Concluding, Untouched
<1>5. Finishing'
  <2>1. pc = "exit" /\ me.made # 0 => me.made \in DOMAIN commits
    BY <1>t DEF Made
  <2>2. QED
    BY <1>1, <1>3, <2>1 DEF ReportInv, Finishing
<1>6. QED
  BY <1>2, <1>4, <1>5 DEF ReportInv

LEMMA ReportStep == Inv /\ ReportInv /\ [Next]_vars => ReportInv'
<1> SUFFICES ASSUME Inv, ReportInv, [Next]_vars
             PROVE  ReportInv'
  OBVIOUS
<1>1. CASE Next
  <2>1. CASE Starts
    BY <2>1, ReportStart
  <2>2. CASE FastForward \/ Land \/ Attempt \/ Continue \/ FinishWhatCrashed \/ AppendLog
    BY <2>2, ReportFastForward, ReportLand, ReportAttempt, ReportContinue, ReportFinish, ReportAppendLog
  <2>3. CASE MarkPick \/ Unpark \/ Sync \/ Record \/ Exit \/ Crash
    BY <2>3, ReportMark, ReportSync, ReportRecord, ReportOfIdle
  <2>4. CASE Clear \/ Settle \/ Materialize \/ PutBack \/ Drop
    BY <2>4, ReportClear, ReportSettle, ReportWrite, ReportPutBack
  <2>5. CASE NothingToMerge \/ Edit \/ Stage \/ Abandon \/ TakeBack \/ RawMerge
    BY <2>5, ReportEdit, ReportOfIdle
  <2>6. CASE Elsewhere \/ Ordinary \/ UndoTip
    BY <2>6, ReportElsewhere, ReportOfIdle
  <2>7. QED
    BY <1>1, <2>1, <2>2, <2>3, <2>4, <2>5, <2>6 DEF Next, Starts
<1>2. CASE UNCHANGED vars
  <2>1. /\ UNCHANGED <<commits, tip, entry, parked, autostash, index, disk, pc, me, disturbed, twins>>
    BY <1>2 DEF vars, files, branch, command, history
  <2>2. Agree'
    BY <2>1, AgreeKept DEF ReportInv
  <2>3. UNCHANGED <<Tree(tip), Tree(me.parent)>>
    BY <2>1 DEF Tree
  <2>4. UNCHANGED IndexFollows
    BY <2>1, <2>3 DEF IndexFollows
  <2>5. Attempted' /\ Concluding' /\ Finishing'
    BY <2>1, <2>3, <2>4 DEF ReportInv, Attempted, Concluding, Finishing, Untouched
  <2>6. QED
    BY <2>2, <2>5 DEF ReportInv
<1>3. QED
  BY <1>1, <1>2

(* What a command says of itself is so: no commit was made, or the one it    *)
(* names stands, nothing is in flight, the index follows, no unelected       *)
(* difference is left on disk and the work is back (runContinue's report,    *)
(* concludeAftercare).                                                       *)
THEOREM ReportHolds == Spec => []ReportIsTrue
<1>1. Init => ReportInv
  <2> SUFFICES ASSUME Init
               PROVE  ReportInv
    OBVIOUS
  <2>1. pc = "idle" /\ parked = None
    BY DEF Init
  <2>2. QED
    BY <2>1 DEF ReportInv, Agree, Attempted, Concluding, Finishing, InFlight
<1>2. Inv /\ ReportInv /\ [Next]_vars => ReportInv'
  BY ReportStep
<1>3. Inv /\ ReportInv => ReportIsTrue
  <2> SUFFICES ASSUME Inv, ReportInv, pc = "exit"
               PROVE  /\ me.made = 0 => Conclusions(me.by) = {} \/ me.by \in unlogged \cup disturbed
                      /\ (me.made # 0 /\ ~me.left) =>
                           /\ ~InFlight
                           /\ me.by \in twins \/ commits[me.made].by = me.by
                           /\ me.by \in disturbed \cup twins \/ IndexFollows
                           /\ disk \in {"clean", "edit"}
                           /\ commits[me.made].kind = "merge" => autostash = None
    BY DEF ReportIsTrue
  <2>1. me.made = 0 => Conclusions(me.by) = {} \/ me.by \in unlogged \cup disturbed
    BY DEF Inv, Once, Known
  <2>2. me.made # 0 => me.by \in twins \/ commits[me.made].by = me.by
    BY DEF Inv, Made
  <2>3. me.made # 0 /\ ~me.left => me.by \in disturbed \cup twins \/ IndexFollows
    BY DEF ReportInv, Concluding
  <2>4. me.made # 0 /\ ~me.left => /\ ~InFlight /\ disk \in {"clean", "edit"}
                                   /\ commits[me.made].kind = "merge" => autostash = None
    BY DEF ReportInv, Finishing, InFlight
  <2>5. QED
    BY <2>1, <2>2, <2>3, <2>4
<1>4. QED
  BY <1>1, <1>2, <1>3, InvAlways, PTL DEF Spec

---------------------------------------------------------------------------
(* The history of a commit.                                                  *)
LEMMA LineHas ==
  ASSUME TypeOK, NEW c \in DOMAIN commits
  PROVE  c \in Line(c) /\ (Parent(c) # 0 => Parent(c) \in DOMAIN commits /\ Parent(c) \in Line(c))
<1>1. Place = {0} \cup DOMAIN commits /\ Parent(c) \in Place
  BY PlacesOK DEF Parent
<1>2. QED
  BY <1>1 DEF Line

(* What is in the history of a commit is older than it.                      *)
LEMMA LineOlder ==
  ASSUME TypeOK, NEW c \in Place, NEW d \in Line(c)
  PROVE  d \in DOMAIN commits /\ d \in Nat /\ c \in Nat /\ d <= c
<1>1. /\ Len(commits) \in Nat /\ DOMAIN commits = 1..Len(commits) /\ Place = 0..Len(commits)
      /\ \A e \in DOMAIN commits : commits[e].parent \in Place /\ commits[e].parent < e
  BY PlacesOK DEF Place
<1>2. 0..c \in SUBSET Place /\ c \in 0..c
  BY <1>1
<1>3. \A e \in 0..c : Parent(e) \in 0..c
  BY <1>1 DEF Parent
<1>4. d \in 0..c /\ d \in DOMAIN commits
  BY <1>2, <1>3 DEF Line
<1>5. QED
  BY <1>1, <1>4

(* It goes on with the history of the parent.                                *)
LEMMA LineGoesOn ==
  ASSUME TypeOK, NEW c \in DOMAIN commits
  PROVE  Line(c) = {c} \cup Line(Parent(c))
<1>1. Place = {0} \cup DOMAIN commits /\ Parent(c) \in Place
  BY PlacesOK DEF Parent
<1>2. ASSUME NEW d \in Line(c), d # c
      PROVE  d \in Line(Parent(c))
  <2>1. SUFFICES ASSUME NEW S \in SUBSET Place, Parent(c) \in S, \A e \in S : Parent(e) \in S
                 PROVE  d \in S
    BY DEF Line
  <2>2. S \cup {c} \in SUBSET Place /\ c \in S \cup {c} /\ \A e \in S \cup {c} : Parent(e) \in S \cup {c}
    BY <1>1, <2>1
  <2>3. d \in S \cup {c}
    BY <2>2 DEF Line
  <2>4. QED
    BY <1>2, <2>3
<1>3. ASSUME NEW d \in Line(Parent(c))
      PROVE  d \in Line(c)
  BY DEF Line
<1>4. c \in Line(c)
  BY LineHas
<1>5. QED
  BY <1>2, <1>3, <1>4

(* Of two commits in one history, the older is in the history of the parent  *)
(* of the younger.                                                           *)
LEMMA LineIsOne ==
  ASSUME TypeOK, NEW t \in Place, NEW m \in Line(t), NEW d \in Line(t), d < m
  PROVE  d \in Line(Parent(m)) /\ d <= Parent(m)
<1>1. Place = {0} \cup DOMAIN commits /\ \A e \in Place : Parent(e) \in Place /\ Parent(0) = 0
  BY PlacesOK DEF Parent
<1>2. m \in DOMAIN commits /\ m \in Nat /\ d \in DOMAIN commits /\ d \in Nat
  BY LineOlder
<1> DEFINE S == {x \in Place : m \in Line(x)} \cup Line(m) \cup {0}
<1>3. S \in SUBSET Place /\ t \in S
  BY <1>1 DEF Line
<1>4. ASSUME NEW e \in S
      PROVE  Parent(e) \in S
  <2>1. CASE e = 0
    BY <1>1, <2>1
  <2>2. CASE e # 0 /\ e \in Line(m)
    <3>1. e \in DOMAIN commits
      BY <2>2 DEF Line
    <3>2. ASSUME Parent(e) # 0
          PROVE  Parent(e) \in Line(m)
      <4>1. Parent(e) \in DOMAIN commits
        BY <1>1, <3>1, <3>2
      <4>2. QED
        BY <2>2, <4>1 DEF Line
    <3>3. QED
      BY <3>2
  <2>3. CASE e # 0 /\ m \in Line(e)
    <3>1. e \in DOMAIN commits
      BY <1>1, <1>3, <2>3
    <3>2. Line(e) = {e} \cup Line(Parent(e))
      BY <3>1, LineGoesOn
    <3>3. CASE m = e
      <4>1. Parent(e) # 0 => Parent(e) \in Line(m)
        BY <1>2, <3>3, LineHas
      <4>2. QED
        BY <4>1
    <3>4. CASE m # e
      <4>1. m \in Line(Parent(e)) /\ Parent(e) \in Place
        BY <1>1, <2>3, <3>1, <3>2, <3>4
      <4>2. QED
        BY <4>1
    <3>5. QED
      BY <3>3, <3>4
  <2>4. QED
    BY <2>1, <2>2, <2>3
<1>5. d \in S
  BY <1>3, <1>4 DEF Line
<1>6. m \notin Line(d)
  <2>1. ASSUME m \in Line(d)
        PROVE  FALSE
    <3>1. m <= d
      BY <1>1, <1>2, <2>1, LineOlder
    <3>2. QED
      BY <1>2, <3>1
  <2>2. QED
    BY <2>1
<1>7. d \in Line(m) /\ d # m
  <2>1. d # 0
    BY <1>2, PlacesOK
  <2>2. QED
    BY <1>2, <1>5, <1>6, <2>1
<1>8. d \in Line(Parent(m))
  BY <1>2, <1>7, LineGoesOn
<1>9. QED
  BY <1>1, <1>2, <1>8, LineOlder

(* A new commit is put before the history of its parent, and changes no      *)
(* other.                                                                    *)
LEMMA LineGrows ==
  ASSUME TypeOK, TypeOK', NEW c \in Commit, NEW p, p = c.parent, p \in Place,
         commits' = Append(commits, c), NEW t, t = Len(commits')
  PROVE  Line(t)' = {t} \cup Line(p)
<1>1. /\ t \notin Place /\ t \in Place' /\ DOMAIN commits' = DOMAIN commits \cup {t} /\ Place \subseteq Place'
      /\ Parent(t)' = p /\ \A d \in Place : Parent(d)' = Parent(d)
  BY Grown
<1>2. Place = {0} \cup DOMAIN commits /\ \A d \in Place : Parent(d) \in Place
  BY PlacesOK DEF Parent
<1>3. Place' = Place \cup {t}
  BY <1>1, <1>2, Appended DEF Place
<1>4. ASSUME NEW d \in Line(t)', d # t
      PROVE  d \in Line(p)
  <2>1. d \in DOMAIN commits
    BY <1>1, <1>4 DEF Line
  <2>2. SUFFICES ASSUME NEW S \in SUBSET Place, p \in S, \A e \in S : Parent(e) \in S
                 PROVE  d \in S
    BY <2>1 DEF Line
  <2>3. S \cup {t} \in SUBSET Place' /\ t \in S \cup {t} /\ \A e \in S \cup {t} : Parent(e)' \in S \cup {t}
    BY <1>1, <1>3, <2>2
  <2>4. d \in S \cup {t}
    BY <2>3 DEF Line
  <2>5. QED
    BY <1>4, <2>4
<1>5. ASSUME NEW d \in Line(p)
      PROVE  d \in Line(t)'
  <2>1. d \in DOMAIN commits'
    BY <1>1 DEF Line
  <2>2. ASSUME NEW S \in SUBSET Place', t \in S, \A e \in S : Parent(e)' \in S
        PROVE  d \in S
    <3>1. S \cap Place \in SUBSET Place /\ p \in S \cap Place /\ \A e \in S \cap Place : Parent(e) \in S \cap Place
      BY <1>1, <1>2, <2>2
    <3>2. QED
      BY <3>1 DEF Line
  <2>3. QED
    BY <2>1, <2>2 DEF Line
<1>6. t \in Line(t)'
  BY <1>1 DEF Line
<1>7. QED
  BY <1>4, <1>5, <1>6

LEMMA LineKept ==
  ASSUME UNCHANGED commits
  PROVE  \A c : Line(c)' = Line(c)
BY DEF Line, Place, Parent

---------------------------------------------------------------------------
(* The work that was set aside.                                              *)

(* The steps that touch neither the branch nor the work.                     *)
LEMMA WorkStays ==
  ASSUME Inv, WorkInv, UNCHANGED <<commits, tip, ops, aside, restored, safe, twins, autostash>>,
         parked' \in {None, parked} \/ (pc = "mark" /\ parked'.by = me.by /\ parked'.kind = me.kind),
         pc' # "idle" => pc # "idle" /\ me'.by = me.by /\ me'.kind = me.kind /\ me'.stash = me.stash,
         pc' \in {"mark", "unpark", "forward", "attempt", "land", "log", "clear", "settle", "write", "apply"}
            => pc \in {"mark", "unpark", "forward", "attempt", "land", "log", "clear", "settle", "write", "apply"},
         pc' \in {"log", "clear", "settle", "write", "apply"} => /\ pc \in {"log", "clear", "settle", "write", "apply"}
                                                                 /\ me'.parent = me.parent /\ me'.made = me.made,
         pc' = "drop" => pc = "drop"
  PROVE  WorkInv'
<1>1. /\ \A n : Conclusions(n)' = Conclusions(n) /\ (\A c : Line(c)' = Line(c)) /\ Line(tip)' = Line(tip)
      /\ \A d : Parent(d)' = Parent(d)
  BY ConclusionsKept, LineKept DEF Line, Place, Parent
<1>2. Merged'
  BY DEF WorkInv, Merged, InFlight
<1>3. Spent'
  BY DEF WorkInv, Spent, InFlight
<1>4. Behind'
  <2>1. pc' \in {"log", "clear", "settle", "write", "apply"} => Parent(me.made)' = Parent(me.made)
    BY <1>1
  <2>2. QED
    BY <1>1, <2>1 DEF WorkInv, Behind
<1>5. Older'
  BY <1>1 DEF WorkInv, Older
<1>6. PutAway'
  BY DEF WorkInv, PutAway
<1>7. WorkIsKeptOnce'
  BY <1>1 DEF WorkInv, WorkIsKeptOnce
<1>8. QED
  BY <1>2, <1>3, <1>4, <1>5, <1>6, <1>7 DEF WorkInv

LEMMA WorkOfCommands ==
  ASSUME Inv, WorkInv,
         \/ MarkPick \/ Unpark \/ Sync \/ Record \/ Exit \/ Crash \/ Attempt \/ AppendLog
         \/ Clear \/ Settle \/ Materialize \/ NothingToMerge \/ Edit \/ Stage
  PROVE  WorkInv'
<1> USE DEF files, branch, others, history, command
<1>t. TypeOK /\ InHand
  BY DEF Inv
<1>c. Carried /\ Attempts => /\ me'.by = me.by /\ me'.kind = me.kind /\ me'.stash = me.stash
                             /\ me'.parent = me.parent /\ me'.made = me.made
  BY DEF Carried, Attempts
<1>1. CASE MarkPick
  <2>1. /\ pc = "mark" /\ pc' \in {"exit", "attempt"} /\ parked' = Flight("cherry-pick", me.of, me.by)
        /\ UNCHANGED <<commits, tip, ops, aside, restored, safe, twins, autostash, me>>
    BY <1>t, <1>1, CommandDoes
  <2>2. parked'.by = me.by /\ parked'.kind = me.kind
    BY <1>t, <2>1 DEF InHand, Flight
  <2>3. QED
    BY <2>1, <2>2, WorkStays
<1>2. CASE Unpark \/ Record
  BY <1>t, <1>2, CommandDoes, WorkStays
<1>3. CASE Sync
  BY <1>t, <1>c, <1>3, CommandDoes, WorkStays
<1>4. CASE Exit \/ Crash
  BY <1>t, <1>4, CommandDoes, WorkStays
<1>5. CASE Attempt
  <2>1. /\ pc = "attempt" /\ pc' \in {"unpark", "exit", "land"} /\ Carried
        /\ UNCHANGED <<commits, tip, ops, aside, restored, safe, twins, autostash, parked>>
    BY <1>t, <1>5, AttemptDoes
  <2>2. me'.by = me.by /\ me'.kind = me.kind /\ me'.stash = me.stash
    BY <2>1 DEF Carried
  <2>3. QED
    BY <2>1, <2>2, WorkStays
<1>6. CASE AppendLog
  BY <1>t, <1>c, <1>6, AppendLogDoes, WorkStays
<1>7. CASE Clear
  BY <1>t, <1>c, <1>7, AftercareDoes, WorkStays
<1>8. CASE Settle
  BY <1>t, <1>c, <1>8, AftercareDoes, WorkStays
<1>9. CASE Materialize
  BY <1>t, <1>c, <1>9, AftercareDoes, WorkStays
<1>10. CASE NothingToMerge \/ Stage
  <2>1. pc = "idle" /\ UNCHANGED <<commits, tip, ops, aside, restored, safe, twins, autostash, parked, pc>>
    BY <1>t, <1>10, OthersDo
  <2>2. QED
    BY <2>1, WorkStays
<1>11. CASE Edit
  BY <1>t, <1>c, <1>11, OthersDo, WorkStays
<1>12. QED
  BY <1>1, <1>2, <1>3, <1>4, <1>5, <1>6, <1>7, <1>8, <1>9, <1>10, <1>11

(* An operation begins: nothing of its number was ever put back.             *)
LEMMA WorkStarts ==
  ASSUME Inv, WorkInv, Starts \/ RawMerge
  PROVE  WorkInv'
<1>t. TypeOK /\ Numbered
  BY DEF Inv
<1>0. /\ ops \in Nat /\ 1..ops \subseteq 1..(ops + 1) /\ ops + 1 \in 1..(ops + 1) /\ ops + 1 \notin 1..ops
      /\ Conclusions(ops + 1) = {} /\ restored \in [Ops -> Nat]
  BY <1>t, Fresh, TypeParts
<1>1. /\ ops' = ops + 1 /\ UNCHANGED <<commits, tip, restored, safe>>
      /\ parked' # None => parked'.by = ops + 1
      /\ parked' # None /\ parked'.kind = "merge" => ops + 1 \notin twins'
      /\ twins' \subseteq twins \cup {ops + 1}
      /\ pc' # "idle" => me'.by = ops + 1 /\ (me'.kind = "merge" => ops + 1 \notin twins')
      /\ pc' \notin {"log", "clear", "settle", "write", "apply", "drop"}
      /\ \/ UNCHANGED <<autostash, aside>>
         \/ autostash = None /\ autostash'.by = ops + 1 /\ autostash' # None /\ aside' = aside \cup {ops + 1}
  <2>1. CASE Starts
    <3>1. PICK kind \in Kinds, s \in Sources, to \in {"forward", "exit", "attempt", "mark"} :
             /\ MayCompute /\ Begun(kind, s, to) /\ parked' \in {parked, Flight(kind, s, ops + 1)}
      BY <1>t, <2>1, StartsDo
    <3>2. /\ pc' = to /\ me'.by = ops + 1 /\ me'.kind = kind /\ ops' = ops + 1
          /\ twins' = IF Twin(kind, s) THEN twins \cup {ops + 1} ELSE twins
          /\ UNCHANGED <<commits, tip, restored, safe, autostash, aside>>
      BY <1>t, <3>1, Begins
    <3>3. parked' # None => parked'.by = ops + 1 /\ parked'.kind = kind
      BY <3>1 DEF MayCompute, InFlight, Flight
    <3>4. ops + 1 \notin twins
      BY <1>0 DEF WorkInv, Merged
    <3>5. kind = "merge" => ops + 1 \notin twins'
      BY <3>2, <3>4 DEF Twin
    <3>6. QED
      BY <3>1, <3>2, <3>3, <3>5
  <2>2. CASE RawMerge
    <3>1. PICK s \in Sources : parked' = Flight("merge", s, ops + 1)
      BY <1>t, <2>2, RawMergeDoes
    <3>2. parked'.by = ops + 1
      BY <3>1 DEF Flight
    <3>3. /\ pc' = "idle" /\ ops' = ops + 1 /\ UNCHANGED <<commits, tip, restored, safe, twins>>
          /\ \/ UNCHANGED <<autostash, aside>>
             \/ autostash = None /\ autostash' = [base |-> tip, by |-> ops + 1] /\ aside' = aside \cup {ops + 1}
      BY <1>t, <2>2, RawMergeDoes DEF branch, command
    <3>4. [base |-> tip, by |-> ops + 1] \in [base : Nat, by : Nat]
      BY <1>t, <1>0, PlacesOK, TypeParts DEF Place
    <3>5. ops + 1 \notin twins
      BY <1>0 DEF WorkInv, Merged
    <3>6. QED
      BY <3>2, <3>3, <3>4, <3>5, ConclusionConstants
  <2>3. QED
    BY <2>1, <2>2
<1>2. \A n : Conclusions(n)' = Conclusions(n) /\ Line(tip)' = Line(tip)
  BY <1>1, ConclusionsKept, LineKept DEF Line, Place, Parent
<1>3. Merged'
  BY <1>0, <1>1 DEF WorkInv, Merged, InFlight
<1>4. Spent'
  BY <1>0, <1>1 DEF WorkInv, Spent, InFlight
<1>5. Behind' /\ PutAway'
  BY <1>1 DEF Behind, PutAway
<1>6. Older'
  <2>1. CASE UNCHANGED autostash
    BY <1>2, <2>1 DEF WorkInv, Older
  <2>2. CASE autostash'.by = ops + 1
    BY <1>0, <1>2, <2>2 DEF Older
  <2>3. QED
    BY <1>1, <2>1, <2>2
<1>7. WorkIsKeptOnce'
  BY <1>1, <1>2 DEF WorkInv, WorkIsKeptOnce
<1>8. QED
  BY <1>3, <1>4, <1>5, <1>6, <1>7 DEF WorkInv

(* --continue takes up what is in flight.                                    *)
LEMMA WorkContinues ==
  ASSUME Inv, WorkInv, Continue \/ FinishWhatCrashed
  PROVE  WorkInv'
<1>t. TypeOK
  BY DEF Inv
<1>1. /\ InFlight /\ pc' \in {"attempt", "clear"} /\ me'.by = parked.by /\ me'.kind = parked.kind
      /\ pc' = "clear" => AlreadyConcluded /\ me'.made = tip /\ me'.parent = Parent(tip)
      /\ UNCHANGED <<commits, tip, ops, aside, restored, safe, twins, autostash, parked>>
  BY <1>t, ContinueDoes, FinishDoes DEF files, branch, others, history
<1>2. /\ \A n : Conclusions(n)' = Conclusions(n) /\ Line(tip)' = Line(tip)
      /\ \A d : Parent(d)' = Parent(d)
  BY <1>1, ConclusionsKept, LineKept DEF Line, Place, Parent
<1>3. Merged' /\ Spent' /\ Older' /\ PutAway'
  BY <1>1, <1>2 DEF WorkInv, Merged, Spent, Older, PutAway, InFlight
<1>4. Behind'
  <2>1. CASE pc' = "clear"
    <3>1. tip \in Line(tip)
      BY <1>t, <1>1, <2>1, AtTip DEF AlreadyConcluded
    <3>2. \A c \in Line(tip) : ~(c > tip)
      <4>1. \A c \in Line(tip) : c <= tip /\ c \in Nat /\ tip \in Nat
        BY <1>t, TypeParts, LineOlder
      <4>2. QED
        BY <4>1
    <3>3. Parent(me.made)' = Parent(tip)
      BY <1>1, <1>2, <2>1
    <3>4. QED
      BY <1>1, <1>2, <2>1, <3>1, <3>2, <3>3 DEF Behind
  <2>2. QED
    BY <1>1, <2>1 DEF Behind
<1>5. WorkIsKeptOnce'
  BY <1>1, <1>2 DEF WorkInv, WorkIsKeptOnce
<1>6. QED
  BY <1>3, <1>4, <1>5 DEF WorkInv

(* A commit is made.                                                         *)
LEMMA WorkGrows ==
  ASSUME Inv, TypeOK', WorkInv, NEW c \in Commit, c.parent = tip, commits' = Append(commits, c), tip' = Len(commits'),
         UNCHANGED <<aside, restored, safe, twins, autostash, parked>>, 1..ops \subseteq 1..ops',
         c.kind \in Kinds => /\ pc = "land" /\ pc' = "log" /\ c.by = me.by /\ me'.made = tip' /\ me'.parent = tip
                             /\ me'.by = me.by /\ me'.kind = me.kind,
         c.kind \notin Kinds => \/ pc' = pc /\ me' = me
                                \/ pc = "forward" /\ pc' = "sync" /\ me'.by = me.by /\ me'.kind = me.kind
  PROVE  WorkInv'
<1>t. TypeOK /\ tip \in Place
  BY TypeParts DEF Inv
<1>0. PICK t, p : t = Len(commits') /\ p = tip
  OBVIOUS
<1>1. /\ t \notin Place /\ DOMAIN commits' = DOMAIN commits \cup {t} /\ commits'[t] = c
      /\ \A d \in DOMAIN commits : commits'[d] = commits[d]
      /\ \A n \in Ops : Conclusions(n)' = IF c.by = n /\ c.kind \in Kinds THEN Conclusions(n) \cup {t}
                                                                          ELSE Conclusions(n)
      /\ Parent(t)' = p /\ \A d \in Place : Parent(d)' = Parent(d)
  BY <1>t, <1>0, Grown
<1>2. Line(tip)' = {t} \cup Line(tip)
  <2>1. Line(t)' = {t} \cup Line(p)
    BY <1>t, <1>0, LineGrows
  <2>2. QED
    BY <1>0, <2>1 DEF Line, Place, Parent
<1>3. t \in Nat /\ \A d \in Place : d \in Nat /\ d < t
  <2>1. t = Len(commits) + 1 /\ Len(commits) \in Nat
    BY <1>t, <1>0, Appended, PlacesOK
  <2>2. QED
    BY <2>1 DEF Place
<1>4. Merged'
  BY DEF WorkInv, Merged, InFlight
<1>5. Spent'
  BY DEF WorkInv, Spent, InFlight, Kinds
<1>6. Behind'
  <2>1. CASE c.kind \in Kinds
    <3>1. \A d \in {t} \cup Line(tip) : ~(d > t)
      <4>1. \A d \in Line(tip) : d \in Place
        BY <1>t, PlacesOK DEF Line
      <4>2. QED
        BY <1>3, <4>1
    <3>2. Parent(me.made)' = p
      BY <1>0, <1>1, <2>1
    <3>3. QED
      BY <1>0, <1>2, <2>1, <3>1, <3>2 DEF Behind
  <2>2. CASE c.kind \notin Kinds /\ pc' = pc /\ me' = me
    <3>1. pc \in {"log", "clear", "settle", "write", "apply"} => me.made \in Place
      BY <1>t, PlacesOK DEF WorkInv, Behind, Line
    <3>2. pc \in {"log", "clear", "settle", "write", "apply"} => Parent(me.made)' = Parent(me.made)
      BY <1>1, <2>2, <3>1
    <3>3. \A d \in Line(tip) : d \in DOMAIN commits
      BY DEF Line
    <3>4. QED
      BY <1>1, <1>2, <2>2, <3>2, <3>3 DEF WorkInv, Behind
  <2>3. QED
    BY <2>1, <2>2 DEF Behind
<1>7. Older'
  <2>1. autostash # None => autostash.by \in Ops /\ autostash.base \in Place
    BY <1>t, TypeParts
  <2>2. ASSUME autostash # None, NEW n, n = autostash.by, NEW d \in Conclusions(n)'
        PROVE  d > autostash.base
    <3>1. d = t \/ d \in Conclusions(n)
      BY <1>1, <2>1, <2>2
    <3>2. QED
      BY <1>3, <2>1, <2>2, <3>1 DEF WorkInv, Older
  <2>3. QED
    BY <2>2 DEF Older
<1>8. PutAway'
  <2>1. CASE c.kind \in Kinds
    BY <2>1 DEF PutAway
  <2>2. CASE c.kind \notin Kinds /\ pc' = pc /\ me' = me
    BY <2>2 DEF WorkInv, PutAway
  <2>3. CASE c.kind \notin Kinds /\ pc' = "sync"
    BY <2>3 DEF PutAway
  <2>4. QED
    BY <2>1, <2>2, <2>3
<1>9. WorkIsKeptOnce'
  <2>1. ASSUME NEW n \in Ops, restored[n] > 1
        PROVE  Conclusions(n)' \cap Line(tip)' = {}
    <3>1. Conclusions(n) \cap Line(tip) = {} /\ t \notin Conclusions(n) /\ t \notin Line(tip)
      BY <1>t, <1>1, <2>1, PlacesOK DEF WorkInv, WorkIsKeptOnce, Conclusions, Line
    <3>2. restored[n] > 0
      BY <1>t, <2>1, TypeParts
    <3>3. ~(c.by = n /\ c.kind \in Kinds)
      BY <2>1, <3>2 DEF WorkInv, Spent
    <3>4. QED
      BY <1>1, <1>2, <3>1, <3>3
  <2>2. QED
    BY <2>1 DEF WorkInv, WorkIsKeptOnce
<1>10. QED
  BY <1>4, <1>5, <1>6, <1>7, <1>8, <1>9 DEF WorkInv

LEMMA WorkOfCommits ==
  ASSUME Inv, WorkInv, FastForward \/ Land \/ Elsewhere \/ Ordinary
  PROVE  WorkInv'
<1>t. TypeOK /\ Numbered /\ InHand /\ TypeOK' /\ tip \in Place
  BY TypeStep, TypeParts DEF Inv, Next
<1>1. CASE FastForward
  <2>1. /\ pc = "forward" /\ Carried /\ UNCHANGED <<ops, aside, restored, safe, twins, autostash, parked>>
        /\ \/ pc' = "exit" /\ UNCHANGED <<commits, tip>>
           \/ /\ pc' = "sync" /\ tip' = Len(commits')
              /\ \E c \in Commit : /\ c = [parent |-> tip, kind |-> "forward", of |-> me.of, by |-> me.by,
                                           tree |-> Tree(tip) \cup {me.by}]
                                   /\ commits' = Append(commits, c)
    BY <1>t, <1>1, FastForwardDoes DEF files, others, history
  <2>2. me'.by = me.by /\ me'.kind = me.kind /\ me'.stash = me.stash
    BY <2>1 DEF Carried
  <2>3. CASE pc' = "exit" /\ UNCHANGED <<commits, tip>>
    BY <2>1, <2>2, <2>3, WorkStays
  <2>4. ASSUME pc' = "sync", tip' = Len(commits'), NEW c \in Commit, commits' = Append(commits, c),
               c = [parent |-> tip, kind |-> "forward", of |-> me.of, by |-> me.by, tree |-> Tree(tip) \cup {me.by}]
        PROVE  WorkInv'
    <3>1. c.parent = tip /\ c.kind \notin Kinds
      BY <2>4 DEF Kinds
    <3>2. QED
      BY <1>t, <2>1, <2>2, <2>4, <3>1, WorkGrows
  <2>5. QED
    BY <2>1, <2>3, <2>4
<1>2. CASE Land
  <2>1. /\ pc = "land" /\ Carried /\ me'.parent = me.parent
        /\ UNCHANGED <<ops, aside, restored, safe, twins, autostash, parked>>
        /\ \/ pc' \in {"attempt", "exit"} /\ UNCHANGED <<commits, tip>>
           \/ /\ pc' = "log" /\ me'.made = tip' /\ tip' = Len(commits') /\ tip = me.parent
              /\ \E c \in Commit : /\ c = [parent |-> tip, kind |-> me.kind, of |-> me.of, by |-> me.by,
                                           tree |-> me.tree]
                                   /\ commits' = Append(commits, c)
    BY <1>t, <1>2, LandDoes DEF others, history
  <2>2. me'.by = me.by /\ me'.kind = me.kind /\ me'.stash = me.stash
    BY <2>1 DEF Carried
  <2>3. CASE pc' \in {"attempt", "exit"} /\ UNCHANGED <<commits, tip>>
    BY <2>1, <2>2, <2>3, WorkStays
  <2>4. ASSUME pc' = "log", me'.made = tip', tip' = Len(commits'), tip = me.parent, NEW c \in Commit,
               commits' = Append(commits, c),
               c = [parent |-> tip, kind |-> me.kind, of |-> me.of, by |-> me.by, tree |-> me.tree]
        PROVE  WorkInv'
    <3>1. c.parent = tip /\ c.kind \in Kinds /\ c.by = me.by
      BY <1>t, <2>1, <2>4 DEF InHand
    <3>2. QED
      BY <1>t, <2>1, <2>2, <2>4, <3>1, WorkGrows
  <2>5. QED
    BY <2>1, <2>3, <2>4
<1>3. CASE Elsewhere \/ Ordinary
  <2>1. /\ ops' = ops + 1 /\ tip' = Len(commits') /\ UNCHANGED <<aside, restored, safe, twins, autostash, parked, pc, me>>
    BY <1>t, <1>3, NewCommitDoes DEF command
  <2>2. PICK c \in Commit : /\ c = [parent |-> tip, kind |-> "commit", of |-> None, by |-> ops + 1,
                                    tree |-> Tree(tip) \cup {ops + 1}]
                            /\ commits' = Append(commits, c)
    BY <1>t, <1>3, NewCommitDoes
  <2>3. c.parent = tip /\ c.kind \notin Kinds
    BY <2>2 DEF Kinds
  <2>4. 1..ops \subseteq 1..ops'
    BY <1>t, <2>1, Fresh
  <2>5. QED
    BY <1>t, <2>1, <2>2, <2>3, <2>4, WorkGrows
<1>4. QED
  BY <1>1, <1>2, <1>3

LEMMA WorkOfOthers ==
  ASSUME Inv, WorkInv, UndoTip \/ Abandon \/ TakeBack
  PROVE  WorkInv'
<1>t. TypeOK
  BY DEF Inv
<1>1. CASE UndoTip
  <2>1. /\ pc = "idle" /\ tip # 0 /\ tip' = Parent(tip)
        /\ UNCHANGED <<commits, parked, autostash, pc, me, ops, aside, restored, safe, twins>>
    BY <1>t, <1>1, UndoDoes DEF command, others, history
  <2>2. Line(tip)' \subseteq Line(tip)
    <3>1. tip \in DOMAIN commits
      BY <1>t, <2>1, AtTip
    <3>2. Line(Parent(tip)) \subseteq Line(tip)
      BY <1>t, <3>1, LineGoesOn
    <3>3. Line(tip)' = Line(Parent(tip))
      BY <2>1 DEF Line, Place, Parent
    <3>4. QED
      BY <3>2, <3>3
  <2>3. \A n : Conclusions(n)' = Conclusions(n)
    BY <2>1, ConclusionsKept
  <2>4. Merged' /\ Spent' /\ Behind' /\ Older' /\ PutAway'
    BY <2>1, <2>3 DEF WorkInv, Merged, Spent, Behind, Older, PutAway, InFlight
  <2>5. WorkIsKeptOnce'
    <3>1. \A n \in Ops : restored[n] > 1 => Conclusions(n)' \cap Line(tip)' = {}
      BY <2>2, <2>3 DEF WorkInv, WorkIsKeptOnce
    <3>2. QED
      BY <2>1, <3>1 DEF WorkInv, WorkIsKeptOnce
  <2>6. QED
    BY <2>4, <2>5 DEF WorkInv
<1>2. CASE Abandon \/ TakeBack
  <2>1. /\ pc = "idle" /\ parked' \in {None, parked}
        /\ \/ autostash' = None /\ safe' = safe \cup {autostash.by}
           \/ UNCHANGED <<autostash, safe>>
        /\ UNCHANGED <<commits, tip, pc, me, ops, aside, restored, twins>>
    BY <1>t, <1>2, OthersDo DEF branch, command, others
  <2>2. \A n : Conclusions(n)' = Conclusions(n) /\ Line(tip)' = Line(tip)
    BY <2>1, ConclusionsKept, LineKept DEF Line, Place, Parent
  <2>3. Merged' /\ Spent' /\ Behind' /\ Older' /\ PutAway'
    BY <2>1, <2>2 DEF WorkInv, Merged, Spent, Behind, Older, PutAway, InFlight
  <2>4. WorkIsKeptOnce'
    BY <2>1, <2>2 DEF WorkInv, WorkIsKeptOnce
  <2>5. QED
    BY <2>3, <2>4 DEF WorkInv
<1>3. QED
  BY <1>1, <1>2

(* The work is put back: its own merge's, or that of a merge whose commit is *)
(* gone from the branch, on the same first parent.                           *)
LEMMA WorkPutBack ==
  ASSUME Inv, ReportInv, WorkInv, PutBack
  PROVE  WorkInv'
<1>t. TypeOK /\ InHand /\ Made
  BY DEF Inv
<1>1. /\ pc = "apply" /\ Carried /\ Attempts
      /\ \/ pc' = "exit" /\ UNCHANGED <<restored, safe>>
         \/ StashIsOurs /\ pc' = "drop" /\ safe' = safe /\ restored' = [restored EXCEPT ![me.stash.by] = @ + 1]
         \/ pc' = "drop" /\ safe' = safe \cup {me.stash.by} /\ restored' = restored
      /\ UNCHANGED <<commits, tip, ops, aside, twins, autostash, parked>>
  BY <1>t, AftercareDoes DEF files, branch, others
<1>2. me'.by = me.by /\ me'.kind = me.kind /\ me'.stash = me.stash
  BY <1>1 DEF Carried
<1>3. /\ parked = None /\ me.kind = "merge" /\ me.stash # None /\ me.stash = autostash
      /\ me.by \in Ops /\ autostash.by \in Ops /\ autostash.by \in 1..ops /\ autostash.base \in Place
  <2>1. parked = None /\ me.kind = "merge" /\ me.stash # None /\ me.stash = autostash /\ me.by \in 1..ops
    BY <1>t, <1>1 DEF InHand, ReportInv, Finishing
  <2>2. autostash.by \in aside /\ autostash.base \in Place
    BY <1>t, <2>1, TypeParts
  <2>3. aside \subseteq 1..ops
    BY DEF Inv, Numbered
  <2>4. 1..ops \subseteq Ops
    BY <1>t, TypeParts, ConclusionConstants DEF Ops
  <2>5. QED
    BY <2>1, <2>2, <2>3, <2>4
<1>4. /\ \A n : Conclusions(n)' = Conclusions(n) /\ Line(tip)' = Line(tip)
  BY <1>1, ConclusionsKept, LineKept DEF Line, Place, Parent
<1>5. Merged' /\ Behind' /\ Older'
  BY <1>1, <1>2, <1>4 DEF WorkInv, Merged, Behind, Older, InFlight
<1>6. CASE restored' = restored
  <2>1. Spent'
    BY <1>1, <1>6 DEF WorkInv, Spent, InFlight
  <2>2. PutAway'
    <3>1. CASE pc' = "exit"
      BY <3>1 DEF PutAway
    <3>2. CASE me.stash.by \in safe'
      BY <1>2, <3>2 DEF PutAway
    <3>3. CASE restored' = [restored EXCEPT ![me.stash.by] = @ + 1]
      <4>1. restored \in [Ops -> Nat] /\ me.stash.by \in Ops
        BY <1>t, <1>3, TypeParts
      <4>2. QED
        BY <1>6, <3>3, <4>1
    <3>4. QED
      BY <1>1, <3>1, <3>2, <3>3
  <2>3. WorkIsKeptOnce'
    BY <1>1, <1>4, <1>6 DEF WorkInv, WorkIsKeptOnce
  <2>4. QED
    BY <1>5, <2>1, <2>2, <2>3 DEF WorkInv
<1>7. ASSUME StashIsOurs, pc' = "drop", safe' = safe, restored' = [restored EXCEPT ![me.stash.by] = @ + 1],
             NEW b, b = autostash.by
      PROVE  WorkInv'
  <2>1. restored \in [Ops -> Nat] /\ b \in Ops
    BY <1>t, <1>3, <1>7, TypeParts
  <2>2. restored'[b] = restored[b] + 1 /\ \A n \in Ops : n # b => restored'[n] = restored[n]
    BY <1>3, <1>7, <2>1
  <2>3. Spent'
    BY <1>1, <1>3, <1>7, <2>1, <2>2 DEF WorkInv, Spent, InFlight
  <2>4. PutAway'
    <3>1. restored'[me'.stash.by] > 0
      BY <1>2, <1>3, <1>7, <2>1, <2>2
    <3>2. QED
      BY <3>1 DEF PutAway
  <2>5. restored[b] > 0 => Conclusions(b) \cap Line(tip) = {}
    <3>1. SUFFICES ASSUME restored[b] > 0, NEW d \in Conclusions(b), d \in Line(tip)
                   PROVE  FALSE
      OBVIOUS
    <3>2. me.by # b
      BY <1>1, <2>1, <3>1 DEF WorkInv, Spent
    <3>3. /\ me.made \in Line(tip) /\ me.parent = Parent(me.made)
          /\ d > me.made => commits[d].kind \notin Kinds
      BY <1>1, <3>1 DEF WorkInv, Behind
    <3>4. commits[d].by = b /\ commits[d].kind \in Kinds
      BY <3>1 DEF Conclusions
    <3>5. d # me.made
      <4>1. me.by \notin twins
        BY <1>1, <1>3 DEF WorkInv, Merged
      <4>2. me.made # 0 /\ commits[me.made].by = me.by
        BY <1>t, <1>1, <4>1 DEF Made
      <4>3. QED
        BY <3>2, <3>4, <4>2
    <3>6. d \in Nat /\ me.made \in Nat /\ tip \in Place
      BY <1>t, <3>1, <3>3, LineOlder, TypeParts
    <3>7. d < me.made
      BY <3>3, <3>4, <3>5, <3>6
    <3>8. d <= me.parent
      BY <1>t, <3>1, <3>3, <3>6, <3>7, LineIsOne
    <3>9. me.parent = autostash.base
      BY <1>3, <1>7 DEF StashIsOurs
    <3>10. d > autostash.base
      BY <1>3, <1>7, <3>1 DEF WorkInv, Older
    <3>11. autostash.base \in Nat
      BY <1>3 DEF Place
    <3>12. QED
      BY <3>6, <3>8, <3>9, <3>10, <3>11
  <2>6. WorkIsKeptOnce'
    <3>1. \A n \in Ops : restored'[n] > 1 => Conclusions(n) \cap Line(tip) = {}
      BY <2>1, <2>2, <2>5 DEF WorkInv, WorkIsKeptOnce
    <3>2. \A n \in aside : (autostash # None /\ autostash.by = n) \/ restored'[n] > 0 \/ n \in safe
      <4>1. aside \subseteq Ops
        BY <1>t, TypeParts
      <4>2. QED
        BY <2>1, <2>2, <4>1 DEF WorkInv, WorkIsKeptOnce
    <3>3. QED
      BY <1>1, <1>4, <1>7, <3>1, <3>2 DEF WorkIsKeptOnce
  <2>7. QED
    BY <1>5, <2>3, <2>4, <2>6 DEF WorkInv
<1>8. QED
  BY <1>1, <1>6, <1>7

LEMMA WorkDrop ==
  ASSUME Inv, ReportInv, WorkInv, Drop
  PROVE  WorkInv'
<1>t. TypeOK /\ InHand
  BY DEF Inv
<1>1. /\ pc = "drop" /\ pc' = "exit" /\ Carried /\ (autostash' = None \/ UNCHANGED autostash)
      /\ parked' \in {None, parked}
      /\ UNCHANGED <<commits, tip, ops, aside, restored, safe, twins>>
  BY <1>t, AftercareDoes DEF branch, others, history
<1>2. me'.by = me.by /\ me'.kind = me.kind /\ me.stash = autostash
  BY <1>1 DEF Carried, ReportInv, Finishing
<1>3. /\ \A n : Conclusions(n)' = Conclusions(n) /\ Line(tip)' = Line(tip)
  BY <1>1, ConclusionsKept, LineKept DEF Line, Place, Parent
<1>4. Merged' /\ Spent' /\ Behind' /\ Older' /\ PutAway'
  BY <1>1, <1>2, <1>3 DEF WorkInv, Merged, Spent, Behind, Older, PutAway, InFlight
<1>5. WorkIsKeptOnce'
  BY <1>1, <1>2, <1>3 DEF WorkInv, WorkIsKeptOnce, PutAway
<1>6. QED
  BY <1>4, <1>5 DEF WorkInv

LEMMA WorkStep == Inv /\ ReportInv /\ WorkInv /\ [Next]_vars => WorkInv'
<1> SUFFICES ASSUME Inv, ReportInv, WorkInv, [Next]_vars
             PROVE  WorkInv'
  OBVIOUS
<1>1. CASE Next
  <2>1. CASE Starts \/ RawMerge
    BY <2>1, WorkStarts
  <2>2. CASE FastForward \/ Land \/ Elsewhere \/ Ordinary
    BY <2>2, WorkOfCommits
  <2>3. CASE Continue \/ FinishWhatCrashed
    BY <2>3, WorkContinues
  <2>4. CASE \/ MarkPick \/ Unpark \/ Sync \/ Record \/ Exit \/ Crash \/ Attempt \/ AppendLog
             \/ Clear \/ Settle \/ Materialize \/ NothingToMerge \/ Edit \/ Stage
    BY <2>4, WorkOfCommands
  <2>5. CASE UndoTip \/ Abandon \/ TakeBack
    BY <2>5, WorkOfOthers
  <2>6. CASE PutBack \/ Drop
    BY <2>6, WorkPutBack, WorkDrop
  <2>7. QED
    BY <1>1, <2>1, <2>2, <2>3, <2>4, <2>5, <2>6 DEF Next, Starts
<1>2. CASE UNCHANGED vars
  <2>1. UNCHANGED <<commits, tip, ops, aside, restored, safe, twins, autostash, parked, pc, me>>
    BY <1>2 DEF vars, files, branch, command, others, history
  <2>2. QED
    BY <2>1, WorkStays
<1>3. QED
  BY <1>1, <1>2

(* Work that was set aside is in MERGE_AUTOSTASH, in refs/stash, or back,    *)
(* and it is put back once, unless its merge was undone and made again       *)
(* (autostashIsThisMerges, consumeAutostash).                                *)
THEOREM WorkKept == Spec => []WorkIsKeptOnce
<1>1. Init => WorkInv
  <2> SUFFICES ASSUME Init
               PROVE  WorkInv
    OBVIOUS
  <2>1. /\ pc = "idle" /\ parked = None /\ autostash = None /\ twins = {} /\ aside = {}
        /\ restored = [n \in Ops |-> 0]
    BY DEF Init
  <2>2. \A n \in Ops : restored[n] = 0
    BY <2>1
  <2>3. Merged /\ Behind /\ Older /\ PutAway
    BY <2>1 DEF Merged, Behind, Older, PutAway, InFlight
  <2>4. Spent /\ WorkIsKeptOnce
    BY <2>1, <2>2 DEF Spent, WorkIsKeptOnce
  <2>5. QED
    BY <2>3, <2>4 DEF WorkInv
<1>2. Init => ReportInv
  BY DEF Init, ReportInv, Agree, Attempted, Concluding, Finishing, InFlight
<1>3. Inv /\ ReportInv /\ [Next]_vars => ReportInv'
  BY ReportStep
<1>4. Inv /\ ReportInv /\ WorkInv /\ [Next]_vars => WorkInv'
  BY WorkStep
<1>5. WorkInv => WorkIsKeptOnce
  BY DEF WorkInv
<1>6. QED
  BY <1>1, <1>2, <1>3, <1>4, <1>5, InvAlways, PTL DEF Spec

---------------------------------------------------------------------------
(* Resolution.                                                               *)
(* A set of numbers that has a member has a least one.                       *)
LEMMA LeastNatural ==
  ASSUME NEW S \in SUBSET Nat, S # {}
  PROVE  \E n \in S : \A m \in S : n <= m
<1> DEFINE Below(m) == {k \in Nat : k < m}
           T == {Below(m) : m \in S}
<1>1. \A m \in Nat : Below(m) \in FiniteSubsetsOf(Nat)
  <2> TAKE m \in Nat
  <2>1. IsFiniteSet(0..m)
    BY FS_Interval
  <2>2. Below(m) \in SUBSET (0..m)
    OBVIOUS
  <2>3. IsFiniteSet(Below(m))
    BY <2>1, <2>2, FS_Subset
  <2> QED
    BY <2>3 DEF FiniteSubsetsOf
<1>2. T \subseteq FiniteSubsetsOf(Nat) /\ T # {}
  BY <1>1
<1>3. \E x \in T : \A y \in T : <<y, x>> \notin StrictSubsetOrdering(Nat)
  <2> HIDE DEF T
  <2> QED
    BY <1>2, FS_StrictSubsetOrderingWellFounded, WFMin
<1>4. PICK n \in S : \A m \in S : <<Below(m), Below(n)>> \notin StrictSubsetOrdering(Nat)
  BY <1>3
<1>5. ASSUME NEW m \in S, ~(n <= m)
      PROVE  <<Below(m), Below(n)>> \in StrictSubsetOrdering(Nat)
  <2>1. Below(m) \subseteq Below(n) /\ Below(n) \subseteq Nat
    BY <1>5
  <2>2. m \in Below(n) /\ m \notin Below(m)
    BY <1>5
  <2> QED
    BY <2>1, <2>2 DEF StrictSubsetOrdering
<1> QED
  BY <1>4, <1>5

(* The first of the numbers in a set.                                        *)
LEMMA MinOK ==
  ASSUME NEW S \in SUBSET Nat, S # {}
  PROVE  V!Min(S) \in S /\ \A m \in S : V!Min(S) <= m
<1>1. \E n \in S : \A m \in S : n <= m
  BY LeastNatural
<1>2. QED
  BY <1>1 DEF V!Min

(* The first line of some kinds is one of them, and none is before it.       *)
LEMMA FirstOK ==
  ASSUME NEW AnyLine, NEW content \in Seq(AnyLine), NEW from \in Nat, from # 0, NEW kinds
  PROVE  /\ V!First(content, from, kinds) \in Nat
         /\ V!First(content, from, kinds) # 0 =>
              /\ V!First(content, from, kinds) \in from..Len(content)
              /\ content[V!First(content, from, kinds)] \in kinds
         /\ \A i \in from..Len(content) : content[i] \in kinds =>
              V!First(content, from, kinds) # 0 /\ V!First(content, from, kinds) <= i
<1> DEFINE at == {i \in from..Len(content) : content[i] \in kinds}
<1>1. at \in SUBSET Nat /\ 0 \notin at
  OBVIOUS
<1>2. V!First(content, from, kinds) = IF at = {} THEN 0 ELSE V!Min(at)
  BY DEF V!First
<1>3. CASE at = {}
  BY <1>2, <1>3
<1>4. CASE at # {}
  <2>1. V!Min(at) \in at /\ \A m \in at : V!Min(at) <= m
    <3> HIDE DEF at
    <3> QED
      BY <1>1, <1>4, MinOK
  <2> DEFINE first == V!Min(at)
  <2>2. V!First(content, from, kinds) = first
    BY <1>2, <1>4
  <2>3. first \in from..Len(content) /\ content[first] \in kinds /\ first # 0
    BY <2>1
  <2>4. \A i \in from..Len(content) : content[i] \in kinds => first <= i
    BY <2>1
  <2> HIDE DEF first
  <2>5. QED
    BY <2>2, <2>3, <2>4
<1>5. QED
  BY <1>3, <1>4

(* A block closes after it opens, at a line that closes one.                 *)
LEMMA ClosedOK ==
  ASSUME NEW AnyLine, NEW content \in Seq(AnyLine), NEW i \in DOMAIN content
  PROVE  /\ V!Closed(content, i) \in Nat
         /\ V!Closed(content, i) # 0 =>
              V!Closed(content, i) \in (i + 1)..Len(content) /\ content[V!Closed(content, i)] \in V!Closes
<1> DEFINE sep == V!First(content, i + 1, V!Separates \cup V!Closes)
<1>1. i \in Nat /\ i + 1 \in Nat /\ i + 1 # 0 /\ Len(content) \in Nat
  OBVIOUS
<1>2. sep \in Nat /\ (sep # 0 => sep \in (i + 1)..Len(content))
  BY <1>1, FirstOK
<1>3. V!Closed(content, i) = IF sep = 0 \/ content[sep] \in V!Closes THEN 0 ELSE V!First(content, sep + 1, V!Closes)
  BY DEF V!Closed
<1> HIDE DEF sep
<1>4. CASE sep = 0 \/ content[sep] \in V!Closes
  BY <1>3, <1>4
<1>5. CASE ~(sep = 0 \/ content[sep] \in V!Closes)
  <2> DEFINE close == V!First(content, sep + 1, V!Closes)
  <2>1. sep + 1 \in Nat /\ sep + 1 # 0
    BY <1>2
  <2>2. close \in Nat /\ (close # 0 => close \in (sep + 1)..Len(content) /\ content[close] \in V!Closes)
    BY <2>1, FirstOK
  <2>3. V!Closed(content, i) = close
    BY <1>3, <1>5
  <2> HIDE DEF close
  <2>4. QED
    BY <1>1, <1>2, <1>5, <2>2, <2>3
<1>6. QED
  BY <1>4, <1>5

(* What is computed from the end backwards, each value of a later one, is    *)
(* there for every place.                                                    *)
Scans(f, k, n, stop, block, jump) == f = [i \in k..n |-> IF i \in stop THEN {} ELSE {block[i]} \cup f[jump[i]]]
(* There is such a computation whenever it goes on to later places only.     *)
LEMMA ScanExists ==
  ASSUME NEW n \in Nat, NEW stop, NEW block, NEW jump, \A i \in 1..n : i \notin stop => jump[i] \in (i + 1)..n
  PROVE  \E f : Scans(f, 1, n, stop, block, jump)
<1> DEFINE without == {m \in 0..n : ~\E f : Scans(f, n + 1 - m, n, stop, block, jump)}
<1>1. ASSUME without # {}
      PROVE  FALSE
  <2>1. PICK m \in without : \A l \in without : m <= l
    <3>1. without \in SUBSET Nat
      OBVIOUS
    <3> HIDE DEF without
    <3>2. QED
      BY <1>1, <3>1, LeastNatural
  <2>2. m # 0
    <3>1. Scans([i \in (n + 1)..n |-> {}], n + 1, n, stop, block, jump)
      BY DEF Scans
    <3>2. QED
      BY <3>1
  <2>3. m \in 1..n /\ m - 1 \in 0..n /\ ~(m <= m - 1)
    BY <2>2
  <2>4. PICK f : Scans(f, n + 1 - (m - 1), n, stop, block, jump)
    BY <2>1, <2>3
  <2> DEFINE k == n + 1 - m
             g == [i \in k..n |-> IF i # k THEN f[i] ELSE IF i \in stop THEN {} ELSE {block[i]} \cup f[jump[i]]]
  <2>5. k \in 1..n /\ n + 1 - (m - 1) = k + 1
    BY <2>3
  <2> HIDE DEF k
  <2>6. f = [i \in (k + 1)..n |-> IF i \in stop THEN {} ELSE {block[i]} \cup f[jump[i]]]
    BY <2>4, <2>5 DEF Scans
  <2>7. \A i \in (k + 1)..n : f[i] = IF i \in stop THEN {} ELSE {block[i]} \cup f[jump[i]]
    BY <2>6
  <2>8. \A i \in (k + 1)..n : g[i] = f[i]
    BY <2>5
  <2>9. \A i \in k..n : i \notin stop => g[jump[i]] = f[jump[i]]
    <3> TAKE i \in k..n
    <3> HAVE i \notin stop
    <3>1. jump[i] \in (k + 1)..n
      BY <2>5
    <3>2. QED
      BY <3>1, <2>8
  <2>10. \A i \in k..n : g[i] = IF i \in stop THEN {} ELSE {block[i]} \cup g[jump[i]]
    <3> TAKE i \in k..n
    <3>1. CASE i = k
      <4>1. g[i] = IF i \in stop THEN {} ELSE {block[i]} \cup f[jump[i]]
        BY <3>1
      <4>2. i \notin stop => g[jump[i]] = f[jump[i]]
        BY <2>9
      <4> HIDE DEF g
      <4>3. QED
        BY <4>1, <4>2
    <3>2. CASE i # k
      <4>1. i \in (k + 1)..n
        BY <3>2, <2>5
      <4>2. g[i] = IF i \in stop THEN {} ELSE {block[i]} \cup f[jump[i]]
        BY <4>1, <2>7, <2>8
      <4>3. i \notin stop => g[jump[i]] = f[jump[i]]
        BY <2>9
      <4> HIDE DEF g
      <4>4. QED
        BY <4>2, <4>3
    <3>3. QED
      BY <3>1, <3>2
  <2>11. g = [i \in k..n |-> g[i]]
    OBVIOUS
  <2> HIDE DEF g
  <2>12. Scans(g, k, n, stop, block, jump)
    BY <2>10, <2>11 DEF Scans
  <2>13. QED
    BY <2>12, <2>1 DEF k
<1>2. n \in 0..n /\ n \notin without
  BY <1>1
<1>3. \E f : Scans(f, n + 1 - n, n, stop, block, jump)
  BY <1>2
<1>4. n + 1 - n = 1
  OBVIOUS
<1>5. QED
  BY <1>3, <1>4

(* What Regions scans: from a line on, nothing when no complete block opens  *)
(* there or later, else the next one and what is scanned after its end.      *)
Starting(content) == {i \in DOMAIN content : content[i] \in V!Opens /\ V!Closed(content, i) # 0}
NextStart(content, k) == V!Min({i \in Starting(content) : i >= k})
BlockAt(content, i) == SubSeq(content, i, V!Closed(content, i))
Scanned(content, from) ==
    from = [k \in 1..(Len(content) + 1) |->
               IF {i \in Starting(content) : i >= k} = {} THEN {}
               ELSE {BlockAt(content, NextStart(content, k))} \cup from[V!Closed(content, NextStart(content, k)) + 1]]

(* The regions are what is scanned from the first line on.                   *)
LEMMA RegionsAre ==
  ASSUME NEW content
  PROVE  V!Regions(content) = (CHOOSE from : Scanned(content, from))[1]
  BY Zenon DEF V!Regions, Scanned, Starting, NextStart, BlockAt

(* The next block opens at or after the line, and none before it; the scan   *)
(* goes on after its end.                                                    *)
LEMMA NextStartOK ==
  ASSUME NEW AnyLine, NEW content \in Seq(AnyLine), NEW k \in 1..(Len(content) + 1), NEW i \in Starting(content), i >= k
  PROVE  LET m == NextStart(content, k)
         IN  /\ m \in Starting(content) /\ k <= m /\ m <= i
             /\ V!Closed(content, m) + 1 \in (k + 1)..(Len(content) + 1)
             /\ V!Closed(content, m) \in (m + 1)..Len(content)
<1> DEFINE later == {j \in Starting(content) : j >= k}
           m == NextStart(content, k)
<1>1. later \in SUBSET Nat /\ i \in later
  BY DEF Starting
<1>2. m \in later /\ \A j \in later : m <= j
  <2>1. m = V!Min(later)
    BY DEF NextStart
  <2> HIDE DEF m, later
  <2>2. QED
    BY <1>1, <2>1, MinOK
<1>3. m \in Starting(content) /\ k <= m /\ m <= i
  BY <1>1, <1>2
<1> HIDE DEF m, later
<1>4. m \in DOMAIN content /\ V!Closed(content, m) # 0
  BY <1>3 DEF Starting
<1>5. V!Closed(content, m) \in (m + 1)..Len(content)
  BY <1>4, ClosedOK
<1>6. V!Closed(content, m) + 1 \in (k + 1)..(Len(content) + 1)
  BY <1>3, <1>4, <1>5
<1>7. QED
  BY <1>3, <1>5, <1>6 DEF m

(* The scan comes to an end, so the regions are the ones it finds.           *)
LEMMA RegionsScan ==
  ASSUME NEW AnyLine, NEW content \in Seq(AnyLine)
  PROVE  \E from : Scanned(content, from) /\ V!Regions(content) = from[1]
<1> DEFINE n == Len(content) + 1
           stop == {k \in 1..n : {i \in Starting(content) : i >= k} = {}}
           block == [k \in 1..n |-> BlockAt(content, NextStart(content, k))]
           jump == [k \in 1..n |-> V!Closed(content, NextStart(content, k)) + 1]
<1>1. n \in Nat
  OBVIOUS
<1>2. \A k \in 1..n : k \notin stop => jump[k] \in (k + 1)..n
  <2> TAKE k \in 1..n
  <2> HAVE k \notin stop
  <2>1. PICK i \in Starting(content) : i >= k
    OBVIOUS
  <2>2. V!Closed(content, NextStart(content, k)) + 1 \in (k + 1)..(Len(content) + 1)
    BY <2>1, NextStartOK
  <2>3. QED
    BY <2>2
<1>3. \E from : Scans(from, 1, n, stop, block, jump)
  <2> HIDE DEF n, stop, block, jump
  <2>1. QED
    BY <1>1, <1>2, ScanExists
<1>4. PICK from : Scans(from, 1, n, stop, block, jump)
  BY <1>3
<1>5. Scanned(content, from)
  <2>1. from = [k \in 1..n |-> IF k \in stop THEN {} ELSE {block[k]} \cup from[jump[k]]]
    BY <1>4 DEF Scans
  <2>2. \A k \in 1..n : (k \in stop) = ({i \in Starting(content) : i >= k} = {})
    OBVIOUS
  <2>3. \A k \in 1..n : block[k] = BlockAt(content, NextStart(content, k))
    OBVIOUS
  <2>4. \A k \in 1..n : jump[k] = V!Closed(content, NextStart(content, k)) + 1
    OBVIOUS
  <2> HIDE DEF stop, block, jump
  <2>5. QED
    BY <2>1, <2>2, <2>3, <2>4 DEF Scanned
<1>6. Scanned(content, CHOOSE f : Scanned(content, f))
  BY Zenon, <1>5
<1>7. QED
  BY Zenon, <1>6, RegionsAre

(* Every block there is was opened, and closed, where it was read; and every *)
(* complete block is in one that is there.                                   *)
LEMMA RegionsOK ==
  ASSUME NEW AnyLine, NEW content \in Seq(AnyLine)
  PROVE  /\ \A r \in V!Regions(content) : \E i \in Starting(content) : r = BlockAt(content, i)
         /\ \A i \in Starting(content) : \E j \in Starting(content) :
               j <= i /\ i <= V!Closed(content, j) /\ BlockAt(content, j) \in V!Regions(content)
<1>1. PICK from : Scanned(content, from) /\ V!Regions(content) = from[1]
  BY RegionsScan
<1> DEFINE n == Len(content) + 1
           Read(k) == \A r \in from[k] : \E i \in Starting(content) : r = BlockAt(content, i)
           Covered(k) == \A i \in Starting(content) : i >= k => \E j \in Starting(content) :
                            j <= i /\ i <= V!Closed(content, j) /\ BlockAt(content, j) \in from[k]
           bad == {n - k : k \in {k \in 1..n : ~(Read(k) /\ Covered(k))}}
<1>2. n \in Nat /\ 1 \in 1..n /\ Starting(content) \subseteq 1..Len(content)
  BY DEF Starting
<1>3. bad = {}
  <2> SUFFICES ASSUME bad # {}
               PROVE  FALSE
    OBVIOUS
  <2>1. bad \in SUBSET Nat
    BY <1>2
  <2>2. PICK b \in bad : \A c \in bad : b <= c
    <3> HIDE DEF bad
    <3>1. QED
      BY <2>1, LeastNatural
  <2>3. PICK k \in 1..n : b = n - k /\ ~(Read(k) /\ Covered(k))
    <3> HIDE DEF n, Read, Covered
    <3>1. QED
      BY <2>2
  <2>4. \A l \in (k + 1)..n : Read(l) /\ Covered(l)
    <3> TAKE l \in (k + 1)..n
    <3>1. l \in 1..n /\ ~(b <= n - l)
      BY <1>2, <2>3
    <3>2. n - l \notin bad
      BY <3>1, <2>2
    <3> HIDE DEF Read, Covered
    <3>3. QED
      BY <3>1, <3>2
  <2> DEFINE m == NextStart(content, k)
  <2>5. from[k] = IF {i \in Starting(content) : i >= k} = {} THEN {} ELSE {BlockAt(content, m)} \cup from[V!Closed(content, m) + 1]
    BY <1>1, <2>3 DEF Scanned
  <2>6. CASE {i \in Starting(content) : i >= k} = {}
    <3>1. from[k] = {}
      BY <2>5, <2>6
    <3>2. Read(k) /\ Covered(k)
      BY <3>1, <2>6
    <3> HIDE DEF Read, Covered
    <3>3. QED
      BY <3>2, <2>3
  <2>7. CASE {i \in Starting(content) : i >= k} # {}
    <3> DEFINE l == V!Closed(content, m) + 1
    <3>1. PICK p \in Starting(content) : p >= k
      BY <2>7
    <3>2. /\ m \in Starting(content) /\ l \in (k + 1)..n /\ V!Closed(content, m) \in Nat
      BY <3>1, <2>3, NextStartOK
    <3>3. \A i \in Starting(content) : i >= k => m <= i
      BY <2>3, NextStartOK
    <3>4. Read(l) /\ Covered(l)
      <4> HIDE DEF Read, Covered, l
      <4>1. QED
        BY <3>2, <2>4
    <3>5. from[k] = {BlockAt(content, m)} \cup from[l]
      BY <2>5, <2>7
    <3> HIDE DEF m
    <3>6. Read(k)
      BY <3>2, <3>4, <3>5
    <3>7. Covered(k)
      <4>1. SUFFICES ASSUME NEW i \in Starting(content), i >= k
                     PROVE  \E j \in Starting(content) : j <= i /\ i <= V!Closed(content, j) /\ BlockAt(content, j) \in from[k]
        OBVIOUS
      <4>2. CASE i <= V!Closed(content, m)
        BY <4>1, <4>2, <3>2, <3>3, <3>5
      <4>3. CASE ~(i <= V!Closed(content, m))
        <5>1. i >= l
          BY <4>3, <3>2, <1>2
        <5>2. QED
          BY <4>1, <5>1, <3>4, <3>5
      <4>4. QED
        BY <4>2, <4>3
    <3> HIDE DEF Read, Covered
    <3>8. QED
      BY <3>6, <3>7, <2>3
  <2>8. QED
    BY <2>6, <2>7
<1>4. Read(1) /\ Covered(1)
  <2>1. n - 1 \notin bad
    BY <1>3
  <2> HIDE DEF Read, Covered
  <2>2. QED
    BY <1>2, <2>1
<1>5. \A i \in Starting(content) : i >= 1
  BY <1>2
<1>6. QED
  BY <1>1, <1>4, <1>5

---------------------------------------------------------------------------
(* What one run reads, of files of any lines: the content of every path, and *)
(* what is known of those in conflict and of those that are staged.          *)
World(Paths, AnyLine) ==
    [sides  : UNION {[P -> [base : Seq(AnyLine), ours : Seq(AnyLine), theirs : Seq(AnyLine)]] : P \in SUBSET Paths},
     auto   : UNION {[P -> Seq(AnyLine)] : P \in SUBSET Paths},
     index  : UNION {[P -> Seq(AnyLine)] : P \in SUBSET Paths},
     head   : [Paths -> Seq(AnyLine)],
     in     : [Paths -> Seq(AnyLine)],
     disk   : [Paths -> Seq(AnyLine)],
     exempt : SUBSET Paths]
Readable(w, Paths, AnyLine) == w \in World(Paths, AnyLine) /\ V!None \in Seq(AnyLine) /\ DOMAIN w.sides \cap DOMAIN w.index = {}

Choices == {"ours", "theirs", "worktree", "delete"}
Declarations(Paths) == Seq([path : Paths, choice : Choices])

(* What a declaration makes of a path.                                       *)
Answer(w, d) ==
    CASE d.choice = "ours"     -> w.sides[d.path].ours
      [] d.choice = "theirs"   -> w.sides[d.path].theirs
      [] d.choice = "worktree" -> w.disk[d.path]
      [] d.choice = "delete"   -> V!None

(* A block of git's: a line that opens one, the separator before any line    *)
(* that closes one, and a line that does after it.                           *)
IsBlock(content, i, j, k) ==
    /\ i < j /\ j < k
    /\ content[i] \in V!Opens /\ content[j] \in V!Separates /\ content[k] \in V!Closes
    /\ \A l \in (i + 1)..j : content[l] \notin V!Closes

(* Such a block is a complete one.                                           *)
LEMMA BlockStarts ==
  ASSUME NEW AnyLine, NEW content \in Seq(AnyLine), NEW i \in DOMAIN content, NEW j \in DOMAIN content, NEW k \in DOMAIN content,
         IsBlock(content, i, j, k)
  PROVE  i \in Starting(content)
<1> DEFINE sep == V!First(content, i + 1, V!Separates \cup V!Closes)
           close == V!First(content, sep + 1, V!Closes)
<1>1. i + 1 \in Nat /\ i + 1 # 0 /\ j \in (i + 1)..Len(content) /\ j < k /\ k \in 1..Len(content)
  BY DEF IsBlock
<1>2. content[i] \in V!Opens /\ content[j] \in V!Separates /\ content[k] \in V!Closes /\ \A l \in (i + 1)..j : content[l] \notin V!Closes
  BY DEF IsBlock
<1>3. sep \in Nat /\ sep # 0 /\ sep \in (i + 1)..Len(content) /\ sep <= j
  BY <1>1, <1>2, FirstOK
<1> HIDE DEF sep
<1>4. content[sep] \notin V!Closes
  BY <1>1, <1>2, <1>3
<1>5. sep + 1 \in Nat /\ sep + 1 # 0 /\ k \in (sep + 1)..Len(content)
  BY <1>1, <1>3
<1>6. close # 0
  BY <1>2, <1>5, FirstOK
<1>7. V!Closed(content, i) = close
  <2>1. V!Closed(content, i) = IF sep = 0 \/ content[sep] \in V!Closes THEN 0 ELSE close
    BY DEF V!Closed, sep
  <2> HIDE DEF close
  <2>2. QED
    BY <2>1, <1>3, <1>4
<1>8. QED
  BY <1>2, <1>6, <1>7 DEF Starting

(* A content contains every block of it.                                     *)
LEMMA OwnBlocks ==
  ASSUME NEW AnyLine, NEW content \in Seq(AnyLine), NEW r \in V!Regions(content)
  PROVE  V!ContainsRegion(content, r)
<1>1. PICK i \in Starting(content) : r = BlockAt(content, i)
  BY RegionsOK
<1> DEFINE c == V!Closed(content, i)
<1>2. i \in 1..Len(content) /\ c # 0
  BY DEF Starting
<1>3. c \in (i + 1)..Len(content)
  BY <1>2, ClosedOK
<1>4. r = SubSeq(content, i, c)
  BY <1>1 DEF BlockAt
<1> HIDE DEF c
<1>5. Len(r) = c - i + 1
  BY <1>2, <1>3, <1>4
<1>6. i \in 1..(Len(content) - Len(r) + 1) /\ i + Len(r) - 1 = c
  BY <1>2, <1>3, <1>5
<1>7. SubSeq(content, i, i + Len(r) - 1) = r
  BY <1>4, <1>6
<1>8. QED
  BY <1>6, <1>7 DEF V!ContainsRegion

(* No file has no block.                                                     *)
LEMMA OneLine ==
  ASSUME NEW x, x \notin V!Opens
  PROVE  Starting(<<x>>) = {}
  BY DEF Starting
LEMMA NoFile ==
  ASSUME NEW AnyLine, V!None \in Seq(AnyLine)
  PROVE  Starting(V!None) = {} /\ V!Regions(V!None) = {}
<1>1. "no file" \notin V!Opens
  BY Zenon DEF V!Opens
<1>2. Starting(V!None) = {}
  BY Zenon, <1>1, OneLine DEF V!None
<1>3. QED
  BY <1>2, RegionsOK

(* What is declared, when it is complete: a path's own declaration.          *)
LEMMA DeclaredOnce ==
  ASSUME NEW w, NEW Paths, NEW declared \in Declarations(Paths), V!Complete(w, declared)
  PROVE  /\ \A i \in DOMAIN declared : declared[i].path \in DOMAIN w.sides
         /\ \A p \in DOMAIN w.sides : \E i \in DOMAIN declared :
               /\ declared[i].path = p /\ \A j \in DOMAIN declared : declared[j].path = p => j = i
               /\ V!Chosen(w, declared)[p] = declared[i].choice
<1>1. /\ \A i, j \in DOMAIN declared : declared[i].path = declared[j].path => i = j
      /\ {d.path : d \in V!ToSet(declared)} = DOMAIN w.sides
  BY DEF V!Complete
<1>2. V!ToSet(declared) = {declared[i] : i \in DOMAIN declared}
  BY DEF V!ToSet
<1>3. \A i \in DOMAIN declared : declared[i].path \in DOMAIN w.sides
  BY <1>1, <1>2
<1>4. ASSUME NEW p \in DOMAIN w.sides
      PROVE  \E i \in DOMAIN declared :
               /\ declared[i].path = p /\ \A j \in DOMAIN declared : declared[j].path = p => j = i
               /\ V!Chosen(w, declared)[p] = declared[i].choice
  <2>1. PICK i \in DOMAIN declared : declared[i].path = p
    BY <1>1, <1>2
  <2>2. \A j \in DOMAIN declared : declared[j].path = p => j = i
    BY <1>1, <2>1
  <2>3. (CHOOSE d \in V!ToSet(declared) : d.path = p) = declared[i]
    <3>1. \A d \in V!ToSet(declared) : d.path = p <=> d = declared[i]
      BY <1>2, <2>1, <2>2
    <3>2. declared[i] \in V!ToSet(declared)
      BY <1>2
    <3>3. QED
      BY <3>1, <3>2
  <2>4. V!Chosen(w, declared)[p] = declared[i].choice
    BY <2>3 DEF V!Chosen
  <2>5. QED
    BY <2>1, <2>2, <2>4
<1>5. QED
  BY <1>3, <1>4

(* What is read is a content of lines.                                       *)
LEMMA ReadTypes ==
  ASSUME NEW AnyLine, NEW Paths, NEW w, Readable(w, Paths, AnyLine)
  PROVE  /\ DOMAIN w.sides \subseteq Paths /\ DOMAIN w.index \subseteq Paths /\ w.exempt \subseteq Paths
         /\ DOMAIN w.head = Paths /\ DOMAIN w.disk = Paths /\ DOMAIN w.sides \cap DOMAIN w.index = {}
         /\ \A p \in DOMAIN w.sides : {w.sides[p].base, w.sides[p].ours, w.sides[p].theirs} \subseteq Seq(AnyLine)
         /\ \A p \in DOMAIN w.index : w.index[p] \in Seq(AnyLine)
         /\ \A p \in Paths : {w.head[p], w.in[p], w.disk[p]} \subseteq Seq(AnyLine)
         /\ V!None \in Seq(AnyLine)
<1>1. w \in World(Paths, AnyLine)
  BY DEF Readable
<1>2. PICK P \in SUBSET Paths : w.sides \in [P -> [base : Seq(AnyLine), ours : Seq(AnyLine), theirs : Seq(AnyLine)]]
  BY <1>1 DEF World
<1>3. PICK Q \in SUBSET Paths : w.index \in [Q -> Seq(AnyLine)]
  BY <1>1 DEF World
<1>4. DOMAIN w.sides = P /\ \A p \in P : w.sides[p] \in [base : Seq(AnyLine), ours : Seq(AnyLine), theirs : Seq(AnyLine)]
  BY <1>2
<1>5. \A p \in P : {w.sides[p].base, w.sides[p].ours, w.sides[p].theirs} \subseteq Seq(AnyLine)
  BY <1>4
<1>6. DOMAIN w.index = Q /\ \A p \in Q : w.index[p] \in Seq(AnyLine)
  BY <1>3
<1>7. w.head \in [Paths -> Seq(AnyLine)] /\ w.in \in [Paths -> Seq(AnyLine)] /\ w.disk \in [Paths -> Seq(AnyLine)] /\ w.exempt \subseteq Paths
  BY <1>1 DEF World
<1>8. DOMAIN w.sides \cap DOMAIN w.index = {} /\ V!None \in Seq(AnyLine)
  BY DEF Readable
<1>9. DOMAIN w.head = Paths /\ DOMAIN w.disk = Paths /\ \A p \in Paths : {w.head[p], w.in[p], w.disk[p]} \subseteq Seq(AnyLine)
  BY <1>7
<1>10. QED
  BY <1>4, <1>5, <1>6, <1>7, <1>8, <1>9

(* A sequence has members of its set.                                        *)
LEMMA MemberOf ==
  ASSUME NEW S, NEW s \in Seq(S), NEW i \in DOMAIN s
  PROVE  s[i] \in S
OBVIOUS

(* What a declaration commits of its path is its answer.                     *)
LEMMA CommittedOf ==
  ASSUME NEW AnyLine, NEW Paths, NEW w, Readable(w, Paths, AnyLine), NEW declared \in Declarations(Paths), V!Complete(w, declared),
         NEW i \in DOMAIN declared
  PROVE  /\ V!CommittedContent(w, V!Chosen(w, declared), declared[i].path) = Answer(w, declared[i])
         /\ Answer(w, declared[i]) \in Seq(AnyLine)
         /\ V!Chosen(w, declared)[declared[i].path] = declared[i].choice
         /\ declared[i].choice \in Choices
<1> DEFINE p == declared[i].path
           choices == V!Chosen(w, declared)
<1>1. p \in DOMAIN w.sides
  BY DeclaredOnce
<1>2. choices[p] = declared[i].choice
  BY <1>1, DeclaredOnce
<1>3. declared[i].choice \in Choices
  <2>1. declared[i] \in [path : Paths, choice : Choices]
    BY Zenon, MemberOf DEF Declarations
  <2>2. QED
    BY <2>1
<1>4. DOMAIN choices = DOMAIN w.sides
  BY DEF V!Chosen
<1>5. p \in DOMAIN w.sides /\ p \in Paths
  BY <1>1, ReadTypes
<1>6. {w.sides[p].ours, w.sides[p].theirs, w.disk[p], V!None} \subseteq Seq(AnyLine)
  BY <1>5, ReadTypes
<1> HIDE DEF choices
<1>7. V!CommittedContent(w, choices, p) = Answer(w, declared[i])
  BY <1>2, <1>3, <1>4, <1>5 DEF V!CommittedContent, Answer, Choices
<1>8. Answer(w, declared[i]) \in Seq(AnyLine)
  BY <1>3, <1>6 DEF Answer, Choices
<1>9. QED
  BY <1>2, <1>3, <1>7, <1>8 DEF choices

(* What an accepted conclusion has gone by.                                  *)
LEMMA Accepts ==
  ASSUME NEW w, NEW declared, NEW discard, V!Concluded(w, declared, discard).refused = "no"
  PROVE  LET c == V!Concluded(w, declared, discard)
             choices == V!Chosen(w, declared)
         IN  /\ V!Complete(w, declared) /\ V!VerifyMarkers(w, choices) /\ (discard \/ V!Unmatched(w, choices) = {})
             /\ c.tree = V!Edited(w, choices) /\ c.disk = V!Materialized(w, choices)
  BY DEF V!Concluded

(* What an accepted conclusion commits of a path.                            *)
LEMMA TreeOf ==
  ASSUME NEW AnyLine, NEW Paths, NEW w, Readable(w, Paths, AnyLine), NEW declared \in Declarations(Paths), NEW discard,
         V!Concluded(w, declared, discard).refused = "no", NEW p \in Paths
  PROVE  LET c == V!Concluded(w, declared, discard)
             choices == V!Chosen(w, declared)
         IN  /\ p \in DOMAIN w.sides \cup DOMAIN w.index => c.tree[p] = V!CommittedContent(w, choices, p)
             /\ p \in DOMAIN w.index => c.tree[p] = w.index[p]
             /\ p \notin DOMAIN w.sides \cup DOMAIN w.index => c.tree[p] = w.head[p]
             /\ p \notin DOMAIN w.sides => c.disk[p] = w.disk[p]
             /\ c.tree[p] \in Seq(AnyLine)
<1> DEFINE c == V!Concluded(w, declared, discard)
           choices == V!Chosen(w, declared)
<1>1. V!Complete(w, declared) /\ c.tree = V!Edited(w, choices) /\ c.disk = V!Materialized(w, choices)
  BY Accepts
<1>2. DOMAIN choices = DOMAIN w.sides
  BY DEF V!Chosen
<1>3. DOMAIN w.head = Paths /\ DOMAIN w.disk = Paths
  BY ReadTypes
<1>4. DOMAIN w.sides \cap DOMAIN w.index = {}
  BY ReadTypes
<1>5. p \in DOMAIN w.sides => V!CommittedContent(w, choices, p) \in Seq(AnyLine)
  <2> SUFFICES ASSUME p \in DOMAIN w.sides
               PROVE  V!CommittedContent(w, choices, p) \in Seq(AnyLine)
    OBVIOUS
  <2>1. PICK i \in DOMAIN declared : declared[i].path = p
    BY <1>1, DeclaredOnce
  <2>2. QED
    BY <1>1, <2>1, CommittedOf
<1>6. (p \in DOMAIN w.index => w.index[p] \in Seq(AnyLine)) /\ w.head[p] \in Seq(AnyLine)
  BY ReadTypes
<1> HIDE DEF c, choices
<1>7. c.tree[p] = IF p \in DOMAIN w.sides \cup DOMAIN w.index THEN V!CommittedContent(w, choices, p) ELSE w.head[p]
  BY <1>1, <1>2, <1>3 DEF V!Edited
<1>8. p \notin DOMAIN w.sides => c.disk[p] = w.disk[p]
  BY <1>1, <1>2, <1>3 DEF V!Materialized
<1>9. p \in DOMAIN w.index => V!CommittedContent(w, choices, p) = w.index[p]
  BY <1>2, <1>4 DEF V!CommittedContent
<1>10. QED
  BY <1>5, <1>6, <1>7, <1>8, <1>9 DEF c, choices

(* Every block in what is committed where the check applies is one that a    *)
(* side had.                                                                 *)
Sides(w, p) == IF p \in DOMAIN w.sides THEN {w.sides[p].base, w.sides[p].ours, w.sides[p].theirs} ELSE {w.head[p], w.in[p]}
LEMMA BlocksAreHad ==
  ASSUME NEW AnyLine, NEW Paths, NEW w, Readable(w, Paths, AnyLine), NEW declared \in Declarations(Paths), NEW discard,
         V!Concluded(w, declared, discard).refused = "no", NEW p \in Paths \ w.exempt,
         NEW r \in V!Regions(V!Concluded(w, declared, discard).tree[p])
  PROVE  \E b \in Sides(w, p) \ {V!None} : V!ContainsRegion(b, r)
<1> DEFINE c == V!Concluded(w, declared, discard)
           choices == V!Chosen(w, declared)
           had == V!BaseBlobs(w, p)
<1>1. V!Complete(w, declared) /\ V!VerifyMarkers(w, choices)
  BY Accepts
<1>2. DOMAIN choices = DOMAIN w.sides
  BY DEF V!Chosen
<1>3. had = Sides(w, p) \ {V!None}
  BY DEF V!BaseBlobs, V!Stages, Sides
<1>4. c.tree[p] \in Seq(AnyLine)
  BY TreeOf
<1>5. c.tree[p] # V!None
  BY NoFile, ReadTypes
<1>6. CASE p \in V!Verifiable(w, choices)
  <2>1. p \in DOMAIN w.sides \cup DOMAIN w.index
    BY <1>2, <1>6 DEF V!Verifiable
  <2>2. c.tree[p] = V!CommittedContent(w, choices, p)
    BY <2>1, TreeOf
  <2>3. V!Unattributed(w, choices, p) = {}
    BY <1>1, <1>6 DEF V!VerifyMarkers
  <2> HIDE DEF choices
  <2>4. QED
    BY <1>3, <2>2, <2>3 DEF V!Unattributed
<1>7. CASE p \notin V!Verifiable(w, choices) /\ p \in DOMAIN w.sides
  <2>1. choices[p] = "delete"
    BY <1>2, <1>7 DEF V!Verifiable
  <2>2. c.tree[p] = V!CommittedContent(w, choices, p)
    BY <1>7, TreeOf
  <2> HIDE DEF choices
  <2>3. V!CommittedContent(w, choices, p) = V!None
    BY <1>2, <1>7, <2>1 DEF V!CommittedContent
  <2>4. QED
    BY <1>5, <2>2, <2>3
<1>8. CASE p \notin V!Verifiable(w, choices) /\ p \notin DOMAIN w.sides
  <2>1. c.tree[p] = w.head[p]
    <3>1. CASE p \in DOMAIN w.index
      BY <1>8, <3>1, TreeOf DEF V!Verifiable
    <3>2. CASE p \notin DOMAIN w.index
      BY <1>8, <3>2, TreeOf
    <3>3. QED
      BY <3>1, <3>2
  <2>2. w.head[p] \in Sides(w, p) \ {V!None}
    BY <1>5, <1>8, <2>1 DEF Sides
  <2>3. V!ContainsRegion(c.tree[p], r)
    BY <1>4, OwnBlocks
  <2>4. QED
    BY <2>1, <2>2, <2>3
<1>9. QED
  BY <1>6, <1>7, <1>8

(* A conclusion that is not refused has one declaration for every path in    *)
(* conflict and none for another; it commits what was declared and leaves it *)
(* in the file; a file that nothing accounts for is written over only where  *)
(* that was elected; every other path is committed as the index has it, its  *)
(* file untouched (collectResolutions, checkCompleteness,                    *)
(* unmatchedWorktreeFiles).                                                  *)
THEOREM AcceptedIsDeclared ==
  ASSUME NEW AnyLine, NEW Paths, NEW w, Readable(w, Paths, AnyLine), NEW declared \in Declarations(Paths), NEW discard \in BOOLEAN,
         V!Concluded(w, declared, discard).refused = "no"
  PROVE  LET c == V!Concluded(w, declared, discard)
         IN  /\ \A i \in DOMAIN declared : declared[i].path \in DOMAIN w.sides
             /\ \A p \in DOMAIN w.sides : \E i \in DOMAIN declared :
                   /\ declared[i].path = p /\ \A j \in DOMAIN declared : declared[j].path = p => j = i
                   /\ c.tree[p] = Answer(w, declared[i]) /\ c.disk[p] = Answer(w, declared[i])
                   /\ \/ declared[i].choice = "worktree" \/ discard
                      \/ w.disk[p] \in Sides(w, p) \cup {V!None} \cup (IF p \in DOMAIN w.auto THEN {w.auto[p]} ELSE {})
             /\ \A p \in Paths \ DOMAIN w.sides :
                   c.disk[p] = w.disk[p] /\ c.tree[p] = IF p \in DOMAIN w.index THEN w.index[p] ELSE w.head[p]
<1> DEFINE c == V!Concluded(w, declared, discard)
           choices == V!Chosen(w, declared)
<1>1. /\ V!Complete(w, declared) /\ (discard \/ V!Unmatched(w, choices) = {})
      /\ c.disk = V!Materialized(w, choices)
  BY Accepts
<1>2. DOMAIN choices = DOMAIN w.sides
  BY DEF V!Chosen
<1>3. \A i \in DOMAIN declared : declared[i].path \in DOMAIN w.sides
  BY <1>1, DeclaredOnce
<1>4. ASSUME NEW p \in DOMAIN w.sides
      PROVE  \E i \in DOMAIN declared :
                   /\ declared[i].path = p /\ \A j \in DOMAIN declared : declared[j].path = p => j = i
                   /\ c.tree[p] = Answer(w, declared[i]) /\ c.disk[p] = Answer(w, declared[i])
                   /\ \/ declared[i].choice = "worktree" \/ discard
                      \/ w.disk[p] \in Sides(w, p) \cup {V!None} \cup (IF p \in DOMAIN w.auto THEN {w.auto[p]} ELSE {})
  <2>1. PICK i \in DOMAIN declared : declared[i].path = p /\ \A j \in DOMAIN declared : declared[j].path = p => j = i
    BY <1>1, DeclaredOnce
  <2>2. V!CommittedContent(w, choices, p) = Answer(w, declared[i]) /\ choices[p] = declared[i].choice /\ declared[i].choice \in Choices
    BY <1>1, <2>1, CommittedOf
  <2>3. p \in Paths /\ DOMAIN w.disk = Paths
    BY ReadTypes
  <2>4. c.tree[p] = Answer(w, declared[i])
    BY <2>2, <2>3, TreeOf
  <2> HIDE DEF c, choices
  <2>5. c.disk[p] = Answer(w, declared[i])
    <3>1. c.disk[p] = IF choices[p] = "worktree" THEN w.disk[p] ELSE V!CommittedContent(w, choices, p)
      BY <1>1, <1>2, <2>3 DEF V!Materialized
    <3>2. choices[p] = "worktree" => Answer(w, declared[i]) = w.disk[p]
      BY <2>1, <2>2 DEF Answer
    <3>3. QED
      BY <2>2, <3>1, <3>2
  <2>6. \/ declared[i].choice = "worktree" \/ discard
        \/ w.disk[p] \in Sides(w, p) \cup {V!None} \cup (IF p \in DOMAIN w.auto THEN {w.auto[p]} ELSE {})
    BY <1>1, <1>2, <2>2 DEF V!Unmatched, V!Accepted, V!Stages, Sides
  <2>7. QED
    BY <2>1, <2>4, <2>5, <2>6
<1>5. \A p \in Paths \ DOMAIN w.sides :
         c.disk[p] = w.disk[p] /\ c.tree[p] = IF p \in DOMAIN w.index THEN w.index[p] ELSE w.head[p]
  BY TreeOf
<1>6. QED
  BY <1>3, <1>4, <1>5

(* No block of git's is committed where the check applies, whole or edited,  *)
(* unless a side of the path had it: the line that opens one, with a         *)
(* separator and a line that closes it after it, lies in a block of what is  *)
(* committed that a side has line by line -- whatever stands before it, and  *)
(* however blocks lie within each other (verifyMarkers, ContainsRegion).     *)
THEOREM NoBlockSurvives ==
  ASSUME NEW AnyLine, NEW Paths, NEW w, Readable(w, Paths, AnyLine), NEW declared \in Declarations(Paths), NEW discard \in BOOLEAN,
         V!Concluded(w, declared, discard).refused = "no", NEW p \in Paths \ w.exempt
  PROVE  LET content == V!Concluded(w, declared, discard).tree[p]
         IN  \A i, j, k \in DOMAIN content : IsBlock(content, i, j, k) =>
                \E first \in 1..i, last \in DOMAIN content, b \in Sides(w, p) \ {V!None} :
                    /\ i <= last
                    /\ content[first] \in V!Opens /\ content[last] \in V!Closes
                    /\ V!ContainsRegion(b, SubSeq(content, first, last))
<1> DEFINE content == V!Concluded(w, declared, discard).tree[p]
<1>1. content \in Seq(AnyLine)
  BY TreeOf
<1>2. \A r \in V!Regions(content) : \E b \in Sides(w, p) \ {V!None} : V!ContainsRegion(b, r)
  BY BlocksAreHad
<1> HIDE DEF content
<1>3. ASSUME NEW i \in DOMAIN content, NEW j \in DOMAIN content, NEW k \in DOMAIN content, IsBlock(content, i, j, k)
      PROVE  \E first \in 1..i, last \in DOMAIN content, b \in Sides(w, p) \ {V!None} :
                /\ i <= last
                /\ content[first] \in V!Opens /\ content[last] \in V!Closes
                /\ V!ContainsRegion(b, SubSeq(content, first, last))
  <2>1. i \in Starting(content)
    BY <1>1, <1>3, BlockStarts
  <2>2. PICK first \in Starting(content) :
           first <= i /\ i <= V!Closed(content, first) /\ BlockAt(content, first) \in V!Regions(content)
    BY <1>1, <2>1, RegionsOK
  <2>3. first \in DOMAIN content /\ content[first] \in V!Opens /\ V!Closed(content, first) # 0
    BY <2>2 DEF Starting
  <2>4. V!Closed(content, first) \in DOMAIN content /\ content[V!Closed(content, first)] \in V!Closes
    BY <1>1, <2>3, ClosedOK
  <2>5. PICK b \in Sides(w, p) \ {V!None} : V!ContainsRegion(b, SubSeq(content, first, V!Closed(content, first)))
    BY <1>2, <2>2 DEF BlockAt
  <2>6. first \in 1..i
    BY <1>1, <2>2, <2>3
  <2>7. QED
    BY <2>2, <2>3, <2>4, <2>5, <2>6
<1>4. QED
  BY <1>3 DEF content

(* What a side had is never taken for a block of git's: a conclusion that    *)
(* takes a side of every path in conflict, or deletes it, where what else is *)
(* staged is as one parent has it or gone, is refused only for the files it  *)
(* would write over, and with those given up it is not refused               *)
(* (verifyMarkers, baseBlobs).                                               *)
THEOREM SidesAreTaken ==
  ASSUME NEW AnyLine, NEW Paths, NEW w, Readable(w, Paths, AnyLine), NEW declared \in Declarations(Paths), NEW discard \in BOOLEAN,
         V!Complete(w, declared),
         \A i \in DOMAIN declared : Answer(w, declared[i]) \in Sides(w, declared[i].path) \cup {V!None},
         \A p \in DOMAIN w.index : w.index[p] \in {w.head[p], w.in[p], V!None}
  PROVE  LET refused == V!Concluded(w, declared, discard).refused
         IN  refused \in {"no", "overwrite"} /\ (discard => refused = "no")
<1> DEFINE choices == V!Chosen(w, declared)
<1>1. DOMAIN choices = DOMAIN w.sides
  BY DEF V!Chosen
<1>2. ASSUME NEW p \in V!Verifiable(w, choices) \ w.exempt
      PROVE  V!Unattributed(w, choices, p) = {}
  <2> DEFINE content == V!CommittedContent(w, choices, p)
  <2>1. content \in (Sides(w, p) \cup {V!None}) /\ content \in Seq(AnyLine)
    <3>1. CASE p \in DOMAIN w.sides
      <4>1. PICK i \in DOMAIN declared : declared[i].path = p
        BY <3>1, DeclaredOnce
      <4>2. content = Answer(w, declared[i]) /\ Answer(w, declared[i]) \in Seq(AnyLine)
        BY <4>1, CommittedOf
      <4>3. QED
        BY <4>1, <4>2
    <3>2. CASE p \notin DOMAIN w.sides
      <4>1. p \in DOMAIN w.index
        BY <1>1, <1>2, <3>2 DEF V!Verifiable
      <4> HIDE DEF choices
      <4>2. content = w.index[p]
        BY <1>1, <3>2 DEF V!CommittedContent
      <4>3. w.index[p] \in Sides(w, p) \cup {V!None}
        BY <3>2, <4>1 DEF Sides
      <4>4. w.index[p] \in Seq(AnyLine)
        BY <4>1, ReadTypes
      <4> HIDE DEF content
      <4>5. QED
        BY <4>2, <4>3, <4>4
    <3>3. QED
      BY <3>1, <3>2
  <2> HIDE DEF content, choices
  <2>2. V!BaseBlobs(w, p) = Sides(w, p) \ {V!None}
    BY DEF V!BaseBlobs, V!Stages, Sides
  <2>3. \A r \in V!Regions(content) : \E b \in V!BaseBlobs(w, p) : V!ContainsRegion(b, r)
    <3>1. CASE content = V!None
      <4>1. V!Regions(content) = {}
        BY <3>1, NoFile, ReadTypes
      <4>2. QED
        BY <4>1
    <3>2. CASE content # V!None
      <4>1. content \in V!BaseBlobs(w, p)
        BY <2>1, <2>2, <3>2
      <4>2. \A r \in V!Regions(content) : V!ContainsRegion(content, r)
        BY <2>1, OwnBlocks
      <4>3. QED
        BY <4>1, <4>2
    <3>3. QED
      BY <3>1, <3>2
  <2>4. QED
    BY <2>3 DEF V!Unattributed, content
<1>3. V!VerifyMarkers(w, choices)
  BY <1>2 DEF V!VerifyMarkers
<1>4. QED
  BY <1>3 DEF V!Concluded
=============================================================================

----------------------------- MODULE BumpProofs -----------------------------
(* Proofs about Bump: no runs wait for each other in a circle, and a parent  *)
(* records where its submodule is, whatever the repositories, their nesting, *)
(* the runs and what they are asked for.                                     *)
EXTENDS Bump, FiniteSetTheorems, SequenceTheorems, TLAPS

(* A set of numbers that is not empty has a least member: the numbers below  *)
(* each of its members are a finite set, and strict inclusion of finite sets *)
(* is well founded.                                                          *)
LEMMA LeastNatural ==
  ASSUME NEW S \in SUBSET Nat, S # {}
  PROVE  \E n \in S : \A m \in S : n <= m
<1> DEFINE Below(m) == {k \in Nat : k < m}
           T == {Below(m) : m \in S}
<1>1. \A m \in Nat : Below(m) \in FiniteSubsetsOf(Nat)
  <2> TAKE m \in Nat
  <2>1. IsFiniteSet(0..m)
    BY FS_Interval
  <2>2. Below(m) \in SUBSET (0..m)
    OBVIOUS
  <2>3. IsFiniteSet(Below(m))
    BY <2>1, <2>2, FS_Subset
  <2> QED
    BY <2>3 DEF FiniteSubsetsOf
<1>2. T \subseteq FiniteSubsetsOf(Nat) /\ T # {}
  BY <1>1
<1>3. \E x \in T : \A y \in T : <<y, x>> \notin StrictSubsetOrdering(Nat)
  <2> HIDE DEF T
  <2> QED
    BY <1>2, FS_StrictSubsetOrderingWellFounded, WFMin
<1>4. PICK n \in S : \A m \in S : <<Below(m), Below(n)>> \notin StrictSubsetOrdering(Nat)
  BY <1>3
<1>5. ASSUME NEW m \in S, ~(n <= m)
      PROVE  <<Below(m), Below(n)>> \in StrictSubsetOrdering(Nat)
  <2>1. Below(m) \subseteq Below(n) /\ Below(n) \subseteq Nat
    BY <1>5
  <2>2. m \in Below(n) /\ m \notin Below(m)
    BY <1>5
  <2> QED
    BY <2>1, <2>2 DEF StrictSubsetOrdering
<1> QED
  BY <1>4, <1>5

(* The inductive invariant.  A run is idle or in some repositories, each an  *)
(* ancestor of the one before it.  A command holds locks of repositories it  *)
(* is in, but not yet one it is still on its way to.  A rewrite holds its    *)
(* rewrite locks from its repository downwards, and that one first.          *)
Path(r)  == run[r].path
Root(r)  == Path(r)[1]
Climbs(r) == \A i, j \in 1..Len(Path(r)) : i < j => Depth[Path(r)[j]] < Depth[Path(r)[i]]
HoldsOnPath(r) == \A R \in Repo : opLock[R] = r \/ refLock[R] = r =>
       run[r].pc \notin {"rwlock", "rewriting"} /\ \E i \in 1..Len(Path(r)) : Path(r)[i] = R
HasNotYet(r) ==
    /\ run[r].pc \in {"decide", "oplock"} => opLock[At(r)] # r
    /\ run[r].pc \in {"decide", "oplock", "stage", "reflock"} => refLock[At(r)] # r
Rewrites(r) == run[r].pc \in {"rwlock", "rewriting"}
HoldsBelow(r) == \A R \in Repo : rwLock[R] = r =>
    Rewrites(r) /\ (R = Root(r) \/ ParentOf[R] = Root(r)) /\ R \notin run[r].todo
GoesDown(r) ==
    /\ Rewrites(r) => Len(Path(r)) = 1 /\ run[r].todo \subseteq Subs(Root(r))
    /\ run[r].pc = "rewriting" => rwLock[Root(r)] = r
    /\ run[r].pc = "rwlock" =>
          /\ run[r].want \in Repo \ run[r].todo
          /\ rwLock[run[r].want] # r
          /\ \/ run[r].want = Root(r) /\ \A R \in Repo : rwLock[R] # r
             \/ ParentOf[run[r].want] = Root(r) /\ rwLock[Root(r)] = r
RunInv(r) ==
    /\ run[r].pc = "idle" <=> Path(r) = <<>>
    /\ Climbs(r) /\ HoldsOnPath(r) /\ HasNotYet(r) /\ HoldsBelow(r) /\ GoesDown(r)
BInv == \A r \in Run : RunInv(r)

(* The repositories a run at work is in.                                     *)
LEMMA Places ==
  ASSUME TypeOK, BInv, NEW r \in Run, run[r].pc # "idle"
  PROVE  /\ Len(Path(r)) \in Nat \ {0} /\ Path(r) \in Seq(Repo)
         /\ At(r) \in Repo /\ Root(r) \in Repo
BY DEF TypeOK, BInv, RunInv, RunState, Path, Root, At

(* What HEAD names is a commit.                                              *)
LEMMA Tips ==
  ASSUME TypeOK, NEW R \in Repo
  PROVE  Tip(R) \in Commit /\ Len(hist[R]) \in Nat \ {0} /\ hist[R] \in Seq(Commit)
BY DEF TypeOK, Tip

(* All but the last of a sequence.                                           *)
LEMMA FrontOf ==
  ASSUME NEW S, NEW s \in Seq(S), Len(s) # 0
  PROVE  /\ Front(s) \in Seq(S)
         /\ Len(Front(s)) = Len(s) - 1
         /\ \A i \in 1..(Len(s) - 1) : Front(s)[i] = s[i]
<1> DEFINE n == Len(s) - 1
<1>1. n \in Nat /\ n \in Int /\ 1 \in Int /\ \A i \in 1..n : s[i] \in S
  OBVIOUS
<1>2. Front(s) = SubSeq(s, 1, n)
  BY DEF Front
<1> HIDE DEF n
<1>3. /\ SubSeq(s, 1, n) \in Seq(S)
      /\ Len(SubSeq(s, 1, n)) = IF 1 <= n THEN n - 1 + 1 ELSE 0
      /\ \A i \in 1..(n - 1 + 1) : SubSeq(s, 1, n)[i] = s[1 + i - 1]
  BY ONLY <1>1, SubSeqProperties
<1>4. Front(s) \in Seq(S) /\ Len(Front(s)) = n /\ \A i \in 1..n : Front(s)[i] = s[i]
  <2> DEFINE t == SubSeq(s, 1, n)
  <2> HIDE DEF t
  <2>1. t \in Seq(S) /\ Len(t) = n /\ n - 1 + 1 = n
    BY <1>1, <1>3 DEF t
  <2>2. ASSUME NEW i \in 1..n
        PROVE  t[i] = s[i]
    <3>1. t[i] = s[1 + i - 1] /\ 1 + i - 1 = i
      BY <2>1, <1>1, <1>3 DEF t
    <3> QED
      BY <3>1
  <2> QED
    BY <2>1, <2>2, <1>2 DEF t
<1> QED
  BY <1>4 DEF n

(* A run that becomes something is that, and no other run is changed.        *)
LEMMA BecomesOK ==
  ASSUME TypeOK, NEW r \in Run, NEW k \in RunState, Becomes(r, k)
  PROVE  /\ run' \in [Run -> RunState] /\ run'[r] = k
         /\ \A q \in Run \ {r} : run'[q] = run[q]
BY DEF TypeOK, Becomes

(* A run that does nothing is well typed.                                    *)
LEMMA IdleOK == Idle \in RunState
BY DEF Idle, RunState, Pcs

(* So is what each action makes of one.                                      *)
LEMMA Updates ==
  ASSUME NEW k \in RunState, NEW pc \in Pcs
  PROVE  /\ [k EXCEPT !.pc = pc] \in RunState
         /\ \A s \in Seq(Repo), ok \in BOOLEAN : [k EXCEPT !.path = s, !.pc = pc, !.clean = ok] \in RunState
         /\ \A b \in Nat, links \in [Repo -> Nat] : [k EXCEPT !.pc = pc, !.base = b, !.links = links] \in RunState
         /\ \A m \in Nat : [k EXCEPT !.pc = pc, !.made = m] \in RunState
         /\ \A m \in Nat, R \in Repo : [k EXCEPT !.pc = pc, !.made = m, !.moved = @ \cup {R}] \in RunState
         /\ \A n \in Nat : [k EXCEPT !.pc = pc, !.attempt = n] \in RunState
         /\ \A s \in Seq(Repo), S \in Repo : [k EXCEPT !.path = s, !.pc = pc, !.sub = S, !.attempt = 1] \in RunState
         /\ \A S \in Repo : [k EXCEPT !.pc = pc, !.want = S, !.todo = @ \ {S}] \in RunState
<1>1. [k EXCEPT !.pc = pc] \in RunState
  BY DEF RunState
<1>2. ASSUME NEW s \in Seq(Repo), NEW ok \in BOOLEAN
      PROVE  [k EXCEPT !.path = s, !.pc = pc, !.clean = ok] \in RunState
  BY DEF RunState
<1>3. ASSUME NEW b \in Nat, NEW links \in [Repo -> Nat]
      PROVE  [k EXCEPT !.pc = pc, !.base = b, !.links = links] \in RunState
  BY DEF RunState
<1>4. ASSUME NEW m \in Nat
      PROVE  [k EXCEPT !.pc = pc, !.made = m] \in RunState
  BY DEF RunState
<1>5. ASSUME NEW m \in Nat, NEW R \in Repo
      PROVE  [k EXCEPT !.pc = pc, !.made = m, !.moved = @ \cup {R}] \in RunState
  BY DEF RunState
<1>6. ASSUME NEW n \in Nat
      PROVE  [k EXCEPT !.pc = pc, !.attempt = n] \in RunState
  BY DEF RunState
<1>7. ASSUME NEW s \in Seq(Repo), NEW S \in Repo
      PROVE  [k EXCEPT !.path = s, !.pc = pc, !.sub = S, !.attempt = 1] \in RunState
  BY DEF RunState
<1>8. ASSUME NEW S \in Repo
      PROVE  [k EXCEPT !.pc = pc, !.want = S, !.todo = @ \ {S}] \in RunState
  BY DEF RunState
<1> QED
  BY <1>1, <1>2, <1>3, <1>4, <1>5, <1>6, <1>7, <1>8

(* The bounds in use are counted in numbers.                                 *)
LEMMA SpentOK ==
  ASSUME TypeOK
  PROVE  /\ spent.ids \in Nat
         /\ [spent EXCEPT !.ids = @ + 1] \in [ids : Nat, mishaps : Nat, runs : SUBSET Run]
         /\ [spent EXCEPT !.mishaps = @ + 1] \in [ids : Nat, mishaps : Nat, runs : SUBSET Run]
         /\ [spent EXCEPT !.mishaps = @ + 1, !.ids = @ + 1] \in [ids : Nat, mishaps : Nat, runs : SUBSET Run]
<1> DEFINE SpentState == [ids : Nat, mishaps : Nat, runs : SUBSET Run]
<1>1. spent \in SpentState /\ spent.ids \in Nat /\ spent.mishaps \in Nat
  BY DEF TypeOK
<1>2. ASSUME NEW m \in Nat, NEW n \in Nat
      PROVE  /\ [spent EXCEPT !.ids = n] \in SpentState
             /\ [spent EXCEPT !.mishaps = m] \in SpentState
             /\ [spent EXCEPT !.mishaps = m, !.ids = n] \in SpentState
  BY <1>1
<1>3. spent.ids + 1 \in Nat /\ spent.mishaps + 1 \in Nat
  BY <1>1
<1> HIDE DEF SpentState
<1>4. /\ [spent EXCEPT !.ids = @ + 1] \in SpentState
      /\ [spent EXCEPT !.mishaps = @ + 1] \in SpentState
      /\ [spent EXCEPT !.mishaps = @ + 1, !.ids = @ + 1] \in SpentState
  BY <1>2, <1>3
<1> QED
  BY <1>1, <1>4 DEF SpentState

(* The end of a process keeps every variable in its range.                   *)
LEMMA FinishTypeOK ==
  ASSUME TypeOK, BInv, NEW r \in Run, run[r].pc # "idle",
         NEW ok \in BOOLEAN, NEW told \in BOOLEAN, Finish(r, ok, told)
  PROVE  TypeOK'
<1>1. /\ opLock' \in [Repo -> Run \cup {None}] /\ refLock' \in [Repo -> Run \cup {None}]
      /\ rwLock' \in [Repo -> Run \cup {None}]
  BY DEF Finish, TypeOK, Without
<1>2. lag' \subseteq Repo
  BY Places DEF Finish, TypeOK
<1>3. run' \in [Run -> RunState]
  <2>1. Front(run[r].path) \in Seq(Repo) /\ run[r] \in RunState
    BY Places, FrontOf DEF Path, TypeOK
  <2>2. (IF IsChild(r) THEN [run[r] EXCEPT !.path = Front(@), !.pc = "answered", !.clean = ok] ELSE Idle) \in RunState
    BY <2>1, Updates, IdleOK DEF Pcs
  <2> QED
    BY <2>2, BecomesOK DEF Finish
<1> QED
  BY <1>1, <1>2, <1>3 DEF Finish, TypeOK

(* The initial states are well typed.                                        *)
LEMMA InitTypeOK == Init => TypeOK
<1> SUFFICES ASSUME Init PROVE TypeOK
  OBVIOUS
<1>1. <<[id |-> 1, links |-> [S \in Repo |-> 1]]>> \in Seq(Commit) \ {<<>>}
  BY DEF Commit
<1> QED
  BY <1>1, IdleOK DEF Init, TypeOK

(* A command given keeps every variable in its range,                        *)
LEMMA BeginTypeOK ==
  ASSUME TypeOK, NEW r \in Run, NEW R \in Repo, NEW op \in Ops, Begin(r, R, op)
  PROVE  TypeOK'
<1>1. PICK S \in Subs(R) \cup {None}, todo \in SUBSET Subs(R) :
        Becomes(r, [Idle EXCEPT !.op = op, !.path = <<R>>, !.sub = S, !.attempt = 1, !.todo = todo, !.want = R,
                                  !.pc = IF op = "rewrite" THEN "rwlock" ELSE "decide"])
  BY DEF Begin
<1> DEFINE k == [Idle EXCEPT !.op = op, !.path = <<R>>, !.sub = S, !.attempt = 1, !.todo = todo, !.want = R,
                             !.pc = IF op = "rewrite" THEN "rwlock" ELSE "decide"]
<1>2. k \in RunState
  <2>1. ASSUME NEW i \in RunState, NEW path \in Seq(Repo), NEW sub \in Repo \cup {None}, NEW rest \in SUBSET Repo, NEW pc \in Pcs
        PROVE  [i EXCEPT !.op = op, !.path = path, !.sub = sub, !.attempt = 1, !.todo = rest, !.want = R, !.pc = pc] \in RunState
    BY DEF RunState
  <2>2. S \in Repo \cup {None} /\ todo \in SUBSET Repo
    BY DEF Subs
  <2>3. <<R>> \in Seq(Repo)
    OBVIOUS
  <2>4. (IF op = "rewrite" THEN "rwlock" ELSE "decide") \in Pcs
    BY DEF Pcs
  <2> QED
    BY <2>1, <2>2, <2>3, <2>4, IdleOK
<1> HIDE DEF k
<1>3. run' \in [Run -> RunState]
  BY <1>1, <1>2, BecomesOK DEF k
<1> QED
  BY <1>3 DEF Begin, TypeOK

(* and so does every step of a run,                                          *)
LEMMA StepTypeOK ==
  ASSUME TypeOK, BInv, NEW r \in Run, Step(r)
  PROVE  TypeOK'
<1> USE DEF Goes, Without
<1>0. run[r] \in RunState /\ \A pc \in Pcs : [run[r] EXCEPT !.pc = pc] \in RunState
  BY Updates DEF TypeOK
<1>p. {"idle", "decide", "oplock", "stage", "reflock", "update", "landed", "answered", "rwlock", "rewriting"} \subseteq Pcs
  BY DEF Pcs
<1>1. CASE Decide(r)
  <2>1. CASE Finish(r, FALSE, TRUE)
    BY <2>1, <1>1, FinishTypeOK DEF Decide
  <2>2. CASE Goes(r, "oplock") /\ UNCHANGED <<hist, config, opLock, refLock, rwLock, lag, spent>>
    BY <2>2, <1>0, <1>p, BecomesOK DEF TypeOK
  <2> QED
    BY <1>1, <2>1, <2>2 DEF Decide
<1>2. CASE TakeOpLock(r)
  BY <1>2, <1>0, <1>p, BecomesOK DEF TypeOK, TakeOpLock
<1>3. CASE Stage(r)
  <2>1. CASE Finish(r, FALSE, TRUE)
    BY <2>1, <1>3, FinishTypeOK DEF Stage
  <2>2. CASE ~Finish(r, FALSE, TRUE)
    <3>1. Tip(At(r)).id \in Nat /\ Gitlinks(r) \in [Repo -> Nat]
      <4>1. Tip(At(r)) \in Commit /\ (run[r].sub \in Repo => Tip(run[r].sub) \in Commit)
        BY <1>3, Places, Tips DEF Stage
      <4> QED
        BY <4>1, <1>0 DEF Commit, Gitlinks, RunState
    <3>2. [run[r] EXCEPT !.pc = "reflock", !.base = Tip(At(r)).id, !.links = Gitlinks(r)] \in RunState
      BY <3>1, <1>0, <1>p, Updates
    <3> QED
      BY <3>2, <2>2, <1>3, BecomesOK DEF TypeOK, Stage
  <2> QED
    BY <2>1, <2>2
<1>4. CASE LandElsewhere(r)
  <2>1. [run[r] EXCEPT !.pc = "landed", !.made = spent.ids + 1] \in RunState
    <3>1. spent.ids + 1 \in Nat
      BY SpentOK
    <3> QED
      BY <3>1, <1>0, <1>p, Updates
  <2>2. run' \in [Run -> RunState]
    BY <2>1, <1>4, BecomesOK DEF LandElsewhere
  <2> QED
    BY <2>2, <1>4, SpentOK DEF TypeOK, LandElsewhere
<1>5. CASE TakeRefLock(r)
  BY <1>5, <1>0, <1>p, BecomesOK DEF TypeOK, TakeRefLock
<1>6. CASE Update(r)
  <2> DEFINE R == At(r)
             new == IF Undoes(r) THEN Front(hist[R]) ELSE Append(hist[R], [id |-> spent.ids + 1, links |-> run[r].links])
  <2>1. R \in Repo
    BY <1>6, Places DEF Update
  <2>2. new \in Seq(Commit) \ {<<>>}
    <3>1. hist[R] \in Seq(Commit)
      BY <2>1, Tips
    <3>2. CASE Undoes(r)
      <4>1. Len(hist[R]) > 1
        BY <3>2, <1>6 DEF Update
      <4>2. Front(hist[R]) \in Seq(Commit) /\ Len(Front(hist[R])) > 0
        BY <3>1, <4>1, FrontOf
      <4> QED
        BY <4>2, <3>2
    <3>3. CASE ~Undoes(r)
      <4>1. [id |-> spent.ids + 1, links |-> run[r].links] \in Commit
        <5>1. spent.ids + 1 \in Nat /\ run[r].links \in [Repo -> Nat]
          BY <1>0, SpentOK DEF RunState
        <5> QED
          BY <5>1 DEF Commit
      <4> QED
        BY <3>1, <3>3, <4>1
    <3> QED
      BY <3>2, <3>3
  <2>3. new[Len(new)].id \in Nat
    <3> HIDE DEF new
    <3>1. new[Len(new)] \in Commit
      BY <2>2
    <3> QED
      BY <3>1 DEF Commit
  <2>4. [run[r] EXCEPT !.pc = "landed", !.made = new[Len(new)].id, !.moved = @ \cup {R}] \in RunState
    <3> HIDE DEF new, R
    <3> QED
      BY <2>1, <2>3, <1>0, <1>p, Updates
  <2>5. run' \in [Run -> RunState]
    BY <2>4, <1>6, BecomesOK DEF Update
  <2>6. hist' \in [Repo -> Seq(Commit) \ {<<>>}]
    BY <2>1, <2>2, <1>6 DEF Update, TypeOK
  <2>7. spent' \in [ids : Nat, mishaps : Nat, runs : SUBSET Run]
    <3>1. spent' = spent \/ spent' = [spent EXCEPT !.ids = @ + 1]
      BY <1>6 DEF Update
    <3> QED
      BY <3>1, SpentOK DEF TypeOK
  <2>8. lag' \subseteq Repo
    BY <1>6 DEF Update, TypeOK, Subs
  <2>9. refLock' \in [Repo -> Run \cup {None}] /\ UNCHANGED <<config, opLock, rwLock>>
    BY <1>6 DEF Update, TypeOK
  <2> QED
    BY <2>5, <2>6, <2>7, <2>8, <2>9 DEF TypeOK
<1>7. CASE Retry(r)
  <2>1. CASE Undoes(r) \/ run[r].attempt >= CASMaxAttempts
    BY <2>1, <1>7, FinishTypeOK DEF Retry
  <2>2. CASE ~(Undoes(r) \/ run[r].attempt >= CASMaxAttempts)
    <3>1. run[r].attempt + 1 \in Nat
      BY <1>0 DEF RunState
    <3>2. [run[r] EXCEPT !.pc = "stage", !.attempt = @ + 1] \in RunState
      BY <3>1, <1>0, <1>p, Updates
    <3>3. run' \in [Run -> RunState]
      BY <3>2, <2>2, <1>7, BecomesOK DEF Retry
    <3> QED
      BY <3>3, <2>2, <1>7, ZenonT(30) DEF TypeOK, Retry
  <2> QED
    BY <2>1, <2>2
<1>8. CASE Bump(r)
  <2>1. CASE \E ok, told \in BOOLEAN : Finish(r, ok, told)
    BY <2>1, <1>8, FinishTypeOK DEF Bump
  <2>2. CASE ~\E ok, told \in BOOLEAN : Finish(r, ok, told)
    <3> DEFINE P == ParentOf[At(r)]
    <3>1. At(r) \in Repo /\ P \in Repo
      BY <2>2, <1>8, Places, NestingAssumption DEF Bump
    <3>2. /\ Becomes(r, [run[r] EXCEPT !.path = Append(@, P), !.pc = "decide", !.sub = At(r), !.attempt = 1])
          /\ UNCHANGED <<hist, config, opLock, refLock, rwLock, lag, spent>>
      BY <2>2, <1>8 DEF Bump
    <3>3. Append(run[r].path, P) \in Seq(Repo)
      BY <3>1, <1>0 DEF RunState
    <3>4. [run[r] EXCEPT !.path = Append(@, P), !.pc = "decide", !.sub = At(r), !.attempt = 1] \in RunState
      BY <3>1, <3>3, <1>0, <1>p, Updates
    <3> QED
      BY <3>2, <3>4, BecomesOK DEF TypeOK
  <2> QED
    BY <2>1, <2>2
<1>9. CASE Answered(r)
  BY <1>9, <1>0, FinishTypeOK DEF Answered, RunState
<1>10. CASE TakeRewriteLock(r)
  BY <1>10, <1>0, <1>p, BecomesOK DEF TypeOK, TakeRewriteLock
<1>11. CASE NextRepository(r)
  <2>1. PICK S \in run[r].todo : Becomes(r, [run[r] EXCEPT !.pc = "rwlock", !.want = S, !.todo = @ \ {S}])
    BY <1>11 DEF NextRepository
  <2>2. S \in Repo
    BY <1>0 DEF RunState
  <2>3. [run[r] EXCEPT !.pc = "rwlock", !.want = S, !.todo = @ \ {S}] \in RunState
    BY <2>2, <1>0, <1>p, Updates
  <2> QED
    BY <2>1, <2>3, <1>11, BecomesOK DEF TypeOK, NextRepository
<1>12. CASE Rewritten(r)
  BY <1>12, FinishTypeOK DEF Rewritten
<1>13. CASE TimesOut(r)
  BY <1>13, FinishTypeOK DEF TimesOut, Holder
<1>14. CASE Dies(r)
  <2>1. run' \in [Run -> RunState]
    BY <1>14, IdleOK, BecomesOK DEF Dies
  <2>2. lag' \subseteq Repo
    BY <1>14, <1>0 DEF Dies, TypeOK, RunState
  <2>3. spent' \in [ids : Nat, mishaps : Nat, runs : SUBSET Run]
    BY <1>14, SpentOK DEF Dies
  <2> QED
    BY <2>1, <2>2, <2>3, <1>14 DEF TypeOK, Dies
<1> QED
  BY <1>1, <1>2, <1>3, <1>4, <1>5, <1>6, <1>7, <1>8, <1>9, <1>10, <1>11, <1>12, <1>13, <1>14 DEF Step

(* and what git or the user does outside every run.                          *)
LEMMA WorldTypeOK ==
  ASSUME TypeOK, NEW R \in Repo, Outside(R) \/ Configure(R)
  PROVE  TypeOK'
<1>1. CASE Outside(R)
  <2>1. [id |-> spent.ids + 1, links |-> Tip(R).links] \in Commit
    BY Tips, SpentOK DEF Commit
  <2>2. Append(hist[R], [id |-> spent.ids + 1, links |-> Tip(R).links]) \in Seq(Commit) \ {<<>>}
    BY <2>1, Tips
  <2> QED
    BY <2>2, <1>1, SpentOK DEF Outside, TypeOK
<1>2. CASE Configure(R)
  <2>1. config' \in [Repo -> {"yes", "no", "unset"}]
    BY <1>2 DEF Configure, TypeOK
  <2> QED
    BY <2>1, <1>2, SpentOK DEF Configure, TypeOK
<1> QED
  BY <1>1, <1>2

(* A step that changes one run and no lock of another.                       *)
OnlyOf(r) ==
    \A q \in Run \ {r} :
       /\ run'[q] = run[q]
       /\ \A R \in Repo : /\ opLock'[R] = q <=> opLock[R] = q
                          /\ refLock'[R] = q <=> refLock[R] = q
                          /\ rwLock'[R] = q <=> rwLock[R] = q

(* Such a step leaves the invariant of the other runs.                       *)
LEMMA Undisturbed ==
  ASSUME TypeOK, BInv, NEW r \in Run, NEW q \in Run, q # r, OnlyOf(r)
  PROVE  RunInv(q)'
<1>1. RunInv(q) /\ run[q] \in RunState /\ run'[q] = run[q]
  BY DEF BInv, TypeOK, OnlyOf
<1>2. \A R \in Repo : /\ opLock'[R] = q <=> opLock[R] = q
                      /\ refLock'[R] = q <=> refLock[R] = q
                      /\ rwLock'[R] = q <=> rwLock[R] = q
  BY DEF OnlyOf
<1>3. Path(q)' = Path(q) /\ Root(q)' = Root(q) /\ At(q)' = At(q) /\ Rewrites(q)' = Rewrites(q)
  BY <1>1 DEF Path, Root, At, Rewrites
<1>4. run[q].pc # "idle" => At(q) \in Repo /\ Root(q) \in Repo
  BY Places
<1>5. Climbs(q)'
  BY <1>1, <1>3 DEF RunInv, Climbs
<1>6. HoldsOnPath(q)'
  BY <1>1, <1>2, <1>3 DEF RunInv, HoldsOnPath
<1>7. HasNotYet(q)'
  BY <1>1, <1>2, <1>3, <1>4 DEF RunInv, HasNotYet
<1>8. HoldsBelow(q)'
  BY <1>1, <1>2, <1>3 DEF RunInv, HoldsBelow
<1>9. GoesDown(q)'
  <2>1. Rewrites(q) => run[q].pc # "idle"
    BY DEF Rewrites
  <2> QED
    BY <2>1, <1>1, <1>2, <1>3, <1>4 DEF RunInv, GoesDown, Rewrites, Subs
<1> QED
  BY <1>1, <1>3, <1>5, <1>6, <1>7, <1>8, <1>9 DEF RunInv

(* The end of a process gives back none but its own locks.                   *)
LEMMA FinishOnlyOf ==
  ASSUME TypeOK, BInv, NEW r \in Run, run[r].pc # "idle",
         NEW ok \in BOOLEAN, NEW told \in BOOLEAN, Finish(r, ok, told)
  PROVE  OnlyOf(r)
BY Places, NestingAssumption DEF Finish, OnlyOf, Without, TypeOK, Becomes

(* No step of a run takes or gives back the lock of another.                 *)
LEMMA StepOnlyOf ==
  ASSUME TypeOK, BInv, NEW r \in Run, Step(r)
  PROVE  OnlyOf(r)
<1> USE DEF Goes, Becomes, OnlyOf, TypeOK
<1>1. CASE \E ok, told \in BOOLEAN : Finish(r, ok, told)
  <2>1. run[r].pc # "idle"
    BY <1>1 DEF Step, Decide, TakeOpLock, Stage, LandElsewhere, TakeRefLock, Update, Retry, Bump, Answered,
                TakeRewriteLock, NextRepository, Rewritten, TimesOut, Holder, Dies
  <2> QED
    BY <1>1, <2>1, FinishOnlyOf
<1>2. CASE Decide(r) /\ ~\E ok, told \in BOOLEAN : Finish(r, ok, told)
  BY <1>2 DEF Decide
<1>3. CASE TakeOpLock(r)
  BY <1>3, NestingAssumption DEF TakeOpLock
<1>4. CASE Stage(r) /\ ~\E ok, told \in BOOLEAN : Finish(r, ok, told)
  BY <1>4 DEF Stage
<1>5. CASE LandElsewhere(r)
  BY <1>5 DEF LandElsewhere
<1>6. CASE TakeRefLock(r)
  BY <1>6, NestingAssumption DEF TakeRefLock
<1>7. CASE Update(r)
  BY <1>7, NestingAssumption DEF Update, Without
<1>8. CASE Retry(r) /\ ~\E ok, told \in BOOLEAN : Finish(r, ok, told)
  <2>1. /\ refLock' = Without(refLock, r, At(r))
        /\ run' = [run EXCEPT ![r] = [run[r] EXCEPT !.pc = "stage", !.attempt = @ + 1]]
        /\ UNCHANGED <<opLock, rwLock>>
    BY <1>8 DEF Retry
  <2> QED
    BY <2>1, NestingAssumption DEF Without
<1>9. CASE Bump(r) /\ ~\E ok, told \in BOOLEAN : Finish(r, ok, told)
  BY <1>9 DEF Bump
<1>10. CASE TakeRewriteLock(r)
  BY <1>10, NestingAssumption DEF TakeRewriteLock
<1>11. CASE NextRepository(r)
  BY <1>11 DEF NextRepository
<1>12. CASE Dies(r)
  BY <1>12, NestingAssumption DEF Dies
<1>13. CASE Answered(r) \/ Rewritten(r) \/ TimesOut(r)
  <2>1. run[r].clean \in BOOLEAN
    BY DEF RunState
  <2> QED
    BY <2>1, <1>13, <1>1 DEF Answered, Rewritten, TimesOut
<1> QED
  BY <1>1, <1>2, <1>3, <1>4, <1>5, <1>6, <1>7, <1>8, <1>9, <1>10, <1>11, <1>12, <1>13 DEF Step

(* A run that has ended or died holds nothing.                               *)
LEMMA IdleRunInv ==
  ASSUME NEW r \in Run, run'[r] = Idle,
         \A R \in Repo : opLock'[R] # r /\ refLock'[R] # r /\ rwLock'[R] # r
  PROVE  RunInv(r)'
<1>1. Path(r)' = <<>> /\ run'[r].pc = "idle"
  BY DEF Path, Idle
<1>2. Climbs(r)'
  BY <1>1 DEF Climbs
<1>3. HoldsOnPath(r)' /\ HasNotYet(r)' /\ HoldsBelow(r)' /\ GoesDown(r)'
  BY <1>1 DEF HoldsOnPath, HasNotYet, HoldsBelow, GoesDown, Rewrites
<1> QED
  BY <1>1, <1>2, <1>3 DEF RunInv

(* A process that ends leaves its run with the locks of its ancestors.       *)
LEMMA FinishRunInv ==
  ASSUME TypeOK, BInv, NEW r \in Run, run[r].pc # "idle",
         NEW ok \in BOOLEAN, NEW told \in BOOLEAN, Finish(r, ok, told)
  PROVE  RunInv(r)'
<1>1. /\ RunInv(r) /\ Path(r) \in Seq(Repo) /\ Len(Path(r)) \in Nat \ {0}
      /\ At(r) \in Repo /\ At(r) = Path(r)[Len(Path(r))]
  BY Places DEF BInv, At, Path
<1>2. \A R \in Repo : /\ opLock'[R] = r => opLock[R] = r /\ R # At(r)
                      /\ refLock'[R] = r => refLock[R] = r /\ R # At(r)
                      /\ rwLock'[R] # r
  BY <1>1, NestingAssumption DEF Finish, Without, TypeOK
<1>3. CASE IsChild(r)
  <2>1. run[r].pc \notin {"rwlock", "rewriting"}
    BY <1>1, <1>3 DEF RunInv, GoesDown, Rewrites, IsChild, Path
  <2>2. run'[r] = [run[r] EXCEPT !.path = Front(@), !.pc = "answered", !.clean = ok]
    BY <1>3 DEF Finish, Becomes, TypeOK
  <2>3. Path(r)' = Front(Path(r)) /\ run'[r].pc = "answered"
    BY <2>2 DEF Path, TypeOK, RunState
  <2>4. /\ Len(Path(r)') = Len(Path(r)) - 1 /\ Len(Path(r)) > 1
        /\ \A i \in 1..(Len(Path(r)) - 1) : Path(r)'[i] = Path(r)[i]
    BY <2>3, <1>1, <1>3, FrontOf DEF IsChild, Path
  <2>5. Climbs(r)'
    BY <2>4, <1>1 DEF RunInv, Climbs
  <2>6. HoldsOnPath(r)'
    <3>1. ASSUME NEW R \in Repo, (opLock[R] = r \/ refLock[R] = r), R # At(r)
          PROVE  \E i \in 1..Len(Path(r)') : Path(r)'[i] = R
      <4>1. PICK i \in 1..Len(Path(r)) : Path(r)[i] = R
        BY <3>1, <1>1 DEF RunInv, HoldsOnPath
      <4>2. i # Len(Path(r))
        BY <4>1, <3>1, <1>1
      <4> QED
        BY <4>1, <4>2, <2>4, <1>1
    <3> QED
      BY <3>1, <1>2, <2>3 DEF HoldsOnPath
  <2>7. HasNotYet(r)' /\ HoldsBelow(r)' /\ GoesDown(r)'
    BY <2>3, <1>2 DEF HasNotYet, HoldsBelow, GoesDown, Rewrites
  <2>8. Path(r)' # <<>>
    BY <2>4, <1>1
  <2> QED
    BY <2>3, <2>5, <2>6, <2>7, <2>8 DEF RunInv
<1>4. CASE ~IsChild(r)
  <2>1. run'[r] = Idle
    BY <1>4 DEF Finish, Becomes, TypeOK
  <2>2. Len(Path(r)) = 1
    <3> DEFINE n == Len(Path(r))
    <3>1. n \in Nat \ {0}
      BY <1>1
    <3>2. ~(n > 1)
      BY <1>4 DEF IsChild, Path
    <3> HIDE DEF n
    <3>3. n = 1
      BY <3>1, <3>2
    <3> QED
      BY <3>3 DEF n
  <2>3. \A R \in Repo : opLock[R] = r \/ refLock[R] = r => R = At(r)
    BY <2>2, <1>1 DEF RunInv, HoldsOnPath
  <2> QED
    BY <2>1, <2>3, <1>2, IdleRunInv
<1> QED
  BY <1>3, <1>4

(* A step that leaves a run in its repositories,                             *)
Stays(r) == run'[r].path = run[r].path

(* where the depths still decrease.                                          *)
LEMMA StaysOK ==
  ASSUME TypeOK, BInv, NEW r \in Run, run[r].pc # "idle", Stays(r)
  PROVE  /\ Path(r)' = Path(r) /\ At(r)' = At(r) /\ Root(r)' = Root(r)
         /\ At(r) \in Repo /\ Root(r) \in Repo /\ Path(r) # <<>> /\ Climbs(r)'
         /\ \E i \in 1..Len(Path(r)) : Path(r)[i] = At(r)
<1>1. Path(r)' = Path(r) /\ At(r)' = At(r) /\ Root(r)' = Root(r)
  BY DEF Stays, Path, At, Root
<1>2. At(r) = Path(r)[Len(Path(r))] /\ Len(Path(r)) \in Nat \ {0}
  BY Places DEF At, Path
<1>3. Climbs(r)'
  BY <1>1 DEF BInv, RunInv, Climbs
<1>4. Path(r) # <<>>
  BY DEF BInv, RunInv
<1> QED
  BY <1>1, <1>2, <1>3, <1>4, Places

(* A step of a command, no rewrite, that takes no lock but those of the      *)
(* repository it is in.                                                      *)
LEMMA CommandRunInv ==
  ASSUME TypeOK, BInv, NEW r \in Run, Stays(r),
         run[r].pc \notin {"idle", "rwlock", "rewriting"}, run'[r].pc \notin {"idle", "rwlock", "rewriting"},
         \A R \in Repo : /\ opLock'[R] = r => opLock[R] = r \/ R = At(r)
                         /\ refLock'[R] = r => refLock[R] = r \/ R = At(r)
                         /\ rwLock'[R] = r => rwLock[R] = r,
         HasNotYet(r)'
  PROVE  RunInv(r)'
<1>1. RunInv(r)
  BY DEF BInv
<1>2. HoldsOnPath(r)'
  BY <1>1, StaysOK DEF RunInv, HoldsOnPath
<1>3. HoldsBelow(r)' /\ GoesDown(r)'
  BY <1>1 DEF RunInv, HoldsBelow, GoesDown, Rewrites
<1> QED
  BY <1>2, <1>3, StaysOK DEF RunInv

(* A command that has been given holds nothing yet.                          *)
LEMMA BeginRunInv ==
  ASSUME TypeOK, BInv, NEW r \in Run, NEW R \in Repo, NEW op \in Ops, Begin(r, R, op)
  PROVE  RunInv(r)'
<1>1. PICK S \in Subs(R) \cup {None}, todo \in SUBSET Subs(R) :
        Becomes(r, [Idle EXCEPT !.op = op, !.path = <<R>>, !.sub = S, !.attempt = 1, !.todo = todo, !.want = R,
                                  !.pc = IF op = "rewrite" THEN "rwlock" ELSE "decide"])
  BY DEF Begin
<1>2. /\ Path(r)' = <<R>> /\ run'[r].todo = todo /\ run'[r].want = R
      /\ run'[r].pc = IF op = "rewrite" THEN "rwlock" ELSE "decide"
  BY <1>1 DEF Becomes, Idle, TypeOK, Path
<1>3. \A X \in Repo : opLock'[X] # r /\ refLock'[X] # r /\ rwLock'[X] # r
  <2>1. run[r].pc = "idle" /\ UNCHANGED <<opLock, refLock, rwLock>>
    BY DEF Begin
  <2>2. RunInv(r) /\ Path(r) = <<>> /\ Len(Path(r)) = 0
    BY <2>1 DEF BInv, RunInv
  <2> QED
    BY <2>1, <2>2 DEF RunInv, HoldsOnPath, HoldsBelow, Rewrites
<1>4. Len(Path(r)') = 1 /\ Path(r)'[1] = R /\ Path(r)' # <<>>
  BY <1>2
<1>5. Root(r)' = R
  BY <1>4 DEF Root
<1>6. R \notin Subs(R)
  BY NestingAssumption DEF Subs
<1>7. Climbs(r)'
  BY <1>4 DEF Climbs
<1>8. HoldsOnPath(r)' /\ HoldsBelow(r)'
  BY <1>3 DEF HoldsOnPath, HoldsBelow
<1>9. HasNotYet(r)'
  <2>1. At(r)' = R
    BY <1>4 DEF At, Path
  <2> QED
    BY <2>1, <1>3 DEF HasNotYet
<1>10. GoesDown(r)'
  BY <1>2, <1>3, <1>4, <1>5, <1>6 DEF GoesDown, Rewrites, Subs
<1> QED
  BY <1>2, <1>4, <1>7, <1>8, <1>9, <1>10 DEF RunInv

(* Every step of a run keeps its invariant.  The bump goes to a parent, whose *)
(* depth is smaller than that of every repository the run is in: none of them *)
(* is the parent, so the run has no lock of it.                              *)
LEMMA StepRunInv ==
  ASSUME TypeOK, BInv, NEW r \in Run, Step(r)
  PROVE  RunInv(r)'
<1> USE DEF Goes, Becomes
<1>0. run[r] \in RunState /\ run \in [Run -> RunState] /\ RunInv(r)
  BY DEF TypeOK, BInv
<1>1. CASE \E ok, told \in BOOLEAN : Finish(r, ok, told)
  <2>1. run[r].pc # "idle"
    BY <1>1 DEF Step, Decide, TakeOpLock, Stage, LandElsewhere, TakeRefLock, Update, Retry, Bump, Answered,
                TakeRewriteLock, NextRepository, Rewritten, TimesOut, Holder, Dies
  <2> QED
    BY <1>1, <2>1, FinishRunInv
<1>2. CASE Decide(r) /\ ~\E ok, told \in BOOLEAN : Finish(r, ok, told)
  <2>1. run[r].pc = "decide" /\ run'[r] = [run[r] EXCEPT !.pc = "oplock"] /\ UNCHANGED <<opLock, refLock, rwLock>>
    BY <1>2, <1>0 DEF Decide
  <2>2. Stays(r) /\ run'[r].pc = "oplock"
    BY <2>1, <1>0 DEF Stays, RunState
  <2>3. HasNotYet(r)'
    BY <2>1, <2>2, <1>0, StaysOK DEF HasNotYet, RunInv
  <2> QED
    BY <2>1, <2>2, <2>3, CommandRunInv
<1>3. CASE TakeOpLock(r)
  <2>1. /\ run[r].pc = "oplock" /\ run'[r] = [run[r] EXCEPT !.pc = "stage"]
        /\ opLock' = [opLock EXCEPT ![At(r)] = r] /\ UNCHANGED <<refLock, rwLock>>
    BY <1>3, <1>0 DEF TakeOpLock
  <2>2. Stays(r) /\ run'[r].pc = "stage"
    BY <2>1, <1>0 DEF Stays, RunState
  <2>3. HasNotYet(r)'
    BY <2>1, <2>2, <1>0, StaysOK DEF HasNotYet, RunInv
  <2>4. \A R \in Repo : opLock'[R] = r => opLock[R] = r \/ R = At(r)
    BY <2>1 DEF TypeOK
  <2> QED
    BY <2>1, <2>2, <2>3, <2>4, CommandRunInv
<1>4. CASE Stage(r) /\ ~\E ok, told \in BOOLEAN : Finish(r, ok, told)
  <2>1. /\ run[r].pc = "stage" /\ UNCHANGED <<opLock, refLock, rwLock>>
        /\ run'[r] = [run[r] EXCEPT !.pc = "reflock", !.base = Tip(At(r)).id, !.links = Gitlinks(r)]
    BY <1>4, <1>0 DEF Stage
  <2>2. Stays(r) /\ run'[r].pc = "reflock"
    BY <2>1, <1>0 DEF Stays, RunState
  <2>3. HasNotYet(r)'
    BY <2>1, <2>2, <1>0, StaysOK DEF HasNotYet, RunInv
  <2> QED
    BY <2>1, <2>2, <2>3, CommandRunInv
<1>5. CASE LandElsewhere(r)
  <2>1. /\ run[r].pc = "stage" /\ UNCHANGED <<opLock, refLock, rwLock>>
        /\ run'[r] = [run[r] EXCEPT !.pc = "landed", !.made = spent.ids + 1]
    BY <1>5, <1>0 DEF LandElsewhere
  <2>2. Stays(r) /\ run'[r].pc = "landed"
    BY <2>1, <1>0 DEF Stays, RunState
  <2>3. HasNotYet(r)'
    BY <2>2 DEF HasNotYet
  <2> QED
    BY <2>1, <2>2, <2>3, CommandRunInv
<1>6. CASE TakeRefLock(r)
  <2>1. /\ run[r].pc = "reflock" /\ run'[r] = [run[r] EXCEPT !.pc = "update"]
        /\ refLock' = [refLock EXCEPT ![At(r)] = r] /\ UNCHANGED <<opLock, rwLock>>
    BY <1>6, <1>0 DEF TakeRefLock
  <2>2. Stays(r) /\ run'[r].pc = "update"
    BY <2>1, <1>0 DEF Stays, RunState
  <2>3. HasNotYet(r)'
    BY <2>2 DEF HasNotYet
  <2>4. \A R \in Repo : refLock'[R] = r => refLock[R] = r \/ R = At(r)
    BY <2>1 DEF TypeOK
  <2> QED
    BY <2>1, <2>2, <2>3, <2>4, CommandRunInv
<1>7. CASE Update(r)
  <2>1. /\ run[r].pc = "update" /\ UNCHANGED <<opLock, rwLock>>
        /\ run'[r].path = run[r].path /\ run'[r].pc = "landed"
        /\ refLock' = refLock \/ refLock' = Without(refLock, r, At(r))
    BY <1>7, <1>0 DEF Update, RunState
  <2>2. HasNotYet(r)'
    BY <2>1 DEF HasNotYet
  <2>3. \A R \in Repo : refLock'[R] = r => refLock[R] = r
    BY <2>1, NestingAssumption DEF Without, TypeOK
  <2> QED
    BY <2>1, <2>2, <2>3, CommandRunInv DEF Stays
<1>8. CASE Retry(r) /\ ~\E ok, told \in BOOLEAN : Finish(r, ok, told)
  <2>1. /\ run[r].pc = "update" /\ UNCHANGED <<opLock, rwLock>>
        /\ run'[r] = [run[r] EXCEPT !.pc = "stage", !.attempt = @ + 1]
        /\ refLock' = Without(refLock, r, At(r))
    BY <1>8, <1>0 DEF Retry
  <2>2. Stays(r) /\ run'[r].pc = "stage"
    BY <2>1, <1>0 DEF Stays, RunState
  <2>3. \A R \in Repo : refLock'[R] = r => refLock[R] = r /\ R # At(r)
    BY <2>1, NestingAssumption DEF Without, TypeOK
  <2>4. HasNotYet(r)'
    BY <2>1, <2>2, <2>3, <1>0, StaysOK DEF HasNotYet
  <2> QED
    BY <2>1, <2>2, <2>3, <2>4, CommandRunInv
<1>9. CASE Bump(r) /\ ~\E ok, told \in BOOLEAN : Finish(r, ok, told)
  <2> DEFINE P == ParentOf[At(r)]
             n == Len(Path(r))
  <2>1. run[r].pc = "landed" /\ At(r) \in Repo /\ P \in Repo /\ Depth[P] < Depth[At(r)]
    BY <1>9, Places, NestingAssumption DEF Bump
  <2>2. /\ run' = [run EXCEPT ![r] = [run[r] EXCEPT !.path = Append(@, P), !.pc = "decide", !.sub = At(r), !.attempt = 1]]
        /\ UNCHANGED <<opLock, refLock, rwLock>>
    BY <1>9 DEF Bump
  <2>3. Path(r)' = Append(Path(r), P) /\ run'[r].pc = "decide"
    BY <2>2, <1>0 DEF Path, RunState
  <2>4. Path(r) \in Seq(Repo) /\ n \in Nat \ {0} /\ Path(r)[n] = At(r)
    BY <2>1, Places DEF Path, At
  <2>5. /\ Len(Path(r)') = n + 1 /\ Path(r)'[n + 1] = P
        /\ \A i \in 1..n : Path(r)'[i] = Path(r)[i] /\ Path(r)[i] \in Repo
    BY <2>1, <2>3, <2>4
  <2>6. \A R \in Repo : Depth[R] \in Nat
    BY NestingAssumption
  <2>7. \A i \in 1..n : Depth[P] < Depth[Path(r)[i]]
    <3> TAKE i \in 1..n
    <3>1. CASE i = n
      BY <3>1, <2>1, <2>4
    <3>2. CASE i # n
      <4>1. n \in 1..n /\ i < n
        BY <3>2, <2>4
      <4>2. Depth[At(r)] < Depth[Path(r)[i]]
        BY <4>1, <2>4, <1>0 DEF RunInv, Climbs
      <4> HIDE DEF P, n
      <4> QED
        BY <4>2, <2>1, <2>5, <2>6
    <3> QED
      BY <3>1, <3>2
  <2>8. Climbs(r)'
    <3> SUFFICES ASSUME NEW i \in 1..(n + 1), NEW j \in 1..(n + 1), i < j
                 PROVE  Depth[Path(r)'[j]] < Depth[Path(r)'[i]]
      BY <2>5 DEF Climbs
    <3>1. i \in 1..n
      BY <2>4
    <3>2. CASE j \in 1..n
      BY <3>1, <3>2, <2>5, <1>0 DEF RunInv, Climbs
    <3>3. CASE j = n + 1
      BY <3>1, <3>3, <2>5, <2>7
    <3> QED
      BY <3>2, <3>3, <2>4
  <2>9. \A i \in 1..n : Path(r)[i] # P
    BY <2>5, <2>6, <2>7, <2>1
  <2>10. HoldsOnPath(r)'
    <3>1. ASSUME NEW R \in Repo, opLock[R] = r \/ refLock[R] = r
          PROVE  \E i \in 1..Len(Path(r)') : Path(r)'[i] = R
      <4>1. PICK i \in 1..n : Path(r)[i] = R
        BY <3>1, <1>0 DEF RunInv, HoldsOnPath
      <4>2. i \in 1..(n + 1)
        BY <2>4
      <4> QED
        BY <4>1, <4>2, <2>5
    <3> QED
      BY <3>1, <2>2, <2>3 DEF HoldsOnPath
  <2>11. HasNotYet(r)'
    <3>1. At(r)' = P
      BY <2>5 DEF At, Path
    <3>2. opLock[P] # r /\ refLock[P] # r
      BY <2>1, <2>9, <1>0 DEF RunInv, HoldsOnPath
    <3> QED
      BY <3>1, <3>2, <2>2 DEF HasNotYet
  <2>12. HoldsBelow(r)' /\ GoesDown(r)'
    BY <2>1, <2>2, <2>3, <1>0 DEF RunInv, HoldsBelow, GoesDown, Rewrites
  <2>13. Path(r)' # <<>>
    BY <2>3, <2>4, <2>5
  <2> QED
    BY <2>3, <2>8, <2>10, <2>11, <2>12, <2>13 DEF RunInv
<1>10. CASE TakeRewriteLock(r)
  <2>1. /\ run[r].pc = "rwlock" /\ run'[r] = [run[r] EXCEPT !.pc = "rewriting"]
        /\ rwLock' = [rwLock EXCEPT ![run[r].want] = r] /\ UNCHANGED <<opLock, refLock>>
    BY <1>10, <1>0 DEF TakeRewriteLock
  <2>2. Stays(r) /\ run'[r].pc = "rewriting" /\ run'[r].want = run[r].want /\ run'[r].todo = run[r].todo
    BY <2>1, <1>0 DEF Stays, RunState
  <2>3. GoesDown(r) /\ HoldsBelow(r) /\ HoldsOnPath(r) /\ Rewrites(r) /\ run[r].want \in Repo \ run[r].todo
    BY <2>1, <1>0 DEF RunInv, GoesDown, Rewrites
  <2>4. \A R \in Repo : rwLock'[R] = r <=> rwLock[R] = r \/ R = run[r].want
    BY <2>1, <2>3 DEF TypeOK
  <2>5. /\ Path(r)' = Path(r) /\ Root(r)' = Root(r) /\ Climbs(r)' /\ Root(r) \in Repo /\ Path(r) # <<>>
    BY <2>1, <2>2, StaysOK
  <2>6. HoldsOnPath(r)' /\ HasNotYet(r)'
    BY <2>1, <2>2, <2>3 DEF HoldsOnPath, HasNotYet
  <2>7. HoldsBelow(r)'
    BY <2>1, <2>2, <2>3, <2>4, <2>5 DEF HoldsBelow, GoesDown, Rewrites
  <2>8. GoesDown(r)'
    BY <2>1, <2>2, <2>3, <2>4, <2>5 DEF GoesDown, Rewrites, Subs
  <2> QED
    BY <2>2, <2>5, <2>6, <2>7, <2>8 DEF RunInv
<1>11. CASE NextRepository(r)
  <2>1. PICK S \in run[r].todo : run'[r] = [run[r] EXCEPT !.pc = "rwlock", !.want = S, !.todo = @ \ {S}]
    BY <1>11, <1>0 DEF NextRepository
  <2>2. run[r].pc = "rewriting" /\ UNCHANGED <<opLock, refLock, rwLock>>
    BY <1>11 DEF NextRepository
  <2>3. Stays(r) /\ run'[r].pc = "rwlock" /\ run'[r].want = S /\ run'[r].todo = run[r].todo \ {S}
    BY <2>1, <1>0 DEF Stays, RunState
  <2>4. GoesDown(r) /\ HoldsBelow(r) /\ HoldsOnPath(r) /\ Rewrites(r)
    BY <2>2, <1>0 DEF RunInv, Rewrites
  <2>5. /\ Path(r)' = Path(r) /\ Root(r)' = Root(r) /\ Climbs(r)' /\ Root(r) \in Repo /\ Path(r) # <<>>
    BY <2>2, <2>3, StaysOK
  <2>6. S \in Repo /\ ParentOf[S] = Root(r) /\ rwLock[S] # r
    BY <2>1, <2>4 DEF GoesDown, HoldsBelow, Subs
  <2>7. HoldsOnPath(r)' /\ HasNotYet(r)'
    BY <2>2, <2>3, <2>4 DEF HoldsOnPath, HasNotYet, Rewrites
  <2>8. HoldsBelow(r)'
    BY <2>2, <2>3, <2>4, <2>5 DEF HoldsBelow, Rewrites
  <2>9. GoesDown(r)'
    BY <2>2, <2>3, <2>4, <2>5, <2>6 DEF GoesDown, Rewrites, Subs
  <2> QED
    BY <2>3, <2>5, <2>7, <2>8, <2>9 DEF RunInv
<1>12. CASE Dies(r)
  <2>1. run'[r] = Idle /\ \A R \in Repo : opLock'[R] # r /\ refLock'[R] # r /\ rwLock'[R] # r
    BY <1>12, <1>0, NestingAssumption DEF Dies
  <2> QED
    BY <2>1, IdleRunInv
<1>13. CASE Answered(r) \/ Rewritten(r) \/ TimesOut(r)
  <2>1. run[r].clean \in BOOLEAN
    BY <1>0 DEF RunState
  <2> QED
    BY <2>1, <1>13, <1>1 DEF Answered, Rewritten, TimesOut
<1> QED
  BY <1>1, <1>2, <1>3, <1>4, <1>5, <1>6, <1>7, <1>8, <1>9, <1>10, <1>11, <1>12, <1>13 DEF Step

(* Nothing is held at first.                                                 *)
LEMMA InitBInv == Init => BInv
<1> SUFFICES ASSUME Init, NEW r \in Run PROVE RunInv(r)
  BY DEF BInv
<1>1. run[r] = Idle /\ \A R \in Repo : opLock[R] # r /\ refLock[R] # r /\ rwLock[R] # r
  BY NestingAssumption DEF Init
<1>2. Path(r) = <<>> /\ run[r].pc = "idle"
  BY <1>1 DEF Path, Idle
<1> QED
  BY <1>1, <1>2 DEF RunInv, Climbs, HoldsOnPath, HasNotYet, HoldsBelow, GoesDown, Rewrites

(* The invariant speaks of the runs and the locks alone.                     *)
LEMMA Unmoved ==
  ASSUME BInv, UNCHANGED <<run, opLock, refLock, rwLock>>
  PROVE  BInv'
BY DEF BInv, RunInv, Path, Root, At, Climbs, HoldsOnPath, HasNotYet, HoldsBelow, GoesDown, Rewrites, Subs

(* Every step keeps the types and the invariant.                             *)
LEMMA NextBInv ==
  ASSUME TypeOK, BInv, [Next]_vars
  PROVE  TypeOK' /\ BInv'
<1>1. ASSUME NEW r \in Run, Step(r)
      PROVE  TypeOK' /\ BInv'
  <2>1. \A q \in Run \ {r} : RunInv(q)'
    BY <1>1, StepOnlyOf, Undisturbed
  <2> QED
    BY <1>1, <2>1, StepTypeOK, StepRunInv DEF BInv
<1>2. ASSUME NEW r \in Run, NEW R \in Repo, NEW op \in Ops, Begin(r, R, op)
      PROVE  TypeOK' /\ BInv'
  <2>1. OnlyOf(r)
    BY <1>2 DEF Begin, Becomes, OnlyOf, TypeOK
  <2>2. \A q \in Run \ {r} : RunInv(q)'
    BY <2>1, Undisturbed
  <2> QED
    BY <1>2, <2>2, BeginTypeOK, BeginRunInv DEF BInv
<1>3. ASSUME NEW R \in Repo, Outside(R) \/ Configure(R)
      PROVE  TypeOK' /\ BInv'
  <2>1. UNCHANGED <<run, opLock, refLock, rwLock>>
    BY <1>3 DEF Outside, Configure
  <2> QED
    BY <1>3, <2>1, WorldTypeOK, Unmoved
<1>4. CASE UNCHANGED vars
  BY <1>4, Unmoved DEF vars, TypeOK
<1> QED
  BY <1>1, <1>2, <1>3, <1>4 DEF Next

(* The deadlock argument.  Of commands that wait for each other, follow who  *)
(* holds what one waits for: it is in that repository, and waits for a lock of *)
(* an ancestor of it or for the branch of the very same; that cannot go on for *)
(* ever, for the depths are numbers.  No command waits for a rewrite lock, so *)
(* a rewrite that waits for one waits for rewrites alone.  If it holds locks *)
(* it wants one of a submodule, and whoever has that without being a rewrite of *)
(* the same repository has begun there and wants one deeper still; and there is *)
(* a bound on the depths.                                                    *)
LEMMA CircleFree ==
  ASSUME TypeOK, BInv
  PROVE  NoWaitCycle
<1> SUFFICES ASSUME NEW W \in SUBSET Run, W # {},
                    \A r \in W : Holder(r) # None /\ Holder(r) \in W
             PROVE  FALSE
  BY DEF NoWaitCycle
<1>1. ASSUME NEW r \in W
      PROVE  /\ run[r].pc \in {"oplock", "reflock", "rwlock"} /\ RunInv(r) /\ At(r) \in Repo
             /\ run[r].pc = "rwlock" => run[r].want \in Repo
  <2>1. run[r].pc \in {"oplock", "reflock", "rwlock"} /\ RunInv(r)
    BY DEF Holder, BInv
  <2> QED
    BY <2>1, Places DEF RunInv, GoesDown
<1>2. CASE \E r \in W : run[r].pc # "rwlock"
  <2> DEFINE V == {r \in W : run[r].pc # "rwlock"}
             M(r) == IF run[r].pc = "oplock" THEN 2 * Depth[At(r)] + 1 ELSE 2 * Depth[At(r)]
  <2>1. ASSUME NEW r \in V
        PROVE  Holder(r) \in V /\ M(Holder(r)) < M(r)
    <3> DEFINE h == Holder(r)
               R == At(r)
               n == Len(Path(h))
    <3>1. /\ h \in W /\ R \in Repo /\ RunInv(h) /\ At(h) \in Repo
          /\ \/ run[r].pc = "oplock" /\ opLock[R] = h
             \/ run[r].pc = "reflock" /\ refLock[R] = h
      BY <1>1 DEF Holder
    <3>2. h \in V /\ \E i \in 1..n : Path(h)[i] = R
      BY <3>1 DEF RunInv, HoldsOnPath
    <3>3. PICK i \in 1..n : Path(h)[i] = R
      BY <3>2
    <3>4. n \in Nat \ {0} /\ Path(h)[n] = At(h)
      BY <3>2, <1>1, Places DEF At, Path
    <3>5. Depth[R] \in Nat /\ Depth[At(h)] \in Nat
      BY <3>1, NestingAssumption
    <3>6. CASE i = n
      <4>1. At(h) = R
        BY <3>3, <3>4, <3>6
      <4>2. run[h].pc = "reflock" /\ run[r].pc = "oplock"
        BY <4>1, <3>1, <3>2, <1>1 DEF RunInv, HasNotYet
      <4> HIDE DEF h, R, n
      <4> QED
        BY <4>1, <4>2, <3>2, <3>5 DEF h, R
    <3>7. CASE i # n
      <4>1. Depth[At(h)] < Depth[R]
        <5>1. n \in 1..n /\ i < n
          BY <3>4, <3>7
        <5> QED
          BY <5>1, <3>1, <3>3, <3>4 DEF RunInv, Climbs
      <4>2. M(h) \in {2 * Depth[At(h)], 2 * Depth[At(h)] + 1} /\ M(r) \in {2 * Depth[R], 2 * Depth[R] + 1}
        OBVIOUS
      <4>4. 2 * Depth[At(h)] + 1 < 2 * Depth[R]
        BY <4>1, <3>5
      <4>3. 2 * Depth[At(h)] \in Nat /\ 2 * Depth[R] \in Nat
        BY <3>5
      <4> HIDE DEF M, h, R, n, V
      <4>5. M(h) < M(r)
        BY <4>2, <4>3, <4>4
      <4> QED
        BY <4>5, <3>2 DEF h
    <3> QED
      BY <3>6, <3>7
  <2>2. \A r \in V : M(r) \in Nat
    BY <1>1, NestingAssumption
  <2>3. V # {}
    BY <1>2
  <2> DEFINE T == {M(r) : r \in V}
  <2>4. T \in SUBSET Nat /\ T # {}
    BY <2>2, <2>3
  <2>5. PICK m \in T : \A x \in T : m <= x
    <3> HIDE DEF T
    <3> QED
      BY <2>4, LeastNatural
  <2>6. PICK r \in V : m = M(r)
    OBVIOUS
  <2>7. Holder(r) \in V /\ M(Holder(r)) < M(r) /\ m <= M(Holder(r))
    BY <2>1, <2>5
  <2> HIDE DEF V, M, T
  <2> QED
    BY <2>2, <2>6, <2>7
<1>3. CASE \A r \in W : run[r].pc = "rwlock"
  <2> DEFINE V == {r \in W : \E R \in Repo : rwLock[R] = r}
             C == Cardinality(Repo)
             M(r) == C - Depth[run[r].want]
  <2>1. ASSUME NEW r \in W
        PROVE  Holder(r) \in V /\ run[r].want \in Repo /\ Holder(r) = rwLock[run[r].want]
    BY <1>1, <1>3 DEF Holder
  <2>2. ASSUME NEW r \in V
        PROVE  ParentOf[run[r].want] = Root(r) /\ rwLock[Root(r)] = r /\ rwLock[run[r].want] # r
    BY <1>1, <1>3 DEF RunInv, GoesDown
  <2>3. ASSUME NEW r \in V
        PROVE  Depth[run[r].want] < Depth[run[Holder(r)].want]
    <3> DEFINE h == Holder(r)
               R == run[r].want
    <3>1. h \in V /\ h \in W /\ R \in Repo /\ rwLock[R] = h /\ h # r /\ run[h].want \in Repo
      BY <2>1, <2>2
    <3>2. R = Root(h) \/ ParentOf[R] = Root(h)
      BY <3>1, <1>1 DEF RunInv, HoldsBelow
    <3>3. R = Root(h)
      BY <3>1, <3>2, <2>2
    <3>4. ParentOf[run[h].want] = R
      BY <3>1, <3>3, <2>2
    <3> HIDE DEF h, R
    <3>5. Depth[R] < Depth[run[h].want]
      BY <3>1, <3>4, NestingAssumption
    <3> QED
      BY <3>5 DEF h, R
  <2>4. C \in Nat /\ \A R \in Repo : Depth[R] \in Nat /\ Depth[R] <= C
    BY NestingAssumption, FS_CardinalityType
  <2>5. \A r \in V : M(r) \in Nat
    <3> TAKE r \in V
    <3>1. run[r].want \in Repo
      BY <2>1
    <3> HIDE DEF C, V
    <3> QED
      BY <3>1, <2>4
  <2>6. V # {}
    BY <2>1
  <2> DEFINE T == {M(r) : r \in V}
  <2>7. T \in SUBSET Nat /\ T # {}
    <3> HIDE DEF M, V
    <3> QED
      BY <2>5, <2>6
  <2>8. PICK m \in T : \A x \in T : m <= x
    <3> HIDE DEF T
    <3> QED
      BY <2>7, LeastNatural
  <2>9. PICK r \in V : m = M(r)
    OBVIOUS
  <2>10. Holder(r) \in V /\ m <= M(Holder(r))
    BY <2>1, <2>8
  <2>11. M(Holder(r)) < M(r)
    <3>1. run[r].want \in Repo /\ run[Holder(r)].want \in Repo
      BY <2>1, <2>10
    <3>2. Depth[run[r].want] < Depth[run[Holder(r)].want]
      BY <2>3
    <3> HIDE DEF C, V
    <3> QED
      BY <3>1, <3>2, <2>4
  <2> HIDE DEF V, M, T, C
  <2> QED
    BY <2>5, <2>9, <2>10, <2>11
<1> QED
  BY <1>2, <1>3

(* Every variable of Bump stays in its range, for every set of runs, every   *)
(* set of repositories and any nesting of them (autobump.go, operation_lock.go). *)
THEOREM TypeCorrect == Spec => []TypeOK
<1>1. Init => TypeOK /\ BInv
  BY InitTypeOK, InitBInv
<1>2. TypeOK /\ BInv /\ [Next]_vars => (TypeOK /\ BInv)'
  BY NextBInv
<1> QED
  BY <1>1, <1>2, PTL DEF Spec

(* No runs ever wait for each other in a circle, for every number of runs and *)
(* any nesting of repositories: locks held across a bump (maybeAutoBumpParent) *)
(* and those of a rewrite (acquireRewriteLock, scrubMatchExecute) never close *)
(* a circle.                                                                 *)
THEOREM NoCircle == Spec => []NoWaitCycle
<1>1. Init => TypeOK /\ BInv
  BY InitTypeOK, InitBInv
<1>2. TypeOK /\ BInv /\ [Next]_vars => (TypeOK /\ BInv)'
  BY NextBInv
<1>3. TypeOK /\ BInv => NoWaitCycle
  BY CircleFree
<1> QED
  BY <1>1, <1>2, <1>3, PTL DEF Spec

---------------------------------------------------------------------------
(* The second invariant: what a parent records.  The commits of a repository *)
(* are numbered in the order of their making, so a tip with the number an    *)
(* attempt was built on is the commit it was built on.                       *)
Numbered ==
    \A R \in Repo : \A i \in 1..Len(hist[R]) :
       /\ hist[R][i].id <= spent.ids
       /\ \A j \in 1..Len(hist[R]) : i < j => hist[R][i].id < hist[R][j].id

(* A command holds the operation locks of all repositories it is in, each    *)
(* the parent of the one before it; an attempt at a gitlink changes it.      *)
Starts(r)   == run[r].pc \in {"decide", "oplock", "stage", "reflock", "update"}
Waiting(r)  == run[r].pc \in {"decide", "oplock"}
Commands(r) == Starts(r) \/ run[r].pc \in {"landed", "answered"}
Behind(r)   == Path(r)[Len(Path(r)) - 1]
HoldsAll(r) ==
    Commands(r) => \A i \in 1..Len(Path(r)) : opLock[Path(r)[i]] = r \/ (i = Len(Path(r)) /\ Waiting(r))
GoesUp(r) ==
    /\ \A i \in 1..(Len(Path(r)) - 1) : Path(r)[i + 1] = ParentOf[Path(r)[i]]
    /\ IsChild(r) /\ Starts(r) => run[r].sub = Behind(r)
Staged(r) ==
    run[r].pc \in {"reflock", "update"} =>
       /\ run[r].base <= spent.ids
       /\ StagesGitlink(r) =>
             /\ run[r].sub \in Repo
             /\ \A i \in 1..Len(hist[At(r)]) : hist[At(r)][i].id = run[r].base =>
                   hist[At(r)][i].links[run[r].sub] # run[r].links[run[r].sub]
Knows(r) == HoldsAll(r) /\ GoesUp(r) /\ Staged(r)

(* A parent records where its submodule is, or the run that moved it is      *)
(* still there: about to ask, in the parent, or with a bad answer to give.   *)
Pending(r, S) ==
    /\ opLock[S] = r /\ S \in run[r].moved
    /\ \/ At(r) = S /\ run[r].pc = "landed" /\ run[r].made = Tip(S).id
       \/ At(r) = S /\ run[r].pc = "answered" /\ ~run[r].clean
       \/ IsChild(r) /\ Starts(r) /\ Behind(r) = S
Recorded(S) == Tip(ParentOf[S]).links[S] = Tip(S).id
Follows(S)  == S \in lag \/ ParentOf[S] = None \/ Recorded(S) \/ \E r \in Run : Pending(r, S)

GInv == Numbered /\ (\A r \in Run : Knows(r)) /\ (\A S \in Repo : Follows(S))

(* Where a run is, and what it holds there.                                  *)
LEMMA InHand ==
  ASSUME TypeOK, BInv, NEW r \in Run, run[r].pc # "idle", Knows(r)
  PROVE  /\ At(r) \in Repo /\ Path(r) \in Seq(Repo) /\ Len(Path(r)) \in Nat \ {0} /\ At(r) = Path(r)[Len(Path(r))]
         /\ IsChild(r) => /\ Commands(r) /\ Behind(r) \in Repo /\ ParentOf[Behind(r)] = At(r)
                          /\ Behind(r) # At(r) /\ opLock[Behind(r)] = r
         /\ Commands(r) /\ ~Waiting(r) => opLock[At(r)] = r
<1> DEFINE n == Len(Path(r))
<1>1. At(r) \in Repo /\ Path(r) \in Seq(Repo) /\ n \in Nat \ {0} /\ At(r) = Path(r)[n]
  BY Places DEF At, Path
<1>2. Commands(r) /\ ~Waiting(r) => opLock[At(r)] = r
  BY <1>1 DEF Knows, HoldsAll
<1>3. CASE IsChild(r)
  <2>1. n - 1 \in 1..n /\ n - 1 \in 1..(n - 1) /\ n - 1 + 1 = n /\ n - 1 # n
    BY <1>1, <1>3 DEF IsChild, Path
  <2>2. Commands(r)
    <3>1. Rewrites(r) => n = 1
      BY DEF BInv, RunInv, GoesDown
    <3>2. n # 1
      <4> HIDE DEF n
      <4> QED
        BY <2>1
    <3>3. ~Rewrites(r)
      BY <3>1, <3>2
    <3> QED
      BY <3>3 DEF TypeOK, RunState, Pcs, Commands, Starts, Rewrites
  <2>3. Behind(r) \in Repo
    <3>1. \A i \in 1..n : Path(r)[i] \in Repo
      BY <1>1
    <3> QED
      BY <2>1, <3>1 DEF Behind
  <2>4. Path(r)[n - 1 + 1] = ParentOf[Path(r)[n - 1]]
    BY <2>1 DEF Knows, GoesUp
  <2>5. ParentOf[Behind(r)] = At(r)
    BY <2>1, <2>4, <1>1 DEF Behind
  <2>6. Behind(r) # At(r)
    BY <2>3, <2>5, NestingAssumption
  <2>7. opLock[Behind(r)] = r
    BY <2>1, <2>2 DEF Knows, HoldsAll, Behind
  <2> QED
    BY <2>2, <2>3, <2>5, <2>6, <2>7, <1>1, <1>2
<1>4. CASE ~IsChild(r)
  BY <1>1, <1>2, <1>4
<1> QED
  BY <1>3, <1>4

(* How the histories of the repositories move: what is added is new.         *)
HistoryGrows ==
    /\ spent.ids \in Nat /\ spent'.ids \in Nat /\ spent.ids <= spent'.ids
    /\ \A R \in Repo : \A i \in 1..Len(hist'[R]) :
          \/ i \in 1..Len(hist[R]) /\ hist'[R][i] = hist[R][i]
          \/ /\ i = Len(hist'[R]) /\ Len(hist'[R]) = Len(hist[R]) + 1
             /\ hist'[R][i].id = spent'.ids /\ spent'.ids = spent.ids + 1

(* A history stands, takes a commit, or gives its last one up.               *)
LEMMA Stands ==
  ASSUME TypeOK, hist' = hist, spent'.ids = spent.ids \/ spent'.ids = spent.ids + 1
  PROVE  HistoryGrows
BY SpentOK DEF HistoryGrows

LEMMA TakesCommit ==
  ASSUME TypeOK, NEW R \in Repo, NEW c \in Commit, c.id = spent.ids + 1,
         hist' = [hist EXCEPT ![R] = Append(hist[R], c)], spent'.ids = spent.ids + 1
  PROVE  HistoryGrows
<1>1. spent.ids \in Nat /\ spent'.ids \in Nat /\ spent.ids <= spent'.ids
  BY SpentOK
<1>2. hist'[R] = Append(hist[R], c) /\ \A Q \in Repo \ {R} : hist'[Q] = hist[Q]
  BY DEF TypeOK
<1>3. hist[R] \in Seq(Commit) /\ Len(hist[R]) \in Nat
  BY Tips
<1>4. /\ Len(hist'[R]) = Len(hist[R]) + 1 /\ hist'[R][Len(hist[R]) + 1] = c
      /\ \A i \in 1..Len(hist[R]) : hist'[R][i] = hist[R][i]
  BY <1>2, <1>3
<1>5. ASSUME NEW i \in 1..Len(hist'[R])
      PROVE  \/ i \in 1..Len(hist[R]) /\ hist'[R][i] = hist[R][i]
             \/ /\ i = Len(hist'[R]) /\ Len(hist'[R]) = Len(hist[R]) + 1
                /\ hist'[R][i].id = spent'.ids /\ spent'.ids = spent.ids + 1
  <2>1. i \in 1..Len(hist[R]) \/ i = Len(hist[R]) + 1
    BY <1>3, <1>4
  <2> QED
    BY <2>1, <1>4
<1> QED
  BY <1>1, <1>2, <1>5 DEF HistoryGrows

LEMMA GivesUp ==
  ASSUME TypeOK, NEW R \in Repo, hist' = [hist EXCEPT ![R] = Front(hist[R])], spent' = spent
  PROVE  HistoryGrows
<1>1. hist'[R] = Front(hist[R]) /\ \A Q \in Repo \ {R} : hist'[Q] = hist[Q]
  BY DEF TypeOK
<1>2. hist[R] \in Seq(Commit) /\ Len(hist[R]) \in Nat \ {0}
  BY Tips
<1>3. Len(hist'[R]) = Len(hist[R]) - 1 /\ \A i \in 1..(Len(hist[R]) - 1) : hist'[R][i] = hist[R][i]
  BY <1>1, <1>2, FrontOf
<1>4. \A i \in 1..Len(hist'[R]) : i \in 1..Len(hist[R]) /\ hist'[R][i] = hist[R][i]
  BY <1>2, <1>3
<1> QED
  BY <1>1, <1>4, SpentOK DEF HistoryGrows

(* What is numbered stays so.                                                *)
LEMMA NumberedStays ==
  ASSUME TypeOK, Numbered, HistoryGrows
  PROVE  Numbered'
<1> SUFFICES ASSUME NEW R \in Repo, NEW i \in 1..Len(hist'[R])
             PROVE  /\ hist'[R][i].id <= spent'.ids
                    /\ \A j \in 1..Len(hist'[R]) : i < j => hist'[R][i].id < hist'[R][j].id
  BY DEF Numbered
<1>1. spent.ids \in Nat /\ spent'.ids \in Nat /\ spent.ids <= spent'.ids
  BY DEF HistoryGrows
<1>2. \A k \in 1..Len(hist[R]) : hist[R][k].id \in Nat /\ hist[R][k].id <= spent.ids
  <2>1. \A k \in 1..Len(hist[R]) : hist[R][k] \in Commit
    BY Tips
  <2> QED
    BY <2>1 DEF Commit, Numbered
<1>3. \A k \in 1..Len(hist'[R]) :
          \/ k \in 1..Len(hist[R]) /\ hist'[R][k] = hist[R][k]
          \/ /\ k = Len(hist'[R]) /\ Len(hist'[R]) = Len(hist[R]) + 1
             /\ hist'[R][k].id = spent'.ids /\ spent'.ids = spent.ids + 1
  BY DEF HistoryGrows
<1>4. hist'[R][i].id <= spent'.ids
  BY <1>1, <1>2, <1>3
<1>5. ASSUME NEW j \in 1..Len(hist'[R]), i < j
      PROVE  hist'[R][i].id < hist'[R][j].id
  <2>1. CASE i = Len(hist'[R]) /\ Len(hist'[R]) = Len(hist[R]) + 1
    BY <2>1, <1>5, Tips
  <2>2. CASE i \in 1..Len(hist[R]) /\ hist'[R][i] = hist[R][i]
    <3>1. CASE j \in 1..Len(hist[R]) /\ hist'[R][j] = hist[R][j]
      BY <2>2, <3>1, <1>5 DEF Numbered
    <3>2. CASE hist'[R][j].id = spent'.ids /\ spent'.ids = spent.ids + 1
      BY <2>2, <3>2, <1>1, <1>2
    <3> QED
      BY <3>1, <3>2, <1>3
  <2> QED
    BY <2>1, <2>2, <1>3
<1> QED
  BY <1>4, <1>5

(* What a step leaves alone of a run, and of a repository it is to answer    *)
(* for.                                                                      *)
LEMMA KnowsStill ==
  ASSUME TypeOK, BInv, NEW q \in Run, run'[q] = run[q], \A R \in Repo : opLock'[R] = q <=> opLock[R] = q,
         HistoryGrows, Knows(q)
  PROVE  /\ Knows(q)'
         /\ \A S \in Repo : Pending(q, S) /\ Tip(S)' = Tip(S) => Pending(q, S)'
<1>1. Path(q)' = Path(q) /\ At(q)' = At(q) /\ Behind(q)' = Behind(q) /\ IsChild(q)' = IsChild(q)
  BY DEF Path, At, Behind, IsChild
<1>2. Starts(q)' = Starts(q) /\ Commands(q)' = Commands(q) /\ Waiting(q)' = Waiting(q)
  BY DEF Starts, Commands, Waiting
<1>3. run[q].pc # "idle" => At(q) \in Repo /\ Path(q) \in Seq(Repo) /\ Len(Path(q)) \in Nat \ {0}
  BY Places
<1>4. HoldsAll(q)'
  <2> SUFFICES ASSUME Commands(q), NEW i \in 1..Len(Path(q))
               PROVE  opLock'[Path(q)[i]] = q \/ (i = Len(Path(q)) /\ Waiting(q))
    BY <1>1, <1>2 DEF HoldsAll
  <2>1. Path(q)[i] \in Repo
    BY <1>3 DEF Commands, Starts
  <2> QED
    BY <2>1 DEF Knows, HoldsAll
<1>5. GoesUp(q)'
  BY <1>1, <1>2 DEF Knows, GoesUp
<1>6. Staged(q)'
  <2> SUFFICES ASSUME run[q].pc \in {"reflock", "update"}
               PROVE  /\ run[q].base <= spent'.ids
                      /\ StagesGitlink(q) =>
                            /\ run[q].sub \in Repo
                            /\ \A i \in 1..Len(hist'[At(q)]) : hist'[At(q)][i].id = run[q].base =>
                                  hist'[At(q)][i].links[run[q].sub] # run[q].links[run[q].sub]
    BY <1>1 DEF Staged, StagesGitlink
  <2>1. run[q].base \in Nat /\ run[q].base <= spent.ids /\ spent.ids \in Nat /\ spent'.ids \in Nat /\ spent.ids <= spent'.ids
    BY DEF TypeOK, RunState, Knows, Staged, HistoryGrows
  <2>2. ASSUME NEW i \in 1..Len(hist'[At(q)]), hist'[At(q)][i].id = run[q].base
        PROVE  i \in 1..Len(hist[At(q)]) /\ hist'[At(q)][i] = hist[At(q)][i]
    BY <2>1, <2>2, <1>3 DEF HistoryGrows
  <2> QED
    BY <2>1, <2>2 DEF Knows, Staged
<1>7. ASSUME NEW S \in Repo, Pending(q, S), Tip(S)' = Tip(S)
      PROVE  Pending(q, S)'
  BY <1>1, <1>2, <1>7 DEF Pending
<1> QED
  BY <1>4, <1>5, <1>6, <1>7 DEF Knows

(* What a parent records and where its submodule is stay, where neither      *)
(* history moves.                                                            *)
LEMMA RecordedStill ==
  ASSUME NEW S \in Repo, ParentOf[S] # None, hist'[S] = hist[S], hist'[ParentOf[S]] = hist[ParentOf[S]]
  PROVE  Tip(S)' = Tip(S) /\ Recorded(S)' = Recorded(S)
BY DEF Tip, Recorded

(* The end of a process: what it held and what its run is then.              *)
LEMMA FinishDoes ==
  ASSUME TypeOK, BInv, NEW r \in Run, run[r].pc # "idle",
         NEW ok \in BOOLEAN, NEW told \in BOOLEAN, Finish(r, ok, told)
  PROVE  /\ hist' = hist /\ spent' = spent
         /\ lag \subseteq lag' /\ (~told /\ At(r) \in run[r].moved => At(r) \in lag')
         /\ \A R \in Repo \ {At(r)} : opLock'[R] = opLock[R]
         /\ IsChild(r) => /\ run'[r].pc = "answered" /\ run'[r].clean = ok /\ run'[r].moved = run[r].moved
                          /\ Path(r)' = Front(Path(r)) /\ Len(Path(r)') = Len(Path(r)) - 1
                          /\ \A i \in 1..(Len(Path(r)) - 1) : Path(r)'[i] = Path(r)[i]
                          /\ At(r)' = Behind(r)
         /\ ~IsChild(r) => run'[r] = Idle
<1>1. hist' = hist /\ spent' = spent
  BY DEF Finish
<1>2. lag \subseteq lag' /\ (~told /\ At(r) \in run[r].moved => At(r) \in lag')
  BY DEF Finish
<1>3. \A R \in Repo \ {At(r)} : opLock'[R] = opLock[R]
  BY DEF Finish, Without, TypeOK
<1>4. ~IsChild(r) => run'[r] = Idle
  BY DEF Finish, Becomes, TypeOK
<1>5. ASSUME IsChild(r)
      PROVE  /\ run'[r].pc = "answered" /\ run'[r].clean = ok /\ run'[r].moved = run[r].moved
             /\ Path(r)' = Front(Path(r)) /\ Len(Path(r)') = Len(Path(r)) - 1
             /\ \A i \in 1..(Len(Path(r)) - 1) : Path(r)'[i] = Path(r)[i]
             /\ At(r)' = Behind(r)
  <2>1. run'[r] = [run[r] EXCEPT !.path = Front(@), !.pc = "answered", !.clean = ok] /\ run[r] \in RunState
    BY <1>5 DEF Finish, Becomes, TypeOK
  <2>2. run'[r].pc = "answered" /\ run'[r].clean = ok /\ run'[r].moved = run[r].moved /\ Path(r)' = Front(Path(r))
    BY <2>1 DEF RunState, Path
  <2>3. Path(r) \in Seq(Repo) /\ Len(Path(r)) \in Nat \ {0} /\ Len(Path(r)) > 1
    BY <1>5, Places DEF IsChild, Path
  <2>4. Len(Path(r)') = Len(Path(r)) - 1 /\ \A i \in 1..(Len(Path(r)) - 1) : Path(r)'[i] = Path(r)[i]
    BY <2>2, <2>3, FrontOf
  <2>5. At(r)' = Path(r)'[Len(Path(r)')]
    BY DEF At, Path
  <2>6. At(r)' = Behind(r)
    BY <2>3, <2>4, <2>5 DEF Behind
  <2> QED
    BY <2>2, <2>4, <2>6
<1> QED
  BY <1>1, <1>2, <1>3, <1>4, <1>5

(* A run that is idle knows nothing.                                         *)
LEMMA IdleKnows ==
  ASSUME NEW r \in Run, run'[r] = Idle
  PROVE  Knows(r)'
<1>1. run'[r].pc = "idle" /\ Path(r)' = <<>> /\ Len(Path(r)') = 0
  BY DEF Idle, Path
<1>2. ~Commands(r)' /\ ~Starts(r)' /\ 1..(Len(Path(r)') - 1) = {}
  BY <1>1 DEF Commands, Starts
<1> QED
  BY <1>1, <1>2 DEF Knows, HoldsAll, GoesUp, Staged

LEMMA FinishKnows ==
  ASSUME TypeOK, BInv, NEW r \in Run, run[r].pc # "idle", Knows(r),
         NEW ok \in BOOLEAN, NEW told \in BOOLEAN, Finish(r, ok, told)
  PROVE  Knows(r)'
<1>1. CASE ~IsChild(r)
  BY <1>1, FinishDoes, IdleKnows
<1>2. CASE IsChild(r)
  <2> DEFINE n == Len(Path(r))
  <2>1. /\ run'[r].pc = "answered" /\ Len(Path(r)') = n - 1 /\ \A i \in 1..(n - 1) : Path(r)'[i] = Path(r)[i]
        /\ \A R \in Repo \ {At(r)} : opLock'[R] = opLock[R]
    BY <1>2, FinishDoes
  <2>2. n \in Nat \ {0} /\ Path(r) \in Seq(Repo) /\ Commands(r) /\ At(r) = Path(r)[n]
    BY <1>2, InHand
  <2>3. HoldsAll(r)'
    <3> SUFFICES ASSUME NEW i \in 1..(n - 1)
                 PROVE  opLock'[Path(r)[i]] = r
      BY <2>1 DEF HoldsAll
    <3>1. i \in 1..n /\ n \in 1..n /\ i < n /\ Path(r)[i] \in Repo /\ Path(r)[n] \in Repo
      BY <2>2
    <3>2. Path(r)[i] # At(r)
      BY <3>1, <2>2, NestingAssumption DEF BInv, RunInv, Climbs
    <3>3. opLock[Path(r)[i]] = r
      BY <3>1, <2>2 DEF Knows, HoldsAll
    <3> QED
      BY <3>1, <3>2, <3>3, <2>1
  <2>4. GoesUp(r)'
    <3>1. ~Starts(r)'
      BY <2>1 DEF Starts
    <3>2. ASSUME NEW i \in 1..(n - 1 - 1)
          PROVE  Path(r)'[i + 1] = ParentOf[Path(r)'[i]]
      <4>1. i \in 1..(n - 1) /\ i + 1 \in 1..(n - 1)
        BY <2>2
      <4>2. Path(r)[i + 1] = ParentOf[Path(r)[i]]
        BY <4>1 DEF Knows, GoesUp
      <4> QED
        BY <4>1, <4>2, <2>1
    <3> QED
      BY <3>1, <3>2, <2>1 DEF GoesUp
  <2>5. Staged(r)'
    BY <2>1 DEF Staged
  <2> QED
    BY <2>3, <2>4, <2>5 DEF Knows
<1> QED
  BY <1>1, <1>2

(* A process that ends leaves no submodule behind its parent, if it has told *)
(* or what it has moved is recorded; if it was a child and failed, the one   *)
(* who waits for it will say so.                                             *)
LEMMA FinishFollows ==
  ASSUME TypeOK, BInv, GInv, NEW r \in Run, run[r].pc # "idle",
         NEW ok \in BOOLEAN, NEW told \in BOOLEAN, Finish(r, ok, told),
         \A S \in Repo : Pending(r, S) /\ ParentOf[S] # None =>
             (S = At(r) /\ (~told \/ Recorded(S))) \/ (S # At(r) /\ ~ok)
  PROVE  GInv'
<1>1. hist' = hist /\ spent' = spent /\ lag \subseteq lag' /\ (~told /\ At(r) \in run[r].moved => At(r) \in lag')
  BY FinishDoes
<1>2. HistoryGrows
  BY <1>1, Stands
<1>3. OnlyOf(r)
  BY FinishOnlyOf
<1>4. Numbered'
  BY <1>2, NumberedStays DEF GInv
<1>5. \A q \in Run : Knows(q)
  BY DEF GInv
<1>6. ASSUME NEW q \in Run \ {r}
      PROVE  /\ Knows(q)'
             /\ \A S \in Repo : Pending(q, S) /\ Tip(S)' = Tip(S) => Pending(q, S)'
  BY <1>2, <1>3, <1>5, KnowsStill DEF OnlyOf
<1>7. Knows(r)'
  BY <1>5, FinishKnows
<1>8. ASSUME NEW S \in Repo
      PROVE  Follows(S)'
  <2>1. Tip(S)' = Tip(S) /\ Recorded(S)' = Recorded(S)
    BY <1>1 DEF Tip, Recorded
  <2>2. Follows(S)
    BY DEF GInv
  <2>3. CASE S \in lag \/ ParentOf[S] = None \/ Recorded(S)
    BY <2>1, <2>3, <1>1 DEF Follows
  <2>4. ASSUME NEW q \in Run \ {r}, Pending(q, S)
        PROVE  Follows(S)'
    BY <2>1, <2>4, <1>6 DEF Follows
  <2>5. CASE Pending(r, S) /\ ParentOf[S] # None /\ S = At(r) /\ (~told \/ Recorded(S))
    BY <2>1, <2>5, <1>1 DEF Follows, Pending
  <2>6. CASE Pending(r, S) /\ S # At(r) /\ ~ok
    <3>1. IsChild(r) /\ Behind(r) = S /\ opLock[S] = r /\ S \in run[r].moved
      BY <2>6 DEF Pending
    <3>2. run'[r].pc = "answered" /\ ~run'[r].clean /\ run'[r].moved = run[r].moved /\ At(r)' = S
      BY <3>1, <2>6, FinishDoes
    <3>3. opLock'[S] = r
      BY <3>1, <2>6, FinishDoes
    <3>4. Pending(r, S)'
      BY <3>1, <3>2, <3>3 DEF Pending
    <3> QED
      BY <3>4 DEF Follows
  <2> QED
    BY <2>2, <2>3, <2>4, <2>5, <2>6 DEF Follows
<1> QED
  BY <1>4, <1>6, <1>7, <1>8 DEF GInv

(* A command that goes on in the repository it is in, and moves nothing.     *)
LEMMA WalkGInv ==
  ASSUME TypeOK, BInv, GInv, NEW r \in Run, OnlyOf(r), hist' = hist, lag' = lag,
         spent'.ids = spent.ids \/ spent'.ids = spent.ids + 1,
         Starts(r), Starts(r)' \/ (run'[r].pc = "landed" /\ ~IsChild(r)),
         run'[r].path = run[r].path, run'[r].sub = run[r].sub, run'[r].moved = run[r].moved,
         \A R \in Repo : opLock[R] = r => opLock'[R] = r,
         Waiting(r)' \/ opLock'[At(r)] = r,
         Staged(r)'
  PROVE  GInv'
<1>1. HistoryGrows
  BY Stands
<1>2. Numbered'
  BY <1>1, NumberedStays DEF GInv
<1>3. \A q \in Run : Knows(q)
  BY DEF GInv
<1>4. ASSUME NEW q \in Run \ {r}
      PROVE  /\ Knows(q)'
             /\ \A S \in Repo : Pending(q, S) /\ Tip(S)' = Tip(S) => Pending(q, S)'
  BY <1>1, <1>3, KnowsStill DEF OnlyOf
<1>5. Path(r)' = Path(r) /\ At(r)' = At(r) /\ Behind(r)' = Behind(r) /\ IsChild(r)' = IsChild(r)
  BY DEF Path, At, Behind, IsChild
<1>6. run[r].pc # "idle" /\ Commands(r)
  BY DEF Starts, Commands
<1>7. /\ At(r) \in Repo /\ Path(r) \in Seq(Repo) /\ Len(Path(r)) \in Nat \ {0} /\ At(r) = Path(r)[Len(Path(r))]
      /\ IsChild(r) => Behind(r) # At(r)
  BY <1>3, <1>6, InHand
<1>8. Knows(r)'
  <2>1. HoldsAll(r)'
    <3> SUFFICES ASSUME NEW i \in 1..Len(Path(r))
                 PROVE  opLock'[Path(r)[i]] = r \/ (i = Len(Path(r)) /\ Waiting(r)')
      BY <1>5 DEF HoldsAll
    <3>1. CASE i = Len(Path(r))
      BY <3>1, <1>7
    <3>2. CASE i # Len(Path(r))
      <4>1. opLock[Path(r)[i]] = r /\ Path(r)[i] \in Repo
        BY <3>2, <1>3, <1>6, <1>7 DEF Knows, HoldsAll
      <4> QED
        BY <4>1
    <3> QED
      BY <3>1, <3>2
  <2>2. GoesUp(r)'
    BY <1>3, <1>5 DEF Knows, GoesUp
  <2> QED
    BY <2>1, <2>2 DEF Knows
<1>9. ASSUME NEW S \in Repo
      PROVE  Follows(S)'
  <2>1. Tip(S)' = Tip(S) /\ Recorded(S)' = Recorded(S) /\ Follows(S)
    BY DEF Tip, Recorded, GInv
  <2>2. CASE S \in lag \/ ParentOf[S] = None \/ Recorded(S)
    BY <2>1, <2>2 DEF Follows
  <2>3. ASSUME NEW q \in Run \ {r}, Pending(q, S)
        PROVE  Follows(S)'
    BY <2>1, <2>3, <1>4 DEF Follows
  <2>4. CASE Pending(r, S)
    <3>1. opLock[S] = r /\ S \in run[r].moved /\ IsChild(r) /\ Behind(r) = S
      BY <2>4 DEF Pending, Starts
    <3>2. Pending(r, S)'
      BY <3>1, <1>5 DEF Pending
    <3> QED
      BY <3>2 DEF Follows
  <2> QED
    BY <2>1, <2>2, <2>3, <2>4 DEF Follows
<1> QED
  BY <1>2, <1>4, <1>8, <1>9 DEF GInv

(* A rewrite takes no operation lock and says nothing of a gitlink.          *)
LEMMA RewriteGInv ==
  ASSUME TypeOK, BInv, GInv, NEW r \in Run, OnlyOf(r), hist' = hist, lag' = lag, spent' = spent,
         Rewrites(r), Rewrites(r)', run'[r].path = run[r].path
  PROVE  GInv'
<1>1. HistoryGrows
  BY Stands
<1>2. Numbered'
  BY <1>1, NumberedStays DEF GInv
<1>3. \A q \in Run : Knows(q)
  BY DEF GInv
<1>4. ASSUME NEW q \in Run \ {r}
      PROVE  /\ Knows(q)'
             /\ \A S \in Repo : Pending(q, S) /\ Tip(S)' = Tip(S) => Pending(q, S)'
  BY <1>1, <1>3, KnowsStill DEF OnlyOf
<1>5. Path(r)' = Path(r)
  BY DEF Path
<1>6. Knows(r)'
  <2>1. ~Commands(r)' /\ ~Starts(r)' /\ run'[r].pc \notin {"reflock", "update"}
    BY DEF Commands, Starts, Rewrites
  <2>2. HoldsAll(r)' /\ Staged(r)'
    BY <2>1 DEF HoldsAll, Staged
  <2>3. GoesUp(r)'
    BY <1>3, <1>5, <2>1 DEF Knows, GoesUp
  <2> QED
    BY <2>2, <2>3 DEF Knows
<1>7. \A S \in Repo : ~Pending(r, S)
  BY DEF Pending, Rewrites, Starts
<1>8. ASSUME NEW S \in Repo
      PROVE  Follows(S)'
  <2>1. Tip(S)' = Tip(S) /\ Recorded(S)' = Recorded(S) /\ Follows(S)
    BY DEF Tip, Recorded, GInv
  <2>2. CASE S \in lag \/ ParentOf[S] = None \/ Recorded(S)
    BY <2>1, <2>2 DEF Follows
  <2>3. ASSUME NEW q \in Run \ {r}, Pending(q, S)
        PROVE  Follows(S)'
    BY <2>1, <2>3, <1>4 DEF Follows
  <2> QED
    BY <2>1, <2>2, <2>3, <1>7 DEF Follows
<1> QED
  BY <1>2, <1>4, <1>6, <1>8 DEF GInv

(* The update: the branch has the commit, and its submodules are behind it   *)
(* or recorded in it.                                                        *)
LEMMA UpdateDoes ==
  ASSUME TypeOK, BInv, NEW r \in Run, Update(r), NEW R, R = At(r)
  PROVE  /\ R \in Repo /\ run[r].pc = "update" /\ Tip(R).id = run[r].base
         /\ run'[r].path = run[r].path /\ run'[r].pc = "landed" /\ run'[r].made = Tip(R)'.id
         /\ run'[r].moved = run[r].moved \cup {R}
         /\ opLock' = opLock /\ HistoryGrows
         /\ \A S \in Repo \ {R} : hist'[S] = hist[S]
         /\ ~Undoes(r) => Tip(R)'.links = run[r].links
         /\ \A S \in Repo \ lag' : \/ S \in Subs(R) /\ Tip(R)'.links[S] = Tip(S).id
                                   \/ S \notin lag /\ (S \in Subs(R) => Tip(R)'.links[S] = Tip(R).links[S])
<1> DEFINE c == [id |-> spent.ids + 1, links |-> run[r].links]
           new == IF Undoes(r) THEN Front(hist[R]) ELSE Append(hist[R], c)
           t == new[Len(new)]
<1>1. run[r] \in RunState /\ run \in [Run -> RunState]
  BY DEF TypeOK
<1>2. R \in Repo /\ run[r].pc = "update" /\ Tip(R).id = run[r].base /\ opLock' = opLock
  BY Places DEF Update
<1>3. hist' = [hist EXCEPT ![R] = new]
  BY DEF Update
<1>4. hist'[R] = new /\ \A S \in Repo \ {R} : hist'[S] = hist[S]
  BY <1>2, <1>3 DEF TypeOK
<1>5. Tip(R)' = t
  BY <1>4 DEF Tip
<1>6. HistoryGrows
  <2>1. CASE Undoes(r)
    <3>1. hist' = [hist EXCEPT ![R] = Front(hist[R])] /\ spent' = spent
      BY <2>1 DEF Update
    <3> QED
      BY <3>1, <1>2, GivesUp
  <2>2. CASE ~Undoes(r)
    <3>1. c \in Commit /\ c.id = spent.ids + 1
      BY <1>1, SpentOK DEF RunState, Commit
    <3>2. hist' = [hist EXCEPT ![R] = Append(hist[R], c)]
      BY <2>2, <1>3
    <3>3. spent'.ids = spent.ids + 1
      BY <2>2 DEF Update, TypeOK
    <3> HIDE DEF c
    <3> QED
      BY <3>1, <3>2, <3>3, <1>2, TakesCommit
  <2> QED
    BY <2>1, <2>2
<1>7. ~Undoes(r) => t.links = run[r].links
  <2> SUFFICES ASSUME ~Undoes(r) PROVE t.links = run[r].links
    OBVIOUS
  <2>1. new = Append(hist[R], c)
    OBVIOUS
  <2>2. t = c
    <3> HIDE DEF c, new
    <3>1. hist[R] \in Seq(Commit)
      BY <1>2, Tips
    <3>2. Len(Append(hist[R], c)) = Len(hist[R]) + 1 /\ Append(hist[R], c)[Len(hist[R]) + 1] = c
      BY <3>1
    <3> QED
      BY <3>2, <2>1
  <2> QED
    BY <2>2
<1>8. run'[r] = [run[r] EXCEPT !.pc = "landed", !.made = t.id, !.moved = @ \cup {R}]
  BY <1>1 DEF Update, Becomes
<1>9. lag' = {S \in lag \cup {X \in Subs(R) : t.links[X] # Tip(R).links[X]} :
                ~(S \in Subs(R) /\ t.links[S] # Tip(R).links[S] /\ t.links[S] = Tip(S).id)}
  BY DEF Update
<1> HIDE DEF t, new
<1>10. /\ run'[r].path = run[r].path /\ run'[r].pc = "landed" /\ run'[r].made = t.id
       /\ run'[r].moved = run[r].moved \cup {R}
  BY <1>1, <1>8 DEF RunState
<1>11. \A S \in Repo \ lag' : \/ S \in Subs(R) /\ t.links[S] = Tip(S).id
                              \/ S \notin lag /\ (S \in Subs(R) => t.links[S] = Tip(R).links[S])
  BY <1>9
<1> QED
  BY <1>2, <1>4, <1>5, <1>6, <1>7, <1>10, <1>11

LEMMA UpdateGInv ==
  ASSUME TypeOK, BInv, GInv, NEW r \in Run, Update(r)
  PROVE  GInv'
<1> SUFFICES ASSUME NEW R, R = At(r) PROVE GInv'
  OBVIOUS
<1>1. /\ R \in Repo /\ run[r].pc = "update" /\ Tip(R).id = run[r].base
      /\ run'[r].path = run[r].path /\ run'[r].pc = "landed" /\ run'[r].made = Tip(R)'.id
      /\ run'[r].moved = run[r].moved \cup {R}
      /\ opLock' = opLock /\ HistoryGrows
      /\ \A S \in Repo \ {R} : hist'[S] = hist[S]
      /\ ~Undoes(r) => Tip(R)'.links = run[r].links
      /\ \A S \in Repo \ lag' : \/ S \in Subs(R) /\ Tip(R)'.links[S] = Tip(S).id
                                \/ S \notin lag /\ (S \in Subs(R) => Tip(R)'.links[S] = Tip(R).links[S])
  BY UpdateDoes
<1>2. Numbered'
  BY <1>1, NumberedStays DEF GInv
<1>3. (\A q \in Run : Knows(q)) /\ OnlyOf(r)
  BY StepOnlyOf DEF GInv, Step
<1>4. ASSUME NEW q \in Run \ {r}
      PROVE  /\ Knows(q)'
             /\ \A S \in Repo : Pending(q, S) /\ Tip(S)' = Tip(S) => Pending(q, S)'
  BY <1>1, <1>3, KnowsStill DEF OnlyOf
<1>5. Path(r)' = Path(r) /\ At(r)' = At(r) /\ IsChild(r)' = IsChild(r)
  BY <1>1 DEF Path, At, IsChild
<1>6. run[r].pc # "idle" /\ Commands(r) /\ Starts(r) /\ ~Waiting(r)
  BY <1>1 DEF Starts, Commands, Waiting
<1>7. /\ opLock[R] = r /\ Path(r) \in Seq(Repo) /\ Len(Path(r)) \in Nat \ {0} /\ R = Path(r)[Len(Path(r))]
      /\ IsChild(r) => Behind(r) \in Repo /\ Behind(r) # R /\ ParentOf[Behind(r)] = R
  BY <1>3, <1>6, InHand
<1>8. Knows(r)'
  <2>1. HoldsAll(r)'
    BY <1>1, <1>3, <1>5, <1>6, <1>7 DEF Knows, HoldsAll
  <2>2. GoesUp(r)' /\ Staged(r)'
    <3>1. ~Starts(r)' /\ run'[r].pc \notin {"reflock", "update"}
      BY <1>1 DEF Starts
    <3> QED
      BY <3>1, <1>3, <1>5 DEF Knows, GoesUp, Staged
  <2> QED
    BY <2>1, <2>2 DEF Knows
<1>9. IsChild(r) => Tip(R)'.links[Behind(r)] # Tip(R).links[Behind(r)]
  <2> SUFFICES ASSUME IsChild(r) PROVE Tip(R)'.links[Behind(r)] # Tip(R).links[Behind(r)]
    OBVIOUS
  <2>1. run[r].sub = Behind(r) /\ StagesGitlink(r) /\ ~Undoes(r)
    BY <1>3, <1>6 DEF Knows, GoesUp, StagesGitlink, Undoes
  <2>2. Len(hist[R]) \in 1..Len(hist[R]) /\ Tip(R) = hist[R][Len(hist[R])]
    BY <1>1, Tips DEF Tip
  <2>3. Tip(R).links[Behind(r)] # run[r].links[Behind(r)]
    BY <2>1, <2>2, <1>1, <1>3 DEF Knows, Staged
  <2> QED
    BY <2>1, <2>3, <1>1
<1>10. ASSUME NEW S \in Repo, S \notin lag', ParentOf[S] # None
       PROVE  Follows(S)'
  <2>1. CASE S = R
    <3>1. Pending(r, S)'
      BY <2>1, <1>1, <1>5, <1>7 DEF Pending
    <3> QED
      BY <3>1 DEF Follows
  <2>2. CASE S # R /\ S \in Subs(R) /\ Tip(R)'.links[S] = Tip(S).id
    <3>1. Tip(S)' = Tip(S) /\ ParentOf[S] = R
      BY <2>2, <1>1 DEF Tip, Subs
    <3> QED
      BY <2>2, <3>1 DEF Follows, Recorded
  <2>3. CASE S # R /\ S \notin lag /\ (S \in Subs(R) => Tip(R)'.links[S] = Tip(R).links[S])
    <3>1. Tip(S)' = Tip(S) /\ Follows(S) /\ ParentOf[S] \in Repo
      BY <2>3, <1>1, <1>10, NestingAssumption DEF Tip, GInv
    <3>2. Recorded(S)' = Recorded(S)
      <4>1. CASE ParentOf[S] = R
        BY <2>3, <3>1, <4>1 DEF Recorded, Subs
      <4>2. CASE ParentOf[S] # R
        BY <3>1, <4>2, <1>1 DEF Recorded, Tip
      <4> QED
        BY <4>1, <4>2
    <3>3. ASSUME NEW q \in Run \ {r}, Pending(q, S)
          PROVE  Follows(S)'
      BY <3>1, <3>3, <1>4 DEF Follows
    <3>4. ~Pending(r, S)
      <4> SUFFICES ASSUME Pending(r, S) PROVE FALSE
        OBVIOUS
      <4>1. IsChild(r) /\ Behind(r) = S
        BY <1>1 DEF Pending
      <4> QED
        BY <4>1, <1>7, <1>9, <2>3 DEF Subs
    <3> QED
      BY <1>10, <2>3, <3>1, <3>2, <3>3, <3>4 DEF Follows
  <2> QED
    BY <1>1, <1>10, <2>1, <2>2, <2>3
<1>11. \A S \in Repo : Follows(S)'
  BY <1>10 DEF Follows
<1> QED
  BY <1>2, <1>4, <1>8, <1>11 DEF GInv

(* A process that starts a child in the parent: what it is to answer for is  *)
(* now the child's to record.                                                *)
LEMMA ChildGInv ==
  ASSUME TypeOK, BInv, GInv, NEW r \in Run, Bump(r), ~\E ok, told \in BOOLEAN : Finish(r, ok, told)
  PROVE  GInv'
<1> SUFFICES ASSUME NEW R, R = At(r), NEW P, P = ParentOf[R], NEW n, n = Len(Path(r)) PROVE GInv'
  OBVIOUS
<1>0. run[r] \in RunState /\ run \in [Run -> RunState] /\ (\A q \in Run : Knows(q)) /\ OnlyOf(r)
  BY StepOnlyOf DEF TypeOK, GInv, Step
<1>1. run[r].pc = "landed" /\ Commands(r) /\ ~Waiting(r) /\ ~Starts(r)
  BY DEF Bump, Commands, Waiting, Starts
<1>2. /\ R \in Repo /\ Path(r) \in Seq(Repo) /\ n \in Nat \ {0} /\ R = Path(r)[n] /\ opLock[R] = r
      /\ P \in Repo
  <2>1. R \in Repo /\ Path(r) \in Seq(Repo) /\ n \in Nat \ {0} /\ R = Path(r)[n] /\ opLock[R] = r
    BY <1>0, <1>1, InHand
  <2> QED
    BY <2>1, NestingAssumption DEF Bump
<1>3. /\ run' = [run EXCEPT ![r] = [run[r] EXCEPT !.path = Append(@, P), !.pc = "decide", !.sub = R, !.attempt = 1]]
      /\ hist' = hist /\ opLock' = opLock /\ lag' = lag /\ spent' = spent
  BY DEF Bump, Becomes
<1>4. Path(r)' = Append(Path(r), P) /\ run'[r].pc = "decide" /\ run'[r].sub = R /\ run'[r].moved = run[r].moved
  BY <1>0, <1>3 DEF Path, RunState
<1>5. /\ Len(Path(r)') = n + 1 /\ Path(r)'[n + 1] = P /\ Path(r)'[n] = R
      /\ \A i \in 1..n : Path(r)'[i] = Path(r)[i]
  <2>1. ASSUME NEW s \in Seq(Repo), n = Len(s), R = s[n]
        PROVE  /\ Len(Append(s, P)) = n + 1 /\ Append(s, P)[n + 1] = P /\ Append(s, P)[n] = R
               /\ \A i \in 1..n : Append(s, P)[i] = s[i]
    BY <1>2, <2>1
  <2> QED
    BY <1>2, <1>4, <2>1, ZenonT(30)

<1>6. Behind(r)' = R /\ IsChild(r)' /\ Starts(r)' /\ Waiting(r)'
  BY <1>2, <1>4, <1>5 DEF Behind, IsChild, Path, Starts, Waiting
<1>7. HistoryGrows
  BY <1>3, Stands
<1>8. Numbered'
  BY <1>7, NumberedStays DEF GInv
<1>9. ASSUME NEW q \in Run \ {r}
      PROVE  /\ Knows(q)'
             /\ \A S \in Repo : Pending(q, S) /\ Tip(S)' = Tip(S) => Pending(q, S)'
  BY <1>0, <1>7, KnowsStill DEF OnlyOf
<1>10. Knows(r)'
  <2>1. HoldsAll(r)'
    <3> SUFFICES ASSUME NEW i \in 1..(n + 1)
                 PROVE  opLock'[Path(r)'[i]] = r \/ (i = n + 1 /\ Waiting(r)')
      BY <1>5 DEF HoldsAll
    <3>1. CASE i = n + 1
      BY <3>1, <1>6
    <3>2. CASE i # n + 1
      <4>1. i \in 1..n
        BY <3>2, <1>2
      <4>2. opLock[Path(r)[i]] = r
        BY <4>1, <1>0, <1>1 DEF Knows, HoldsAll
      <4> QED
        BY <4>1, <4>2, <1>3, <1>5
    <3> QED
      BY <3>1, <3>2
  <2>2. GoesUp(r)'
    <3>1. ASSUME NEW i \in 1..n
          PROVE  Path(r)'[i + 1] = ParentOf[Path(r)'[i]]
      <4>1. CASE i = n
        BY <4>1, <1>5
      <4>2. CASE i # n
        <5>1. i \in 1..(n - 1) /\ i + 1 \in 1..n
          BY <4>2, <1>2
        <5>2. Path(r)[i + 1] = ParentOf[Path(r)[i]]
          BY <5>1, <1>0 DEF Knows, GoesUp
        <5> QED
          BY <5>1, <5>2, <1>5
      <4> QED
        BY <4>1, <4>2
    <3>2. Len(Path(r)') - 1 = n
      BY <1>2, <1>5
    <3> QED
      BY <3>1, <3>2, <1>4, <1>6 DEF GoesUp
  <2>3. Staged(r)'
    BY <1>4 DEF Staged
  <2> QED
    BY <2>1, <2>2, <2>3 DEF Knows
<1>11. ASSUME NEW S \in Repo
       PROVE  Follows(S)'
  <2>1. Tip(S)' = Tip(S) /\ Recorded(S)' = Recorded(S) /\ Follows(S)
    BY <1>3 DEF Tip, Recorded, GInv
  <2>2. CASE S \in lag \/ ParentOf[S] = None \/ Recorded(S)
    BY <2>1, <2>2, <1>3 DEF Follows
  <2>3. ASSUME NEW q \in Run \ {r}, Pending(q, S)
        PROVE  Follows(S)'
    BY <2>1, <2>3, <1>9 DEF Follows
  <2>4. CASE Pending(r, S)
    <3>1. opLock[S] = r /\ S \in run[r].moved /\ S = R
      BY <2>4, <1>1 DEF Pending
    <3>2. Pending(r, S)'
      BY <3>1, <1>3, <1>4, <1>6 DEF Pending
    <3> QED
      BY <3>2 DEF Follows
  <2> QED
    BY <2>1, <2>2, <2>3, <2>4 DEF Follows
<1> QED
  BY <1>8, <1>9, <1>10, <1>11 DEF GInv

(* A run that is killed leaves what it moved to lag.                         *)
LEMMA DiesGInv ==
  ASSUME TypeOK, BInv, GInv, NEW r \in Run, Dies(r)
  PROVE  GInv'
<1>1. hist' = hist /\ lag' = lag \cup run[r].moved /\ run'[r] = Idle /\ spent'.ids = spent.ids
  BY DEF Dies, Becomes, TypeOK
<1>2. (\A q \in Run : Knows(q)) /\ OnlyOf(r)
  BY StepOnlyOf DEF GInv, Step
<1>3. HistoryGrows
  BY <1>1, Stands
<1>4. Numbered'
  BY <1>3, NumberedStays DEF GInv
<1>5. ASSUME NEW q \in Run \ {r}
      PROVE  /\ Knows(q)'
             /\ \A S \in Repo : Pending(q, S) /\ Tip(S)' = Tip(S) => Pending(q, S)'
  BY <1>2, <1>3, KnowsStill DEF OnlyOf
<1>6. Knows(r)'
  BY <1>1, IdleKnows
<1>7. ASSUME NEW S \in Repo
      PROVE  Follows(S)'
  <2>1. Tip(S)' = Tip(S) /\ Recorded(S)' = Recorded(S) /\ Follows(S)
    BY <1>1 DEF Tip, Recorded, GInv
  <2>2. CASE S \in lag \/ ParentOf[S] = None \/ Recorded(S) \/ Pending(r, S)
    BY <2>1, <2>2, <1>1 DEF Follows, Pending
  <2>3. ASSUME NEW q \in Run \ {r}, Pending(q, S)
        PROVE  Follows(S)'
    BY <2>1, <2>3, <1>5 DEF Follows
  <2> QED
    BY <2>1, <2>2, <2>3 DEF Follows
<1> QED
  BY <1>4, <1>5, <1>6, <1>7 DEF GInv

(* A command that is given has done nothing.                                 *)
LEMMA BeginGInv ==
  ASSUME TypeOK, BInv, GInv, NEW r \in Run, NEW R \in Repo, NEW op \in Ops, Begin(r, R, op)
  PROVE  GInv'
<1>1. /\ run[r].pc = "idle" /\ hist' = hist /\ lag' = lag /\ opLock' = opLock /\ refLock' = refLock
      /\ rwLock' = rwLock /\ spent'.ids = spent.ids
  BY DEF Begin, TypeOK
<1>2. PICK X \in Subs(R) \cup {None}, todo \in SUBSET Subs(R) :
        Becomes(r, [Idle EXCEPT !.op = op, !.path = <<R>>, !.sub = X, !.attempt = 1, !.todo = todo, !.want = R,
                                  !.pc = IF op = "rewrite" THEN "rwlock" ELSE "decide"])
  BY DEF Begin
<1>3. Path(r)' = <<R>> /\ run'[r].pc \in {"rwlock", "decide"}
  BY <1>2 DEF Becomes, Idle, TypeOK, Path
<1>4. \A q \in Run \ {r} : run'[q] = run[q]
  BY <1>2 DEF Becomes, TypeOK
<1>5. HistoryGrows
  BY <1>1, Stands
<1>6. Numbered'
  BY <1>5, NumberedStays DEF GInv
<1>7. ASSUME NEW q \in Run \ {r}
      PROVE  /\ Knows(q)'
             /\ \A S \in Repo : Pending(q, S) /\ Tip(S)' = Tip(S) => Pending(q, S)'
  BY <1>1, <1>4, <1>5, KnowsStill DEF GInv
<1>8. Knows(r)'
  <2>1. Len(Path(r)') = 1 /\ 1..(Len(Path(r)') - 1) = {} /\ ~IsChild(r)'
    BY <1>3 DEF IsChild, Path
  <2>2. HoldsAll(r)'
    BY <1>3, <2>1 DEF HoldsAll, Commands, Starts, Waiting
  <2>3. GoesUp(r)' /\ Staged(r)'
    BY <1>3, <2>1 DEF GoesUp, Staged
  <2> QED
    BY <2>2, <2>3 DEF Knows
<1>9. ASSUME NEW S \in Repo
      PROVE  Follows(S)'
  <2>1. Tip(S)' = Tip(S) /\ Recorded(S)' = Recorded(S) /\ Follows(S) /\ ~Pending(r, S)
    BY <1>1 DEF Tip, Recorded, GInv, Pending, Starts
  <2>2. CASE S \in lag \/ ParentOf[S] = None \/ Recorded(S)
    BY <2>1, <2>2, <1>1 DEF Follows
  <2>3. ASSUME NEW q \in Run \ {r}, Pending(q, S)
        PROVE  Follows(S)'
    BY <2>1, <2>3, <1>7 DEF Follows
  <2> QED
    BY <2>1, <2>2, <2>3 DEF Follows
<1> QED
  BY <1>6, <1>7, <1>8, <1>9 DEF GInv

(* What moves a HEAD from outside is not followed; it records what was.      *)
LEMMA WorldGInv ==
  ASSUME TypeOK, BInv, GInv, NEW R \in Repo, Outside(R) \/ Configure(R)
  PROVE  GInv'
<1>1. run' = run /\ opLock' = opLock /\ lag \subseteq lag'
  BY DEF Outside, Configure
<1>2. HistoryGrows /\ \A S \in Repo : Tip(S)'.links = Tip(S).links /\ (S \notin lag' => Tip(S)' = Tip(S))
  <2>1. CASE Outside(R)
    <3> DEFINE c == [id |-> spent.ids + 1, links |-> Tip(R).links]
    <3>1. c \in Commit /\ c.id = spent.ids + 1 /\ c.links = Tip(R).links
      BY Tips, SpentOK DEF Commit
    <3>2. hist' = [hist EXCEPT ![R] = Append(hist[R], c)]
      BY <2>1 DEF Outside
    <3> HIDE DEF c
    <3>3. spent'.ids = spent.ids + 1 /\ R \in lag'
      BY <2>1 DEF Outside, TypeOK
    <3>4. hist'[R] = Append(hist[R], c) /\ \A S \in Repo \ {R} : hist'[S] = hist[S]
      BY <3>2 DEF TypeOK
    <3>5. Tip(R)' = c
      <4>1. hist[R] \in Seq(Commit)
        BY Tips
      <4>2. Len(Append(hist[R], c)) = Len(hist[R]) + 1 /\ Append(hist[R], c)[Len(hist[R]) + 1] = c
        BY <3>1, <4>1
      <4> QED
        BY <4>2, <3>4 DEF Tip
    <3>6. \A S \in Repo \ {R} : Tip(S)' = Tip(S)
      BY <3>4 DEF Tip
    <3>7. HistoryGrows
      BY <3>1, <3>2, <3>3, TakesCommit
    <3> QED
      BY <3>1, <3>3, <3>5, <3>6, <3>7
  <2>2. CASE Configure(R)
    <3>1. hist' = hist /\ spent'.ids = spent.ids
      BY <2>2 DEF Configure, TypeOK
    <3> QED
      BY <3>1, Stands DEF Tip
  <2> QED
    BY <2>1, <2>2
<1>3. Numbered'
  BY <1>2, NumberedStays DEF GInv
<1>4. ASSUME NEW q \in Run
      PROVE  /\ Knows(q)'
             /\ \A S \in Repo : Pending(q, S) /\ Tip(S)' = Tip(S) => Pending(q, S)'
  BY <1>1, <1>2, KnowsStill DEF GInv
<1>5. ASSUME NEW S \in Repo, S \notin lag', ParentOf[S] # None
      PROVE  Follows(S)'
  <2>1. Tip(S)' = Tip(S) /\ Follows(S) /\ ParentOf[S] \in Repo
    BY <1>2, <1>5, NestingAssumption DEF GInv
  <2>2. Tip(ParentOf[S])'.links = Tip(ParentOf[S]).links
    BY <1>2, <2>1
  <2>3. Recorded(S)' = Recorded(S)
    BY <2>1, <2>2 DEF Recorded
  <2> QED
    BY <1>1, <1>4, <1>5, <2>1, <2>3 DEF Follows
<1> QED
  BY <1>3, <1>4, <1>5 DEF GInv, Follows

(* Every step of a run keeps the second invariant.                           *)
LEMMA StepGInv ==
  ASSUME TypeOK, BInv, GInv, NEW r \in Run, Step(r)
  PROVE  GInv'
<1>0. /\ run[r] \in RunState /\ run \in [Run -> RunState] /\ Knows(r) /\ OnlyOf(r)
      /\ opLock \in [Repo -> Run \cup {None}]
  BY StepOnlyOf DEF TypeOK, GInv
<1>s. ASSUME Starts(r)
      PROVE  /\ run[r].pc # "idle" /\ Commands(r)
             /\ At(r) \in Repo /\ (~Waiting(r) => opLock[At(r)] = r)
             /\ \A S \in Repo : Pending(r, S) => S # At(r)
  <2>1. run[r].pc # "idle" /\ Commands(r)
    BY <1>s DEF Starts, Commands
  <2>2. At(r) \in Repo /\ (~Waiting(r) => opLock[At(r)] = r) /\ (IsChild(r) => Behind(r) # At(r))
    BY <1>0, <2>1, InHand
  <2> QED
    BY <2>1, <2>2, <1>s DEF Pending, Starts
<1>f. ASSUME Starts(r) \/ Rewrites(r), NEW told \in BOOLEAN, NEW ok \in BOOLEAN, ~ok \/ Rewrites(r), Finish(r, ok, told)
      PROVE  GInv'
  <2>1. run[r].pc # "idle" /\ \A S \in Repo : Pending(r, S) => S # At(r) /\ ~ok
    BY <1>f, <1>s DEF Pending, Starts, Rewrites
  <2> QED
    BY <2>1, <1>f, FinishFollows
<1>1. CASE Decide(r)
  <2>1. Starts(r) /\ run[r].pc = "decide"
    BY <1>1 DEF Decide, Starts
  <2>2. CASE Finish(r, FALSE, TRUE)
    BY <2>1, <2>2, <1>f
  <2>3. CASE ~Finish(r, FALSE, TRUE)
    <3>1. /\ run'[r] = [run[r] EXCEPT !.pc = "oplock"]
          /\ hist' = hist /\ lag' = lag /\ spent' = spent /\ opLock' = opLock
      BY <1>0, <1>1, <2>3 DEF Decide, Goes, Becomes
    <3>2. /\ run'[r].pc = "oplock" /\ run'[r].path = run[r].path /\ run'[r].sub = run[r].sub
          /\ run'[r].moved = run[r].moved
      BY <1>0, <3>1 DEF RunState
    <3>3. Starts(r)' /\ Waiting(r)' /\ Staged(r)'
      BY <3>2 DEF Starts, Waiting, Staged
    <3> QED
      BY <1>0, <2>1, <3>1, <3>2, <3>3, WalkGInv
  <2> QED
    BY <2>2, <2>3
<1>2. CASE TakeOpLock(r)
  <2>1. Starts(r) /\ run[r].pc = "oplock" /\ opLock[At(r)] = None
    BY <1>2 DEF TakeOpLock, Starts
  <2>2. /\ run'[r] = [run[r] EXCEPT !.pc = "stage"] /\ opLock' = [opLock EXCEPT ![At(r)] = r]
        /\ hist' = hist /\ lag' = lag /\ spent' = spent
    BY <1>0, <1>2 DEF TakeOpLock, Goes, Becomes
  <2>3. /\ run'[r].pc = "stage" /\ run'[r].path = run[r].path /\ run'[r].sub = run[r].sub
        /\ run'[r].moved = run[r].moved
    BY <1>0, <2>2 DEF RunState
  <2>4. Starts(r)' /\ Staged(r)'
    BY <2>3 DEF Starts, Staged
  <2>5. opLock'[At(r)] = r /\ \A R \in Repo : opLock[R] = r => opLock'[R] = r
    BY <1>0, <1>s, <2>1, <2>2
  <2> QED
    BY <1>0, <2>1, <2>2, <2>3, <2>4, <2>5, WalkGInv
<1>3. CASE Stage(r)
  <2>1. Starts(r) /\ ~Waiting(r) /\ run[r].pc = "stage"
    BY <1>3 DEF Stage, Starts, Waiting
  <2>2. CASE Finish(r, FALSE, TRUE)
    BY <2>1, <2>2, <1>f
  <2>3. CASE ~Finish(r, FALSE, TRUE)
    <3>1. /\ run'[r] = [run[r] EXCEPT !.pc = "reflock", !.base = Tip(At(r)).id, !.links = Gitlinks(r)]
          /\ StagesGitlink(r) => Gitlinks(r) # Tip(At(r)).links
          /\ hist' = hist /\ lag' = lag /\ spent' = spent /\ opLock' = opLock
      BY <1>0, <1>3, <2>3 DEF Stage, Becomes
    <3>2. /\ run'[r].pc = "reflock" /\ run'[r].path = run[r].path /\ run'[r].sub = run[r].sub
          /\ run'[r].moved = run[r].moved /\ run'[r].op = run[r].op
          /\ run'[r].base = Tip(At(r)).id /\ run'[r].links = Gitlinks(r)
      BY <1>0, <3>1 DEF RunState
    <3>3. Starts(r)'
      BY <3>2 DEF Starts
    <3>4. Staged(r)'
      <4> SUFFICES ASSUME NEW R, R = At(r), NEW S, S = run[r].sub
                   PROVE  Staged(r)'
        OBVIOUS
      <4>1. At(r)' = At(r) /\ StagesGitlink(r)' = StagesGitlink(r)
        BY <3>2 DEF At, StagesGitlink, IsChild
      <4>2. /\ R \in Repo /\ Tip(R) \in Commit /\ Len(hist[R]) \in 1..Len(hist[R]) /\ Len(hist[R]) \in Nat
            /\ Tip(R) = hist[R][Len(hist[R])]
        BY <2>1, <1>s, Tips DEF Tip
      <4>3. Tip(R).id <= spent.ids
        BY <4>2 DEF GInv, Numbered
      <4>4. ASSUME NEW i \in 1..Len(hist[R]), hist[R][i].id = Tip(R).id
            PROVE  hist[R][i] = Tip(R)
        <5>1. CASE i = Len(hist[R])
          BY <5>1, <4>2
        <5>2. CASE i < Len(hist[R])
          <6>1. hist[R][i].id < Tip(R).id
            BY <5>2, <4>2 DEF GInv, Numbered
          <6>2. Tip(R).id \in Nat
            BY <4>2 DEF Commit
          <6> QED
            BY <6>1, <6>2, <4>4
        <5> QED
          BY <5>1, <5>2, <4>2
      <4>5. StagesGitlink(r) => S \in Repo /\ Gitlinks(r)[S] # Tip(R).links[S]
        <5> SUFFICES ASSUME StagesGitlink(r)
                     PROVE  S \in Repo /\ Gitlinks(r)[S] # Tip(R).links[S]
          OBVIOUS
        <5>1. Tip(R).links \in [Repo -> Nat]
          BY <4>2 DEF Commit
        <5>2. Gitlinks(r) = [Tip(R).links EXCEPT ![S] = Tip(S).id] /\ Gitlinks(r) # Tip(R).links
          BY <3>1 DEF Gitlinks
        <5>3. S \in Repo
          BY <5>1, <5>2
        <5>4. CASE Tip(S).id = Tip(R).links[S]
          BY <5>1, <5>2, <5>4
        <5>5. CASE Tip(S).id # Tip(R).links[S]
          BY <5>1, <5>2, <5>3, <5>5
        <5> QED
          BY <5>3, <5>4, <5>5
      <4> QED
        BY <3>1, <3>2, <4>1, <4>3, <4>4, <4>5 DEF Staged
    <3> QED
      BY <1>0, <1>s, <2>1, <3>1, <3>2, <3>3, <3>4, WalkGInv
  <2> QED
    BY <2>2, <2>3
<1>4. CASE LandElsewhere(r)
  <2>1. Starts(r) /\ ~Waiting(r) /\ ~IsChild(r)
    BY <1>4 DEF LandElsewhere, Starts, Waiting
  <2>2. /\ run'[r] = [run[r] EXCEPT !.pc = "landed", !.made = spent.ids + 1]
        /\ hist' = hist /\ lag' = lag /\ spent'.ids = spent.ids + 1 /\ opLock' = opLock
    BY <1>0, <1>4 DEF LandElsewhere, Becomes, TypeOK
  <2>3. /\ run'[r].pc = "landed" /\ run'[r].path = run[r].path /\ run'[r].sub = run[r].sub
        /\ run'[r].moved = run[r].moved
    BY <1>0, <2>2 DEF RunState
  <2>4. Staged(r)'
    BY <2>3 DEF Staged
  <2> QED
    BY <1>0, <1>s, <2>1, <2>2, <2>3, <2>4, WalkGInv
<1>5. CASE TakeRefLock(r)
  <2>1. Starts(r) /\ ~Waiting(r) /\ run[r].pc = "reflock"
    BY <1>5 DEF TakeRefLock, Starts, Waiting
  <2>2. /\ run'[r] = [run[r] EXCEPT !.pc = "update"]
        /\ hist' = hist /\ lag' = lag /\ spent' = spent /\ opLock' = opLock
    BY <1>0, <1>5 DEF TakeRefLock, Goes, Becomes
  <2>3. /\ run'[r].pc = "update" /\ run'[r].path = run[r].path /\ run'[r].sub = run[r].sub
        /\ run'[r].moved = run[r].moved /\ run'[r].op = run[r].op
        /\ run'[r].base = run[r].base /\ run'[r].links = run[r].links
    BY <1>0, <2>2 DEF RunState
  <2>4. Starts(r)'
    BY <2>3 DEF Starts
  <2>5. Staged(r)'
    <3>1. At(r)' = At(r) /\ StagesGitlink(r)' = StagesGitlink(r)
      BY <2>3 DEF At, StagesGitlink, IsChild
    <3> QED
      BY <1>0, <2>1, <2>2, <2>3, <3>1 DEF Knows, Staged
  <2> QED
    BY <1>0, <1>s, <2>1, <2>2, <2>3, <2>4, <2>5, WalkGInv
<1>6. CASE Update(r)
  BY <1>6, UpdateGInv
<1>7. CASE Retry(r)
  <2>1. Starts(r) /\ ~Waiting(r)
    BY <1>7 DEF Retry, Starts, Waiting
  <2>2. CASE Finish(r, FALSE, TRUE)
    BY <2>1, <2>2, <1>f
  <2>3. CASE ~Finish(r, FALSE, TRUE)
    <3>1. /\ run'[r] = [run[r] EXCEPT !.pc = "stage", !.attempt = @ + 1]
          /\ hist' = hist /\ lag' = lag /\ spent' = spent /\ opLock' = opLock
      BY <1>0, <1>7, <2>3 DEF Retry, Becomes
    <3>2. /\ run'[r].pc = "stage" /\ run'[r].path = run[r].path /\ run'[r].sub = run[r].sub
          /\ run'[r].moved = run[r].moved
      BY <1>0, <3>1 DEF RunState
    <3>3. Starts(r)' /\ Staged(r)'
      BY <3>2 DEF Starts, Staged
    <3> QED
      BY <1>0, <1>s, <2>1, <3>1, <3>2, <3>3, WalkGInv
  <2> QED
    BY <2>2, <2>3
<1>8. CASE Bump(r)
  <2>1. run[r].pc = "landed" /\ At(r) \in Repo
    BY <1>8, Places DEF Bump
  <2>2. \A S \in Repo : Pending(r, S) => S = At(r) /\ S \in run[r].moved /\ run[r].made = Tip(S).id
    BY <2>1 DEF Pending, Starts
  <2>3. CASE \E ok, told \in BOOLEAN : Finish(r, ok, told)
    <3>1. PICK ok \in BOOLEAN, told \in BOOLEAN :
             /\ Finish(r, ok, told)
             /\ ~told \/ ParentOf[At(r)] = None \/ Current(r)
      <4>1. CASE ParentOf[At(r)] = None
        BY <2>3, <4>1
      <4>2. CASE ParentOf[At(r)] # None /\ config[ParentOf[At(r)]] # "yes"
        <5>1. \/ config[ParentOf[At(r)]] = "unset" /\ Finish(r, FALSE, FALSE)
              \/ config[ParentOf[At(r)]] = "no" /\ Finish(r, TRUE, FALSE)
          BY <4>2, <2>1, <1>8, NestingAssumption DEF Bump, TypeOK
        <5> QED
          BY <5>1
      <4>3. CASE ParentOf[At(r)] # None /\ config[ParentOf[At(r)]] = "yes" /\ Nested(ParentOf[At(r)])
        <5>1. Finish(r, FALSE, FALSE)
          BY <4>3, <1>8 DEF Bump
        <5> QED
          BY <5>1
      <4>4. CASE ParentOf[At(r)] # None /\ config[ParentOf[At(r)]] = "yes" /\ ~Nested(ParentOf[At(r)]) /\ Current(r)
        BY <2>3, <4>4
      <4>5. CASE ParentOf[At(r)] # None /\ config[ParentOf[At(r)]] = "yes" /\ ~Nested(ParentOf[At(r)]) /\ ~Current(r)
        <5>1. Becomes(r, [run[r] EXCEPT !.path = Append(@, ParentOf[At(r)]), !.pc = "decide", !.sub = At(r), !.attempt = 1])
          BY <4>5, <1>8 DEF Bump
        <5>2. run'[r].pc = "decide"
          BY <5>1, <1>0 DEF Becomes, RunState
        <5>3. run'[r].pc # "decide"
          BY <2>1, <2>3, FinishDoes DEF Idle
        <5> QED
          BY <5>2, <5>3
      <4> QED
        BY <4>1, <4>2, <4>3, <4>4, <4>5
    <3>2. \A S \in Repo : Pending(r, S) /\ ParentOf[S] # None => S = At(r) /\ (~told \/ Recorded(S))
      BY <2>2, <3>1 DEF Recorded, Current
    <3> QED
      BY <2>1, <3>1, <3>2, FinishFollows
  <2>4. CASE ~\E ok, told \in BOOLEAN : Finish(r, ok, told)
    BY <2>4, <1>8, ChildGInv
  <2> QED
    BY <2>3, <2>4
<1>9. CASE Answered(r)
  <2>1. run[r].pc = "answered" /\ run[r].clean \in BOOLEAN /\ Finish(r, run[r].clean, run[r].clean)
    BY <1>0, <1>9 DEF Answered, RunState
  <2>2. \A S \in Repo : Pending(r, S) => S = At(r) /\ ~run[r].clean
    BY <2>1 DEF Pending, Starts
  <2> QED
    BY <2>1, <2>2, FinishFollows
<1>10. CASE TakeRewriteLock(r)
  <2>1. /\ run[r].pc = "rwlock" /\ run'[r] = [run[r] EXCEPT !.pc = "rewriting"]
        /\ hist' = hist /\ lag' = lag /\ spent' = spent
    BY <1>0, <1>10 DEF TakeRewriteLock, Goes, Becomes
  <2>2. run'[r].pc = "rewriting" /\ run'[r].path = run[r].path /\ Rewrites(r) /\ Rewrites(r)'
    BY <1>0, <2>1 DEF RunState, Rewrites
  <2> QED
    BY <1>0, <2>1, <2>2, RewriteGInv
<1>11. CASE NextRepository(r)
  <2>1. /\ run[r].pc = "rewriting" /\ hist' = hist /\ lag' = lag /\ spent' = spent
        /\ \E S \in run[r].todo : run'[r] = [run[r] EXCEPT !.pc = "rwlock", !.want = S, !.todo = @ \ {S}]
    BY <1>0, <1>11 DEF NextRepository, Becomes
  <2>2. run'[r].pc = "rwlock" /\ run'[r].path = run[r].path /\ Rewrites(r) /\ Rewrites(r)'
    BY <1>0, <2>1 DEF RunState, Rewrites
  <2> QED
    BY <1>0, <2>1, <2>2, RewriteGInv
<1>12. CASE Rewritten(r)
  BY <1>12, <1>f DEF Rewritten, Rewrites
<1>13. CASE TimesOut(r)
  <2>1. Starts(r) \/ Rewrites(r)
    BY <1>13 DEF TimesOut, Holder, Starts, Rewrites
  <2> QED
    BY <2>1, <1>13, <1>f DEF TimesOut
<1>14. CASE Dies(r)
  BY <1>14, DiesGInv
<1> QED
  BY <1>1, <1>2, <1>3, <1>4, <1>5, <1>6, <1>7, <1>8, <1>9, <1>10, <1>11, <1>12, <1>13, <1>14 DEF Step

(* At first every parent records where its submodules are.                   *)
LEMMA InitGInv == Init => GInv
<1> SUFFICES ASSUME Init PROVE GInv
  OBVIOUS
<1>1. \A R \in Repo : /\ hist[R] = <<[id |-> 1, links |-> [S \in Repo |-> 1]]>> /\ Len(hist[R]) = 1
                      /\ Tip(R) = [id |-> 1, links |-> [S \in Repo |-> 1]]
  BY DEF Init, Tip
<1>2. Numbered
  BY <1>1 DEF Init, Numbered
<1>3. ASSUME NEW r \in Run
      PROVE  Knows(r)
  <2>1. run[r].pc = "idle" /\ Path(r) = <<>> /\ Len(Path(r)) = 0
    BY DEF Init, Idle, Path
  <2>2. ~Commands(r) /\ ~Starts(r) /\ 1..(Len(Path(r)) - 1) = {}
    BY <2>1 DEF Commands, Starts
  <2> QED
    BY <2>1, <2>2 DEF Knows, HoldsAll, GoesUp, Staged
<1>4. ASSUME NEW S \in Repo
      PROVE  Follows(S)
  <2>1. ParentOf[S] = None \/ ParentOf[S] \in Repo
    BY NestingAssumption
  <2> QED
    BY <2>1, <1>1 DEF Follows, Recorded
<1> QED
  BY <1>2, <1>3, <1>4 DEF GInv

LEMMA NextGInv ==
  ASSUME TypeOK, BInv, GInv, [Next]_vars
  PROVE  GInv'
<1>1. ASSUME NEW r \in Run, NEW R \in Repo, NEW op \in Ops, Begin(r, R, op)
      PROVE  GInv'
  BY <1>1, BeginGInv
<1>2. CASE UNCHANGED vars
  <2>1. HistoryGrows
    BY <1>2, Stands DEF vars
  <2>2. ASSUME NEW q \in Run
        PROVE  /\ Knows(q)'
               /\ \A S \in Repo : Pending(q, S) /\ Tip(S)' = Tip(S) => Pending(q, S)'
    BY <1>2, <2>1, KnowsStill DEF GInv, vars
  <2>3. Numbered'
    BY <2>1, NumberedStays DEF GInv
  <2>4. ASSUME NEW S \in Repo
        PROVE  Follows(S)'
    <3>1. Tip(S)' = Tip(S) /\ Recorded(S)' = Recorded(S) /\ lag' = lag /\ Follows(S)
      BY <1>2 DEF vars, Tip, Recorded, GInv
    <3> QED
      BY <3>1, <2>2 DEF Follows
  <2> QED
    BY <2>2, <2>3, <2>4 DEF GInv
<1> QED
  BY <1>1, <1>2, StepGInv, WorldGInv DEF Next

(* Unless a run has said that the parent could not be told, or was told not  *)
(* to, or HEAD was moved by something else, the parent records where its     *)
(* submodule is once nobody works in that, for every nesting and any number  *)
(* of runs (maybeAutoBumpParent, runParentBumpCommit).                       *)
THEOREM GitlinkIsFollowed == Spec => []GitlinkFollows
<1>1. Init => TypeOK /\ BInv /\ GInv
  BY InitTypeOK, InitBInv, InitGInv
<1>2. TypeOK /\ BInv /\ GInv /\ [Next]_vars => (TypeOK /\ BInv /\ GInv)'
  BY NextBInv, NextGInv
<1>3. TypeOK /\ GInv => GitlinkFollows
  <2> SUFFICES ASSUME GInv, NEW S \in Repo \ lag, ParentOf[S] # None, opLock[S] = None
               PROVE  Tip(ParentOf[S]).links[S] = Tip(S).id
    BY DEF GitlinkFollows
  <2>1. \A r \in Run : ~Pending(r, S)
    BY NestingAssumption DEF Pending
  <2> QED
    BY <2>1 DEF GInv, Follows, Recorded
<1> QED
  BY <1>1, <1>2, <1>3, PTL DEF Spec
=============================================================================

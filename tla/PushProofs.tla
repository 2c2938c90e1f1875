----------------------------- MODULE PushProofs ------------------------------
(* Proofs about Push: nothing unread leaves the remote, a push publishes     *)
(* what its hooks were shown, and it is refused for a lease only when        *)
(* somebody has pushed -- for any number of runs, hooks, retries, moves and  *)
(* arrivals.                                                                 *)
EXTENDS Push, TLAPS


(* Types.  What a run has read is about a part of the references.            *)
Some(S, T) == UNION {[D -> T] : D \in SUBSET S}
Read   == Some(Branches \cup Tags, [local : SUBSET Changes, remote : SUBSET Changes])
Values == Some(RemoteRefs, SUBSET Changes)
Places == {"look", "hooks", "name", "commit", "list", "fetch", "resolve", "merge", "push", "sent", "end"}
Codes  == {"none", "nothing", "unreadable", "moved", "hook_failed", "interrupted", "no_slot", "diverged",
           "ok", "lease", "failed"}
Runs   ==
    [kind : Kinds, pc : Places, at : 1..2, here : BOOLEAN, refs : Read, validated : Read, hooks : Nat,
     attempt : Nat, new : Values, old : Values, sent : SUBSET RemoteRefs, branch : Branches \cup {"none"},
     commit : SUBSET Changes, slot : SUBSET Changes, moved : BOOLEAN, touched : SUBSET RemoteRefs, exit : Codes]

TypeOK ==
    /\ local \in [Branches \cup Tags -> SUBSET Changes] /\ remote \in [RemoteRefs -> SUBSET Changes]
    /\ head \in Branches /\ fetchHead \in SUBSET Changes
    /\ cmd \in [Cmds -> Runs]
    /\ moves \in Nat /\ arrivals \in Nat

---------------------------------------------------------------------------
(* The inductive invariant.  Where a run is in its own plan.                 *)
Shape(c) ==
    /\ cmd[c].pc \in {"look", "hooks"} => cmd[c].kind \in Pushes
    /\ cmd[c].pc \in {"name", "commit", "list", "fetch", "resolve", "merge"} => cmd[c].kind \notin Pushes
    /\ cmd[c].kind \in Pushes => cmd[c].at \in 1..Len(Groups(cmd[c].kind))
    /\ cmd[c].kind \in Pushes /\ cmd[c].pc \in {"hooks", "push", "sent"} => cmd[c].at = 1 /\ cmd[c].here
    /\ cmd[c].pc = "look" /\ cmd[c].here /\ cmd[c].at = 1 => DOMAIN cmd[c].refs = {}
    /\ cmd[c].kind \notin Pushes /\ cmd[c].pc \notin {"name", "end"} => cmd[c].branch \in Branches

(* What a run has read here is so still, unless something has moved since.   *)
Looked(c) ==
    /\ cmd[c].kind \in Pushes
    /\ \/ cmd[c].pc = "look" /\ (~cmd[c].here \/ cmd[c].at > 1)
       \/ cmd[c].pc \in {"hooks", "push"}
Here(c) ==
    ~cmd[c].moved =>
       /\ Looked(c) => \A r \in DOMAIN cmd[c].refs : cmd[c].refs[r].local = local[r]
       /\ cmd[c].kind \notin Pushes /\ cmd[c].pc \in {"list", "fetch", "resolve", "push"} =>
             cmd[c].commit = local[head]

(* What it has read there is so still, unless somebody has pushed.           *)
There(c) ==
    /\ Looked(c) => \A r \in DOMAIN cmd[c].refs \ cmd[c].touched :
                       cmd[c].here \/ r \notin Listing(c) => cmd[c].refs[r].remote = remote[r]
    /\ cmd[c].kind \notin Pushes /\ ~cmd[c].moved /\ Mine(c) \notin cmd[c].touched =>
          /\ cmd[c].pc = "resolve" => fetchHead = remote[Mine(c)]
          /\ cmd[c].pc = "push" => cmd[c].slot = remote[Mine(c)]

(* What is sent is what was shown to the hooks, and replaces what was read.  *)
Shown(c) ==
    /\ cmd[c].pc = "hooks" => cmd[c].validated = cmd[c].refs
    /\ cmd[c].pc \in {"push", "sent"} /\ cmd[c].kind \in Pushes => NotMoved(cmd[c].validated, cmd[c].refs)
    /\ cmd[c].pc \in {"push", "sent"} /\ cmd[c].kind = "backup" => cmd[c].slot \subseteq cmd[c].commit

(* A lease that is refused was on something that somebody has pushed since,  *)
(* or, for a backup, something has moved here.                               *)
Alarm(c) == cmd[c].touched \cap Names(c) # {} \/ (cmd[c].kind \notin Pushes /\ cmd[c].moved)
Given(c) ==
    cmd[c].pc = "sent" =>
       /\ cmd[c].sent \subseteq Names(c) /\ DOMAIN cmd[c].new = Names(c) /\ (cmd[c].exit = "lease" => Alarm(c))
       /\ \A r \in cmd[c].sent :
             /\ Forced(c) => cmd[c].old[r] = LastRead(c, r)
             /\ ~Forced(c) => cmd[c].old[r] \subseteq cmd[c].new[r]
             /\ ~cmd[c].moved =>
                   cmd[c].new[r] = IF cmd[c].kind \in Pushes THEN cmd[c].refs[r].local ELSE cmd[c].commit

Knows(c) == Shape(c) /\ Here(c) /\ There(c) /\ Shown(c) /\ Given(c)
Inv == TypeOK /\ \A c \in Cmds : Knows(c)

---------------------------------------------------------------------------
(* Functions of a part of a set.                                             *)
LEMMA SomeIs ==
  ASSUME NEW S, NEW T, NEW f
  PROVE  /\ f \in Some(S, T) => DOMAIN f \subseteq S /\ f \in [DOMAIN f -> T]
         /\ \A D \in SUBSET S : f \in [D -> T] => f \in Some(S, T)
  BY DEF Some

LEMMA NothingRead == <<>> \in Read /\ <<>> \in Values /\ DOMAIN <<>> = {}
<1>1. \A T : <<>> \in [{} -> T]
  OBVIOUS
<1>2. {} \in SUBSET (Branches \cup Tags) /\ {} \in SUBSET RemoteRefs
  OBVIOUS
<1>3. <<>> \in Read
  <2>1. \A T : <<>> \in Some(Branches \cup Tags, T)
    BY <1>1, <1>2, SomeIs
  <2>2. QED
    BY <2>1 DEF Read
<1>4. <<>> \in Values
  BY <1>1, <1>2, SomeIs DEF Values
<1>5. DOMAIN <<>> = {}
  OBVIOUS
<1>6. QED
  BY <1>3, <1>4, <1>5

(* The fields of a run that is changed.                                      *)
LEMMA RunOfType ==
  ASSUME NEW k \in Runs
  PROVE  /\ DOMAIN k.refs \subseteq Branches \cup Tags /\ DOMAIN k.refs \subseteq RemoteRefs
         /\ k.refs \in [DOMAIN k.refs -> [local : SUBSET Changes, remote : SUBSET Changes]]
         /\ k.new \in [DOMAIN k.new -> SUBSET Changes] /\ k.old \in [DOMAIN k.old -> SUBSET Changes]
<1>1. k.refs \in Read /\ k.new \in Values /\ k.old \in Values
  BY DEF Runs
<1>2. /\ DOMAIN k.refs \subseteq Branches \cup Tags
      /\ k.refs \in [DOMAIN k.refs -> [local : SUBSET Changes, remote : SUBSET Changes]]
  BY <1>1, SomeIs DEF Read
<1>3. k.new \in [DOMAIN k.new -> SUBSET Changes] /\ k.old \in [DOMAIN k.old -> SUBSET Changes]
  BY <1>1, SomeIs DEF Values
<1>4. QED
  BY <1>2, <1>3 DEF RemoteRefs

LEMMA EndsIs ==
  ASSUME NEW c, NEW k \in Runs, NEW code \in Codes
  PROVE  /\ Ends(c, k, code) \in Runs /\ Ends(c, k, code).pc = "end" /\ Ends(c, k, code).exit = code
         /\ Ends(c, k, code).kind = k.kind /\ Ends(c, k, code).at = k.at
  BY NothingRead DEF Ends, Runs, Places

LEMMA AgainIs ==
  ASSUME NEW c, NEW k \in Runs
  PROVE  /\ Again(c, k) \in Runs /\ Again(c, k).kind = k.kind /\ Again(c, k).at = k.at
         /\ \/ Again(c, k).pc = "end" /\ Again(c, k).exit = "failed"
            \/ /\ k.kind \in Pushes /\ Again(c, k).pc = "look" /\ DOMAIN Again(c, k).refs = {}
               /\ Again(c, k).here = k.here /\ Again(c, k).exit = k.exit
<1>1. CASE k.kind \in Pushes /\ k.attempt < RetryAttempts
  <2> DEFINE a == [k EXCEPT !.pc = "look", !.refs = <<>>, !.new = <<>>, !.old = <<>>, !.sent = {}]
  <2>1. Again(c, k) = a
    BY <1>1 DEF Again
  <2>2. /\ a \in Runs /\ a.kind = k.kind /\ a.at = k.at /\ a.pc = "look" /\ a.refs = <<>> /\ a.here = k.here
        /\ a.exit = k.exit
    BY NothingRead DEF Runs, Places
  <2> HIDE DEF a
  <2>3. QED
    BY <1>1, <2>1, <2>2, NothingRead
<1>2. CASE ~(k.kind \in Pushes /\ k.attempt < RetryAttempts)
  <2>1. Again(c, k) = Ends(c, k, "failed")
    BY <1>2 DEF Again
  <2>2. "failed" \in Codes
    BY DEF Codes
  <2>3. QED
    BY <2>1, <2>2, EndsIs
<1>3. QED
  BY <1>1, <1>2

(* The others disturb of a run only what it knows of them.                   *)
Kept(d) ==
    /\ cmd'[d].kind = cmd[d].kind /\ cmd'[d].pc = cmd[d].pc /\ cmd'[d].at = cmd[d].at /\ cmd'[d].here = cmd[d].here
    /\ cmd'[d].refs = cmd[d].refs /\ cmd'[d].validated = cmd[d].validated /\ cmd'[d].attempt = cmd[d].attempt
    /\ cmd'[d].new = cmd[d].new /\ cmd'[d].old = cmd[d].old /\ cmd'[d].sent = cmd[d].sent
    /\ cmd'[d].branch = cmd[d].branch /\ cmd'[d].commit = cmd[d].commit /\ cmd'[d].slot = cmd[d].slot
    /\ cmd'[d].exit = cmd[d].exit
    /\ cmd[d].moved => cmd'[d].moved
    /\ cmd[d].touched \subseteq cmd'[d].touched

LEMMA NoticedIs ==
  ASSUME NEW d, cmd[d] \in Runs, cmd'[d] = Noticed(cmd[d])
  PROVE  /\ cmd'[d] \in Runs /\ Kept(d) /\ (cmd'[d].moved \/ cmd[d].pc \in {"sent", "end"})
         /\ cmd[d].pc \in {"sent", "end"} => cmd'[d].moved = cmd[d].moved
<1>1. CASE cmd[d].pc \in {"sent", "end"}
  BY <1>1 DEF Noticed, Runs, Kept
<1>2. CASE cmd[d].pc \notin {"sent", "end"}
  BY <1>2 DEF Noticed, Runs, Kept
<1>3. QED
  BY <1>1, <1>2

LEMMA TouchedIs ==
  ASSUME NEW d, cmd[d] \in Runs, NEW rs \in SUBSET RemoteRefs,
         cmd'[d] = IF cmd[d].pc = "end" THEN cmd[d] ELSE [cmd[d] EXCEPT !.touched = @ \cup rs]
  PROVE  cmd'[d] \in Runs /\ Kept(d) /\ cmd'[d].moved = cmd[d].moved
         /\ (cmd[d].pc = "end" \/ cmd'[d].touched = cmd[d].touched \cup rs)
<1>1. CASE cmd[d].pc = "end"
  BY <1>1 DEF Kept
<1>2. CASE cmd[d].pc # "end"
  BY <1>2 DEF Runs, Kept
<1>3. QED
  BY <1>1, <1>2

LEMMA Undisturbed ==
  ASSUME TypeOK, TypeOK', NEW d \in Cmds, Knows(d), Kept(d),
         \/ UNCHANGED <<local, head, fetchHead>>
         \/ cmd'[d].moved
         \/ cmd[d].pc \in {"sent", "end"},
         cmd[d].pc \in {"sent", "end"} => cmd'[d].moved = cmd[d].moved,
         \A r \in RemoteRefs : remote'[r] = remote[r] \/ r \in cmd'[d].touched \/ cmd[d].pc = "end"
  PROVE  Knows(d)'
<1>k. cmd[d] \in Runs /\ cmd'[d] \in Runs
  BY DEF TypeOK
<1>1. Shape(d)'
  BY DEF Knows, Shape, Kept
<1>2. Here(d)'
  BY DEF Knows, Here, Kept, Looked
<1>3. Looked(d)' = Looked(d) /\ Mine(d)' = Mine(d) /\ Listing(d)' = Listing(d)
  BY DEF Kept, Looked, Mine, Listing
<1>4. There(d)'
  <2>1. ASSUME Looked(d), NEW r \in DOMAIN cmd'[d].refs \ cmd'[d].touched, cmd'[d].here \/ r \notin Listing(d)
        PROVE  cmd'[d].refs[r].remote = remote'[r]
    <3>1. r \in RemoteRefs /\ r \in DOMAIN cmd[d].refs \ cmd[d].touched /\ cmd[d].pc # "end"
      BY <1>k, <2>1, RunOfType DEF Kept, Looked
    <3>2. QED
      BY <2>1, <3>1 DEF Knows, There, Kept
  <2>2. ASSUME cmd[d].kind \notin Pushes, ~cmd'[d].moved, Mine(d) \notin cmd'[d].touched, cmd[d].pc \in {"resolve", "push"}
        PROVE  remote'[Mine(d)] = remote[Mine(d)] /\ UNCHANGED fetchHead
    <3>1. cmd[d].branch \in Branches
      BY <2>2 DEF Knows, Shape
    <3>2. Mine(d) \in RemoteRefs
      BY <3>1 DEF Mine, RemoteRefs
    <3>3. QED
      BY <2>2, <3>2
  <2>3. QED
    BY <1>3, <2>1, <2>2 DEF Knows, There, Kept
<1>5. Shown(d)'
  BY DEF Knows, Shown, Kept, NotMoved
<1>6. Given(d)'
  <2>1. /\ Names(d)' = Names(d) /\ Forced(d)' = Forced(d) /\ \A r : LastRead(d, r)' = LastRead(d, r)
    BY DEF Kept, Names, Forced, LastRead, Mine
  <2>2. SUFFICES ASSUME cmd'[d].pc = "sent"
                 PROVE  Given(d)'
    BY DEF Given
  <2>3. cmd[d].pc = "sent" /\ cmd'[d].moved = cmd[d].moved
    BY <2>2 DEF Kept
  <2>4. Alarm(d) => Alarm(d)'
    BY <2>1, <2>3 DEF Alarm, Kept
  <2>5. QED
    BY <2>1, <2>3, <2>4 DEF Knows, Given, Kept
<1>7. QED
  BY <1>1, <1>2, <1>4, <1>5, <1>6 DEF Knows

---------------------------------------------------------------------------
(* What a step of the others, or of another run, leaves of a run.            *)
LEMMA OthersAct ==
  ASSUME Inv, Others
  PROVE  TypeOK' /\ \A d \in Cmds : Knows(d)' /\ Kept(d)
<1>t. /\ local \in [Branches \cup Tags -> SUBSET Changes] /\ remote \in [RemoteRefs -> SUBSET Changes]
      /\ head \in Branches /\ fetchHead \in SUBSET Changes /\ cmd \in [Cmds -> Runs]
      /\ moves \in Nat /\ arrivals \in Nat
  BY DEF Inv, TypeOK
<1>n. ASSUME cmd' = [c \in Cmds |-> Noticed(cmd[c])]
      PROVE  /\ cmd' \in [Cmds -> Runs]
             /\ \A d \in Cmds : /\ Kept(d) /\ (cmd'[d].moved \/ cmd[d].pc \in {"sent", "end"})
                                /\ cmd[d].pc \in {"sent", "end"} => cmd'[d].moved = cmd[d].moved
  <2>1. \A d \in Cmds : /\ cmd'[d] \in Runs /\ Kept(d) /\ (cmd'[d].moved \/ cmd[d].pc \in {"sent", "end"})
                        /\ cmd[d].pc \in {"sent", "end"} => cmd'[d].moved = cmd[d].moved
    BY <1>t, <1>n, NoticedIs
  <2>2. QED
    BY <1>n, <2>1
<1>1. ASSUME NEW r \in {"main", "v1"}, NEW h \in Histories, LocalMove(r, h)
      PROVE  TypeOK' /\ \A d \in Cmds : Knows(d)' /\ Kept(d)
  <2>1. h \in SUBSET Changes /\ r \in Branches \cup Tags
    BY DEF Histories, Changes, Base, Branches, Tags
  <2>2. TypeOK'
    BY <1>t, <1>n, <1>1, <2>1 DEF LocalMove, TypeOK
  <2>3. cmd' = [c \in Cmds |-> Noticed(cmd[c])] /\ UNCHANGED <<head, fetchHead, remote>>
    BY <1>1 DEF LocalMove
  <2>4. ASSUME NEW d \in Cmds
        PROVE  Knows(d)' /\ Kept(d)
    <3>1. /\ Kept(d) /\ (cmd'[d].moved \/ cmd[d].pc \in {"sent", "end"})
          /\ cmd[d].pc \in {"sent", "end"} => cmd'[d].moved = cmd[d].moved
      BY <1>n, <2>3
    <3>2. Knows(d) /\ TypeOK
      BY DEF Inv
    <3>3. QED
      BY <2>2, <2>3, <3>1, <3>2, Undisturbed
  <2>5. QED
    BY <2>2, <2>4
<1>2. ASSUME Switch \/ OtherFetch
      PROVE  TypeOK' /\ \A d \in Cmds : Knows(d)' /\ Kept(d)
  <2>1. "main" \in RemoteRefs
    BY DEF RemoteRefs, Branches
  <2>2. TypeOK'
    BY <1>t, <1>n, <1>2, <2>1 DEF Switch, OtherFetch, TypeOK
  <2>3. cmd' = [c \in Cmds |-> Noticed(cmd[c])] /\ UNCHANGED remote
    BY <1>2 DEF Switch, OtherFetch
  <2>4. ASSUME NEW d \in Cmds
        PROVE  Knows(d)' /\ Kept(d)
    <3>1. /\ Kept(d) /\ (cmd'[d].moved \/ cmd[d].pc \in {"sent", "end"})
          /\ cmd[d].pc \in {"sent", "end"} => cmd'[d].moved = cmd[d].moved
      BY <1>n, <2>3
    <3>2. Knows(d) /\ TypeOK
      BY DEF Inv
    <3>3. QED
      BY <2>2, <2>3, <3>1, <3>2, Undisturbed
  <2>5. QED
    BY <2>2, <2>4
<1>3. ASSUME NEW r \in {"main", "v1", "backup_main"}, Arrival(r)
      PROVE  TypeOK' /\ \A d \in Cmds : Knows(d)' /\ Kept(d)
  <2>1. r \in RemoteRefs /\ {r} \in SUBSET RemoteRefs
    BY DEF RemoteRefs, Branches, Tags, Slot
  <2>2. \A d \in Cmds : cmd'[d] = IF cmd[d].pc = "end" THEN cmd[d] ELSE [cmd[d] EXCEPT !.touched = @ \cup {r}]
    BY <1>3 DEF Arrival, Touched
  <2>3. \A d \in Cmds : /\ cmd'[d] \in Runs /\ Kept(d) /\ cmd'[d].moved = cmd[d].moved
                        /\ cmd[d].pc = "end" \/ r \in cmd'[d].touched
    <3>1. ASSUME NEW d \in Cmds
          PROVE  /\ cmd'[d] \in Runs /\ Kept(d) /\ cmd'[d].moved = cmd[d].moved
                 /\ cmd[d].pc = "end" \/ cmd'[d].touched = cmd[d].touched \cup {r}
      BY <1>t, <2>1, <2>2, TouchedIs
    <3>2. QED
      BY <3>1
  <2>4. cmd' \in [Cmds -> Runs]
    BY <1>3, <2>3 DEF Arrival, Touched
  <2>5. remote' = [remote EXCEPT ![r] = @ \cup {"b", "z"}] /\ UNCHANGED <<local, head, fetchHead, moves>>
    BY <1>3 DEF Arrival
  <2>6. TypeOK'
    <3>1. remote[r] \cup {"b", "z"} \in SUBSET Changes
      BY <1>t, <2>1 DEF Changes, Base
    <3>2. arrivals' = arrivals + 1
      BY <1>3 DEF Arrival
    <3>3. arrivals' \in Nat
      <4>1. arrivals \in Nat
        BY <1>t
      <4>2. \A n \in Nat : n + 1 \in Nat
        OBVIOUS
      <4>3. QED
        BY <3>2, <4>1, <4>2
    <3>4. QED
      BY <1>t, <2>1, <2>4, <2>5, <3>1, <3>3 DEF TypeOK
  <2>7. QED
    BY <1>t, <2>3, <2>5, <2>6, Undisturbed DEF Inv
<1>4. QED
  BY <1>1, <1>2, <1>3 DEF Others

---------------------------------------------------------------------------
(* The steps of a run.  A quiet one receives nothing and refuses no lease.   *)
Quiet == \A d \in Cmds : ~Received(d) /\ (cmd[d].pc # "end" /\ cmd'[d].pc = "end" => cmd'[d].exit # "lease")

LEMMA OneSteps ==
  ASSUME Inv, NEW c \in Cmds, NEW k \in Runs, Step(c, k), Reads
  PROVE  /\ cmd'[c] = k
         /\ Knows(c)' => Inv'
         /\ cmd[c].pc # "sent" /\ (k.pc = "end" => k.exit # "lease") => Quiet
<1>1. cmd' \in [Cmds -> Runs] /\ cmd'[c] = k /\ \A d \in Cmds : d # c => cmd'[d] = cmd[d]
  BY DEF Inv, TypeOK, Step
<1>2. TypeOK'
  BY <1>1 DEF Inv, TypeOK, Reads
<1>3. \A d \in Cmds : d # c => Knows(d)'
  <2>1. ASSUME NEW d \in Cmds, d # c
        PROVE  Knows(d)'
    <3>1. Kept(d) /\ cmd'[d].moved = cmd[d].moved
      BY <1>1, <2>1 DEF Kept
    <3>2. TypeOK /\ Knows(d) /\ UNCHANGED <<local, head, fetchHead, remote>>
      BY DEF Inv, Reads
    <3>3. QED
      BY <1>2, <3>1, <3>2, Undisturbed
  <2>2. QED
    BY <2>1
<1>4. Knows(c)' => Inv'
  BY <1>2, <1>3 DEF Inv
<1>5. cmd[c].pc # "sent" /\ (k.pc = "end" => k.exit # "lease") => Quiet
  BY <1>1 DEF Quiet, Received
<1>6. QED
  BY <1>1, <1>4, <1>5

LEMMA Ended ==
  ASSUME NEW c \in Cmds, Knows(c), cmd'[c].pc = "end", cmd'[c].kind = cmd[c].kind, cmd'[c].at = cmd[c].at
  PROVE  Knows(c)'
<1>1. Shape(c)' /\ Here(c)' /\ Shown(c)' /\ Given(c)'
  BY DEF Knows, Shape, Here, Looked, Shown, Given
<1>2. There(c)'
  BY DEF There, Looked
<1>3. QED
  BY <1>1, <1>2 DEF Knows

LEMMA Ending ==
  ASSUME Inv, NEW c \in Cmds, NEW k \in Runs, k.kind = cmd[c].kind, k.at = cmd[c].at, NEW code \in Codes,
         Step(c, Ends(c, k, code)), Reads
  PROVE  Inv' /\ cmd'[c].pc = "end" /\ cmd'[c].exit = code
         /\ (cmd[c].pc # "sent" /\ code # "lease" => Quiet)
<1>1. /\ Ends(c, k, code) \in Runs /\ Ends(c, k, code).pc = "end" /\ Ends(c, k, code).exit = code
      /\ Ends(c, k, code).kind = k.kind /\ Ends(c, k, code).at = k.at
  BY EndsIs
<1>2. cmd'[c] = Ends(c, k, code)
  BY <1>1, OneSteps
<1>3. Knows(c)'
  BY <1>1, <1>2, Ended DEF Inv
<1>4. QED
  BY <1>1, <1>2, <1>3, OneSteps

(* The groups of references a push goes by: of HEAD, or branches, then tags. *)
LEMMA GroupIs ==
  ASSUME Inv, NEW c \in Cmds, cmd[c].kind \in Pushes
  PROVE  /\ Group(c) \subseteq Branches \cup Tags
         /\ cmd[c].at \in 1..2 /\ Len(Groups(cmd[c].kind)) \in 1..2
         /\ cmd[c].at <= Len(Groups(cmd[c].kind))
         /\ cmd[c].at # 1 => Group(c) = Groups(cmd[c].kind)[cmd[c].at]
<1>1. cmd[c].at \in 1..Len(Groups(cmd[c].kind)) /\ head \in Branches
  BY DEF Inv, Knows, Shape, TypeOK
<1>2. "HEAD" \notin Branches /\ "HEAD" \notin Tags
  BY DEF Branches, Tags
<1>3. CASE Groups(cmd[c].kind) = <<Branches, Tags>>
  <2>1. Group(c) = Groups(cmd[c].kind)[cmd[c].at] /\ cmd[c].at \in 1..2
    BY <1>1, <1>2, <1>3 DEF Group
  <2>2. Groups(cmd[c].kind)[cmd[c].at] \in {Branches, Tags} /\ Len(Groups(cmd[c].kind)) = 2
    BY <1>3, <2>1
  <2>3. QED
    BY <1>1, <2>1, <2>2
<1>4. CASE Groups(cmd[c].kind) = <<{"HEAD"}>>
  BY <1>1, <1>4 DEF Group
<1>5. QED
  BY <1>3, <1>4 DEF Groups

LEMMA LooksHere ==
  ASSUME Inv, NEW c \in Cmds, LookHere(c)
  PROVE  Inv' /\ Quiet
<1> DEFINE k == cmd[c]
           listed == {r \in Group(c) : local[r] # Absent}
           D == listed \cup DOMAIN k.refs
           f == [r \in D |-> IF r \in listed THEN [local |-> local[r], remote |-> Absent] ELSE k.refs[r]]
           k2 == [k EXCEPT !.here = FALSE, !.moved = @ /\ k.at > 1, !.refs = f]
<1>1. k.pc = "look" /\ k.here /\ Step(c, k2) /\ Reads
  BY DEF LookHere
<1>2. k \in Runs /\ Knows(c) /\ k.kind \in Pushes /\ local \in [Branches \cup Tags -> SUBSET Changes]
  BY <1>1 DEF Inv, TypeOK, Knows, Shape
<1>3. D \subseteq Branches \cup Tags /\ listed \subseteq Group(c) /\ DOMAIN k.refs \subseteq D
  BY <1>2, GroupIs, RunOfType
<1>4. /\ DOMAIN f = D
      /\ \A r \in listed : f[r].local = local[r]
      /\ \A r \in D \ listed : f[r] = k.refs[r] /\ r \in DOMAIN k.refs
  OBVIOUS
<1>5. f \in Read
  <2>1. \A r \in D : f[r] \in [local : SUBSET Changes, remote : SUBSET Changes]
    <3>1. k.refs \in [DOMAIN k.refs -> [local : SUBSET Changes, remote : SUBSET Changes]]
      BY <1>2, RunOfType
    <3>2. \A r \in listed : local[r] \in SUBSET Changes
      BY <1>2, <1>3
    <3>3. QED
      BY <3>1, <3>2 DEF Absent
  <2>2. f \in [D -> [local : SUBSET Changes, remote : SUBSET Changes]]
    BY <2>1
  <2>3. D \in SUBSET (Branches \cup Tags)
    BY <1>3
  <2> HIDE DEF f, D
  <2>4. \A T : f \in [D -> T] => f \in Some(Branches \cup Tags, T)
    BY <2>3, SomeIs
  <2>5. QED
    BY <2>2, <2>4 DEF Read
<1> HIDE DEF f, D, listed
<1>6. /\ k2 \in Runs /\ k2.kind = k.kind /\ k2.pc = "look" /\ k2.at = k.at /\ k2.here = FALSE /\ k2.refs = f
      /\ k2.touched = k.touched /\ (k2.moved <=> k.moved /\ k.at > 1)
  BY <1>1, <1>2, <1>5 DEF Runs
<1>7. cmd'[c] = k2 /\ (Knows(c)' => Inv') /\ Quiet
  <2> HIDE DEF k2
  <2>1. QED
    BY <1>1, <1>6, OneSteps
<1> HIDE DEF k2
<1>g. /\ k.at \in 1..2 /\ k.at <= Len(Groups(k.kind))
      /\ k.at # 1 => Group(c) = Groups(k.kind)[k.at]
  BY <1>2, GroupIs
<1>8. Shape(c)'
  BY <1>2, <1>6, <1>7 DEF Knows, Shape
<1>9. Here(c)'
  <2>1. ASSUME ~k2.moved, NEW r \in D
        PROVE  f[r].local = local[r]
    <3>1. CASE r \in listed
      BY <1>4, <3>1
    <3>2. CASE r \notin listed
      <4>1. f[r] = k.refs[r] /\ r \in DOMAIN k.refs
        BY <1>4, <2>1, <3>2
      <4>2. k.at > 1 /\ ~k.moved
        <5>1. DOMAIN k.refs # {}
          BY <4>1
        <5>2. k.at # 1
          BY <1>1, <1>2, <5>1 DEF Knows, Shape
        <5>3. QED
          BY <1>6, <1>g, <2>1, <5>2
      <4>3. QED
        BY <1>1, <1>2, <4>1, <4>2 DEF Knows, Here, Looked
    <3>3. QED
      BY <3>1, <3>2
  <2>2. QED
    BY <1>1, <1>2, <1>4, <1>6, <1>7, <2>1 DEF Here, Looked, Reads
<1>10. There(c)'
  <2>1. Looked(c)' /\ cmd'[c].kind \in Pushes
    BY <1>2, <1>6, <1>7 DEF Looked
  <2>2. ASSUME NEW r \in D \ k.touched, r \notin Listing(c)'
        PROVE  f[r].remote = remote[r]
    <3>1. k.at # 1 /\ r \notin Groups(k.kind)[k.at]
      BY <1>4, <1>6, <1>7, <2>2 DEF Listing
    <3>2. r \notin listed
      BY <1>3, <1>g, <3>1
    <3>3. f[r] = k.refs[r] /\ r \in DOMAIN k.refs
      BY <1>4, <2>2, <3>2
    <3>4. QED
      BY <1>1, <1>2, <1>g, <2>2, <3>1, <3>3 DEF Knows, There, Looked
  <2>3. QED
    BY <1>1, <1>4, <1>6, <1>7, <2>1, <2>2 DEF There, Reads
<1>11. Shown(c)' /\ Given(c)'
  BY <1>6, <1>7 DEF Shown, Given
<1>12. QED
  BY <1>7, <1>8, <1>9, <1>10, <1>11 DEF Knows

LEMMA LooksThere ==
  ASSUME Inv, NEW c \in Cmds, LookThere(c)
  PROVE  Inv' /\ Quiet
<1> DEFINE k0 == cmd[c]
           k == [k0 EXCEPT !.refs = Listed(c), !.here = TRUE, !.touched = @ \ Listing(c)]
           last == k.at = Len(Groups(k.kind))
<1>1. /\ k0.pc = "look" /\ ~k0.here /\ Reads
      /\ \/ ~last /\ Step(c, [k EXCEPT !.at = @ + 1])
         \/ last /\ Step(c, IF k.refs = <<>> THEN Ends(c, k, "nothing")
                            ELSE IF ~Retries(c) THEN [k EXCEPT !.pc = "hooks", !.at = 1, !.validated = k.refs]
                            ELSE IF NotMoved(k.validated, k.refs) THEN [k EXCEPT !.pc = "push", !.at = 1]
                            ELSE Ends(c, k, "moved"))
         \/ Step(c, Ends(c, k, "unreadable"))
  BY DEF LookThere
<1>2. k0 \in Runs /\ Knows(c) /\ k0.kind \in Pushes /\ remote \in [RemoteRefs -> SUBSET Changes]
  BY <1>1 DEF Inv, TypeOK, Knows, Shape
<1>3. /\ DOMAIN k0.refs \subseteq Branches \cup Tags /\ DOMAIN k0.refs \subseteq RemoteRefs
      /\ k0.refs \in [DOMAIN k0.refs -> [local : SUBSET Changes, remote : SUBSET Changes]]
  BY <1>2, RunOfType
<1>4. /\ DOMAIN Listed(c) = DOMAIN k0.refs /\ Listed(c) \in Read
      /\ \A r \in DOMAIN k0.refs : Listed(c)[r].local = k0.refs[r].local
      /\ \A r \in Listing(c) : Listed(c)[r].remote = remote[r]
      /\ \A r \in DOMAIN k0.refs \ Listing(c) : Listed(c)[r].remote = k0.refs[r].remote
  <2> DEFINE P == [local : SUBSET Changes, remote : SUBSET Changes]
             D == DOMAIN k0.refs
  <2>1. Listed(c) = [r \in D |-> IF r \in Listing(c) THEN [k0.refs[r] EXCEPT !.remote = remote[r]] ELSE k0.refs[r]]
    BY DEF Listed
  <2>2. ASSUME NEW r \in D
        PROVE  /\ [k0.refs[r] EXCEPT !.remote = remote[r]] \in P
               /\ [k0.refs[r] EXCEPT !.remote = remote[r]].local = k0.refs[r].local
               /\ [k0.refs[r] EXCEPT !.remote = remote[r]].remote = remote[r]
    <3>1. k0.refs[r] \in P /\ remote[r] \in SUBSET Changes
      BY <1>2, <1>3, <2>2
    <3>2. QED
      BY <3>1
  <2>3. Listing(c) \subseteq D
    BY DEF Listing
  <2>4. \A r \in D : Listed(c)[r] = IF r \in Listing(c) THEN [k0.refs[r] EXCEPT !.remote = remote[r]] ELSE k0.refs[r]
    BY <2>1
  <2>5. DOMAIN Listed(c) = D /\ Listed(c) \in [D -> P]
    BY <1>3, <2>1, <2>2
  <2>6. Listed(c) \in Read
    <3>1. D \in SUBSET (Branches \cup Tags)
      BY <1>3
    <3> HIDE DEF D
    <3>2. \A T : Listed(c) \in [D -> T] => Listed(c) \in Some(Branches \cup Tags, T)
      BY <3>1, SomeIs
    <3>3. QED
      BY <2>5, <3>2 DEF Read
  <2>7. QED
    BY <2>2, <2>3, <2>4, <2>5, <2>6
<1>5. /\ k \in Runs /\ k.kind = k0.kind /\ k.pc = "look" /\ k.at = k0.at /\ k.here = TRUE /\ k.refs = Listed(c)
      /\ k.touched = k0.touched \ Listing(c) /\ k.moved = k0.moved /\ k.validated = k0.validated
  BY <1>1, <1>2, <1>4 DEF Runs
<1> HIDE DEF k
<1>g. k.at \in 1..2 /\ Len(Groups(k.kind)) \in 1..2 /\ k.at <= Len(Groups(k.kind)) /\ Groups(k.kind) = Groups(k0.kind)
  BY <1>2, <1>5, GroupIs
<1>6. ASSUME ~k0.moved, NEW r \in DOMAIN k.refs
      PROVE  k.refs[r].local = local[r]
  BY <1>1, <1>2, <1>4, <1>5, <1>6 DEF Knows, Here, Looked
<1>7. ASSUME NEW r \in DOMAIN k.refs \ k.touched
      PROVE  k.refs[r].remote = remote[r]
  <2>1. CASE r \in Listing(c)
    BY <1>4, <2>1, <1>5
  <2>2. CASE r \notin Listing(c)
    <3>1. r \in DOMAIN k0.refs \ k0.touched
      BY <1>4, <1>5, <1>7, <2>2
    <3>2. k0.refs[r].remote = remote[r]
      BY <1>1, <1>2, <2>2, <3>1 DEF Knows, There, Looked
    <3>3. QED
      BY <1>4, <1>5, <2>2, <3>1, <3>2
  <2>3. QED
    BY <2>1, <2>2
<1>8. /\ {"nothing", "moved", "unreadable"} \subseteq Codes
      /\ "lease" \notin {"nothing", "moved", "unreadable"}
  BY DEF Codes
<1>9. ASSUME NEW code \in {"nothing", "moved", "unreadable"}, Step(c, Ends(c, k, code))
      PROVE  Inv' /\ Quiet
  BY <1>1, <1>5, <1>8, <1>9, Ending
(* The next look, the hooks and the push know the same of both sides.        *)
<1>10. ASSUME NEW k2 \in Runs, Step(c, k2), k2.pc \in {"look", "hooks", "push"}, k2.kind = k.kind, k2.here = TRUE,
              k2.at \in 1..Len(Groups(k.kind)), k2.pc # "look" => k2.at = 1, k2.pc = "look" => k2.at # 1,
              k2.refs = k.refs, k2.touched = k.touched, k2.moved = k.moved,
              k2.pc = "hooks" => k2.validated = k2.refs,
              k2.pc = "push" => NotMoved(k2.validated, k2.refs)
       PROVE  Inv' /\ Quiet
  <2>1. cmd'[c] = k2 /\ (Knows(c)' => Inv') /\ Quiet
    BY <1>1, <1>10, OneSteps
  <2>2. Shape(c)'
    BY <1>2, <1>5, <1>10, <2>1 DEF Shape
  <2>3. Here(c)'
    BY <1>1, <1>2, <1>5, <1>6, <1>10, <2>1 DEF Here, Looked, Reads
  <2>4. There(c)'
    BY <1>1, <1>2, <1>5, <1>7, <1>10, <2>1 DEF There, Looked, Reads
  <2>5. Shown(c)'
    <3>1. k2.kind # "backup"
      BY <1>2, <1>5, <1>10 DEF Pushes
    <3>2. QED
      BY <1>10, <2>1, <3>1 DEF Shown, NotMoved
  <2>6. Given(c)'
    BY <1>10, <2>1 DEF Given
  <2>7. QED
    BY <2>1, <2>2, <2>3, <2>4, <2>5, <2>6 DEF Knows
<1>11. CASE ~last /\ Step(c, [k EXCEPT !.at = @ + 1])
  <2> DEFINE k2 == [k EXCEPT !.at = @ + 1]
  <2>1. k.at = 1 /\ Len(Groups(k.kind)) = 2
    <3>1. \A a, n \in 1..2 : a <= n /\ a # n => a = 1 /\ n = 2
      OBVIOUS
    <3>2. k.at # Len(Groups(k.kind))
      BY <1>11
    <3>3. QED
      BY <1>g, <3>1, <3>2
  <2>2. k.at + 1 \in 1..2 /\ k.at + 1 = 2
    BY <2>1
  <2>3. /\ k2 \in Runs /\ k2.pc = "look" /\ k2.kind = k.kind /\ k2.here = TRUE /\ k2.at = 2
        /\ k2.refs = k.refs /\ k2.touched = k.touched /\ k2.moved = k.moved
    BY <1>5, <2>2 DEF Runs
  <2>4. Step(c, k2) /\ 2 \in 1..Len(Groups(k.kind))
    BY <1>11, <2>1
  <2> HIDE DEF k2
  <2>5. k2.pc \in {"look", "hooks", "push"} /\ k2.at \in 1..Len(Groups(k.kind)) /\ k2.pc = "look" /\ k2.at # 1
    BY <2>3, <2>4
  <2>6. QED
    BY <1>10, <2>3, <2>4, <2>5
<1>12. ASSUME Step(c, [k EXCEPT !.pc = "hooks", !.at = 1, !.validated = k.refs])
       PROVE  Inv' /\ Quiet
  <2> DEFINE k2 == [k EXCEPT !.pc = "hooks", !.at = 1, !.validated = k.refs]
  <2>1. /\ k2 \in Runs /\ k2.pc = "hooks" /\ k2.kind = k.kind /\ k2.here = TRUE /\ k2.at = 1
        /\ k2.refs = k.refs /\ k2.touched = k.touched /\ k2.moved = k.moved /\ k2.validated = k2.refs
    <3>1. k \in Runs /\ k.refs \in Read /\ "hooks" \in Places /\ 1 \in 1..2
      BY <1>5 DEF Runs, Places
    <3>2. k2 \in Runs /\ k2.pc = "hooks" /\ k2.at = 1
      BY <3>1 DEF Runs
    <3>3. QED
      BY <1>5, <3>1, <3>2 DEF Runs
  <2>2. Step(c, k2)
    BY <1>12
  <2> HIDE DEF k2
  <2>3. k2.pc \in {"look", "hooks", "push"} /\ k2.at \in 1..Len(Groups(k.kind)) /\ k2.pc # "look" /\ k2.at = 1
    BY <1>g, <2>1
  <2>4. QED
    BY <1>10, <2>1, <2>2, <2>3
<1>13. ASSUME NotMoved(k.validated, k.refs), Step(c, [k EXCEPT !.pc = "push", !.at = 1])
       PROVE  Inv' /\ Quiet
  <2> DEFINE k2 == [k EXCEPT !.pc = "push", !.at = 1]
  <2>1. /\ k2 \in Runs /\ k2.pc = "push" /\ k2.kind = k.kind /\ k2.here = TRUE /\ k2.at = 1
        /\ k2.refs = k.refs /\ k2.touched = k.touched /\ k2.moved = k.moved /\ k2.validated = k.validated
    <3>1. k \in Runs /\ k.refs \in Read /\ "push" \in Places /\ 1 \in 1..2
      BY <1>5 DEF Runs, Places
    <3>2. k2 \in Runs /\ k2.pc = "push" /\ k2.at = 1
      BY <3>1 DEF Runs
    <3>3. QED
      BY <1>5, <3>1, <3>2 DEF Runs
  <2>2. Step(c, k2) /\ NotMoved(k2.validated, k2.refs)
    BY <1>13, <2>1
  <2> HIDE DEF k2
  <2>3. k2.pc \in {"look", "hooks", "push"} /\ k2.at \in 1..Len(Groups(k.kind)) /\ k2.pc # "look" /\ k2.at = 1
    BY <1>g, <2>1
  <2>4. QED
    BY <1>10, <2>1, <2>2, <2>3
<1>14. QED
  BY <1>1, <1>9, <1>11, <1>12, <1>13

LEMMA HooksRun ==
  ASSUME Inv, NEW c \in Cmds, RunHook(c) \/ HooksPassed(c)
  PROVE  Inv' /\ Quiet
<1> DEFINE k == cmd[c]
<1>1. /\ k.pc = "hooks" /\ Reads
      /\ \/ Step(c, Ends(c, k, "hook_failed")) \/ Step(c, Ends(c, k, "interrupted"))
         \/ k.hooks > 0 /\ Step(c, [k EXCEPT !.hooks = @ - 1])
         \/ Step(c, [k EXCEPT !.pc = "push"])
  BY DEF RunHook, HooksPassed
<1>2. k \in Runs /\ Knows(c) /\ k.kind \in Pushes /\ k.kind # "backup"
  BY <1>1 DEF Inv, TypeOK, Knows, Shape, Pushes
<1>3. ASSUME NEW code \in {"hook_failed", "interrupted"}, Step(c, Ends(c, k, code))
      PROVE  Inv' /\ Quiet
  <2>1. code \in Codes /\ code # "lease"
    BY <1>3 DEF Codes
  <2>2. QED
    BY <1>1, <1>2, <1>3, <2>1, Ending
<1>4. ASSUME NEW k2 \in Runs, Step(c, k2), k2.pc \in {"hooks", "push"}, k2.kind = k.kind, k2.at = k.at, k2.here = k.here,
             k2.refs = k.refs, k2.touched = k.touched, k2.moved = k.moved, k2.validated = k.validated
      PROVE  Inv' /\ Quiet
  <2>1. cmd'[c] = k2 /\ (Knows(c)' => Inv') /\ Quiet
    BY <1>1, <1>4, OneSteps
  <2>2. Shape(c)'
    BY <1>1, <1>2, <1>4, <2>1 DEF Knows, Shape
  <2>3. Here(c)' /\ There(c)'
    BY <1>1, <1>2, <1>4, <2>1 DEF Knows, Shape, Here, There, Looked, Reads, Listing
  <2>4. Shown(c)' /\ Given(c)'
    BY <1>1, <1>2, <1>4, <2>1 DEF Knows, Shown, Given, NotMoved
  <2>5. QED
    BY <2>1, <2>2, <2>3, <2>4 DEF Knows
<1>5. ASSUME k.hooks > 0, Step(c, [k EXCEPT !.hooks = @ - 1])
      PROVE  Inv' /\ Quiet
  <2> DEFINE k2 == [k EXCEPT !.hooks = @ - 1]
  <2>1. k.hooks \in Nat
    BY <1>2 DEF Runs
  <2>2. k.hooks - 1 \in Nat
    BY <1>5, <2>1
  <2>3. /\ k2 \in Runs /\ k2.pc = "hooks" /\ k2.kind = k.kind /\ k2.at = k.at /\ k2.here = k.here
        /\ k2.refs = k.refs /\ k2.touched = k.touched /\ k2.moved = k.moved /\ k2.validated = k.validated
    BY <1>1, <1>2, <2>2 DEF Runs
  <2>4. Step(c, k2)
    BY <1>5
  <2> HIDE DEF k2
  <2>5. QED
    BY <1>4, <2>3, <2>4
<1>6. ASSUME Step(c, [k EXCEPT !.pc = "push"])
      PROVE  Inv' /\ Quiet
  <2> DEFINE k2 == [k EXCEPT !.pc = "push"]
  <2>1. /\ k2 \in Runs /\ k2.pc = "push" /\ k2.kind = k.kind /\ k2.at = k.at /\ k2.here = k.here
        /\ k2.refs = k.refs /\ k2.touched = k.touched /\ k2.moved = k.moved /\ k2.validated = k.validated
    BY <1>1, <1>2 DEF Runs, Places
  <2>2. Step(c, k2)
    BY <1>6
  <2> HIDE DEF k2
  <2>3. QED
    BY <1>4, <2>1, <2>2
<1>7. QED
  BY <1>1, <1>3, <1>5, <1>6

(* A step of backup that only reads: what it must keep of what it knows.     *)
LEMMA BackupReads ==
  ASSUME Inv, NEW c \in Cmds, NEW k2 \in Runs, Step(c, k2), Reads, cmd[c].kind \notin Pushes, cmd[c].pc # "sent",
         k2.kind = cmd[c].kind, k2.pc \in {"commit", "list", "fetch", "merge", "push"},
         k2.branch \in Branches,
         ~k2.moved /\ k2.pc \in {"list", "fetch", "push"} => k2.commit = local[head],
         k2.pc = "push" /\ ~k2.moved /\ Slot(k2.branch) \notin k2.touched => k2.slot = remote[Slot(k2.branch)],
         k2.pc = "push" /\ k2.kind = "backup" => k2.slot \subseteq k2.commit
  PROVE  Inv' /\ Quiet
<1>1. cmd'[c] = k2 /\ (Knows(c)' => Inv') /\ Quiet
  BY OneSteps
<1>2. Shape(c)'
  BY <1>1 DEF Shape
<1>3. Here(c)' /\ There(c)'
  BY <1>1 DEF Here, There, Looked, Reads, Mine
<1>4. Shown(c)' /\ Given(c)'
  BY <1>1 DEF Shown, Given
<1>5. QED
  BY <1>1, <1>2, <1>3, <1>4 DEF Knows

LEMMA NamesRead ==
  ASSUME Inv, NEW c \in Cmds, NameBranch(c) \/ NameCommit(c)
  PROVE  Inv' /\ Quiet
<1> DEFINE k == cmd[c]
<1>1. /\ k.pc \in {"name", "commit"} /\ Reads
      /\ \/ Step(c, [k EXCEPT !.pc = "commit", !.branch = head, !.moved = FALSE])
         \/ k.pc = "commit" /\ Step(c, [k EXCEPT !.pc = "list", !.commit = local[head]])
  BY DEF NameBranch, NameCommit
<1>2. k \in Runs /\ k.kind \notin Pushes /\ head \in Branches /\ local[head] \in SUBSET Changes
      /\ (k.pc = "commit" => k.branch \in Branches)
  BY <1>1 DEF Inv, TypeOK, Knows, Shape
<1>3. ASSUME Step(c, [k EXCEPT !.pc = "commit", !.branch = head, !.moved = FALSE])
      PROVE  Inv' /\ Quiet
  <2> DEFINE k2 == [k EXCEPT !.pc = "commit", !.branch = head, !.moved = FALSE]
  <2>1. k2 \in Runs /\ k2.kind = k.kind /\ k2.pc = "commit" /\ k2.branch = head
    BY <1>2 DEF Runs, Places
  <2>2. Step(c, k2)
    BY <1>3
  <2> HIDE DEF k2
  <2>3. QED
    BY <1>1, <1>2, <2>1, <2>2, BackupReads
<1>4. ASSUME k.pc = "commit", Step(c, [k EXCEPT !.pc = "list", !.commit = local[head]])
      PROVE  Inv' /\ Quiet
  <2> DEFINE k2 == [k EXCEPT !.pc = "list", !.commit = local[head]]
  <2>1. k2 \in Runs /\ k2.kind = k.kind /\ k2.pc = "list" /\ k2.branch = k.branch /\ k2.commit = local[head]
    BY <1>2 DEF Runs, Places
  <2>2. Step(c, k2)
    BY <1>4
  <2> HIDE DEF k2
  <2>3. QED
    BY <1>1, <1>2, <1>4, <2>1, <2>2, BackupReads
<1>5. QED
  BY <1>1, <1>3, <1>4

LEMMA ListsSlot ==
  ASSUME Inv, NEW c \in Cmds, ListSlot(c)
  PROVE  Inv' /\ Quiet
<1> DEFINE k0 == cmd[c]
           k == [k0 EXCEPT !.slot = remote[Mine(c)], !.touched = {}]
<1>1. /\ k0.pc = "list" /\ Reads
      /\ \/ Step(c, [k EXCEPT !.pc = "fetch"])
         \/ Step(c, Ends(c, k, "no_slot"))
         \/ k.slot = Absent /\ Step(c, [k EXCEPT !.pc = "push"])
  BY DEF ListSlot
<1>2. k0 \in Runs /\ Knows(c) /\ k0.kind \notin Pushes /\ k0.branch \in Branches
      /\ remote \in [RemoteRefs -> SUBSET Changes]
  BY <1>1 DEF Inv, TypeOK, Knows, Shape
<1>3. Mine(c) \in RemoteRefs /\ Mine(c) = Slot(k0.branch) /\ remote[Mine(c)] \in SUBSET Changes
  BY <1>2 DEF Mine, RemoteRefs
<1>4. /\ k \in Runs /\ k.kind = k0.kind /\ k.at = k0.at /\ k.branch = k0.branch /\ k.slot = remote[Mine(c)]
      /\ k.commit = k0.commit /\ k.moved = k0.moved
  BY <1>2, <1>3 DEF Runs
<1>5. ~k.moved => k.commit = local[head]
  BY <1>1, <1>2, <1>4 DEF Knows, Here
<1> HIDE DEF k
<1>6. ASSUME Step(c, Ends(c, k, "no_slot"))
      PROVE  Inv' /\ Quiet
  <2>1. "no_slot" \in Codes /\ "no_slot" # "lease"
    BY DEF Codes
  <2>2. QED
    BY <1>1, <1>4, <1>6, <2>1, Ending
<1>7. ASSUME NEW pc \in {"fetch", "push"}, pc = "push" => k.slot = Absent, Step(c, [k EXCEPT !.pc = pc])
      PROVE  Inv' /\ Quiet
  <2> DEFINE k2 == [k EXCEPT !.pc = pc]
  <2>1. /\ k2 \in Runs /\ k2.kind = k.kind /\ k2.pc = pc /\ k2.branch = k.branch /\ k2.slot = k.slot
        /\ k2.commit = k.commit /\ k2.moved = k.moved
    <3>1. pc \in Places
      BY DEF Places
    <3>2. QED
      BY <1>4, <3>1 DEF Runs
  <2>2. Step(c, k2)
    BY <1>7
  <2> HIDE DEF k2
  <2>3. k2.pc = "push" => k2.slot \subseteq k2.commit
    BY <1>7, <2>1 DEF Absent
  <2>4. QED
    BY <1>1, <1>2, <1>3, <1>4, <1>5, <2>1, <2>2, <2>3, BackupReads
<1>8. QED
  BY <1>1, <1>6, <1>7

LEMMA ResolvesSlot ==
  ASSUME Inv, NEW c \in Cmds, ResolveSlot(c)
  PROVE  Inv' /\ Quiet
<1> DEFINE k0 == cmd[c]
           k == [k0 EXCEPT !.slot = fetchHead]
<1>1. /\ k0.pc = "resolve" /\ Reads
      /\ \/ Step(c, [k EXCEPT !.pc = "merge"])
         \/ Step(c, Ends(c, k, "diverged"))
         \/ (k.kind = "backup" => Forward(k.slot, k.commit)) /\ Step(c, [k EXCEPT !.pc = "push"])
  BY DEF ResolveSlot
<1>2. k0 \in Runs /\ Knows(c) /\ k0.kind \notin Pushes /\ k0.branch \in Branches /\ fetchHead \in SUBSET Changes
  BY <1>1 DEF Inv, TypeOK, Knows, Shape
<1>3. /\ k \in Runs /\ k.kind = k0.kind /\ k.at = k0.at /\ k.branch = k0.branch /\ k.slot = fetchHead
      /\ k.commit = k0.commit /\ k.moved = k0.moved /\ k.touched = k0.touched
  BY <1>2 DEF Runs
<1>4. ~k.moved => k.commit = local[head]
  BY <1>1, <1>2, <1>3 DEF Knows, Here
<1>5. ~k.moved /\ Slot(k.branch) \notin k.touched => k.slot = remote[Slot(k.branch)]
  BY <1>1, <1>2, <1>3 DEF Knows, There, Mine
<1> HIDE DEF k
<1>6. ASSUME Step(c, Ends(c, k, "diverged"))
      PROVE  Inv' /\ Quiet
  <2>1. "diverged" \in Codes /\ "diverged" # "lease"
    BY DEF Codes
  <2>2. QED
    BY <1>1, <1>3, <1>6, <2>1, Ending
<1>7. ASSUME NEW pc \in {"merge", "push"}, pc = "push" /\ k.kind = "backup" => Forward(k.slot, k.commit),
             Step(c, [k EXCEPT !.pc = pc])
      PROVE  Inv' /\ Quiet
  <2> DEFINE k2 == [k EXCEPT !.pc = pc]
  <2>1. /\ k2 \in Runs /\ k2.kind = k.kind /\ k2.pc = pc /\ k2.branch = k.branch /\ k2.slot = k.slot
        /\ k2.commit = k.commit /\ k2.moved = k.moved /\ k2.touched = k.touched
    <3>1. pc \in Places
      BY DEF Places
    <3>2. QED
      BY <1>3, <3>1 DEF Runs
  <2>2. Step(c, k2)
    BY <1>7
  <2> HIDE DEF k2
  <2>3. k2.pc = "push" /\ k2.kind = "backup" => k2.slot \subseteq k2.commit
    BY <1>7, <2>1 DEF Forward
  <2>4. QED
    BY <1>1, <1>2, <1>3, <1>4, <1>5, <2>1, <2>2, <2>3, BackupReads
<1>8. QED
  BY <1>1, <1>6, <1>7

(* Two steps of backup change what the others may go by.                     *)
LEMMA OthersNotice ==
  ASSUME Inv, TypeOK', NEW d \in Cmds, cmd'[d] = Noticed(cmd[d]), UNCHANGED remote
  PROVE  Knows(d)' /\ ~Received(d) /\ (cmd[d].pc # "end" => cmd'[d].pc # "end")
<1>1. TypeOK /\ Knows(d) /\ cmd[d] \in Runs
  BY DEF Inv, TypeOK
<1>2. /\ Kept(d) /\ (cmd'[d].moved \/ cmd[d].pc \in {"sent", "end"})
      /\ cmd[d].pc \in {"sent", "end"} => cmd'[d].moved = cmd[d].moved
  BY <1>1, NoticedIs
<1>3. Knows(d)'
  BY <1>1, <1>2, Undisturbed
<1>4. QED
  BY <1>2, <1>3 DEF Kept, Received

LEMMA FetchesSlot ==
  ASSUME Inv, NEW c \in Cmds, FetchSlot(c)
  PROVE  Inv' /\ Quiet
<1> DEFINE k == cmd[c]
           k2 == [k EXCEPT !.pc = "resolve", !.touched = {}]
<1>1. /\ k.pc = "fetch" /\ fetchHead' = remote[Mine(c)]
      /\ cmd' = [d \in Cmds |-> IF d = c THEN k2 ELSE Noticed(cmd[d])]
      /\ UNCHANGED <<local, head, remote, moves, arrivals>>
  BY DEF FetchSlot
<1>2. k \in Runs /\ Knows(c) /\ k.kind \notin Pushes /\ k.branch \in Branches
      /\ remote \in [RemoteRefs -> SUBSET Changes]
  BY <1>1 DEF Inv, TypeOK, Knows, Shape
<1>3. Mine(c) \in RemoteRefs /\ remote[Mine(c)] \in SUBSET Changes
  BY <1>2 DEF Mine, RemoteRefs
<1>4. /\ k2 \in Runs /\ k2.kind = k.kind /\ k2.pc = "resolve" /\ k2.branch = k.branch
      /\ k2.commit = k.commit /\ k2.moved = k.moved
  BY <1>2 DEF Runs, Places
<1> HIDE DEF k2
<1>5. cmd'[c] = k2 /\ \A d \in Cmds : d # c => cmd'[d] = Noticed(cmd[d])
  BY <1>1
<1>6. TypeOK'
  <2>1. \A d \in Cmds : cmd'[d] \in Runs
    BY <1>4, <1>5, NoticedIs DEF Inv, TypeOK
  <2>2. cmd' \in [Cmds -> Runs]
    BY <1>1, <2>1
  <2>3. QED
    BY <1>1, <1>3, <2>2 DEF Inv, TypeOK
<1>7. \A d \in Cmds : d # c => Knows(d)' /\ ~Received(d) /\ (cmd[d].pc # "end" => cmd'[d].pc # "end")
  BY <1>1, <1>5, <1>6, OthersNotice
<1>8. Shape(c)' /\ Shown(c)' /\ Given(c)'
  BY <1>2, <1>4, <1>5 DEF Shape, Shown, Given
<1>9. Here(c)' /\ There(c)'
  BY <1>1, <1>2, <1>4, <1>5 DEF Knows, Here, There, Looked, Mine
<1>10. Knows(c)'
  BY <1>8, <1>9 DEF Knows
<1>11. Inv'
  BY <1>6, <1>7, <1>10 DEF Inv
<1>12. Quiet
  BY <1>1, <1>4, <1>5, <1>7 DEF Quiet, Received
<1>13. QED
  BY <1>11, <1>12

LEMMA MergesSlot ==
  ASSUME Inv, NEW c \in Cmds, MergeSlot(c)
  PROVE  Inv' /\ Quiet
<1> DEFINE k == cmd[c]
<1>1. PICK code \in {"ok", "diverged"} :
         /\ k.pc = "merge"
         /\ cmd' = [d \in Cmds |-> IF d # c THEN Noticed(cmd[d]) ELSE Ends(c, k, code)]
         /\ local' = IF Forward(local[head], fetchHead) THEN [local EXCEPT ![head] = fetchHead] ELSE local
         /\ UNCHANGED <<head, fetchHead, remote, moves, arrivals>>
  BY DEF MergeSlot
<1>2. /\ k \in Runs /\ Knows(c) /\ local \in [Branches \cup Tags -> SUBSET Changes] /\ head \in Branches
      /\ fetchHead \in SUBSET Changes
  BY DEF Inv, TypeOK
<1>3. code \in Codes /\ code # "lease"
  BY DEF Codes
<1> DEFINE k2 == Ends(c, k, code)
<1>4. k2 \in Runs /\ k2.pc = "end" /\ k2.exit = code /\ k2.kind = k.kind /\ k2.at = k.at
  BY <1>2, <1>3, EndsIs
<1> HIDE DEF k2
<1>5. cmd'[c] = k2 /\ \A d \in Cmds : d # c => cmd'[d] = Noticed(cmd[d])
  BY <1>1 DEF k2
<1>6. TypeOK'
  <2>1. \A d \in Cmds : cmd'[d] \in Runs
    BY <1>4, <1>5, NoticedIs DEF Inv, TypeOK
  <2>2. cmd' \in [Cmds -> Runs]
    BY <1>1, <2>1
  <2>3. local' \in [Branches \cup Tags -> SUBSET Changes]
    BY <1>1, <1>2
  <2>4. QED
    BY <1>1, <2>2, <2>3 DEF Inv, TypeOK
<1>7. \A d \in Cmds : d # c => Knows(d)' /\ ~Received(d) /\ (cmd[d].pc # "end" => cmd'[d].pc # "end")
  BY <1>1, <1>5, <1>6, OthersNotice
<1>8. Knows(c)'
  BY <1>2, <1>4, <1>5, Ended
<1>9. Inv'
  BY <1>6, <1>7, <1>8 DEF Inv
<1>10. Quiet
  BY <1>1, <1>3, <1>4, <1>5, <1>7 DEF Quiet, Received
<1>11. QED
  BY <1>9, <1>10

---------------------------------------------------------------------------
(* One attempt.                                                              *)
LEMMA NamesAre ==
  ASSUME Inv, NEW c \in Cmds, cmd[c].pc \in {"push", "sent"}
  PROVE  /\ Names(c) \subseteq RemoteRefs
         /\ \A r \in Names(c) : Source(c, r) \in SUBSET Changes /\ remote[r] \in SUBSET Changes
<1>1. /\ cmd[c] \in Runs /\ head \in Branches /\ local \in [Branches \cup Tags -> SUBSET Changes]
      /\ remote \in [RemoteRefs -> SUBSET Changes]
      /\ cmd[c].kind \notin Pushes => cmd[c].branch \in Branches
  BY DEF Inv, TypeOK, Knows, Shape
<1>2. CASE cmd[c].kind \in Pushes
  <2>1. Names(c) \subseteq Branches \cup Tags /\ Names(c) \subseteq RemoteRefs
    BY <1>1, <1>2, RunOfType DEF Names
  <2>2. QED
    BY <1>1, <1>2, <2>1 DEF Source
<1>3. CASE cmd[c].kind \notin Pushes
  <2>1. Names(c) \subseteq RemoteRefs
    BY <1>1, <1>3 DEF Names, Mine, RemoteRefs
  <2>2. QED
    BY <1>1, <1>3, <2>1 DEF Source
<1>4. QED
  BY <1>2, <1>3

(* After a transport error a run is over, or as good as new.                 *)
LEMMA AgainKnows ==
  ASSUME Inv, NEW c \in Cmds, NEW k \in Runs, cmd[c].pc \in {"push", "sent"}, k.kind = cmd[c].kind, k.at = cmd[c].at,
         k.here = cmd[c].here, cmd'[c] = Again(c, k)
  PROVE  Knows(c)' /\ cmd'[c] \in Runs /\ cmd'[c].pc \in {"end", "look"}
         /\ (cmd'[c].pc = "end" => cmd'[c].exit # "lease")
<1>1. /\ cmd'[c] \in Runs /\ cmd'[c].kind = k.kind /\ cmd'[c].at = k.at
      /\ \/ cmd'[c].pc = "end" /\ cmd'[c].exit = "failed"
         \/ /\ k.kind \in Pushes /\ cmd'[c].pc = "look" /\ DOMAIN cmd'[c].refs = {}
            /\ cmd'[c].here = k.here
  BY AgainIs
<1>2. Knows(c) /\ TypeOK
  BY DEF Inv
<1>3. CASE cmd'[c].pc = "end" /\ cmd'[c].exit = "failed"
  BY <1>1, <1>2, <1>3, Ended
<1>4. CASE /\ k.kind \in Pushes /\ cmd'[c].pc = "look" /\ DOMAIN cmd'[c].refs = {}
           /\ cmd'[c].here = k.here
  <2>1. k.at = 1 /\ k.here
    BY <1>2, <1>4 DEF Knows, Shape
  <2>2. ~Looked(c)'
    BY <1>1, <1>4, <2>1 DEF Looked
  <2>3. Shape(c)'
    BY <1>1, <1>2, <1>4, <2>1 DEF Knows, Shape
  <2>4. Here(c)' /\ There(c)' /\ Shown(c)' /\ Given(c)'
    BY <1>1, <1>4, <2>2 DEF Here, There, Shown, Given
  <2>5. QED
    BY <1>1, <1>4, <2>3, <2>4 DEF Knows
<1>5. QED
  BY <1>1, <1>3, <1>4

LEMMA StaleMeans ==
  ASSUME Inv, NEW c \in Cmds, cmd[c].pc = "push", NEW r \in Names(c), Stale(c, r)
  PROVE  Alarm(c)
<1>1. Knows(c) /\ cmd[c] \in Runs /\ remote[r] # LastRead(c, r)
  BY DEF Inv, TypeOK, Stale, LeaseExpectation
<1>2. CASE cmd[c].kind \in Pushes
  <2>1. r \in DOMAIN cmd[c].refs /\ remote[r] # cmd[c].refs[r].remote /\ cmd[c].here
    BY <1>1, <1>2 DEF Names, LastRead, Knows, Shape
  <2>2. r \in cmd[c].touched
    BY <1>1, <1>2, <2>1 DEF Knows, There, Looked
  <2>3. QED
    BY <2>2 DEF Alarm
<1>3. CASE cmd[c].kind \notin Pushes
  <2>1. r = Mine(c) /\ remote[r] # cmd[c].slot
    BY <1>1, <1>3 DEF Names, LastRead
  <2>2. cmd[c].moved \/ r \in cmd[c].touched
    BY <1>1, <1>3, <2>1 DEF Knows, There
  <2>3. QED
    BY <1>3, <2>2 DEF Alarm
<1>4. QED
  BY <1>2, <1>3

LEMMA Sends ==
  ASSUME Inv, NEW c \in Cmds, Send(c)
  PROVE  /\ Inv' /\ \A d \in Cmds : ~Received(d)
         /\ \A d \in Cmds : cmd[d].pc # "end" /\ cmd'[d].pc = "end" /\ cmd'[d].exit = "lease" => d = c /\ Alarm(c)
<1> DEFINE k0  == cmd[c]
           k   == [k0 EXCEPT !.attempt = @ + 1]
           bad == {r \in Names(c) : Stale(c, r) \/ Refused(c, r)}
           go  == IF PushIsAtomic(c) /\ bad # {} THEN {} ELSE {r \in Names(c) \ bad : ~UpToDate(c, r)}
           code == IF \E r \in bad : Stale(c, r) THEN "lease" ELSE IF bad # {} THEN "failed" ELSE "ok"
           new == [r \in Names(c) |-> Source(c, r)]
           old == [r \in Names(c) |-> remote[r]]
           k2  == [k EXCEPT !.pc = "sent", !.sent = go, !.exit = code, !.new = new, !.old = old]
<1>1. /\ k0.pc = "push" /\ Reads
      /\ \/ Step(c, Again(c, k))
         \/ Step(c, Ends(c, k, code))
         \/ go # {} /\ Step(c, k2)
  BY DEF Send
<1>2. k0 \in Runs /\ Knows(c)
  BY DEF Inv, TypeOK
<1>3. /\ Names(c) \subseteq RemoteRefs
      /\ \A r \in Names(c) : Source(c, r) \in SUBSET Changes /\ remote[r] \in SUBSET Changes
  BY <1>1, NamesAre
<1>4. /\ k \in Runs /\ k.kind = k0.kind /\ k.at = k0.at /\ k.here = k0.here /\ k.pc = "push" /\ k.refs = k0.refs
      /\ k.validated = k0.validated /\ k.branch = k0.branch /\ k.commit = k0.commit /\ k.slot = k0.slot
      /\ k.moved = k0.moved /\ k.touched = k0.touched
  <2>1. k0.attempt \in Nat
    BY <1>2 DEF Runs
  <2>2. k0.attempt + 1 \in Nat
    BY <2>1
  <2>3. QED
    BY <1>1, <1>2, <2>2 DEF Runs
<1>5. code \in Codes /\ (code = "lease" => Alarm(c))
  <2>1. code = "lease" => \E r \in bad : Stale(c, r)
    OBVIOUS
  <2>2. QED
    BY <1>1, <2>1, StaleMeans DEF Codes
<1> HIDE DEF k
<1>6. \A x : Step(c, x) => /\ \A d \in Cmds : d # c => cmd'[d] = cmd[d]
                           /\ cmd'[c] = x
  BY DEF Step, Inv, TypeOK
<1>7. ASSUME Step(c, Again(c, k))
      PROVE  Inv' /\ cmd'[c].pc \in {"end", "look"} /\ (cmd'[c].pc = "end" => cmd'[c].exit # "lease")
  <2>1. cmd'[c] = Again(c, k)
    BY <1>6, <1>7
  <2>2. Knows(c)' /\ cmd'[c] \in Runs /\ cmd'[c].pc \in {"end", "look"} /\ (cmd'[c].pc = "end" => cmd'[c].exit # "lease")
    BY <1>1, <1>4, <2>1, AgainKnows
  <2>3. QED
    BY <1>1, <1>7, <2>1, <2>2, OneSteps
<1>8. ASSUME Step(c, Ends(c, k, code))
      PROVE  Inv' /\ cmd'[c].pc = "end" /\ cmd'[c].exit = code
  <2> HIDE DEF code
  <2>1. QED
    BY <1>1, <1>4, <1>5, <1>8, Ending
<1>9. ASSUME go # {}, Step(c, k2)
      PROVE  Inv' /\ cmd'[c].pc = "sent"
  <2>1. /\ go \subseteq Names(c) /\ DOMAIN new = Names(c) /\ DOMAIN old = Names(c)
        /\ \A r \in go : /\ ~Stale(c, r) /\ ~Refused(c, r) /\ ~UpToDate(c, r)
                         /\ new[r] = Source(c, r) /\ old[r] = remote[r]
    OBVIOUS
  <2>2. new \in Values /\ old \in Values
    <3>1. new \in [Names(c) -> SUBSET Changes] /\ old \in [Names(c) -> SUBSET Changes]
      BY <1>3
    <3> HIDE DEF new, old
    <3>2. QED
      BY <1>3, <3>1, SomeIs DEF Values
  <2>3. go \in SUBSET RemoteRefs
    BY <1>3, <2>1
  <2> HIDE DEF go, new, old, code, bad
  <2>4. /\ k2 \in Runs /\ k2.kind = k0.kind /\ k2.at = k0.at /\ k2.here = k0.here /\ k2.pc = "sent"
        /\ k2.refs = k0.refs /\ k2.validated = k0.validated /\ k2.branch = k0.branch /\ k2.commit = k0.commit
        /\ k2.slot = k0.slot /\ k2.moved = k0.moved /\ k2.sent = go /\ k2.new = new /\ k2.old = old
        /\ k2.exit = code /\ k2.touched = k0.touched
    <3>1. "sent" \in Places
      BY DEF Places
    <3>2. k2 \in Runs
      BY <1>4, <1>5, <2>2, <2>3, <3>1 DEF Runs
    <3>3. QED
      BY <1>4, <3>2 DEF Runs
  <2>5. Step(c, k2)
    BY <1>9
  <2> HIDE DEF k2
  <2>6. cmd'[c] = k2 /\ (Knows(c)' => Inv')
    BY <1>1, <2>4, <2>5, OneSteps
  <2>7. Shape(c)'
    BY <1>1, <1>2, <2>4, <2>6 DEF Knows, Shape
  <2>8. Here(c)' /\ There(c)'
    BY <2>4, <2>6 DEF Here, There, Looked
  <2>9. Shown(c)'
    BY <1>1, <1>2, <2>4, <2>6 DEF Knows, Shown, NotMoved
  <2>10. /\ Names(c)' = Names(c) /\ (Forced(c)' <=> Forced(c)) /\ (Alarm(c)' <=> Alarm(c))
         /\ \A r : LastRead(c, r)' = LastRead(c, r)
    BY <2>4, <2>6 DEF Names, Forced, Alarm, LastRead, Mine
  <2>11. ASSUME NEW r \in go
         PROVE  /\ Forced(c) => old[r] = LastRead(c, r)
                /\ ~Forced(c) => old[r] \subseteq new[r]
                /\ ~k0.moved => new[r] = IF k0.kind \in Pushes THEN k0.refs[r].local ELSE k0.commit
    <3>1. r \in Names(c) /\ new[r] = Source(c, r) /\ old[r] = remote[r]
      BY <2>1
    <3>2. Forced(c) => old[r] = LastRead(c, r)
      BY <2>1, <3>1 DEF Stale, LeaseExpectation
    <3>3. ~Forced(c) => old[r] \subseteq new[r]
      BY <2>1, <3>1 DEF Refused, Absent, Forward
    <3>4. ~k0.moved => new[r] = IF k0.kind \in Pushes THEN k0.refs[r].local ELSE k0.commit
      BY <1>1, <1>2, <3>1 DEF Knows, Here, Looked, Names, Source
    <3>5. QED
      BY <3>2, <3>3, <3>4
  <2>12. Given(c)'
    BY <1>5, <2>1, <2>4, <2>6, <2>10, <2>11 DEF Given
  <2>13. QED
    BY <2>4, <2>6, <2>7, <2>8, <2>9, <2>12 DEF Knows
<1>10. QED
  <2>1. /\ Inv'
        /\ cmd'[c].pc = "end" => (cmd'[c].exit = "lease" => Alarm(c))
        /\ \A d \in Cmds : d # c => cmd'[d] = cmd[d]
    <3> HIDE DEF go, new, old, code, bad, k2
    <3>1. QED
      BY <1>1, <1>5, <1>6, <1>7, <1>8, <1>9
  <2>2. QED
    BY <1>1, <2>1 DEF Received

(* The references of a push that the remote moves: all it was sent, or those *)
(* whose value is still the one git saw.                                     *)
Swaps(c) ==
    LET held == {r \in cmd[c].sent : remote[r] = cmd[c].old[r]}
    IN  IF PushIsAtomic(c) /\ held # cmd[c].sent THEN {} ELSE held

LEMMA Receives ==
  ASSUME Inv, NEW c \in Cmds, Receive(c)
  PROVE  /\ Inv' /\ \A d \in Cmds : Received(d) => d = c
         /\ \A r \in RemoteRefs : remote'[r] = IF r \in Swaps(c) THEN cmd[c].new[r] ELSE remote[r]
         /\ \A d \in Cmds : cmd[d].pc # "end" /\ cmd'[d].pc = "end" /\ cmd'[d].exit = "lease" => d = c /\ Alarm(c)
<1> DEFINE k == cmd[c]
           k1 == [k EXCEPT !.exit = "none"]
           code == IF Swaps(c) # k.sent THEN "failed" ELSE k.exit
<1>1. /\ k.pc = "sent" /\ UNCHANGED <<local, head, fetchHead, moves, arrivals>>
      /\ remote' = [r \in RemoteRefs |-> IF r \in Swaps(c) THEN k.new[r] ELSE remote[r]]
      /\ \E k2 \in {Ends(c, k, code), Again(c, k1)} : cmd' = [Touched(Swaps(c)) EXCEPT ![c] = k2]
  BY DEF Receive, Swaps
<1>2. k \in Runs /\ Knows(c) /\ remote \in [RemoteRefs -> SUBSET Changes] /\ cmd \in [Cmds -> Runs] /\ TypeOK
  BY DEF Inv, TypeOK
<1>3. Swaps(c) \subseteq k.sent /\ k.sent \in SUBSET RemoteRefs
  BY <1>2 DEF Swaps, Runs
<1>4. code \in Codes /\ (code = "lease" => Alarm(c))
  BY <1>1, <1>2 DEF Knows, Given, Runs, Codes
<1>5. k1 \in Runs /\ k1.kind = k.kind /\ k1.at = k.at /\ k1.here = k.here
  BY <1>2 DEF Runs, Codes
<1>6. /\ cmd'[c] \in {Ends(c, k, code), Again(c, k1)}
      /\ \A d \in Cmds : d # c => cmd'[d] = IF cmd[d].pc = "end" THEN cmd[d]
                                            ELSE [cmd[d] EXCEPT !.touched = @ \cup Swaps(c)]
      /\ cmd' = [d \in Cmds |-> cmd'[d]]
  <2> HIDE DEF k1, code
  <2>1. QED
    BY <1>1 DEF Touched
<1> HIDE DEF k1, code
<1>7. /\ cmd'[c] \in Runs /\ Knows(c)' /\ cmd'[c].pc \in {"end", "look"}
      /\ cmd'[c].pc = "end" /\ cmd'[c].exit = "lease" => Alarm(c)
  <2>1. CASE cmd'[c] = Ends(c, k, code)
    <3>1. cmd'[c] \in Runs /\ cmd'[c].pc = "end" /\ cmd'[c].exit = code /\ cmd'[c].kind = k.kind /\ cmd'[c].at = k.at
      BY <1>2, <1>4, <2>1, EndsIs
    <3>2. QED
      BY <1>2, <1>4, <3>1, Ended
  <2>2. CASE cmd'[c] = Again(c, k1)
    BY <1>1, <1>5, <2>2, AgainKnows
  <2>3. QED
    BY <1>6, <2>1, <2>2
<1>8. ASSUME NEW d \in Cmds, d # c
      PROVE  /\ cmd'[d] \in Runs /\ Kept(d) /\ cmd'[d].moved = cmd[d].moved
             /\ (cmd[d].pc = "end" \/ cmd'[d].touched = cmd[d].touched \cup Swaps(c))
  <2>1. Swaps(c) \in SUBSET RemoteRefs
    BY <1>3
  <2>2. QED
    BY <1>2, <1>6, <1>8, <2>1, TouchedIs
<1>9. \A r \in RemoteRefs : remote'[r] = IF r \in Swaps(c) THEN k.new[r] ELSE remote[r]
  BY <1>1
<1>10. TypeOK'
  <2>1. \A d \in Cmds : cmd'[d] \in Runs
    BY <1>7, <1>8
  <2>2. cmd' \in [Cmds -> Runs]
    BY <1>6, <2>1
  <2>3. \A r \in k.sent : k.new[r] \in SUBSET Changes
    <3>1. k.sent \subseteq DOMAIN k.new
      BY <1>1, <1>2 DEF Knows, Given
    <3>2. k.new \in [DOMAIN k.new -> SUBSET Changes]
      BY <1>2, RunOfType
    <3>3. QED
      BY <3>1, <3>2
  <2>4. remote' \in [RemoteRefs -> SUBSET Changes]
    BY <1>1, <1>2, <1>3, <2>3
  <2>5. QED
    BY <1>1, <1>2, <2>2, <2>4 DEF TypeOK
<1>11. ASSUME NEW d \in Cmds, d # c
       PROVE  Knows(d)'
  <2>1. Knows(d) /\ UNCHANGED <<local, head, fetchHead>>
    BY <1>1 DEF Inv
  <2>2. \A r \in RemoteRefs : remote'[r] = remote[r] \/ r \in cmd'[d].touched \/ cmd[d].pc = "end"
    BY <1>8, <1>9, <1>11
  <2>3. QED
    BY <1>2, <1>8, <1>10, <1>11, <2>1, <2>2, Undisturbed
<1>12. QED
  <2>1. Inv'
    BY <1>7, <1>10, <1>11 DEF Inv
  <2>2. \A d \in Cmds : d # c => cmd'[d].pc = cmd[d].pc
    BY <1>8 DEF Kept
  <2>3. QED
    BY <1>7, <1>9, <2>1, <2>2 DEF Received

---------------------------------------------------------------------------
LEMMA InvInit == Init => Inv
<1> SUFFICES ASSUME Init
             PROVE  Inv
  OBVIOUS
<1>1. PICK kinds \in [Cmds -> UNION {KindsOf[c] : c \in Cmds}] :
         (\A c \in Cmds : kinds[c] \in KindsOf[c]) /\ cmd = [c \in Cmds |-> Fresh(kinds[c])]
  BY DEF Init
<1>2. \A c \in Cmds : kinds[c] \in Kinds /\ cmd[c] = Fresh(kinds[c])
  BY <1>1, PushConstants
<1>3. ASSUME NEW kind \in Kinds
      PROVE  LET k == Fresh(kind)
             IN  /\ k \in Runs /\ k.kind = kind /\ k.pc = (IF kind \in Pushes THEN "look" ELSE "name")
                 /\ k.at = 1 /\ k.here = TRUE /\ DOMAIN k.refs = {}
  <2>1. HookCount \in Nat
    BY PushConstants
  <2>2. QED
    BY <2>1, NothingRead DEF Fresh, Runs, Places, Codes, Absent
<1>4. TypeOK
  <2>1. cmd \in [Cmds -> Runs]
    BY <1>1, <1>2, <1>3
  <2>2. Base \in SUBSET Changes /\ Absent \in SUBSET Changes
    BY DEF Base, Changes, Absent
  <2>3. head \in Branches /\ fetchHead \in SUBSET Changes
    BY <2>2 DEF Init, Branches
  <2>4. local \in [Branches \cup Tags -> SUBSET Changes] /\ remote \in [RemoteRefs -> SUBSET Changes]
    BY <2>2 DEF Init
  <2>5. QED
    BY <2>1, <2>3, <2>4 DEF TypeOK, Init
<1>5. ASSUME NEW c \in Cmds
      PROVE  Knows(c)
  <2>1. /\ cmd[c].kind \in Kinds /\ cmd[c].pc = (IF cmd[c].kind \in Pushes THEN "look" ELSE "name")
        /\ cmd[c].at = 1 /\ cmd[c].here = TRUE /\ DOMAIN cmd[c].refs = {}
    <3>1. PICK kind \in Kinds : cmd[c] = Fresh(kind)
      BY <1>2
    <3>2. QED
      BY <1>3, <3>1, ZenonT(30)

  <2>2. 1 \in 1..Len(Groups(cmd[c].kind))
    BY DEF Groups
  <2>3. Shape(c)
    BY <2>1, <2>2 DEF Shape
  <2>4. Here(c) /\ There(c) /\ Shown(c) /\ Given(c)
    BY <2>1 DEF Here, There, Looked, Shown, Given
  <2>5. QED
    BY <2>3, <2>4 DEF Knows
<1>6. QED
  BY <1>4, <1>5 DEF Inv

(* What no step may do, as the three properties have it.                     *)
Keeps ==
    \A c \in Cmds : Received(c) =>
        /\ \A r \in Names(c) : remote[r] \ remote'[r] \subseteq LastRead(c, r)
        /\ cmd[c].kind = "backup" /\ ~cmd[c].moved => remote[Mine(c)] \subseteq remote'[Mine(c)]
Publishes ==
    \A c \in Cmds : Received(c) /\ cmd[c].kind \in Pushes /\ ~cmd[c].moved =>
        \A r \in Names(c) : remote'[r] # remote[r] => remote'[r] = cmd[c].validated[r].local
Alarms ==
    \A c \in Cmds : cmd[c].pc # "end" /\ cmd'[c].exit = "lease" /\ cmd'[c].pc = "end" =>
        cmd[c].touched \cap Names(c) # {} \/ (cmd[c].kind \notin Pushes /\ cmd[c].moved)

LEMMA ReceivesWell ==
  ASSUME Inv, NEW c \in Cmds, Receive(c)
  PROVE  Keeps /\ Publishes
<1>1. cmd[c].pc = "sent" /\ Knows(c) /\ Names(c) \subseteq RemoteRefs
  BY NamesAre DEF Receive, Inv
<1>2. /\ \A d \in Cmds : Received(d) => d = c
      /\ \A r \in RemoteRefs : remote'[r] = IF r \in Swaps(c) THEN cmd[c].new[r] ELSE remote[r]
  BY Receives
<1>3. ASSUME NEW r \in Names(c), r \in Swaps(c)
      PROVE  /\ remote'[r] = cmd[c].new[r] /\ remote[r] = cmd[c].old[r]
             /\ Forced(c) => remote[r] = LastRead(c, r)
             /\ ~Forced(c) => remote[r] \subseteq remote'[r]
             /\ ~cmd[c].moved => remote'[r] = IF cmd[c].kind \in Pushes THEN cmd[c].refs[r].local ELSE cmd[c].commit
  <2>1. r \in cmd[c].sent /\ remote[r] = cmd[c].old[r]
    BY <1>3 DEF Swaps
  <2>2. remote'[r] = cmd[c].new[r]
    BY <1>1, <1>2, <1>3
  <2>3. QED
    BY <1>1, <2>1, <2>2 DEF Knows, Given
<1>4. Keeps
  <2>1. ASSUME NEW r \in Names(c)
        PROVE  remote[r] \ remote'[r] \subseteq LastRead(c, r)
    BY <1>1, <1>2, <1>3
  <2>2. ASSUME cmd[c].kind = "backup", ~cmd[c].moved
        PROVE  remote[Mine(c)] \subseteq remote'[Mine(c)]
    <3>1. cmd[c].kind \notin Pushes /\ Forced(c)
      BY <2>2 DEF Pushes, Forced
    <3>2. Mine(c) \in Names(c) /\ LastRead(c, Mine(c)) = cmd[c].slot /\ cmd[c].slot \subseteq cmd[c].commit
      BY <1>1, <2>2, <3>1 DEF Names, LastRead, Knows, Shown
    <3>3. QED
      BY <1>1, <1>2, <1>3, <2>2, <3>1, <3>2
  <2>3. QED
    BY <1>2, <2>1, <2>2 DEF Keeps
<1>5. Publishes
  <2>1. ASSUME cmd[c].kind \in Pushes, ~cmd[c].moved, NEW r \in Names(c), remote'[r] # remote[r]
        PROVE  remote'[r] = cmd[c].validated[r].local
    <3>1. r \in Swaps(c) /\ r \in DOMAIN cmd[c].refs
      BY <1>1, <1>2, <2>1 DEF Names
    <3>2. cmd[c].refs[r].local = cmd[c].validated[r].local
      BY <1>1, <2>1, <3>1 DEF Knows, Shown, NotMoved
    <3>3. QED
      BY <1>3, <2>1, <3>1, <3>2
  <2>2. QED
    BY <1>2, <2>1 DEF Publishes
<1>6. QED
  BY <1>4, <1>5

LEMMA NextStep == Inv /\ [Next]_vars => Inv' /\ (UNCHANGED vars \/ (Keeps /\ Publishes /\ Alarms))
<1> SUFFICES ASSUME Inv, [Next]_vars
             PROVE  Inv' /\ (UNCHANGED vars \/ (Keeps /\ Publishes /\ Alarms))
  OBVIOUS
<1>1. ASSUME Inv', Quiet
      PROVE  Inv' /\ Keeps /\ Publishes /\ Alarms
  BY <1>1 DEF Quiet, Keeps, Publishes, Alarms
<1>2. CASE Others
  <2>1. Inv'
    BY <1>2, OthersAct DEF Inv
  <2>2. Quiet
    BY <1>2, OthersAct DEF Quiet, Kept, Received
  <2>3. QED
    BY <1>1, <2>1, <2>2
<1>3. ASSUME NEW c \in Cmds, Run(c)
      PROVE  Inv' /\ Keeps /\ Publishes /\ Alarms
  <2>1. CASE \/ LookHere(c) \/ LookThere(c) \/ RunHook(c) \/ HooksPassed(c) \/ NameBranch(c) \/ NameCommit(c)
             \/ ListSlot(c) \/ FetchSlot(c) \/ ResolveSlot(c) \/ MergeSlot(c)
    BY <1>1, <2>1, LooksHere, LooksThere, HooksRun, NamesRead, ListsSlot, FetchesSlot, ResolvesSlot, MergesSlot
  <2>2. CASE Send(c)
    <3>1. /\ Inv' /\ \A d \in Cmds : ~Received(d)
          /\ \A d \in Cmds : cmd[d].pc # "end" /\ cmd'[d].pc = "end" /\ cmd'[d].exit = "lease" => d = c /\ Alarm(c)
      BY <2>2, Sends
    <3>2. QED
      BY <3>1 DEF Keeps, Publishes, Alarms, Alarm
  <2>3. CASE Receive(c)
    <3>1. /\ Inv'
          /\ \A d \in Cmds : cmd[d].pc # "end" /\ cmd'[d].pc = "end" /\ cmd'[d].exit = "lease" => d = c /\ Alarm(c)
      BY <2>3, Receives
    <3>2. QED
      BY <2>3, <3>1, ReceivesWell DEF Alarms, Alarm
  <2>4. QED
    BY <1>3, <2>1, <2>2, <2>3 DEF Run
<1>4. CASE UNCHANGED vars
  <2>1. UNCHANGED <<local, head, fetchHead, remote, cmd, moves, arrivals>>
    BY <1>4 DEF vars
  <2>2. TypeOK'
    BY <2>1 DEF Inv, TypeOK
  <2>3. ASSUME NEW d \in Cmds
        PROVE  Knows(d)'
    <3>1. TypeOK /\ Knows(d) /\ Kept(d)
      BY <2>1 DEF Inv, Kept
    <3>2. QED
      BY <2>1, <2>2, <3>1, Undisturbed
  <2>4. QED
    BY <1>4, <2>2, <2>3 DEF Inv
<1>5. QED
  BY <1>2, <1>3, <1>4 DEF Next

(* What a run has read, for every number of runs and moves, has its type.    *)
THEOREM TypeCorrect == Spec => []TypeOK
<1>1. Inv => TypeOK
  BY DEF Inv
<1>2. QED
  BY <1>1, InvInit, NextStep, PTL DEF Spec

(* Nothing leaves the remote that was not read there before the attempt, and *)
(* a backup not told to overwrite loses nothing of its slot                  *)
(* (leaseExpectation, runBackupCreate).                                      *)
THEOREM UnseenKept == Spec => KeepsTheUnseen
<1>1. Inv /\ [Next]_vars => [Keeps]_vars
  BY NextStep
<1>2. QED
  BY <1>1, InvInit, NextStep, PTL DEF Spec, KeepsTheUnseen, Keeps

(* What a push publishes is what its hooks were shown, at every attempt      *)
(* (localRefsMoved).                                                         *)
THEOREM SeenPublished == Spec => PublishedWasSeen
<1>1. Inv /\ [Next]_vars => [Publishes]_vars
  BY NextStep
<1>2. QED
  BY <1>1, InvInit, NextStep, PTL DEF Spec, PublishedWasSeen, Publishes

(* A lease is refused only when somebody has pushed since it was pinned, or, *)
(* for a backup, something has moved in the worktree (runPush).              *)
THEOREM AlarmsTrue == Spec => NoFalseAlarm
<1>1. Inv /\ [Next]_vars => [Alarms]_vars
  BY NextStep
<1>2. QED
  BY <1>1, InvInit, NextStep, PTL DEF Spec, NoFalseAlarm, Alarms
=============================================================================

-------------------------------- MODULE Intake --------------------------------
(* What `safegit commit` makes of the paths it is given: internal/commit's   *)
(* intake and boundaries, and the staging into the temporary index           *)
(* (intake.go, boundary.go, commit.go stageAll).                             *)
(*                                                                           *)
(* A path is the sequence of its names, the root the empty one.  A world `w` *)
(* is what one resolution reads:                                             *)
(*   base        the entries of the tree the commit is built on              *)
(*   disk        the entries of the working tree, directories among them     *)
(*   repos       the directories with a repository of their own              *)
(*   registered  the paths .gitmodules gives to submodules                   *)
(*   ignored     the paths the ignore rules cover, the rules alone           *)
(*   index       the paths of the shared index                               *)
(* An entry is <<"file", content>>, <<"link", target>>, <<"commit", id>> or  *)
(* <<"dir", "">>.  An argument is a path as given, with or without a slash   *)
(* at its end, and a selection of hunks or none.                             *)
EXTENDS Naturals, SequencesExt, FiniteSetsExt

Root    == <<>>
Outside == <<"..">>
AtHead  == <<"commit", "head">>

Parents(p)  == {SubSeq(p, 1, i) : i \in 1..(Len(p) - 1)}
Under(S, p) == {q \in S : IsStrictPrefix(p, q)}

Has(entries, p, kind) == p \in DOMAIN entries /\ entries[p][1] = kind
RealDirectory(w, p) == Has(w.disk, p, "dir")
OnDisk(w, p)        == p = Root \/ p \in DOMAIN w.disk

---------------------------------------------------------------------------
(* canonicalRel: a slash at its end reads an argument through the link that  *)
(* it names, if it leads somewhere; the way out of the repository is refused.*)
Canonical(w, a) ==
    IF a.slash /\ Has(w.disk, a.path, "link")
       /\ (w.disk[a.path][2] = Outside \/ OnDisk(w, w.disk[a.path][2]))
    THEN w.disk[a.path][2] ELSE a.path

---------------------------------------------------------------------------
(* Boundaries: what the base records, what .gitmodules registers, and what   *)
(* is a repository on disk.                                                  *)
Recorded(w, d) == Has(w.base, d, "commit") \/ d \in w.registered

(* Mutant: a nested repository that nothing records is a directory. *)
RecordedOnly(w, d) == Recorded(w, d)

At(w, d)    == Recorded(w, d) \/ (RealDirectory(w, d) /\ d \in w.repos)
Above(w, p) == \E d \in Parents(p) : At(w, d)

UnrecordedRepositoryAt(w, p) == At(w, p) /\ ~Recorded(w, p)

(* refuseInsideOtherRepositories *)
BelongsHere(w, p) == ~Above(w, p) /\ ~UnrecordedRepositoryAt(w, p)

---------------------------------------------------------------------------
(* check-ignore takes a path for tracked when the index has it or anything   *)
(* below it.                                                                 *)
IsIgnored(w, p) == p \in w.ignored /\ ~\E q \in w.index : IsPrefix(p, q)

(* An object of the base's tree answers for a path, a directory's too; the   *)
(* commit of a submodule is no object of this repository.                    *)
IsTracked(w, p) == (p \in DOMAIN w.base /\ ~Has(w.base, p, "commit")) \/ Under(DOMAIN w.base, p) # {}

(* refuseIgnoredNamedPath: in the index and in the base, or never ignored.   *)
MayBeNamed(w, p) == p \in w.ignored => ~IsIgnored(w, p) /\ p \in DOMAIN w.base

ValidNamedPath(w, p, hunks) ==
    /\ ~(hunks /\ Has(w.disk, p, "link"))
    /\ IF OnDisk(w, p) THEN MayBeNamed(w, p) ELSE IsTracked(w, p)

NotGitlinks(w, p) == {q \in Under(DOMAIN w.base, p) : ~Has(w.base, q, "commit")}

UntrackTargets(w, p) == IF p \in DOMAIN w.base THEN {p} ELSE NotGitlinks(w, p)

NamesADirectory(w, p, hunks) ==
    /\ ~hunks
    /\ \/ p = Root
       \/ /\ p \notin DOMAIN w.base
          /\ IF RealDirectory(w, p) THEN ~At(w, p) ELSE Under(DOMAIN w.base, p) # {}

(* walkForCommit: ignored paths and the directories of other repositories    *)
(* are not entered, links are not followed.                                  *)
Walked(w, prefix) ==
    {p \in Under(DOMAIN w.disk, prefix) :
        /\ ~RealDirectory(w, p) /\ ~IsIgnored(w, p)
        /\ \A d \in Under(Parents(p), prefix) : ~IsIgnored(w, d) /\ ~At(w, d)}

Self(w, prefix) == {prefix} \cap {p \in DOMAIN w.disk : ~RealDirectory(w, p)}

ExpandDirectory(w, prefix) == NotGitlinks(w, prefix) \cup Walked(w, prefix) \cup Self(w, prefix)

(* nonPortableLinkTarget *)
NonPortable(entry) == entry = <<"link", Outside>>

---------------------------------------------------------------------------
(* resolveFiles.  `args` are the paths to commit and `untrack` the paths to  *)
(* stop tracking; the entries to stage are the untracked, the selections of  *)
(* hunks and the rest.                                                       *)
Argument(w, p, hunks) ==
    IF NamesADirectory(w, p, hunks)
    THEN [path |-> p, hunks |-> hunks, isDir |-> TRUE, self |-> Self(w, p) # {},
          members |-> ExpandDirectory(w, p), links |-> Walked(w, p) \cup Self(w, p)]
    ELSE [path |-> p, hunks |-> hunks, isDir |-> FALSE, self |-> FALSE, members |-> {p}, links |-> {p}]

Admissible(w, a, before) ==
    /\ \A b \in before : b.path = a.path => ~b.hunks /\ ~a.hunks
    /\ a.isDir => a.members # {}
    /\ (a.isDir => a.self) => ValidNamedPath(w, a.path, a.hunks)

(* What a list names, names hunk by hunk, comes to, and meets on the way.    *)
Given(args)   == {a.path : a \in ToSet(args)}
InHunks(args) == {a.path : a \in {b \in ToSet(args) : b.hunks}}
Members(args) == UNION {a.members : a \in ToSet(args)}
Met(args)     == UNION {a.links : a \in ToSet(args)}

Acceptable(w, args, untrack, dropped, allow) ==
    /\ Outside \notin untrack \cup Given(args)
    /\ \A p \in untrack \cup Given(args) : BelongsHere(w, p)
    /\ \A p \in untrack : UntrackTargets(w, p) # {}
    /\ Given(args) \cap (untrack \cup dropped) = {}
    /\ \A i \in DOMAIN args : Admissible(w, args[i], {args[j] : j \in 1..(i - 1)})
    /\ allow \/ \A p \in Met(args) \cap DOMAIN w.disk : ~NonPortable(w.disk[p])

ResolvedTo(w, args, untrack, dropped, allow) ==
    [ok |-> Acceptable(w, args, untrack, dropped, allow), untrack |-> dropped, hunks |-> InHunks(args),
     whole |-> Members(args) \ (InHunks(args) \cup dropped),
     sources |-> {<<p, p \notin DOMAIN w.base>> : p \in untrack} \cup {<<a.path, a.isDir>> : a \in ToSet(args)}]

Resolved(w, args, untrack, allow) ==
    LET gone == {Canonical(w, a) : a \in untrack}
    IN  ResolvedTo(w, [i \in DOMAIN args |-> Argument(w, Canonical(w, args[i]), args[i].hunks)],
                   gone, UNION {UntrackTargets(w, p) : p \in gone}, allow)

---------------------------------------------------------------------------
(* Staging, by the git commands stageAll gives each entry to.                *)
Drop(idx, S)  == [p \in DOMAIN idx \ S |-> idx[p]]

(* What git add records of a path, and of several: an entry has none above   *)
(* it and none below it.                                                     *)
Entry(w, p) == IF p \in w.repos THEN AtHead ELSE w.disk[p]

Put(w, idx, new) ==
    LET kept == {q \in DOMAIN idx : \A p \in new : ~IsStrictPrefix(p, q) /\ ~IsStrictPrefix(q, p)}
    IN  [q \in new \cup kept |-> IF q \in new THEN Entry(w, q) ELSE idx[q]]

(* git add of a directory: every file below it that git does not ignore, and *)
(* a gitlink for every repository; one the index has paths below is taken    *)
(* for a directory.                                                          *)
Below(w, idx, d) ==
    {p \in Under(DOMAIN w.disk, d) :
        /\ \A q \in Under(Parents(p), d) : q \notin w.repos
        /\ p \in w.repos \/ ~RealDirectory(w, p)
        /\ p \in w.ignored => p \in DOMAIN idx}

AddDirectory(w, idx, d) ==
    IF d \in w.repos /\ Under(DOMAIN idx, d) = {} THEN Put(w, idx, {d})
    ELSE IF Has(idx, d, "commit") THEN idx
    ELSE Put(w, Drop(idx, {d} \cup Under(DOMAIN idx, d)), Below(w, idx, d))

AddFile(w, idx, p) == IF RealDirectory(w, p) THEN AddDirectory(w, idx, p) ELSE Put(w, idx, {p})

(* git apply of selected hunks: a part of the change, all of a deletion.     *)
StageHunks(w, idx, p) ==
    IF Has(w.disk, p, "file") THEN [idx EXCEPT ![p] = <<"part", w.disk[p][2]>>] ELSE Drop(idx, {p})

HasHunks(w, p) == Has(w.base, p, "file") /\ (p \in DOMAIN w.disk => w.disk[p] # w.base[p])

StageWhole(w, p, idx) == IF p \in DOMAIN w.disk THEN AddFile(w, idx, p) ELSE Drop(idx, {p})

StageAll(w, r) ==
    FoldSet(LAMBDA p, idx : StageWhole(w, p, idx),
            FoldSet(LAMBDA p, idx : StageHunks(w, idx, p), Drop(w.base, r.untrack), r.hunks), r.whole)

(* git add refuses an ignored path that is not in the index it adds to.      *)
Stageable(w, r) ==
    /\ \A p \in r.hunks : HasHunks(w, p)
    /\ \A p \in r.whole \cap DOMAIN w.disk : p \in w.ignored => p \in DOMAIN w.base

Changed(w, tree) ==
    {p \in DOMAIN w.base \cup DOMAIN tree :
        p \notin DOMAIN w.base \cap DOMAIN tree \/ w.base[p] # tree[p]}

(* unmatchedSources: every argument has to have changed something.           *)
Contributed(src, changed) == src[1] \in changed \/ (src[2] /\ Under(changed, src[1]) # {})

(* The commit's tree, or the base's when the commit is refused.              *)
Committed(w, r, tree) ==
    LET ok == r.ok /\ Stageable(w, r) /\ \A src \in r.sources : Contributed(src, Changed(w, tree))
    IN  [ok |-> ok, tree |-> IF ok THEN tree ELSE w.base, untracked |-> r.untrack]

CommitResolved(w, r) == Committed(w, r, StageAll(w, r))

Commit(w, args, untrack, allow) == CommitResolved(w, Resolved(w, args, untrack, allow))
=============================================================================

------------------------------- MODULE Impact -------------------------------
(***************************************************************************)
(* Impact selection: which tests a verification runs, what it learns from  *)
(* them, and what a later verification may conclude without running them   *)
(* (Verifier::verify_internal, impacted_tests, impacted_tests_since_git    *)
(* and ingest_events of crates/walaru-daemon/src/verifier.rs, with the     *)
(* tables dependencies, verification_cache and revision_manifests of       *)
(* crates/walaru-core/src/store.rs).                                       *)
(*                                                                         *)
(* The gate (module Verification) serialises verifications, so one         *)
(* verification is one step here; the worktree may move to another         *)
(* revision inside that step.  A file's content stands for its digest, a   *)
(* worktree is a function from files to contents, and a revision is what   *)
(* RevisionSnapshot::capture sees of it.                                   *)
(***************************************************************************)
EXTENDS Naturals, Sequences

CONSTANTS
    Tests,              \* the tests of the workspace
    Files,              \* every file a test's outcome may depend on
    Included,           \* those included_file() puts into a revision
    Sources,            \* those implementation_source() accepts
    Contents,           \* for each file, what it may contain
    Absent,             \* the content of a file that is not there
    Surface(_, _),      \* source_surface_digest of a file with that content
    InitialTree,        \* the worktree in the beginning
    Commits,            \* worktrees that `--since` may name by a Git reference
    Executes(_, _),     \* the source files whose lines a test executes on a worktree
    Passes(_, _),       \* whether a test passes on a worktree
    Silent,             \* the tests that may pass without leaving events
    MaxRetained         \* bound: rows of the cache and the manifests kept by prune

Trees == {R \in [Files -> UNION {Contents[f] : f \in Files}] :
              \A f \in Files : R[f] \in Contents[f]}

\* What the tool relies on, and no more: a test's run is determined by the
\* sources it executes, the surfaces of all sources, and every other file.
AgreeFor(t, R, S) ==
    \A f \in Files :
        \/ R[f] = S[f]
        \/ /\ f \in Sources
           /\ f \notin Executes(t, R)
           /\ R[f] # Absent /\ S[f] # Absent
           /\ Surface(f, R[f]) = Surface(f, S[f])

ASSUME ImpactAssumption ==
    /\ Included \subseteq Files
    /\ Sources \subseteq Included
    /\ InitialTree \in Trees
    /\ Commits \subseteq Trees
    /\ Silent \subseteq Tests
    /\ MaxRetained \in Nat
    /\ \A t \in Tests, R \in Trees :
        /\ Executes(t, R) \in SUBSET Sources
        /\ Passes(t, R) \in BOOLEAN
        /\ \A S \in Trees : AgreeFor(t, R, S) =>
                Executes(t, S) = Executes(t, R) /\ Passes(t, S) = Passes(t, R)

VARIABLES
    tree,       \* the worktree
    deps,       \* table `dependencies`: the sources each test executed when last run
    retained,   \* rows of verification_cache and revision_manifests, oldest first
    claim,      \* the worktree the latest answer calls passed, and on what ground
    lapses      \* history: what happened so far that selection does not reckon with

vars == <<tree, deps, retained, claim, lapses>>

-----------------------------------------------------------------------------
\* RevisionSnapshot::capture
Snapshot(R) == [f \in Included |-> R[f]]
Revisions == {Snapshot(R) : R \in Trees}

\* `kind` is "cache" for a verification_cache row (with the run it belongs to),
\* "manifest" for a revision_manifests row.
Row(kind, revision) == [kind |-> kind, revision |-> revision]
Rows == [kind : {"cache", "manifest"}, revision : Revisions]

Has(kind, revision) == \E i \in DOMAIN retained : retained[i] = Row(kind, revision)

\* latest_cached_revision: the baselines are the revision of the newest cache
\* row, or none.
LatestCached ==
    {retained[i].revision : i \in {j \in DOMAIN retained :
        /\ retained[j].kind = "cache"
        /\ \A k \in DOMAIN retained : retained[k].kind = "cache" => k <= j}}

\* A claim says that every test of the workspace passes on the worktree.
NoClaim == [by |-> "none", tree |-> InitialTree]
Claims == [by : {"cached", "all", "impact", "none"}, tree : Trees]

\* "forgot": a run learned less of a test than was known, while there were baselines;
\* "silent": a run without a selection was saved although a test left no events;
\* "unseen": a file changed that is no part of the revision.
LapseNames == {"forgot", "silent", "unseen"}
Lapse(name, happened) == IF happened THEN {name} ELSE {}

TypeOK ==
    /\ tree \in Trees
    /\ deps \in [Tests -> SUBSET Sources]
    /\ retained \in Seq(Rows)
    /\ claim \in Claims
    /\ lapses \in SUBSET LapseNames

Init ==
    /\ tree = InitialTree
    /\ deps = [t \in Tests |-> {}]
    /\ retained = <<>>
    /\ claim = NoClaim
    /\ lapses = {}

-----------------------------------------------------------------------------
(* impacted_tests and impacted_tests_since_git.                            *)

Changed(base, current) == {f \in DOMAIN base : base[f] # current[f]}

\* Mutant of Widens: a changed surface does not widen the selection.
WidensNotOnSurface(f, base, current) ==
    \/ f \notin Sources
    \/ base[f] = Absent \/ current[f] = Absent

\* A change that only running everything can answer for.
Widens(f, base, current) ==
    \/ f \notin Sources
    \/ base[f] = Absent \/ current[f] = Absent
    \/ Surface(f, base[f]) # Surface(f, current[f])

\* select_impact: Exact when it is not empty, ModuleAll otherwise.
Exact(f) == {t \in Tests : f \in deps[t]}

\* Some(selected) as the set of selected tests; None, which runs every test, as {}.
Impacted(base, current) ==
    IF \E f \in Changed(base, current) : Widens(f, base, current) \/ Exact(f) = {}
    THEN {}
    ELSE UNION {Exact(f) : f \in Changed(base, current)}

-----------------------------------------------------------------------------
(* One verification.                                                       *)

\* The worktree after at most one file was edited.
Edited(R) == {S \in Trees : \E f \in Files : S = [R EXCEPT ![f] = S[f]]}

\* Mutant of Ingest: the rows of tests that did not run are dropped.
IngestOnly(ran, at) == deps' = [t \in ran |-> Executes(t, at)]

\* ingest_events: replace_dependencies for the tests that left events.
Ingest(ran, at) ==
    deps' = [t \in Tests |-> IF t \in ran THEN Executes(t, at) ELSE deps[t]]

\* INSERT OR REPLACE of the cache row, then of the manifest.  (A replaced row
\* may stay: it is older than its equal, and so goes first.)
Saved(revision) == retained \o <<Row("cache", revision), Row("manifest", revision)>>

\* prune removes the oldest rows; a cache row goes with its run.
Pruned(rows) ==
    {SubSeq(rows, n + 1, Len(rows)) : n \in {k \in 0..Len(rows) : Len(rows) - k <= MaxRetained}}

\* Mutant of Fresh: the second capture is not compared.
FreshAssumed(after) == TRUE

\* before.revision == after.revision
Fresh(after) == Snapshot(after) = Snapshot(tree)

Forgets(ran, at) == retained # <<>> /\ \E t \in ran : ~(deps[t] \subseteq Executes(t, at))
Escapes(after) == \E f \in Files \ Included : after[f] # tree[f]

\* The tests `selected` are run while the worktree goes from `tree` to `after`;
\* the worker reads the sources at `at`, and `ran` are the tests that left
\* events.  With `cacheable`, a success is saved.  `ground` is what a success
\* claims; "all" is a run without a selection, of which no more is asked than
\* that some test passed, while every test of a selection has to have run.
RunTo(selected, cacheable, ground, after, at, ran) ==
    /\ tree' = after
    /\ Ingest(ran, at)
    /\ \E status \in {"passed", "other"} :
        LET saved == cacheable /\ status = "passed" IN
        /\ \/ /\ status = "passed"
              /\ Fresh(after)
              /\ IF ground = "all" THEN ran # {} /\ selected \ ran \subseteq Silent
                 ELSE ran = selected
              /\ \A t \in selected : Passes(t, at)
              /\ claim' = IF ground = "none" THEN NoClaim ELSE [by |-> ground, tree |-> at]
           \/ \* Failed, stale, or an error.
              /\ status = "other"
              /\ claim' = NoClaim
        /\ retained' \in Pruned(IF saved THEN Saved(Snapshot(tree)) ELSE retained)
        /\ lapses' = lapses \cup Lapse("forgot", Forgets(ran, at))
                            \cup Lapse("silent", saved /\ ran # selected)
                            \cup Lapse("unseen", Escapes(after))

Run(selected, cacheable, ground) ==
    \E after \in Edited(tree) : \E at \in {tree, after}, ran \in SUBSET selected :
        RunTo(selected, cacheable, ground, after, at, ran)

\* A cached success is reported without running anything.
CacheHit ==
    /\ Has("cache", Snapshot(tree))
    /\ claim' = [by |-> "cached", tree |-> tree]
    /\ UNCHANGED <<tree, deps, retained, lapses>>

\* What a default verification selects: impacted since the latest cached
\* success whose manifest is still there.
DefaultSelection ==
    UNION {Impacted(base, Snapshot(tree)) : base \in {b \in LatestCached : Has("manifest", b)}}

\* verify
VerifyDefault ==
    /\ ~Has("cache", Snapshot(tree))
    /\ IF DefaultSelection = {}
       THEN Run(Tests, TRUE, "all")
       ELSE Run(DefaultSelection, TRUE, "impact")

\* verify --since rev-...: not cacheable.
VerifySinceRevision(base) ==
    LET selected == IF Has("manifest", base) THEN Impacted(base, Snapshot(tree)) ELSE {}
    IN  IF selected = {} THEN Run(Tests, FALSE, "all") ELSE Run(selected, FALSE, "impact")

\* verify --since <Git reference>: the diff is Git's, over every file.  The
\* commit need not have been verified, so the selection claims nothing.
VerifySinceGit(commit) ==
    LET selected == Impacted(commit, tree)
    IN  IF selected = {} THEN Run(Tests, FALSE, "all") ELSE Run(selected, FALSE, "none")

\* verify --full
VerifyFull == Run(Tests, FALSE, "all")

\* Mutant of VerifySelected: an explicit selection is cached too.
VerifySelectedCached(selected) == Run(selected, TRUE, "none")

\* verify with explicit tests, record, and the re-run of a replay: says
\* nothing about the tests left out.
VerifySelected(selected) == Run(selected, FALSE, "none")

Edit ==
    /\ tree' \in Edited(tree) \ {tree}
    /\ claim' = NoClaim
    /\ lapses' = lapses \cup Lapse("unseen", Escapes(tree'))
    /\ UNCHANGED <<deps, retained>>

Next ==
    \/ CacheHit
    \/ VerifyDefault
    \/ \E i \in DOMAIN retained : VerifySinceRevision(retained[i].revision)
    \/ \E commit \in Commits : VerifySinceGit(commit)
    \/ VerifyFull
    \/ \E selected \in SUBSET Tests \ {{}} : VerifySelected(selected)
    \/ Edit

Spec == Init /\ [][Next]_vars

-----------------------------------------------------------------------------
(* Properties.                                                             *)

AllPass(R) == \A t \in Tests : Passes(t, R)

\* "Unknown dependencies and API, resource, or build changes conservatively
\* widen test selection": an answer that says passed, from the cache, from all
\* tests or from the impacted ones, is only given on a worktree where every test
\* passes, whatever was edited, run, cached and pruned before: a false one can
\* only follow one of the three lapses (impacted_tests, verify_internal).
ClaimsAreSound == lapses = {} => (claim.by # "none" => AllPass(claim.tree))

\* A revision is in the result cache only if its tests pass: the next
\* verification of the worktree would report the cached success
\* (save_verification_cache).  As documented it is without any exception ...
CacheIsTrue == Has("cache", Snapshot(tree)) => AllPass(tree)

\* ... and as it is, it holds until one of the three lapses.
CacheIsSound == lapses = {} => CacheIsTrue

\* The worktree of a revision, when files outside revisions are as now.
WorktreeOf(revision) == [f \in Files |-> IF f \in Included THEN revision[f] ELSE tree[f]]

\* Without a lapse, what is known of a test covers all it executes on every
\* revision that a selection may start from: no test that never ran or ran less
\* is taken for unaffected (latest_cached_revision, replace_dependencies).
BaselineIsLearned ==
    lapses = {} => \A i \in DOMAIN retained, t \in Tests :
        Executes(t, WorktreeOf(retained[i].revision)) \subseteq deps[t]
=============================================================================

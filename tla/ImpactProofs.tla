---------------------------- MODULE ImpactProofs ----------------------------
(***************************************************************************)
(* Impact selection for every workspace and every behaviour: an answer, a  *)
(* cached success or a baseline can only be wrong after one of the lapses  *)
(* that Impact records.  Run impact_fail_fast shows that forgetting alone  *)
(* is enough.                                                              *)
(***************************************************************************)
EXTENDS Impact, SequenceTheorems, TLAPS

\* The worktree of a revision, when the files outside it are as in the beginning.
Restored(revision) ==
    [f \in Files |-> IF f \in Included THEN revision[f] ELSE InitialTree[f]]

\* Without a lapse: files outside the revision never changed, and the tests pass on every
\* retained revision and execute nothing there that is not known of them.
Outside == \A f \in Files \ Included : tree[f] = InitialTree[f]
RowsAreSound ==
    \A i \in DOMAIN retained :
        /\ AllPass(Restored(retained[i].revision))
        /\ \A t \in Tests : Executes(t, Restored(retained[i].revision)) \subseteq deps[t]
ClaimIsTrue == claim.by # "none" => AllPass(claim.tree)

IInv == TypeOK /\ (lapses = {} => Outside /\ RowsAreSound /\ ClaimIsTrue)

\* Tests that are not selected need not run: they pass, and nothing new is to be learned.
Spared(selected) ==
    \A t \in Tests \ selected : Passes(t, tree) /\ Executes(t, tree) \subseteq deps[t]

-----------------------------------------------------------------------------
\* A revision is of the worktree that it restores.
LEMMA RestoredTrees ==
    ASSUME NEW revision \in Revisions
    PROVE  /\ Restored(revision) \in Trees /\ DOMAIN revision = Included
           /\ \A f \in Included : Restored(revision)[f] = revision[f]
<1>1. PICK R \in Trees : revision = Snapshot(R)
  BY DEF Revisions
<1>2. InitialTree \in Trees /\ Included \subseteq Files
  BY ImpactAssumption
<1>3. \A f \in Files : Restored(revision)[f] = R[f] \/ Restored(revision)[f] = InitialTree[f]
  BY <1>1, <1>2 DEF Restored, Snapshot
<1>4. Restored(revision) \in Trees
  BY <1>2, <1>3 DEF Trees, Restored
<1>5. QED
  BY <1>1, <1>2, <1>4 DEF Restored, Snapshot

\* The worktree is the one its revision restores, while the files outside are as they were.
LEMMA TreeIsRestored ==
    ASSUME tree \in Trees, Outside
    PROVE  /\ Snapshot(tree) \in Revisions /\ Restored(Snapshot(tree)) = tree
           /\ \A revision \in Revisions : WorktreeOf(revision) = Restored(revision)
<1>1. Included \subseteq Files /\ DOMAIN tree = Files /\ tree = [f \in Files |-> tree[f]]
  BY ImpactAssumption DEF Trees
<1>2. \A f \in Files : Restored(Snapshot(tree))[f] = tree[f]
  BY <1>1 DEF Outside, Restored, Snapshot
<1>3. Restored(Snapshot(tree)) = tree
  BY <1>1, <1>2 DEF Restored
<1>4. QED
  BY <1>1, <1>3 DEF Revisions, WorktreeOf, Restored, Outside

\* A test outside the selection behaves as it did on the baseline.
LEMMA SelectionIsSound ==
    ASSUME tree \in Trees, Outside,
           NEW base \in Revisions,
           AllPass(Restored(base)),
           \A t \in Tests : Executes(t, Restored(base)) \subseteq deps[t],
           Impacted(base, Snapshot(tree)) # {}
    PROVE  Spared(Impacted(base, Snapshot(tree)))
<1> DEFINE current == Snapshot(tree)
           was == Restored(base)
<1> SUFFICES ASSUME NEW t \in Tests, t \notin Impacted(base, current)
             PROVE  Passes(t, tree) /\ Executes(t, tree) \subseteq deps[t]
  BY DEF Spared
<1>1. /\ was \in Trees /\ DOMAIN base = Included /\ Included \subseteq Files
      /\ \A f \in Included : was[f] = base[f] /\ current[f] = tree[f]
      /\ \A f \in Files \ Included : was[f] = tree[f]
  BY RestoredTrees, ImpactAssumption DEF Snapshot, Restored, Outside
<1>2. Impacted(base, current) = UNION {Exact(f) : f \in Changed(base, current)}
  BY DEF Impacted
<1>3. \A f \in Changed(base, current) : ~Widens(f, base, current)
  BY DEF Impacted
<1>4. \A f \in Changed(base, current) : f \notin deps[t]
  BY <1>2 DEF Exact
<1>5. ASSUME NEW f \in Files, was[f] # tree[f]
      PROVE  /\ f \in Sources /\ f \notin Executes(t, was)
             /\ was[f] # Absent /\ tree[f] # Absent
             /\ Surface(f, was[f]) = Surface(f, tree[f])
  <2>1. f \in Included /\ f \in Changed(base, current)
    BY <1>1, <1>5 DEF Changed
  <2>2. f \notin Executes(t, was)
    BY <1>4, <2>1
  <2>3. QED
    BY <1>1, <1>3, <2>1, <2>2 DEF Widens
<1>6. AgreeFor(t, was, tree)
  BY <1>5 DEF AgreeFor
<1>7. Passes(t, tree) = Passes(t, was) /\ Executes(t, tree) = Executes(t, was)
  BY <1>1, <1>6, ImpactAssumption
<1>8. QED
  BY <1>7 DEF AllPass

\* What prune keeps was there before.
LEMMA PrunedRows ==
    ASSUME NEW rows \in Seq(Rows), NEW kept \in Pruned(rows)
    PROVE  /\ kept \in Seq(Rows)
           /\ \A i \in DOMAIN kept : \E j \in DOMAIN rows : kept[i] = rows[j]
           /\ kept # <<>> => rows # <<>>
<1>1. PICK n \in 0..Len(rows) : kept = SubSeq(rows, n + 1, Len(rows))
  BY DEF Pruned
<1>2. QED
  BY <1>1

\* A run without edits outside the revision, on a fresh revision, ran on the worktree.
LEMMA FreshIsSame ==
    ASSUME tree \in Trees, NEW after \in Edited(tree), NEW at \in {tree, after},
           Fresh(after), ~Escapes(after)
    PROVE  at = tree
<1>1. after \in Trees /\ Included \subseteq Files
  BY ImpactAssumption DEF Edited
<1>2. \A f \in Files : after[f] = tree[f]
  <2>1. \A f \in Included : Snapshot(after)[f] = after[f] /\ Snapshot(tree)[f] = tree[f]
    BY DEF Snapshot
  <2>2. QED
    BY <1>1, <2>1 DEF Fresh, Escapes
<1>3. QED
  BY <1>1, <1>2 DEF Trees

\* A row of a table to which two rows are added is an old one or one of the two.
LEMMA TwoMore ==
    ASSUME NEW rows \in Seq(Rows), NEW first \in Rows, NEW second \in Rows
    PROVE  /\ rows \o <<first, second>> \in Seq(Rows)
           /\ \A j \in DOMAIN (rows \o <<first, second>>) :
                 \/ j \in DOMAIN rows /\ (rows \o <<first, second>>)[j] = rows[j]
                 \/ (rows \o <<first, second>>)[j] \in {first, second}
<1> DEFINE new == <<first, second>>
           all == rows \o new
<1>1. new \in Seq(Rows) /\ Len(new) = 2 /\ new[1] = first /\ new[2] = second
  OBVIOUS
<1>2. \A i \in 1..2 : new[i] \in {first, second}
  BY <1>1
<1> HIDE DEF new
<1>3. /\ all \in Seq(Rows) /\ Len(all) = Len(rows) + Len(new)
      /\ \A j \in 1..Len(rows) + Len(new) :
            all[j] = IF j <= Len(rows) THEN rows[j] ELSE new[j - Len(rows)]
  BY <1>1, ConcatProperties
<1> HIDE DEF all
<1>4. ASSUME NEW j \in DOMAIN all
      PROVE  (j \in DOMAIN rows /\ all[j] = rows[j]) \/ all[j] \in {first, second}
  <2>1. j \in 1..Len(rows) + 2
    BY <1>1, <1>3
  <2>2. CASE j <= Len(rows)
    BY <1>1, <1>3, <2>1, <2>2
  <2>3. CASE ~(j <= Len(rows))
    <3>1. j - Len(rows) \in 1..2
      BY <2>1, <2>3
    <3>2. QED
      BY <1>1, <1>2, <1>3, <2>1, <2>3, <3>1
  <2>4. QED
    BY <2>2, <2>3
<1>5. QED
  BY <1>3, <1>4 DEF all, new

\* One run of `selected` preserves the invariant if what it claims or saves spares only
\* tests that pass and are known.
LEMMA RunStep ==
    ASSUME IInv,
           NEW selected \in SUBSET Tests, NEW cacheable \in BOOLEAN,
           NEW ground \in {"all", "impact", "none"},
           Run(selected, cacheable, ground),
           lapses = {} /\ (cacheable \/ ground # "none") => Spared(selected)
    PROVE  IInv'
<1>0. /\ tree \in Trees /\ deps \in [Tests -> SUBSET Sources] /\ retained \in Seq(Rows)
      /\ lapses \in SUBSET LapseNames
      /\ NoClaim \in Claims /\ NoClaim.by = "none"
  BY ImpactAssumption DEF IInv, TypeOK, NoClaim, Claims
<1>a. PICK after \in Edited(tree) : \E at \in {tree, after}, ran \in SUBSET selected :
        RunTo(selected, cacheable, ground, after, at, ran)
  BY Zenon DEF Run
<1>b. PICK at \in {tree, after}, ran \in SUBSET selected :
        RunTo(selected, cacheable, ground, after, at, ran)
  BY <1>a
<1> DEFINE Succeeds ==
             /\ Fresh(after)
             /\ \A t \in selected : Passes(t, at)
             /\ claim' = IF ground = "none" THEN NoClaim ELSE [by |-> ground, tree |-> at]
<1>c. PICK status \in {"passed", "other"} :
        /\ \/ /\ status = "passed"
              /\ Fresh(after)
              /\ IF ground = "all" THEN ran # {} /\ selected \ ran \subseteq Silent
                 ELSE ran = selected
              /\ \A t \in selected : Passes(t, at)
              /\ claim' = IF ground = "none" THEN NoClaim ELSE [by |-> ground, tree |-> at]
           \/ status = "other" /\ claim' = NoClaim
        /\ retained' \in Pruned(IF cacheable /\ status = "passed" THEN Saved(Snapshot(tree))
                                 ELSE retained)
        /\ lapses' = lapses \cup Lapse("forgot", Forgets(ran, at))
                            \cup Lapse("silent", (cacheable /\ status = "passed") /\ ran # selected)
                            \cup Lapse("unseen", Escapes(after))
  BY <1>b, Zenon DEF RunTo
<1> DEFINE saved == cacheable /\ status = "passed"
<1>d. \/ status = "passed" /\ Succeeds
      \/ status = "other" /\ claim' = NoClaim
  BY <1>c
<1>1. tree' = after /\ Ingest(ran, at)
  BY <1>b DEF RunTo
<1>2. after \in Trees /\ at \in Trees
  BY <1>0, <1>1 DEF Edited
<1>3. \A t \in Tests : deps'[t] = IF t \in ran THEN Executes(t, at) ELSE deps[t]
  BY <1>1 DEF Ingest
<1> DEFINE new == <<Row("cache", Snapshot(tree)), Row("manifest", Snapshot(tree))>>
           rows == IF saved THEN retained \o new ELSE retained
<1>4. /\ rows \in Seq(Rows)
      /\ \A j \in DOMAIN rows : \/ j \in DOMAIN retained /\ rows[j] = retained[j]
                                \/ saved /\ rows[j].revision = Snapshot(tree)
  <2>1. Row("cache", Snapshot(tree)) \in Rows /\ Row("manifest", Snapshot(tree)) \in Rows
    BY <1>0 DEF Row, Rows, Revisions
  <2>2. Row("cache", Snapshot(tree)).revision = Snapshot(tree)
        /\ Row("manifest", Snapshot(tree)).revision = Snapshot(tree)
    BY DEF Row
  <2>3. CASE ~saved
    BY <1>0, <2>3 DEF rows
  <2>4. CASE saved
    <3> DEFINE first == Row("cache", Snapshot(tree))
               second == Row("manifest", Snapshot(tree))
               both == retained \o <<first, second>>
    <3> HIDE DEF first, second
    <3>1. first \in Rows /\ second \in Rows /\ first.revision = Snapshot(tree)
          /\ second.revision = Snapshot(tree)
      BY <2>1, <2>2 DEF first, second
    <3>2. /\ both \in Seq(Rows)
          /\ \A j \in DOMAIN both : \/ j \in DOMAIN retained /\ both[j] = retained[j]
                                    \/ both[j] \in {first, second}
      BY <1>0, <3>1, TwoMore
    <3>3. rows = both
      BY <2>4 DEF rows, new, first, second
    <3> HIDE DEF both, rows
    <3>4. QED
      BY <2>4, <3>1, <3>2, <3>3
  <2>5. QED
    BY <2>3, <2>4
<1>5. /\ retained' \in Seq(Rows)
      /\ \A i \in DOMAIN retained' : \E j \in DOMAIN rows : retained'[i] = rows[j]
  <2>1. retained' \in Pruned(rows)
    BY <1>c DEF Saved
  <2> HIDE DEF rows, new
  <2>2. rows \in Seq(Rows)
    BY <1>4
  <2>3. QED
    BY <2>1, <2>2, PrunedRows
<1> HIDE DEF rows, new
<1>6. TypeOK'
  <2>1. deps' \in [Tests -> SUBSET Sources]
    BY <1>0, <1>1, <1>2, ImpactAssumption DEF Ingest
  <2>2. claim' \in Claims
    BY <1>0, <1>2, <1>c DEF Claims
  <2>3. lapses' \in SUBSET LapseNames
    BY <1>0, <1>c DEF Lapse, LapseNames
  <2>4. QED
    BY <1>1, <1>2, <1>5, <2>1, <2>2, <2>3 DEF TypeOK
<1>7. ASSUME lapses' = {} PROVE Outside' /\ RowsAreSound' /\ ClaimIsTrue'
  <2>1. /\ lapses = {} /\ ~Forgets(ran, at) /\ ~(saved /\ ran # selected) /\ ~Escapes(after)
    BY <1>c, <1>7 DEF Lapse
  <2>2. Outside /\ RowsAreSound /\ ClaimIsTrue
    BY <2>1 DEF IInv
  <2>3. Outside'
    BY <1>1, <2>1, <2>2 DEF Outside, Escapes
  <2>4. retained # <<>> => \A t \in Tests : deps[t] \subseteq deps'[t]
    BY <1>3, <2>1 DEF Forgets
  <2>5. CASE status = "passed" /\ Succeeds
    <3>1. at = tree
      BY <1>0, <2>1, <2>5, FreshIsSame
    <3>2. cacheable \/ ground # "none" => AllPass(tree)
      BY <2>1, <2>5, <3>1 DEF Spared, AllPass
    <3>3. saved => \A t \in Tests : Executes(t, tree) \subseteq deps'[t]
      BY <1>3, <2>1, <2>5, <3>1 DEF Spared
    <3>4. Restored(Snapshot(tree)) = tree
      BY <1>0, <2>2, TreeIsRestored
    <3>5. ASSUME NEW j \in DOMAIN rows
          PROVE  /\ AllPass(Restored(rows[j].revision))
                 /\ \A t \in Tests : Executes(t, Restored(rows[j].revision)) \subseteq deps'[t]
      <4>1. CASE j \in DOMAIN retained /\ rows[j] = retained[j]
        BY <2>2, <2>4, <4>1 DEF RowsAreSound
      <4>2. CASE saved /\ rows[j].revision = Snapshot(tree)
        BY <2>5, <3>2, <3>3, <3>4, <4>2
      <4>3. QED
        BY <1>4, <4>1, <4>2
    <3>6. RowsAreSound'
      BY <1>5, <3>5 DEF RowsAreSound, AllPass, Restored
    <3>7. ClaimIsTrue'
      BY <1>0, <2>5, <3>1, <3>2 DEF ClaimIsTrue, AllPass
    <3>8. QED
      BY <2>3, <3>6, <3>7
  <2>6. CASE status = "other" /\ claim' = NoClaim
    <3>1. \A j \in DOMAIN rows : j \in DOMAIN retained /\ rows[j] = retained[j]
      BY <1>4, <2>6
    <3>2. RowsAreSound'
      BY <1>5, <2>2, <2>4, <3>1 DEF RowsAreSound, AllPass, Restored
    <3>3. ClaimIsTrue'
      BY <1>0, <2>6 DEF ClaimIsTrue
    <3>4. QED
      BY <2>3, <3>2, <3>3
  <2>7. QED
    BY <1>d, <2>5, <2>6
<1>8. QED
  BY <1>6, <1>7 DEF IInv

-----------------------------------------------------------------------------
\* What was impacted since a retained revision spares nothing that fails.
LEMMA SinceRetained ==
    ASSUME IInv, lapses = {},
           NEW i \in DOMAIN retained,
           Impacted(retained[i].revision, Snapshot(tree)) # {}
    PROVE  Spared(Impacted(retained[i].revision, Snapshot(tree)))
<1>1. tree \in Trees /\ Outside /\ RowsAreSound /\ retained[i] \in Rows
  BY DEF IInv, TypeOK
<1>2. retained[i].revision \in Revisions
  BY <1>1 DEF Rows
<1>3. QED
  BY <1>1, <1>2, SelectionIsSound DEF RowsAreSound

\* There is one latest cached revision at most.
LEMMA LatestIsOne ==
    ASSUME TypeOK, NEW a \in LatestCached, NEW b \in LatestCached
    PROVE  a = b
<1>1. retained \in Seq(Rows)
  BY DEF TypeOK
<1>2. PICK i \in DOMAIN retained :
        /\ a = retained[i].revision /\ retained[i].kind = "cache"
        /\ \A k \in DOMAIN retained : retained[k].kind = "cache" => k <= i
  BY DEF LatestCached
<1>3. PICK j \in DOMAIN retained :
        /\ b = retained[j].revision /\ retained[j].kind = "cache"
        /\ \A k \in DOMAIN retained : retained[k].kind = "cache" => k <= j
  BY DEF LatestCached
<1>4. QED
  BY <1>1, <1>2, <1>3

\* The default selection is empty or comes from one retained revision.
LEMMA DefaultSelectionIsSound ==
    ASSUME IInv, lapses = {}, DefaultSelection # {}
    PROVE  Spared(DefaultSelection)
<1>1. PICK base \in LatestCached : Impacted(base, Snapshot(tree)) # {} /\ Has("manifest", base)
  BY DEF DefaultSelection
<1>2. \A b \in LatestCached : b = base
  BY LatestIsOne DEF IInv
<1>3. DefaultSelection = Impacted(base, Snapshot(tree))
  BY <1>1, <1>2 DEF DefaultSelection
<1>4. PICK i \in DOMAIN retained : base = retained[i].revision
  BY DEF LatestCached
<1>5. QED
  BY <1>1, <1>3, <1>4, SinceRetained

\* A selection selects tests of the workspace, and running all of them spares none.
LEMMA ImpactedAreTests ==
    /\ \A base, current : Impacted(base, current) \in SUBSET Tests
    /\ Spared(Tests)
BY DEF Impacted, Exact, Spared

\* The invariant is inductive.
LEMMA ImpactStep ==
    ASSUME IInv, [Next]_vars
    PROVE  IInv'
<1>1. CASE CacheHit
  <2>1. tree \in Trees /\ retained \in Seq(Rows)
    BY DEF IInv, TypeOK
  <2>2. lapses = {} => AllPass(tree)
    <3>1. SUFFICES ASSUME lapses = {} PROVE AllPass(tree)
      OBVIOUS
    <3>2. PICK i \in DOMAIN retained : retained[i] = Row("cache", Snapshot(tree))
      BY <1>1 DEF CacheHit, Has
    <3>3. Restored(retained[i].revision) = tree
      BY <2>1, <3>1, <3>2, TreeIsRestored DEF IInv, Row
    <3>4. QED
      BY <3>1, <3>3 DEF IInv, RowsAreSound
  <2>3. TypeOK'
    BY <1>1 DEF CacheHit, IInv, TypeOK, Claims
  <2>4. lapses' = {} => Outside' /\ RowsAreSound' /\ ClaimIsTrue'
    BY <1>1, <2>2 DEF CacheHit, IInv, Outside, RowsAreSound, ClaimIsTrue, AllPass, Restored
  <2>5. QED
    BY <2>3, <2>4 DEF IInv
<1>2. CASE VerifyDefault
  <2>1. CASE DefaultSelection = {}
    <3>1. Run(Tests, TRUE, "all")
      BY <1>2, <2>1 DEF VerifyDefault
    <3>2. QED
      BY <3>1, ImpactedAreTests, RunStep
  <2>2. CASE DefaultSelection # {}
    <3>1. Run(DefaultSelection, TRUE, "impact")
      BY <1>2, <2>2 DEF VerifyDefault
    <3>2. DefaultSelection \in SUBSET Tests
      BY ImpactedAreTests DEF DefaultSelection
    <3>3. lapses = {} => Spared(DefaultSelection)
      BY <2>2, DefaultSelectionIsSound
    <3>4. QED
      BY <3>1, <3>2, <3>3, RunStep
  <2>3. QED
    BY <2>1, <2>2
<1>3. ASSUME NEW i \in DOMAIN retained, VerifySinceRevision(retained[i].revision)
      PROVE  IInv'
  <2> DEFINE base == retained[i].revision
             impacted == Impacted(base, Snapshot(tree))
  <2>1. CASE Run(Tests, FALSE, "all")
    BY <2>1, ImpactedAreTests, RunStep
  <2>2. CASE Has("manifest", base) /\ impacted # {} /\ Run(impacted, FALSE, "impact")
    <3>1. impacted \in SUBSET Tests
      BY ImpactedAreTests
    <3>2. lapses = {} => Spared(impacted)
      BY <2>2, SinceRetained
    <3> HIDE DEF impacted
    <3>3. QED
      BY <2>2, <3>1, <3>2, RunStep
  <2>3. QED
    BY <1>3, <2>1, <2>2 DEF VerifySinceRevision
<1>4. ASSUME NEW commit \in Commits, VerifySinceGit(commit)
      PROVE  IInv'
  <2> DEFINE impacted == Impacted(commit, tree)
  <2>1. CASE Run(Tests, FALSE, "all")
    BY <2>1, ImpactedAreTests, RunStep
  <2>2. CASE Run(impacted, FALSE, "none")
    <3>1. impacted \in SUBSET Tests
      BY ImpactedAreTests
    <3> HIDE DEF impacted
    <3>2. QED
      BY <2>2, <3>1, RunStep
  <2>3. QED
    BY <1>4, <2>1, <2>2 DEF VerifySinceGit
<1>5. CASE VerifyFull
  BY <1>5, ImpactedAreTests, RunStep DEF VerifyFull
<1>6. ASSUME NEW selected \in SUBSET Tests \ {{}}, VerifySelected(selected)
      PROVE  IInv'
  <2>1. Run(selected, FALSE, "none")
    BY <1>6 DEF VerifySelected
  <2>2. QED
    BY <2>1, RunStep
<1>7. CASE Edit
  <2>1. tree' \in Trees /\ claim' \in Claims /\ claim'.by = "none"
    BY <1>7, ImpactAssumption DEF Edit, Edited, NoClaim, Claims
  <2>2. lapses' = lapses \cup Lapse("unseen", Escapes(tree'))
    BY <1>7 DEF Edit
  <2>3. TypeOK'
    BY <1>7, <2>1, <2>2 DEF Edit, IInv, TypeOK, Lapse, LapseNames
  <2>4. ASSUME lapses' = {} PROVE Outside' /\ RowsAreSound' /\ ClaimIsTrue'
    <3>1. lapses = {} /\ ~Escapes(tree')
      BY <2>2, <2>4 DEF Lapse
    <3>2. Outside'
      BY <3>1 DEF IInv, Outside, Escapes
    <3>3. QED
      BY <1>7, <2>1, <3>1, <3>2 DEF Edit, IInv, RowsAreSound, ClaimIsTrue, AllPass, Restored
  <2>5. QED
    BY <2>3, <2>4 DEF IInv
<1>8. CASE UNCHANGED vars
  BY <1>8 DEF vars, IInv, TypeOK, Outside, RowsAreSound, ClaimIsTrue, AllPass, Restored
<1>9. QED
  BY <1>1, <1>2, <1>3, <1>4, <1>5, <1>6, <1>7, <1>8 DEF Next

\* The invariant holds of every behaviour: an empty store satisfies it.
THEOREM Invariance == Spec => []IInv
<1>1. Init => IInv
  BY ImpactAssumption DEF Init, IInv, TypeOK, Outside, RowsAreSound, ClaimIsTrue, NoClaim, Claims,
     LapseNames
<1>2. IInv /\ [Next]_vars => IInv'
  BY ImpactStep
<1>3. QED
  BY <1>1, <1>2, PTL DEF Spec

\* For every workspace the store keeps the types of its tables, whatever lapses.
THEOREM TypeCorrect == Spec => []TypeOK
<1>1. IInv => TypeOK
  BY DEF IInv
<1>2. QED
  BY <1>1, Invariance, PTL

\* Whatever is edited, selected, run, cached and pruned, and however runs fail or go stale:
\* an answer that says passed is true of its worktree, unless a run had learned less of a
\* test than was known, was saved without events of a test, or a file changed that no
\* revision sees (impacted_tests, verify_internal).
THEOREM SelectionSoundness == Spec => []ClaimsAreSound
<1>1. IInv => ClaimsAreSound
  BY DEF IInv, ClaimsAreSound, ClaimIsTrue
<1>2. QED
  BY <1>1, Invariance, PTL

\* A cached success is true of the worktree that would be answered with it, with the same
\* three exceptions (save_verification_cache, verification_cache).
THEOREM CacheSoundness == Spec => []CacheIsSound
<1>1. ASSUME IInv PROVE CacheIsSound
  <2>1. SUFFICES ASSUME lapses = {}, Has("cache", Snapshot(tree)) PROVE AllPass(tree)
    BY DEF CacheIsSound, CacheIsTrue
  <2>2. PICK i \in DOMAIN retained : retained[i] = Row("cache", Snapshot(tree))
    BY <2>1 DEF Has
  <2>3. tree \in Trees /\ Outside /\ RowsAreSound
    BY <1>1, <2>1 DEF IInv, TypeOK
  <2>4. Restored(retained[i].revision) = tree
    BY <2>2, <2>3, TreeIsRestored DEF Row
  <2>5. QED
    BY <2>3, <2>4 DEF RowsAreSound
<1>2. QED
  BY <1>1, Invariance, PTL

\* What is known of the tests covers what they execute on every baseline, with the same
\* three exceptions: pruning, failing, stale and selected runs never leave a baseline that
\* outlives or precedes that knowledge (replace_dependencies, prune).
THEOREM BaselineSoundness == Spec => []BaselineIsLearned
<1>1. ASSUME IInv PROVE BaselineIsLearned
  <2>1. SUFFICES ASSUME lapses = {}, NEW i \in DOMAIN retained, NEW t \in Tests
                 PROVE  Executes(t, WorktreeOf(retained[i].revision)) \subseteq deps[t]
    BY DEF BaselineIsLearned
  <2>2. tree \in Trees /\ Outside /\ RowsAreSound /\ retained[i] \in Rows
    BY <1>1, <2>1 DEF IInv, TypeOK
  <2>3. WorktreeOf(retained[i].revision) = Restored(retained[i].revision)
    BY <2>2, TreeIsRestored DEF Rows
  <2>4. QED
    BY <2>2, <2>3 DEF RowsAreSound
<1>2. QED
  BY <1>1, Invariance, PTL
=============================================================================

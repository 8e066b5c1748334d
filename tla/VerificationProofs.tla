------------------------- MODULE VerificationProofs -------------------------
(***************************************************************************)
(* Theorems about Verification for every set of requests, every number of  *)
(* edits and restarts and every set of good revisions.                     *)
(***************************************************************************)
EXTENDS Verification, TLAPS

\* Forgetting the locals of some requests leaves every local in its type.
LEMMA ForgetTypes ==
    ASSUME TypeOK, NEW R, Forget(R)
    PROVE  /\ generation' \in [Verifies -> Nat]
           /\ cancelled' \in [Verifies -> BOOLEAN]
           /\ attempt' \in [Verifies -> {1, 2}]
           /\ before' \in [Verifies -> Revisions]
           /\ executed' \in [Verifies -> Revisions]
           /\ process' \in [Verifies -> {"none", "success", "failure", "noEvidence"}]
           /\ outcome' \in [Verifies -> Verdicts \cup {"none"}]
<1>1. generation' \in [Verifies -> Nat]
  BY DEF TypeOK, Forget
<1>2. cancelled' \in [Verifies -> BOOLEAN]
  BY DEF TypeOK, Forget
<1>3. attempt' \in [Verifies -> {1, 2}]
  BY DEF TypeOK, Forget
<1>4. 0 \in Revisions
  BY ConstantsAssumption DEF Revisions
<1>5. before' \in [Verifies -> Revisions]
  BY <1>4 DEF TypeOK, Forget
<1>6. executed' \in [Verifies -> Revisions]
  BY <1>4 DEF TypeOK, Forget
<1>7. process' \in [Verifies -> {"none", "success", "failure", "noEvidence"}]
  BY DEF TypeOK, Forget
<1>8. outcome' \in [Verifies -> Verdicts \cup {"none"}]
  BY DEF TypeOK, Forget
<1>9. QED
  BY <1>1, <1>2, <1>3, <1>5, <1>6, <1>7, <1>8

\* A cached revision is a revision.
LEMMA CachedType ==
    ASSUME TypeOK, NEW r \in Verifies
    PROVE  Cached(r) \in SUBSET Revisions
  BY DEF TypeOK, Cached

\* Every step keeps the variables in their types.
LEMMA TypeStep ==
    ASSUME TypeOK, [Next]_vars
    PROVE  TypeOK'
<1> USE ConstantsAssumption DEF daemonVars, attemptVars, storeVars, TypeOK, Requests, Revisions, Verdicts, Answers, Rows, RunStatus, VerifyPC, CancelPC, InGate, Installed, Verifying
<1>1. ASSUME NEW r \in Verifies, NEW supersede \in BOOLEAN, Arrive(r, supersede)
       PROVE  TypeOK'
  BY <1>1 DEF Arrive, At, Goto
<1>2. ASSUME NEW r \in Verifies, CancelOlder(r)
       PROVE  TypeOK'
  BY <1>2 DEF CancelOlder, At, Goto, CancelActive
<1>3. ASSUME NEW r \in Verifies, LockGate(r)
       PROVE  TypeOK'
  BY <1>3 DEF LockGate, At, Goto
<1>4. ASSUME NEW r \in Verifies, Admit(r)
       PROVE  TypeOK'
  BY <1>4, ForgetTypes DEF Admit, At, Goto, Obsolete
<1>5. ASSUME NEW r \in Verifies, InstallToken(r)
       PROVE  TypeOK'
  BY <1>5 DEF InstallToken, At, Goto
<1>6. ASSUME NEW r \in Verifies, Recheck(r)
       PROVE  TypeOK'
  BY <1>6 DEF Recheck, At, Goto, Obsolete
<1>7. ASSUME NEW r \in Verifies, CancelledEarly(r)
       PROVE  TypeOK'
  BY <1>7 DEF CancelledEarly, At, Goto, LeaveWithoutRow
<1>8. ASSUME NEW r \in Verifies, CaptureBefore(r)
       PROVE  TypeOK'
  BY <1>8 DEF CaptureBefore, At, Goto
<1>9. ASSUME NEW r \in Verifies, CacheHit(r)
       PROVE  TypeOK'
  BY <1>9 DEF CacheHit, At, Goto, CacheUsable
<1>10. ASSUME NEW r \in Verifies, BeginRun(r)
       PROVE  TypeOK'
  BY <1>10 DEF BeginRun, At, Goto, SetRow, CacheUsable
<1>11. ASSUME NEW r \in Verifies, WorkerReads(r)
       PROVE  TypeOK'
  BY <1>11 DEF WorkerReads, At, Goto
<1>12. ASSUME NEW r \in Verifies, NEW left \in {"success", "failure", "noEvidence"},
               WorkerExits(r, left)
       PROVE  TypeOK'
  BY <1>12 DEF WorkerExits, At, Goto
<1>13. ASSUME NEW r \in Verifies, CancelledWithRow(r)
       PROVE  TypeOK'
  BY <1>13 DEF CancelledWithRow, At, Goto, LeaveWithErrorRow, SetRow
<1>14. ASSUME NEW r \in Verifies, Ingest(r)
       PROVE  TypeOK'
  BY <1>14 DEF Ingest, At, Goto
<1>15. ASSUME NEW r \in Verifies, FinishRun(r)
       PROVE  TypeOK'
  BY <1>15 DEF FinishRun, At, Goto, SetRow, FinishedStatus, Desired
<1>16. ASSUME NEW r \in Verifies, SaveCache(r)
       PROVE  TypeOK'
  BY <1>16, CachedType DEF SaveCache, At, Goto
<1>17. ASSUME NEW r \in Verifies, Requeue(r)
       PROVE  TypeOK'
  BY <1>17 DEF Requeue, At, Goto
<1>18. ASSUME NEW r \in Verifies, Decide(r)
       PROVE  TypeOK'
  BY <1>18 DEF Decide, At, Goto, MayNotPublish, Obsolete
<1>19. ASSUME NEW r \in Verifies, Clear(r)
       PROVE  TypeOK'
  BY <1>19, ForgetTypes DEF Clear, At, Goto
<1>20. ASSUME NEW r \in Verifies, StartFails(r)
       PROVE  TypeOK'
  BY <1>20 DEF StartFails, At, Goto, LeaveWithoutRow
<1>21. ASSUME NEW r \in Verifies, RequeueDiscoverFails(r)
       PROVE  TypeOK'
  BY <1>21, ForgetTypes DEF RequeueDiscoverFails, At, Goto
<1>22. ASSUME NEW r \in Verifies, RunFails(r)
       PROVE  TypeOK'
  BY <1>22 DEF RunFails, At, Goto, LeaveWithErrorRow, SetRow
<1>23. ASSUME NEW r \in Verifies, SaveFails(r)
       PROVE  TypeOK'
  BY <1>23, CachedType DEF SaveFails, At, Goto
<1>24. ASSUME NEW c \in Cancels, CancelBump(c)
       PROVE  TypeOK'
  BY <1>24 DEF CancelBump, At, Goto
<1>25. ASSUME NEW c \in Cancels, NEW isStop \in BOOLEAN, CancelToken(c, isStop)
       PROVE  TypeOK'
  BY <1>25 DEF CancelToken, At, Goto, CancelActive
<1>26. ASSUME NEW c \in Cancels, StopFlag(c)
       PROVE  TypeOK'
  BY <1>26 DEF StopFlag, At, Goto
<1>27. ASSUME ServeBump
       PROVE  TypeOK'
  BY <1>27 DEF ServeBump
<1>28. ASSUME ServeCancel
       PROVE  TypeOK'
  BY <1>28 DEF ServeCancel, CancelActive
<1>29. ASSUME Exit
       PROVE  TypeOK'
  BY <1>29, ForgetTypes DEF Exit, ProcessEnds
<1>30. ASSUME Crash
       PROVE  TypeOK'
  BY <1>30, ForgetTypes DEF Crash, ProcessEnds
<1>31. ASSUME Restart
       PROVE  TypeOK'
  BY <1>31 DEF Restart, Recovered
<1>32. ASSUME Edit
       PROVE  TypeOK'
  BY <1>32 DEF Edit
<1>33. CASE UNCHANGED vars
  BY <1>33 DEF vars
<1>34. QED
  BY <1>1, <1>2, <1>3, <1>4, <1>5, <1>6, <1>7, <1>8, <1>9, <1>10, <1>11, <1>12, <1>13, <1>14,
     <1>15, <1>16, <1>17, <1>18, <1>19, <1>20, <1>21, <1>22, <1>23, <1>24, <1>25, <1>26, <1>27,
     <1>28, <1>29, <1>30, <1>31, <1>32, <1>33
     DEF Next, Progress, Failure, CancelStep, ServerStep

\* Every step keeps the gate's holder the only one past the gate, with its
\* token in the slot.
LEMMA HolderStep ==
    ASSUME TypeOK, HolderIsCancellable, [Next]_vars
    PROVE  HolderIsCancellable'
<1> USE ConstantsAssumption DEF daemonVars, attemptVars, storeVars, TypeOK, Requests, HolderIsCancellable, InGate, Installed, Verifying
<1>1. ASSUME NEW r \in Verifies, NEW supersede \in BOOLEAN, Arrive(r, supersede)
       PROVE  HolderIsCancellable'
  BY <1>1 DEF Arrive, At, Goto
<1>2. ASSUME NEW r \in Verifies, CancelOlder(r)
       PROVE  HolderIsCancellable'
  BY <1>2 DEF CancelOlder, At, Goto, CancelActive
<1>3. ASSUME NEW r \in Verifies, LockGate(r)
       PROVE  HolderIsCancellable'
  BY <1>3 DEF LockGate, At, Goto
<1>4. ASSUME NEW r \in Verifies, Admit(r)
       PROVE  HolderIsCancellable'
  BY <1>4 DEF Admit, At, Goto, Forget, Obsolete
<1>5. ASSUME NEW r \in Verifies, InstallToken(r)
       PROVE  HolderIsCancellable'
  BY <1>5 DEF InstallToken, At, Goto
<1>6. ASSUME NEW r \in Verifies, Recheck(r)
       PROVE  HolderIsCancellable'
  BY <1>6 DEF Recheck, At, Goto, Obsolete
<1>7. ASSUME NEW r \in Verifies, CancelledEarly(r)
       PROVE  HolderIsCancellable'
  BY <1>7 DEF CancelledEarly, At, Goto, LeaveWithoutRow
<1>8. ASSUME NEW r \in Verifies, CaptureBefore(r)
       PROVE  HolderIsCancellable'
  BY <1>8 DEF CaptureBefore, At, Goto
<1>9. ASSUME NEW r \in Verifies, CacheHit(r)
       PROVE  HolderIsCancellable'
  BY <1>9 DEF CacheHit, At, Goto, CacheUsable
<1>10. ASSUME NEW r \in Verifies, BeginRun(r)
       PROVE  HolderIsCancellable'
  BY <1>10 DEF BeginRun, At, Goto, SetRow, CacheUsable
<1>11. ASSUME NEW r \in Verifies, WorkerReads(r)
       PROVE  HolderIsCancellable'
  BY <1>11 DEF WorkerReads, At, Goto
<1>12. ASSUME NEW r \in Verifies, NEW left \in {"success", "failure", "noEvidence"},
               WorkerExits(r, left)
       PROVE  HolderIsCancellable'
  BY <1>12 DEF WorkerExits, At, Goto
<1>13. ASSUME NEW r \in Verifies, CancelledWithRow(r)
       PROVE  HolderIsCancellable'
  BY <1>13 DEF CancelledWithRow, At, Goto, LeaveWithErrorRow, SetRow
<1>14. ASSUME NEW r \in Verifies, Ingest(r)
       PROVE  HolderIsCancellable'
  BY <1>14 DEF Ingest, At, Goto
<1>15. ASSUME NEW r \in Verifies, FinishRun(r)
       PROVE  HolderIsCancellable'
  BY <1>15 DEF FinishRun, At, Goto, SetRow, FinishedStatus, Desired
<1>16. ASSUME NEW r \in Verifies, SaveCache(r)
       PROVE  HolderIsCancellable'
  BY <1>16 DEF SaveCache, At, Goto, Cached
<1>17. ASSUME NEW r \in Verifies, Requeue(r)
       PROVE  HolderIsCancellable'
  BY <1>17 DEF Requeue, At, Goto
<1>18. ASSUME NEW r \in Verifies, Decide(r)
       PROVE  HolderIsCancellable'
  BY <1>18 DEF Decide, At, Goto, MayNotPublish, Obsolete
<1>19. ASSUME NEW r \in Verifies, Clear(r)
       PROVE  HolderIsCancellable'
  BY <1>19 DEF Clear, At, Goto, Forget
<1>20. ASSUME NEW r \in Verifies, StartFails(r)
       PROVE  HolderIsCancellable'
  BY <1>20 DEF StartFails, At, Goto, LeaveWithoutRow
<1>21. ASSUME NEW r \in Verifies, RequeueDiscoverFails(r)
       PROVE  HolderIsCancellable'
  BY <1>21 DEF RequeueDiscoverFails, At, Goto, Forget
<1>22. ASSUME NEW r \in Verifies, RunFails(r)
       PROVE  HolderIsCancellable'
  BY <1>22 DEF RunFails, At, Goto, LeaveWithErrorRow, SetRow
<1>23. ASSUME NEW r \in Verifies, SaveFails(r)
       PROVE  HolderIsCancellable'
  BY <1>23 DEF SaveFails, At, Goto, Cached
<1>24. ASSUME NEW c \in Cancels, CancelBump(c)
       PROVE  HolderIsCancellable'
  BY <1>24 DEF CancelBump, At, Goto
<1>25. ASSUME NEW c \in Cancels, NEW isStop \in BOOLEAN, CancelToken(c, isStop)
       PROVE  HolderIsCancellable'
  BY <1>25 DEF CancelToken, At, Goto, CancelActive
<1>26. ASSUME NEW c \in Cancels, StopFlag(c)
       PROVE  HolderIsCancellable'
  BY <1>26 DEF StopFlag, At, Goto
<1>27. ASSUME ServeBump
       PROVE  HolderIsCancellable'
  BY <1>27 DEF ServeBump
<1>28. ASSUME ServeCancel
       PROVE  HolderIsCancellable'
  BY <1>28 DEF ServeCancel, CancelActive
<1>29. ASSUME Exit
       PROVE  HolderIsCancellable'
  BY <1>29 DEF Exit, ProcessEnds, Forget
<1>30. ASSUME Crash
       PROVE  HolderIsCancellable'
  BY <1>30 DEF Crash, ProcessEnds, Forget
<1>31. ASSUME Restart
       PROVE  HolderIsCancellable'
  BY <1>31 DEF Restart, Recovered
<1>32. ASSUME Edit
       PROVE  HolderIsCancellable'
  BY <1>32 DEF Edit
<1>33. CASE UNCHANGED vars
  BY <1>33 DEF vars
<1>34. QED
  BY <1>1, <1>2, <1>3, <1>4, <1>5, <1>6, <1>7, <1>8, <1>9, <1>10, <1>11, <1>12, <1>13, <1>14,
     <1>15, <1>16, <1>17, <1>18, <1>19, <1>20, <1>21, <1>22, <1>23, <1>24, <1>25, <1>26, <1>27,
     <1>28, <1>29, <1>30, <1>31, <1>32, <1>33
     DEF Next, Progress, Failure, CancelStep, ServerStep

\* Every step that leaves RowOpen finishes the row.
LEMMA PhantomStep ==
    ASSUME TypeOK, NoPhantomRun, [Next]_vars
    PROVE  NoPhantomRun'
<1> USE ConstantsAssumption DEF daemonVars, attemptVars, storeVars, TypeOK, Requests, NoPhantomRun, RowOpen
<1>1. ASSUME NEW r \in Verifies, NEW supersede \in BOOLEAN, Arrive(r, supersede)
       PROVE  NoPhantomRun'
  BY <1>1 DEF Arrive, At, Goto
<1>2. ASSUME NEW r \in Verifies, CancelOlder(r)
       PROVE  NoPhantomRun'
  BY <1>2 DEF CancelOlder, At, Goto, CancelActive
<1>3. ASSUME NEW r \in Verifies, LockGate(r)
       PROVE  NoPhantomRun'
  BY <1>3 DEF LockGate, At, Goto
<1>4. ASSUME NEW r \in Verifies, Admit(r)
       PROVE  NoPhantomRun'
  BY <1>4 DEF Admit, At, Goto, Forget, Obsolete
<1>5. ASSUME NEW r \in Verifies, InstallToken(r)
       PROVE  NoPhantomRun'
  BY <1>5 DEF InstallToken, At, Goto
<1>6. ASSUME NEW r \in Verifies, Recheck(r)
       PROVE  NoPhantomRun'
  BY <1>6 DEF Recheck, At, Goto, Obsolete
<1>7. ASSUME NEW r \in Verifies, CancelledEarly(r)
       PROVE  NoPhantomRun'
  BY <1>7 DEF CancelledEarly, At, Goto, LeaveWithoutRow
<1>8. ASSUME NEW r \in Verifies, CaptureBefore(r)
       PROVE  NoPhantomRun'
  BY <1>8 DEF CaptureBefore, At, Goto
<1>9. ASSUME NEW r \in Verifies, CacheHit(r)
       PROVE  NoPhantomRun'
  BY <1>9 DEF CacheHit, At, Goto, CacheUsable
<1>10. ASSUME NEW r \in Verifies, BeginRun(r)
       PROVE  NoPhantomRun'
  BY <1>10 DEF BeginRun, At, Goto, SetRow, CacheUsable
<1>11. ASSUME NEW r \in Verifies, WorkerReads(r)
       PROVE  NoPhantomRun'
  BY <1>11 DEF WorkerReads, At, Goto
<1>12. ASSUME NEW r \in Verifies, NEW left \in {"success", "failure", "noEvidence"},
               WorkerExits(r, left)
       PROVE  NoPhantomRun'
  BY <1>12 DEF WorkerExits, At, Goto
<1>13. ASSUME NEW r \in Verifies, CancelledWithRow(r)
       PROVE  NoPhantomRun'
  BY <1>13 DEF CancelledWithRow, At, Goto, LeaveWithErrorRow, SetRow
<1>14. ASSUME NEW r \in Verifies, Ingest(r)
       PROVE  NoPhantomRun'
  BY <1>14 DEF Ingest, At, Goto
<1>15. ASSUME NEW r \in Verifies, FinishRun(r)
       PROVE  NoPhantomRun'
  BY <1>15 DEF FinishRun, At, Goto, SetRow, FinishedStatus, Desired
<1>16. ASSUME NEW r \in Verifies, SaveCache(r)
       PROVE  NoPhantomRun'
  BY <1>16 DEF SaveCache, At, Goto, Cached
<1>17. ASSUME NEW r \in Verifies, Requeue(r)
       PROVE  NoPhantomRun'
  BY <1>17 DEF Requeue, At, Goto
<1>18. ASSUME NEW r \in Verifies, Decide(r)
       PROVE  NoPhantomRun'
  BY <1>18 DEF Decide, At, Goto, MayNotPublish, Obsolete
<1>19. ASSUME NEW r \in Verifies, Clear(r)
       PROVE  NoPhantomRun'
  BY <1>19 DEF Clear, At, Goto, Forget
<1>20. ASSUME NEW r \in Verifies, StartFails(r)
       PROVE  NoPhantomRun'
  BY <1>20 DEF StartFails, At, Goto, LeaveWithoutRow
<1>21. ASSUME NEW r \in Verifies, RequeueDiscoverFails(r)
       PROVE  NoPhantomRun'
  BY <1>21 DEF RequeueDiscoverFails, At, Goto, Forget
<1>22. ASSUME NEW r \in Verifies, RunFails(r)
       PROVE  NoPhantomRun'
  BY <1>22 DEF RunFails, At, Goto, LeaveWithErrorRow, SetRow
<1>23. ASSUME NEW r \in Verifies, SaveFails(r)
       PROVE  NoPhantomRun'
  BY <1>23 DEF SaveFails, At, Goto, Cached
<1>24. ASSUME NEW c \in Cancels, CancelBump(c)
       PROVE  NoPhantomRun'
  BY <1>24 DEF CancelBump, At, Goto
<1>25. ASSUME NEW c \in Cancels, NEW isStop \in BOOLEAN, CancelToken(c, isStop)
       PROVE  NoPhantomRun'
  BY <1>25 DEF CancelToken, At, Goto, CancelActive
<1>26. ASSUME NEW c \in Cancels, StopFlag(c)
       PROVE  NoPhantomRun'
  BY <1>26 DEF StopFlag, At, Goto
<1>27. ASSUME ServeBump
       PROVE  NoPhantomRun'
  BY <1>27 DEF ServeBump
<1>28. ASSUME ServeCancel
       PROVE  NoPhantomRun'
  BY <1>28 DEF ServeCancel, CancelActive
<1>29. ASSUME Exit
       PROVE  NoPhantomRun'
  BY <1>29 DEF Exit, ProcessEnds, Forget
<1>30. ASSUME Crash
       PROVE  NoPhantomRun'
  BY <1>30 DEF Crash, ProcessEnds, Forget
<1>31. ASSUME Restart
       PROVE  NoPhantomRun'
  BY <1>31 DEF Restart, Recovered
<1>32. ASSUME Edit
       PROVE  NoPhantomRun'
  BY <1>32 DEF Edit
<1>33. CASE UNCHANGED vars
  BY <1>33 DEF vars
<1>34. QED
  BY <1>1, <1>2, <1>3, <1>4, <1>5, <1>6, <1>7, <1>8, <1>9, <1>10, <1>11, <1>12, <1>13, <1>14,
     <1>15, <1>16, <1>17, <1>18, <1>19, <1>20, <1>21, <1>22, <1>23, <1>24, <1>25, <1>26, <1>27,
     <1>28, <1>29, <1>30, <1>31, <1>32, <1>33
     DEF Next, Progress, Failure, CancelStep, ServerStep

\* Every bump of the generation is followed by a cancel that finds the holder
\* in the slot.
LEMMA ObsoleteStep ==
    ASSUME TypeOK, HolderIsCancellable, ObsoleteWorkIsCancelled, [Next]_vars
    PROVE  ObsoleteWorkIsCancelled'
<1> USE ConstantsAssumption DEF daemonVars, attemptVars, storeVars, TypeOK, Requests, HolderIsCancellable, ObsoleteWorkIsCancelled, Obsolete, InGate, Installed, Verifying
<1>1. ASSUME NEW r \in Verifies, NEW supersede \in BOOLEAN, Arrive(r, supersede)
       PROVE  ObsoleteWorkIsCancelled'
  BY <1>1 DEF Arrive, At, Goto
<1>2. ASSUME NEW r \in Verifies, CancelOlder(r)
       PROVE  ObsoleteWorkIsCancelled'
  BY <1>2 DEF CancelOlder, At, Goto, CancelActive
<1>3. ASSUME NEW r \in Verifies, LockGate(r)
       PROVE  ObsoleteWorkIsCancelled'
  BY <1>3 DEF LockGate, At, Goto
<1>4. ASSUME NEW r \in Verifies, Admit(r)
       PROVE  ObsoleteWorkIsCancelled'
  BY <1>4 DEF Admit, At, Goto, Forget, Obsolete
<1>5. ASSUME NEW r \in Verifies, InstallToken(r)
       PROVE  ObsoleteWorkIsCancelled'
  BY <1>5 DEF InstallToken, At, Goto
<1>6. ASSUME NEW r \in Verifies, Recheck(r)
       PROVE  ObsoleteWorkIsCancelled'
  BY <1>6 DEF Recheck, At, Goto, Obsolete
<1>7. ASSUME NEW r \in Verifies, CancelledEarly(r)
       PROVE  ObsoleteWorkIsCancelled'
  BY <1>7 DEF CancelledEarly, At, Goto, LeaveWithoutRow
<1>8. ASSUME NEW r \in Verifies, CaptureBefore(r)
       PROVE  ObsoleteWorkIsCancelled'
  BY <1>8 DEF CaptureBefore, At, Goto
<1>9. ASSUME NEW r \in Verifies, CacheHit(r)
       PROVE  ObsoleteWorkIsCancelled'
  BY <1>9 DEF CacheHit, At, Goto, CacheUsable
<1>10. ASSUME NEW r \in Verifies, BeginRun(r)
       PROVE  ObsoleteWorkIsCancelled'
  BY <1>10 DEF BeginRun, At, Goto, SetRow, CacheUsable
<1>11. ASSUME NEW r \in Verifies, WorkerReads(r)
       PROVE  ObsoleteWorkIsCancelled'
  BY <1>11 DEF WorkerReads, At, Goto
<1>12. ASSUME NEW r \in Verifies, NEW left \in {"success", "failure", "noEvidence"},
               WorkerExits(r, left)
       PROVE  ObsoleteWorkIsCancelled'
  BY <1>12 DEF WorkerExits, At, Goto
<1>13. ASSUME NEW r \in Verifies, CancelledWithRow(r)
       PROVE  ObsoleteWorkIsCancelled'
  BY <1>13 DEF CancelledWithRow, At, Goto, LeaveWithErrorRow, SetRow
<1>14. ASSUME NEW r \in Verifies, Ingest(r)
       PROVE  ObsoleteWorkIsCancelled'
  BY <1>14 DEF Ingest, At, Goto
<1>15. ASSUME NEW r \in Verifies, FinishRun(r)
       PROVE  ObsoleteWorkIsCancelled'
  BY <1>15 DEF FinishRun, At, Goto, SetRow, FinishedStatus, Desired
<1>16. ASSUME NEW r \in Verifies, SaveCache(r)
       PROVE  ObsoleteWorkIsCancelled'
  BY <1>16 DEF SaveCache, At, Goto, Cached
<1>17. ASSUME NEW r \in Verifies, Requeue(r)
       PROVE  ObsoleteWorkIsCancelled'
  BY <1>17 DEF Requeue, At, Goto
<1>18. ASSUME NEW r \in Verifies, Decide(r)
       PROVE  ObsoleteWorkIsCancelled'
  BY <1>18 DEF Decide, At, Goto, MayNotPublish, Obsolete
<1>19. ASSUME NEW r \in Verifies, Clear(r)
       PROVE  ObsoleteWorkIsCancelled'
  BY <1>19 DEF Clear, At, Goto, Forget
<1>20. ASSUME NEW r \in Verifies, StartFails(r)
       PROVE  ObsoleteWorkIsCancelled'
  BY <1>20 DEF StartFails, At, Goto, LeaveWithoutRow
<1>21. ASSUME NEW r \in Verifies, RequeueDiscoverFails(r)
       PROVE  ObsoleteWorkIsCancelled'
  BY <1>21 DEF RequeueDiscoverFails, At, Goto, Forget
<1>22. ASSUME NEW r \in Verifies, RunFails(r)
       PROVE  ObsoleteWorkIsCancelled'
  BY <1>22 DEF RunFails, At, Goto, LeaveWithErrorRow, SetRow
<1>23. ASSUME NEW r \in Verifies, SaveFails(r)
       PROVE  ObsoleteWorkIsCancelled'
  BY <1>23 DEF SaveFails, At, Goto, Cached
<1>24. ASSUME NEW c \in Cancels, CancelBump(c)
       PROVE  ObsoleteWorkIsCancelled'
  BY <1>24 DEF CancelBump, At, Goto
<1>25. ASSUME NEW c \in Cancels, NEW isStop \in BOOLEAN, CancelToken(c, isStop)
       PROVE  ObsoleteWorkIsCancelled'
  <2>1. SUFFICES ASSUME NEW r \in Verifies, pc'[r] \in Verifying
                 PROVE  cancelled'[r]
    OBVIOUS
  <2>2. pc'[r] = pc[r]
    BY <1>25 DEF CancelToken, At, Goto
  <2>3. active_verification = r
    BY <2>1, <2>2
  <2>4. QED
    BY <1>25, <2>3 DEF CancelToken, CancelActive
<1>26. ASSUME NEW c \in Cancels, StopFlag(c)
       PROVE  ObsoleteWorkIsCancelled'
  BY <1>26 DEF StopFlag, At, Goto
<1>27. ASSUME ServeBump
       PROVE  ObsoleteWorkIsCancelled'
  BY <1>27 DEF ServeBump
<1>28. ASSUME ServeCancel
       PROVE  ObsoleteWorkIsCancelled'
  BY <1>28 DEF ServeCancel, CancelActive
<1>29. ASSUME Exit
       PROVE  ObsoleteWorkIsCancelled'
  BY <1>29 DEF Exit, ProcessEnds, Forget
<1>30. ASSUME Crash
       PROVE  ObsoleteWorkIsCancelled'
  BY <1>30 DEF Crash, ProcessEnds, Forget
<1>31. ASSUME Restart
       PROVE  ObsoleteWorkIsCancelled'
  BY <1>31 DEF Restart, Recovered
<1>32. ASSUME Edit
       PROVE  ObsoleteWorkIsCancelled'
  BY <1>32 DEF Edit
<1>33. CASE UNCHANGED vars
  BY <1>33 DEF vars
<1>34. QED
  BY <1>1, <1>2, <1>3, <1>4, <1>5, <1>6, <1>7, <1>8, <1>9, <1>10, <1>11, <1>12, <1>13, <1>14,
     <1>15, <1>16, <1>17, <1>18, <1>19, <1>20, <1>21, <1>22, <1>23, <1>24, <1>25, <1>26, <1>27,
     <1>28, <1>29, <1>30, <1>31, <1>32, <1>33
     DEF Next, Progress, Failure, CancelStep, ServerStep

\* Every step keeps the evidence behind a success.
LEMMA EvidenceStep ==
    ASSUME TypeOK, Evidence, [Next]_vars
    PROVE  Evidence'
<1> USE ConstantsAssumption DEF daemonVars, attemptVars, storeVars, TypeOK, Requests, Revisions, Evidence, EvidenceOf, RowOpen
<1>1. ASSUME NEW r \in Verifies, NEW supersede \in BOOLEAN, Arrive(r, supersede)
       PROVE  Evidence'
  BY <1>1 DEF Arrive, At, Goto
<1>2. ASSUME NEW r \in Verifies, CancelOlder(r)
       PROVE  Evidence'
  BY <1>2 DEF CancelOlder, At, Goto, CancelActive
<1>3. ASSUME NEW r \in Verifies, LockGate(r)
       PROVE  Evidence'
  BY <1>3 DEF LockGate, At, Goto
<1>4. ASSUME NEW r \in Verifies, Admit(r)
       PROVE  Evidence'
  <2>1. CASE Obsolete(r)
    BY <1>4, <2>1 DEF Admit, At, Goto, Forget
  <2>2. CASE ~Obsolete(r)
    BY <1>4, <2>2 DEF Admit, At, Goto
  <2>3. QED
    BY <2>1, <2>2
<1>5. ASSUME NEW r \in Verifies, InstallToken(r)
       PROVE  Evidence'
  BY <1>5 DEF InstallToken, At, Goto
<1>6. ASSUME NEW r \in Verifies, Recheck(r)
       PROVE  Evidence'
  BY <1>6 DEF Recheck, At, Goto, Obsolete
<1>7. ASSUME NEW r \in Verifies, CancelledEarly(r)
       PROVE  Evidence'
  BY <1>7 DEF CancelledEarly, At, Goto, LeaveWithoutRow
<1>8. ASSUME NEW r \in Verifies, CaptureBefore(r)
       PROVE  Evidence'
  BY <1>8 DEF CaptureBefore, At, Goto
<1>9. ASSUME NEW r \in Verifies, CacheHit(r)
       PROVE  Evidence'
  BY <1>9 DEF CacheHit, At, Goto, CacheUsable
<1>10. ASSUME NEW r \in Verifies, BeginRun(r)
       PROVE  Evidence'
  BY <1>10 DEF BeginRun, At, Goto, SetRow, CacheUsable
<1>11. ASSUME NEW r \in Verifies, WorkerReads(r)
       PROVE  Evidence'
  BY <1>11 DEF WorkerReads, At, Goto
<1>12. ASSUME NEW r \in Verifies, NEW left \in {"success", "failure", "noEvidence"},
               WorkerExits(r, left)
       PROVE  Evidence'
  BY <1>12 DEF WorkerExits, At, Goto
<1>13. ASSUME NEW r \in Verifies, CancelledWithRow(r)
       PROVE  Evidence'
  BY <1>13 DEF CancelledWithRow, At, Goto, LeaveWithErrorRow, SetRow
<1>14. ASSUME NEW r \in Verifies, Ingest(r)
       PROVE  Evidence'
  BY <1>14 DEF Ingest, At, Goto
<1>15. ASSUME NEW r \in Verifies, FinishRun(r)
       PROVE  Evidence'
  BY <1>15 DEF FinishRun, At, Goto, SetRow, FinishedStatus, Desired
<1>16. ASSUME NEW r \in Verifies, SaveCache(r)
       PROVE  Evidence'
  BY <1>16 DEF SaveCache, At, Goto, Cached
<1>17. ASSUME NEW r \in Verifies, Requeue(r)
       PROVE  Evidence'
  BY <1>17 DEF Requeue, At, Goto
<1>18. ASSUME NEW r \in Verifies, Decide(r)
       PROVE  Evidence'
  BY <1>18 DEF Decide, At, Goto, MayNotPublish, Obsolete
<1>19. ASSUME NEW r \in Verifies, Clear(r)
       PROVE  Evidence'
  BY <1>19 DEF Clear, At, Goto, Forget
<1>20. ASSUME NEW r \in Verifies, StartFails(r)
       PROVE  Evidence'
  BY <1>20 DEF StartFails, At, Goto, LeaveWithoutRow
<1>21. ASSUME NEW r \in Verifies, RequeueDiscoverFails(r)
       PROVE  Evidence'
  BY <1>21 DEF RequeueDiscoverFails, At, Goto, Forget
<1>22. ASSUME NEW r \in Verifies, RunFails(r)
       PROVE  Evidence'
  BY <1>22 DEF RunFails, At, Goto, LeaveWithErrorRow, SetRow
<1>23. ASSUME NEW r \in Verifies, SaveFails(r)
       PROVE  Evidence'
  BY <1>23 DEF SaveFails, At, Goto, Cached
<1>24. ASSUME NEW c \in Cancels, CancelBump(c)
       PROVE  Evidence'
  BY <1>24 DEF CancelBump, At, Goto
<1>25. ASSUME NEW c \in Cancels, NEW isStop \in BOOLEAN, CancelToken(c, isStop)
       PROVE  Evidence'
  BY <1>25 DEF CancelToken, At, Goto, CancelActive
<1>26. ASSUME NEW c \in Cancels, StopFlag(c)
       PROVE  Evidence'
  BY <1>26 DEF StopFlag, At, Goto
<1>27. ASSUME ServeBump
       PROVE  Evidence'
  BY <1>27 DEF ServeBump
<1>28. ASSUME ServeCancel
       PROVE  Evidence'
  BY <1>28 DEF ServeCancel, CancelActive
<1>29. ASSUME Exit
       PROVE  Evidence'
  BY <1>29 DEF Exit, ProcessEnds, Forget
<1>30. ASSUME Crash
       PROVE  Evidence'
  BY <1>30 DEF Crash, ProcessEnds, Forget
<1>31. ASSUME Restart
       PROVE  Evidence'
  BY <1>31 DEF Restart, Recovered
<1>32. ASSUME Edit
       PROVE  Evidence'
  BY <1>32 DEF Edit
<1>33. CASE UNCHANGED vars
  BY <1>33 DEF vars
<1>34. QED
  BY <1>1, <1>2, <1>3, <1>4, <1>5, <1>6, <1>7, <1>8, <1>9, <1>10, <1>11, <1>12, <1>13, <1>14,
     <1>15, <1>16, <1>17, <1>18, <1>19, <1>20, <1>21, <1>22, <1>23, <1>24, <1>25, <1>26, <1>27,
     <1>28, <1>29, <1>30, <1>31, <1>32, <1>33
     DEF Next, Progress, Failure, CancelStep, ServerStep

-----------------------------------------------------------------------------
\* What every reachable state satisfies, as one inductive invariant: the types,
\* the gate protocol, the evidence behind successes, and the run rows.
IInv ==
    /\ TypeOK
    /\ HolderIsCancellable
    /\ ObsoleteWorkIsCancelled
    /\ Evidence
    /\ NoPhantomRun

\* The daemon starts in the inductive invariant.
LEMMA InitIInv == Init => IInv
<1> SUFFICES ASSUME Init PROVE IInv
  OBVIOUS
<1>1. TypeOK
  <2>1. 0 \in Revisions /\ restarts \in 0..MaxRestarts /\ verification_generation \in Nat
    BY ConstantsAssumption DEF Init, Revisions
  <2>2. /\ generation \in [Verifies -> Nat]
        /\ cancelled \in [Verifies -> BOOLEAN]
        /\ attempt \in [Verifies -> {1, 2}]
    BY DEF Init
  <2>3. /\ before \in [Verifies -> Revisions]
        /\ executed \in [Verifies -> Revisions]
        /\ cache \in SUBSET Revisions
    BY <2>1 DEF Init
  <2>4. /\ process \in [Verifies -> {"none", "success", "failure", "noEvidence"}]
        /\ outcome \in [Verifies -> Verdicts \cup {"none"}]
        /\ answer \in [Requests -> Answers]
        /\ runs \in [Verifies -> Rows]
        /\ pc \in [Requests -> VerifyPC \cup CancelPC]
    BY DEF Init, Answers, Rows, VerifyPC
  <2>5. QED
    BY <2>1, <2>2, <2>3, <2>4 DEF Init, TypeOK
<1>2. HolderIsCancellable /\ ObsoleteWorkIsCancelled /\ NoPhantomRun
  BY DEF Init, HolderIsCancellable, ObsoleteWorkIsCancelled, NoPhantomRun, Requests, InGate,
     Installed, Verifying
<1>3. Evidence
  BY DEF Init, Evidence, EvidenceOf, Requests, RowOpen
<1>4. QED
  BY <1>1, <1>2, <1>3 DEF IInv

\* Spec's reachable states all satisfy the inductive invariant.
THEOREM Invariance == Spec => []IInv
<1>1. IInv /\ [Next]_vars => IInv'
  BY TypeStep, HolderStep, ObsoleteStep, EvidenceStep, PhantomStep DEF IInv
<1>2. QED
  BY InitIInv, <1>1, PTL DEF Spec

\* The daemon's variables keep their types, for any number of requests.
THEOREM TypeCorrect == Spec => []TypeOK
<1>1. IInv => TypeOK
  BY DEF IInv
<1>2. QED
  BY Invariance, <1>1, PTL

\* Daemon::verify serialises verifications, and a cancel always finds the token
\* of the one that runs.
THEOREM GateIsExclusive == Spec => []HolderIsCancellable
<1>1. IInv => HolderIsCancellable
  BY DEF IInv
<1>2. QED
  BY Invariance, <1>1, PTL

\* An obsolete verification is cancelled, or about to be: the check after
\* InstallToken closes the window in which a bump finds the slot empty.
THEOREM NoUnnoticedObsoleteWork == Spec => []ObsoleteWorkIsCancelled
<1>1. IInv => ObsoleteWorkIsCancelled
  BY DEF IInv
<1>2. QED
  BY Invariance, <1>1, PTL

\* While no edit is undone, a success is reported, and cached, only for a
\* revision whose tests pass: capturing the revision before and after is enough.
THEOREM SuccessIsSound == Spec => []SuccessIsReal
<1>1. IInv => SuccessIsReal
  BY DEF IInv, Evidence, EvidenceOf, SuccessIsReal
<1>2. QED
  BY Invariance, <1>1, PTL

\* Cancels, failures and crashes at any point leave no row `running` in a
\* serving daemon without a verifier at work on it.
THEOREM RunsSettle == Spec => []NoPhantomRun
<1>1. IInv => NoPhantomRun
  BY DEF IInv
<1>2. QED
  BY Invariance, <1>1, PTL

-----------------------------------------------------------------------------
(* The refinement of VerificationService.                                  *)

\* Whatever cancels a token or is about to was preceded by a bump.
Interrupted ==
    \/ \E v \in Verifies : cancelled[v] \/ pc[v] = "supersede"
    \/ \E c \in Cancels : pc[c] = "bumped"
    \/ server = "stopping"

AnswerPending(r) == pc[r] \in {"idle", "supersede", "gate"} \cup (InGate \ {"clear"})

\* A request's generation is never ahead, its answer is fixed exactly at the end, an
\* attempt that is decided has an outcome, and a daemon that is down has no threads.
Bookkeeping ==
    /\ \A r \in Verifies :
        /\ generation[r] <= verification_generation
        /\ AnswerPending(r) => answer[r] = "none"
        /\ pc[r] \in {"clear", "done"} => answer[r] # "none"
        /\ pc[r] \in {"save", "decide"} => outcome[r] \in Verdicts
        /\ server = "down" => pc[r] \in {"idle", "done", "dropped"}
    /\ Interrupted => verification_generation > 0

\* Every step keeps the books the refinement rests on.
LEMMA BookStep ==
    ASSUME TypeOK, Bookkeeping, [Next]_vars
    PROVE  Bookkeeping'
<1> USE ConstantsAssumption DEF daemonVars, attemptVars, storeVars, TypeOK, Requests, Bookkeeping, Interrupted, AnswerPending, Verdicts, InGate, Installed, Verifying
<1>1. ASSUME NEW r \in Verifies, NEW supersede \in BOOLEAN, Arrive(r, supersede)
      PROVE  Bookkeeping'
  BY <1>1 DEF Arrive, At, Goto
<1>2. ASSUME NEW r \in Verifies, CancelOlder(r)
      PROVE  Bookkeeping'
  BY <1>2 DEF CancelOlder, At, Goto, CancelActive
<1>3. ASSUME NEW r \in Verifies, LockGate(r)
      PROVE  Bookkeeping'
  BY <1>3 DEF LockGate, At, Goto
<1>4. ASSUME NEW r \in Verifies, Admit(r)
      PROVE  Bookkeeping'
  <2>1. CASE Obsolete(r)
    <3> HIDE DEF Bookkeeping, TypeOK, Interrupted, AnswerPending
    <3>1. /\ pc[r] = "admit" /\ server # "down" /\ UNCHANGED server
          /\ pc' = [pc EXCEPT ![r] = "done"]
          /\ answer' = [answer EXCEPT ![r] = "superseded"]
          /\ Forget({r}) /\ UNCHANGED verification_generation
      BY <1>4, <2>1 DEF Admit, At, Goto
    <3>2. ASSUME NEW v \in Verifies
          PROVE  /\ generation'[v] <= verification_generation
                 /\ AnswerPending(v)' => answer'[v] = "none"
                 /\ pc'[v] \in {"clear", "done"} => answer'[v] # "none"
                 /\ pc'[v] \in {"save", "decide"} => outcome'[v] \in Verdicts
      BY <3>1, <3>2 DEF Bookkeeping, TypeOK, Forget, AnswerPending
    <3>3. Interrupted' => Interrupted
      BY <3>1 DEF Interrupted, Forget, TypeOK
    <3>4. QED
      BY <3>1, <3>2, <3>3 DEF Bookkeeping
  <2>2. CASE ~Obsolete(r)
    BY <1>4, <2>2 DEF Admit, At, Goto
  <2>3. QED
    BY <2>1, <2>2
<1>5. ASSUME NEW r \in Verifies, InstallToken(r)
      PROVE  Bookkeeping'
  BY <1>5 DEF InstallToken, At, Goto
<1>6. ASSUME NEW r \in Verifies, Recheck(r)
      PROVE  Bookkeeping'
  BY <1>6 DEF Recheck, At, Goto, Obsolete
<1>7. ASSUME NEW r \in Verifies, CancelledEarly(r)
      PROVE  Bookkeeping'
  BY <1>7 DEF CancelledEarly, At, Goto, LeaveWithoutRow
<1>8. ASSUME NEW r \in Verifies, CaptureBefore(r)
      PROVE  Bookkeeping'
  BY <1>8 DEF CaptureBefore, At, Goto
<1>9. ASSUME NEW r \in Verifies, CacheHit(r)
      PROVE  Bookkeeping'
  BY <1>9 DEF CacheHit, At, Goto, CacheUsable
<1>10. ASSUME NEW r \in Verifies, BeginRun(r)
      PROVE  Bookkeeping'
  BY <1>10 DEF BeginRun, At, Goto, SetRow, CacheUsable
<1>11. ASSUME NEW r \in Verifies, WorkerReads(r)
      PROVE  Bookkeeping'
  BY <1>11 DEF WorkerReads, At, Goto
<1>12. ASSUME NEW r \in Verifies, NEW left \in {"success", "failure", "noEvidence"}, WorkerExits(r, left)
      PROVE  Bookkeeping'
  BY <1>12 DEF WorkerExits, At, Goto
<1>13. ASSUME NEW r \in Verifies, CancelledWithRow(r)
      PROVE  Bookkeeping'
  BY <1>13 DEF CancelledWithRow, At, Goto, LeaveWithErrorRow, SetRow
<1>14. ASSUME NEW r \in Verifies, Ingest(r)
      PROVE  Bookkeeping'
  BY <1>14 DEF Ingest, At, Goto
<1>15. ASSUME NEW r \in Verifies, FinishRun(r)
      PROVE  Bookkeeping'
  BY <1>15 DEF FinishRun, At, Goto, SetRow, FinishedStatus, Desired
<1>16. ASSUME NEW r \in Verifies, SaveCache(r)
      PROVE  Bookkeeping'
  BY <1>16 DEF SaveCache, At, Goto, Cached
<1>17. ASSUME NEW r \in Verifies, Requeue(r)
      PROVE  Bookkeeping'
  BY <1>17 DEF Requeue, At, Goto
<1>18. ASSUME NEW r \in Verifies, Decide(r)
      PROVE  Bookkeeping'
  BY <1>18 DEF Decide, At, Goto, MayNotPublish, Obsolete
<1>19. ASSUME NEW r \in Verifies, Clear(r)
      PROVE  Bookkeeping'
  BY <1>19 DEF Clear, At, Goto, Forget
<1>20. ASSUME NEW r \in Verifies, StartFails(r)
      PROVE  Bookkeeping'
  BY <1>20 DEF StartFails, At, Goto, LeaveWithoutRow
<1>21. ASSUME NEW r \in Verifies, RequeueDiscoverFails(r)
      PROVE  Bookkeeping'
  BY <1>21 DEF RequeueDiscoverFails, At, Goto, Forget
<1>22. ASSUME NEW r \in Verifies, RunFails(r)
      PROVE  Bookkeeping'
  BY <1>22 DEF RunFails, At, Goto, LeaveWithErrorRow, SetRow
<1>23. ASSUME NEW r \in Verifies, SaveFails(r)
      PROVE  Bookkeeping'
  BY <1>23 DEF SaveFails, At, Goto, Cached
<1>24. ASSUME NEW c \in Cancels, CancelBump(c)
      PROVE  Bookkeeping'
  BY <1>24 DEF CancelBump, At, Goto
<1>25. ASSUME NEW c \in Cancels, NEW isStop \in BOOLEAN, CancelToken(c, isStop)
      PROVE  Bookkeeping'
  BY <1>25 DEF CancelToken, At, Goto, CancelActive
<1>26. ASSUME NEW c \in Cancels, StopFlag(c)
      PROVE  Bookkeeping'
  BY <1>26 DEF StopFlag, At, Goto
<1>27. ASSUME ServeBump
      PROVE  Bookkeeping'
  BY <1>27 DEF ServeBump
<1>28. ASSUME ServeCancel
      PROVE  Bookkeeping'
  BY <1>28 DEF ServeCancel, CancelActive
<1>29. ASSUME Exit
      PROVE  Bookkeeping'
  BY <1>29 DEF Exit, ProcessEnds, Forget
<1>30. ASSUME Crash
      PROVE  Bookkeeping'
  BY <1>30 DEF Crash, ProcessEnds, Forget
<1>31. ASSUME Restart
      PROVE  Bookkeeping'
  BY <1>31 DEF Restart, Recovered
<1>32. ASSUME Edit
      PROVE  Bookkeeping'
  BY <1>32 DEF Edit
<1>33. CASE UNCHANGED vars
  BY <1>33 DEF vars
<1> HIDE DEF daemonVars, attemptVars, storeVars, TypeOK, Requests, Bookkeeping, Interrupted, AnswerPending, Verdicts, InGate, Installed, Verifying
<1>34. QED
  BY <1>1, <1>2, <1>3, <1>4, <1>5, <1>6, <1>7, <1>8, <1>9, <1>10, <1>11, <1>12, <1>13,
     <1>14, <1>15, <1>16, <1>17, <1>18, <1>19, <1>20, <1>21, <1>22, <1>23, <1>24, <1>25,
     <1>26, <1>27, <1>28, <1>29, <1>30, <1>31, <1>32, <1>33
     DEF Next, Progress, Failure, CancelStep, ServerStep

\* A step that fixes the answer of a waiting request, and moves no other, answers it.
LEMMA AnswerStep ==
    ASSUME TypeOK, Bookkeeping, NEW r \in Verifies, NEW a \in Verdicts \cup {"superseded", "internal"},
           server # "down", AnswerPending(r), pc[r] # "idle",
           a \in Verdicts => ~Obsolete(r),
           a = "superseded" => verification_generation > 0,
           answer' = [answer EXCEPT ![r] = a],
           pc' = [pc EXCEPT ![r] = "clear"] \/ pc' = [pc EXCEPT ![r] = "done"],
           \A v \in Verifies \ {r} : generation'[v] = generation[v],
           UNCHANGED <<verification_generation, server>>
    PROVE  Service!Next
<1> USE DEF TypeOK, Requests, AnswerPending
<1>1. a # "none"
  BY DEF Verdicts
<1>2. pc[r] \notin {"idle", "done", "dropped", "clear"} /\ answer[r] = "none"
  BY DEF Bookkeeping, InGate, Installed, Verifying
<1>3. Service!Waiting(r)
  BY <1>2 DEF Service!Waiting, servicePhase
<1>4. serviceReply' = [serviceReply EXCEPT ![r] = a]
  BY DEF serviceReply
<1>5. servicePhase' = [servicePhase EXCEPT ![r] = "answered"]
  BY <1>1, <1>2 DEF servicePhase
<1>6. serviceOvertaken' = [serviceOvertaken EXCEPT ![r] = FALSE]
  BY <1>1, <1>2 DEF serviceOvertaken, Obsolete
<1>7. a \in Verdicts => ~serviceOvertaken[r]
  BY DEF serviceOvertaken
<1>8. Service!Answer(r)
  BY <1>3, <1>4, <1>5, <1>6, <1>7 DEF Service!Answer
<1>9. QED
  BY <1>8 DEF Service!Next

\* A bump of the generation overtakes every request that waits.
LEMMA BumpOvertakes ==
    ASSUME TypeOK, Bookkeeping, NEW v \in Verifies,
           verification_generation' = verification_generation + 1,
           pc'[v] = pc[v], answer'[v] = answer[v], generation'[v] = generation[v]
    PROVE  serviceOvertaken'[v] = (serviceOvertaken[v] \/ servicePhase[v] = "waiting")
<1>1. generation[v] # verification_generation + 1
  BY DEF TypeOK, Bookkeeping
<1>2. pc[v] = "done" => answer[v] # "none"
  BY DEF Bookkeeping
<1>3. QED
  BY <1>1, <1>2 DEF serviceOvertaken, servicePhase, Obsolete

\* A cancel's or the server's own bump interrupts the service.
LEMMA InterruptStep ==
    ASSUME TypeOK, Bookkeeping, server # "down", server' # "down",
           verification_generation' = verification_generation + 1,
           \A v \in Verifies : pc'[v] = pc[v], UNCHANGED <<answer, generation>>
    PROVE  Service!Next
<1>1. \A v \in Verifies :
        serviceOvertaken'[v] = (serviceOvertaken[v] \/ servicePhase[v] = "waiting")
  BY BumpOvertakes
<1>2. serviceOvertaken' =
        [v \in Verifies |-> serviceOvertaken[v] \/ servicePhase[v] = "waiting"]
  BY <1>1 DEF serviceOvertaken
<1>3. (verification_generation > 0)' = TRUE
  BY DEF TypeOK
<1>4. UNCHANGED <<servicePhase, serviceReply>>
  BY DEF servicePhase, serviceReply
<1>5. Service!Interrupt
  BY <1>2, <1>3, <1>4 DEF Service!Interrupt, Service!Overtake
<1>6. QED
  BY <1>5 DEF Service!Next

\* When the process ends, waiting requests are lost.
LEMMA DownStep ==
    ASSUME TypeOK, Bookkeeping, server # "down", ProcessEnds
    PROVE  Service!Next
<1> USE DEF TypeOK, Requests, ProcessEnds, Forget
<1>1. servicePhase' =
        [r \in Verifies |-> IF servicePhase[r] = "waiting" THEN "lost" ELSE servicePhase[r]]
  BY DEF servicePhase, Bookkeeping
<1>2. serviceOvertaken' = [r \in Verifies |-> FALSE]
  BY DEF serviceOvertaken
<1>3. UNCHANGED serviceReply
  BY DEF serviceReply
<1>4. (verification_generation > 0)' = FALSE
  OBVIOUS
<1>5. Service!GoDown
  BY <1>1, <1>2, <1>3, <1>4 DEF Service!GoDown
<1>6. QED
  BY <1>5 DEF Service!Next

\* Every step of the daemon is a step of the service, or none of its variables
\* changes.
LEMMA ServiceStep ==
    ASSUME TypeOK, Bookkeeping, [Next]_vars
    PROVE  [Service!Next]_(Service!vars)
<1> USE ConstantsAssumption DEF daemonVars, attemptVars, storeVars, TypeOK, Requests, Bookkeeping, Interrupted, AnswerPending, Verdicts, Obsolete, servicePhase, serviceOvertaken, serviceReply, Service!vars, InGate, Installed, Verifying
<1>1. ASSUME NEW r \in Verifies, NEW supersede \in BOOLEAN, Arrive(r, supersede)
      PROVE  [Service!Next]_(Service!vars)
  <2> HIDE DEF servicePhase, serviceOvertaken, serviceReply, Obsolete, Bookkeeping
  <2>1. /\ server # "down" /\ server' # "down"
        /\ servicePhase[r] = "new"
        /\ servicePhase' = [servicePhase EXCEPT ![r] = "waiting"]
        /\ UNCHANGED serviceReply
    BY <1>1 DEF Arrive, At, Goto, servicePhase, serviceReply, Bookkeeping
  <2>2. ~serviceOvertaken[r] /\ ~serviceOvertaken'[r]
    BY <1>1 DEF Arrive, At, Goto, serviceOvertaken, Obsolete
  <2>3. CASE supersede
    <3>1. verification_generation' = verification_generation + 1
      BY <1>1, <2>3 DEF Arrive
    <3>2. \A v \in Verifies \ {r} : 
            serviceOvertaken'[v] = (serviceOvertaken[v] \/ servicePhase[v] = "waiting")
      BY <1>1, <3>1, BumpOvertakes DEF Arrive, Goto
    <3>3. serviceOvertaken' =
            [v \in Verifies |-> serviceOvertaken[v] \/ servicePhase[v] = "waiting"]
      BY <2>1, <2>2, <3>2 DEF serviceOvertaken
    <3>4. (verification_generation > 0)' = TRUE
      BY <3>1
    <3>5. Service!SubmitSuperseding(r)
      BY <2>1, <3>3, <3>4 DEF Service!SubmitSuperseding, Service!Overtake
    <3>6. QED
      BY <3>5 DEF Service!Next
  <2>4. CASE ~supersede
    <3>1. UNCHANGED verification_generation
      BY <1>1, <2>4 DEF Arrive
    <3>2. \A v \in Verifies \ {r} : serviceOvertaken'[v] = serviceOvertaken[v]
      BY <1>1, <3>1 DEF Arrive, Goto, serviceOvertaken, Obsolete
    <3>3. UNCHANGED serviceOvertaken
      BY <2>2, <3>2 DEF serviceOvertaken
    <3>4. Service!Submit(r)
      BY <2>1, <3>1, <3>3 DEF Service!Submit
    <3>5. QED
      BY <3>4 DEF Service!Next
  <2>5. QED
    BY <2>3, <2>4
<1>2. ASSUME NEW r \in Verifies, CancelOlder(r)
      PROVE  [Service!Next]_(Service!vars)
  BY <1>2 DEF CancelOlder, At, Goto, CancelActive
<1>3. ASSUME NEW r \in Verifies, LockGate(r)
      PROVE  [Service!Next]_(Service!vars)
  BY <1>3 DEF LockGate, At, Goto
<1>4. ASSUME NEW r \in Verifies, Admit(r)
      PROVE  [Service!Next]_(Service!vars)
  <2>1. CASE Obsolete(r)
    <3>1. verification_generation > 0
      BY <2>1
    <3>2. /\ AnswerPending(r) /\ pc[r] # "idle" /\ server # "down"
          /\ pc' = [pc EXCEPT ![r] = "done"]
          /\ answer' = [answer EXCEPT ![r] = "superseded"]
          /\ UNCHANGED <<verification_generation, server>>
          /\ Forget({r})
      BY <1>4, <2>1 DEF Admit, At, Goto
    <3>3. \A v \in Verifies \ {r} : generation'[v] = generation[v]
      BY <3>2 DEF Forget
    <3>4. Service!Next
      <4> HIDE DEF TypeOK, Bookkeeping, AnswerPending, Obsolete
      <4> QED
        BY <3>1, <3>2, <3>3, AnswerStep
    <3>5. QED
      BY <3>4
  <2>2. CASE ~Obsolete(r)
    BY <1>4, <2>2 DEF Admit, At, Goto
  <2>3. QED
    BY <2>1, <2>2
<1>5. ASSUME NEW r \in Verifies, InstallToken(r)
      PROVE  [Service!Next]_(Service!vars)
  BY <1>5 DEF InstallToken, At, Goto
<1>6. ASSUME NEW r \in Verifies, Recheck(r)
      PROVE  [Service!Next]_(Service!vars)
  BY <1>6 DEF Recheck, At, Goto, Obsolete
<1>7. ASSUME NEW r \in Verifies, CancelledEarly(r)
      PROVE  [Service!Next]_(Service!vars)
  BY <1>7, AnswerStep DEF CancelledEarly, At, Goto, LeaveWithoutRow
<1>8. ASSUME NEW r \in Verifies, CaptureBefore(r)
      PROVE  [Service!Next]_(Service!vars)
  BY <1>8 DEF CaptureBefore, At, Goto
<1>9. ASSUME NEW r \in Verifies, CacheHit(r)
      PROVE  [Service!Next]_(Service!vars)
  BY <1>9 DEF CacheHit, At, Goto, CacheUsable
<1>10. ASSUME NEW r \in Verifies, BeginRun(r)
      PROVE  [Service!Next]_(Service!vars)
  BY <1>10 DEF BeginRun, At, Goto, SetRow, CacheUsable
<1>11. ASSUME NEW r \in Verifies, WorkerReads(r)
      PROVE  [Service!Next]_(Service!vars)
  BY <1>11 DEF WorkerReads, At, Goto
<1>12. ASSUME NEW r \in Verifies, NEW left \in {"success", "failure", "noEvidence"}, WorkerExits(r, left)
      PROVE  [Service!Next]_(Service!vars)
  BY <1>12 DEF WorkerExits, At, Goto
<1>13. ASSUME NEW r \in Verifies, CancelledWithRow(r)
      PROVE  [Service!Next]_(Service!vars)
  BY <1>13, AnswerStep DEF CancelledWithRow, At, Goto, LeaveWithErrorRow
<1>14. ASSUME NEW r \in Verifies, Ingest(r)
      PROVE  [Service!Next]_(Service!vars)
  BY <1>14 DEF Ingest, At, Goto
<1>15. ASSUME NEW r \in Verifies, FinishRun(r)
      PROVE  [Service!Next]_(Service!vars)
  BY <1>15 DEF FinishRun, At, Goto, SetRow, FinishedStatus, Desired
<1>16. ASSUME NEW r \in Verifies, SaveCache(r)
      PROVE  [Service!Next]_(Service!vars)
  BY <1>16 DEF SaveCache, At, Goto, Cached
<1>17. ASSUME NEW r \in Verifies, Requeue(r)
      PROVE  [Service!Next]_(Service!vars)
  BY <1>17 DEF Requeue, At, Goto
<1>18. ASSUME NEW r \in Verifies, Decide(r)
      PROVE  [Service!Next]_(Service!vars)
  <2>1. CASE MayNotPublish(r)
    <3>1. verification_generation > 0
      BY <2>1 DEF MayNotPublish
    <3>2. QED
      BY <1>18, <2>1, <3>1, AnswerStep DEF Decide, At, Goto
  <2>2. CASE ~MayNotPublish(r)
    BY <1>18, <2>2, AnswerStep DEF Decide, At, Goto, MayNotPublish
  <2>3. QED
    BY <2>1, <2>2
<1>19. ASSUME NEW r \in Verifies, Clear(r)
      PROVE  [Service!Next]_(Service!vars)
  BY <1>19 DEF Clear, At, Goto, Forget
<1>20. ASSUME NEW r \in Verifies, StartFails(r)
      PROVE  [Service!Next]_(Service!vars)
  BY <1>20, AnswerStep DEF StartFails, At, Goto, LeaveWithoutRow
<1>21. ASSUME NEW r \in Verifies, RequeueDiscoverFails(r)
      PROVE  [Service!Next]_(Service!vars)
  BY <1>21, AnswerStep DEF RequeueDiscoverFails, At, Goto, Forget
<1>22. ASSUME NEW r \in Verifies, RunFails(r)
      PROVE  [Service!Next]_(Service!vars)
  BY <1>22, AnswerStep DEF RunFails, At, Goto, LeaveWithErrorRow
<1>23. ASSUME NEW r \in Verifies, SaveFails(r)
      PROVE  [Service!Next]_(Service!vars)
  BY <1>23, AnswerStep DEF SaveFails, At, Goto
<1>24. ASSUME NEW c \in Cancels, CancelBump(c)
      PROVE  [Service!Next]_(Service!vars)
  BY <1>24, InterruptStep DEF CancelBump, At, Goto
<1>25. ASSUME NEW c \in Cancels, NEW isStop \in BOOLEAN, CancelToken(c, isStop)
      PROVE  [Service!Next]_(Service!vars)
  BY <1>25 DEF CancelToken, At, Goto, CancelActive
<1>26. ASSUME NEW c \in Cancels, StopFlag(c)
      PROVE  [Service!Next]_(Service!vars)
  BY <1>26 DEF StopFlag, At, Goto
<1>27. ASSUME ServeBump
      PROVE  [Service!Next]_(Service!vars)
  BY <1>27, InterruptStep DEF ServeBump
<1>28. ASSUME ServeCancel
      PROVE  [Service!Next]_(Service!vars)
  BY <1>28 DEF ServeCancel, CancelActive
<1>29. ASSUME Exit
      PROVE  [Service!Next]_(Service!vars)
  BY <1>29, DownStep DEF Exit
<1>30. ASSUME Crash
      PROVE  [Service!Next]_(Service!vars)
  BY <1>30, DownStep DEF Crash
<1>31. ASSUME Restart
      PROVE  [Service!Next]_(Service!vars)
  <2>1. Service!ComeUp
    BY <1>31 DEF Restart, Service!ComeUp
  <2>2. QED
    BY <2>1 DEF Service!Next
<1>32. ASSUME Edit
      PROVE  [Service!Next]_(Service!vars)
  BY <1>32 DEF Edit
<1>33. CASE UNCHANGED vars
  BY <1>33 DEF vars
<1> HIDE DEF daemonVars, attemptVars, storeVars, TypeOK, Requests, Bookkeeping, Interrupted, AnswerPending, Verdicts, Obsolete, servicePhase, serviceOvertaken, serviceReply, Service!vars, InGate, Installed, Verifying
<1>34. QED
  BY <1>1, <1>2, <1>3, <1>4, <1>5, <1>6, <1>7, <1>8, <1>9, <1>10, <1>11, <1>12, <1>13,
     <1>14, <1>15, <1>16, <1>17, <1>18, <1>19, <1>20, <1>21, <1>22, <1>23, <1>24, <1>25,
     <1>26, <1>27, <1>28, <1>29, <1>30, <1>31, <1>32, <1>33
     DEF Next, Progress, Failure, CancelStep, ServerStep

\* The daemon starts as the service does.
LEMMA InitService == Init => Bookkeeping /\ Service!Init
<1> SUFFICES ASSUME Init PROVE Bookkeeping /\ Service!Init
  OBVIOUS
<1> USE DEF Init, Requests
<1>1. Bookkeeping
  BY DEF Bookkeeping, Interrupted, AnswerPending, InGate
<1>2. servicePhase = [r \in Verifies |-> "new"]
  BY DEF servicePhase
<1>3. serviceOvertaken = [r \in Verifies |-> FALSE]
  BY DEF serviceOvertaken
<1>4. serviceReply = [r \in Verifies |-> "none"]
  BY DEF serviceReply
<1>5. QED
  BY <1>1, <1>2, <1>3, <1>4 DEF Service!Init

\* However the threads of Daemon::verify, cancel and stop interleave, clients see the
\* service: a request that was overtaken before its last check is never answered with
\* an outcome, and none is answered superseded by a daemon nobody interrupted.
THEOREM Refinement == Spec => ImplementsService
<1>1. TypeOK /\ Bookkeeping /\ [Next]_vars => Bookkeeping'
  BY BookStep
<1>2. Spec => []Bookkeeping
  BY <1>1, InitService, TypeCorrect, PTL DEF Spec
<1>3. TypeOK /\ Bookkeeping /\ [Next]_vars => [Service!Next]_(Service!vars)
  BY ServiceStep
<1>4. Spec => Service!Spec
  BY <1>2, <1>3, InitService, TypeCorrect, PTL DEF Spec, Service!Spec
<1>5. QED
  BY <1>4 DEF ImplementsService
=============================================================================

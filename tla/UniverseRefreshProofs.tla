------------------------ MODULE UniverseRefreshProofs ------------------------
(***************************************************************************)
(* Theorems about UniverseRefresh, for every number of jobs, symbols and   *)
(* membership tables.                                                      *)
(***************************************************************************)
EXTENDS UniverseRefresh, FiniteSetTheorems, TLAPS

\* A set of symbols has a number of elements (Counts, PermitFree, Share).
LEMMA SymbolSets ==
    ASSUME NEW S \in SUBSET Symbols
    PROVE  IsFiniteSet(S) /\ Cardinality(S) \in Nat
  BY UniverseAssumption, FS_Subset, FS_CardinalityType

LEMMA CountsType ==
    ASSUME NEW items
    PROVE  Counts(items) \in [ClosedItem -> Nat]
<1>1. ASSUME NEW status \in ClosedItem
      PROVE  Cardinality({s \in Symbols : items[s] = status}) \in Nat
  BY SymbolSets
<1>. QED  BY <1>1 DEF Counts

LEMMA ShareType ==
    ASSUME NEW n \in Nat, NEW total \in Nat
    PROVE  Share(n, total) \in Int
<1>. DEFINE d == IF total = 0 THEN 1 ELSE total
<1>1. d \in Nat \ {0} /\ n * Whole \in Nat
  BY WholeAssumption
<1>2. (n * Whole) \div d \in Int
  BY <1>1
<1>. QED  BY <1>2 DEF Share

\* The functions of the job store keep a row a row.
LEMMA RowType ==
    ASSUME NEW row \in JobRow
    PROVE  /\ \A p \in Int : WithProgress(row, p) \in JobRow
           /\ \A status \in FinalStatus : WithResult(row, status) \in JobRow
           /\ \A b \in BOOLEAN : WithError(row, b) \in JobRow
           /\ CancelRequested(row) \in JobRow
<1>1. ASSUME NEW p \in Int
      PROVE  WithProgress(row, p) \in JobRow
  <2>1. Clamp(p) \in 0 .. Whole
    BY WholeAssumption DEF Clamp
  <2>. QED  BY <2>1 DEF WithProgress, JobRow
<1>2. ASSUME NEW status \in FinalStatus
      PROVE  WithResult(row, status) \in JobRow
  <2>1. Whole \in 0 .. Whole /\ status \in JobStatus
    BY WholeAssumption DEF JobStatus
  <2>. QED  BY <2>1 DEF WithResult, JobRow
<1>3. ASSUME NEW b \in BOOLEAN
      PROVE  WithError(row, b) \in JobRow
  BY DEF WithError, JobRow, JobStatus, FinalStatus
<1>4. CancelRequested(row) \in JobRow
  BY DEF CancelRequested, JobRow
<1>. QED  BY <1>1, <1>2, <1>3, <1>4

LEMMA VerdictType ==
    ASSUME NEW items, NEW cancelled
    PROVE  /\ RunVerdict(items, cancelled) \in FinalRun
           /\ JobVerdict(RunVerdict(items, cancelled)) \in FinalStatus
<1>. DEFINE v == RunVerdict(items, cancelled)
<1>1. v \in FinalRun
  BY DEF RunVerdict, FinalRun
<1>2. JobVerdict(v) \in FinalStatus
  BY <1>1 DEF JobVerdict, FinalStatus, FinalRun
<1>. QED  BY <1>1, <1>2


-----------------------------------------------------------------------------
\* The steps that several actions share keep the types of what they assign.

LEMMA FailType ==
    ASSUME TypeOK, NEW j \in Jobs, Fail(j)
    PROVE  /\ job' \in [Jobs -> JobRow]
           /\ pc' \in [Jobs -> Position]
<1>1. job[j] \in JobRow
  BY DEF TypeOK
<1>2. \A b \in BOOLEAN : WithError(job[j], b) \in JobRow
  BY <1>1, RowType
<1>3. job' \in [Jobs -> JobRow]
  BY <1>2 DEF TypeOK, Fail
<1>4. pc' \in [Jobs -> Position]
  BY DEF TypeOK, Fail, Position
<1>. QED  BY <1>3, <1>4

LEMMA OpenType ==
    ASSUME TypeOK, NEW j \in Jobs, NEW version \in Nat, NEW content \in Contents,
           Open(j, version, content), versions' \in Seq(Contents)
    PROVE  TypeOK'
<1>1. Members[content] \in SUBSET Symbols
  BY UniverseAssumption
<1>2. snapshot' \in [Jobs -> Nat] /\ constituents' \in [Jobs -> SUBSET Symbols]
  BY <1>1 DEF TypeOK, Open
<1>3. run' \in [Jobs -> [status : RunStatus, counts : [ClosedItem -> Nat]]]
  <2>1. run \in [Jobs -> [status : RunStatus, counts : [ClosedItem -> Nat]]]
    BY DEF TypeOK
  <2>2. run' = [run EXCEPT ![j] = [run[j] EXCEPT !.status = "running"]]
    BY <2>1 DEF Open
  <2>3. [run[j] EXCEPT !.status = "running"]
            \in [status : RunStatus, counts : [ClosedItem -> Nat]]
    BY <2>1 DEF RunStatus
  <2>. QED  BY <2>1, <2>2, <2>3
<1>4. item' \in [Jobs -> [Symbols -> ItemStatus]]
  BY DEF TypeOK, Open, ItemStatus, OpenItem
<1>5. pc' \in [Jobs -> Position]
  BY DEF TypeOK, Open, Position, Live
<1>. QED  BY <1>2, <1>3, <1>4, <1>5 DEF TypeOK, Open

LEMMA CloseType ==
    ASSUME TypeOK, NEW j \in Jobs, NEW s \in Symbols, NEW status \in ItemStatus,
           Close(j, s, status),
           cache' \in [Symbols -> CacheRow],
           history' \in SUBSET Symbols, facts' \in SUBSET Symbols, crashes' = crashes
    PROVE  TypeOK'
<1>1. item' \in [Jobs -> [Symbols -> ItemStatus]]
  BY DEF TypeOK, Close
<1>2. task' \in [Jobs -> [Symbols -> TaskPosition]]
  BY DEF TypeOK, Close, TaskPosition
<1>3. completed' \in [Jobs -> Nat]
  BY DEF TypeOK, Close
<1>4. job' \in [Jobs -> JobRow]
  <2>. DEFINE share == Share(completed[j] + 1, Cardinality(constituents[j]))
  <2>1. constituents[j] \in SUBSET Symbols /\ completed[j] + 1 \in Nat
        /\ job[j] \in JobRow
    BY DEF TypeOK
  <2>2. share \in Int
    BY <2>1, SymbolSets, ShareType
  <2>3. WithProgress(job[j], share) \in JobRow
    BY <2>1, <2>2, RowType
  <2>. QED  BY <2>3 DEF TypeOK, Close
<1>. QED  BY <1>1, <1>2, <1>3, <1>4 DEF TypeOK, Close

LEMMA PersistType ==
    ASSUME TypeOK, NEW j \in Jobs, NEW s \in Symbols, NEW f \in Fetched, NEW n,
           Persist(j, s, f, n)
    PROVE  /\ cache' \in [Symbols -> CacheRow]
           /\ history' \in SUBSET Symbols
           /\ facts' \in SUBSET Symbols
           /\ ItemVerdict(s, f) \in CachedItem
<1>1. ItemVerdict(s, f) \in CachedItem
  BY DEF ItemVerdict, CachedItem
<1>2. Record(j, s, f) \in CacheRow
  BY <1>1 DEF Record, CacheRow, Age, TypeOK
<1>. QED  BY <1>1, <1>2 DEF Persist, TypeOK

LEMMA WriteRunType ==
    ASSUME TypeOK, NEW j \in Jobs, NEW n, WriteRun(j, n)
    PROVE  /\ item' \in [Jobs -> [Symbols -> ItemStatus]]
           /\ run' \in [Jobs -> [status : RunStatus, counts : [ClosedItem -> Nat]]]
<1>. DEFINE closed == Reconciled(item[j])
<1>1. closed \in [Symbols -> ItemStatus]
  BY DEF Reconciled, TypeOK, ItemStatus, ClosedItem, CachedItem
<1>2. RunVerdict(closed, Cancelled(j)) \in RunStatus /\ Counts(closed) \in [ClosedItem -> Nat]
  BY VerdictType, CountsType DEF RunStatus
<1>. HIDE DEF closed
<1>3. /\ item' = IF n >= 1 THEN [item EXCEPT ![j] = closed] ELSE item
      /\ run' = IF n >= 2
                THEN [run EXCEPT ![j] = [status |-> RunVerdict(closed, Cancelled(j)),
                                         counts |-> Counts(closed)]]
                ELSE run
  BY DEF WriteRun, closed
<1>. QED  BY <1>1, <1>2, <1>3 DEF TypeOK

LEMMA LoseType ==
    ASSUME TypeOK, LoseCoroutines,
           run' \in [Jobs -> [status : RunStatus, counts : [ClosedItem -> Nat]]],
           item' \in [Jobs -> [Symbols -> ItemStatus]],
           cache' \in [Symbols -> CacheRow],
           history' \in SUBSET Symbols, facts' \in SUBSET Symbols
    PROVE  TypeOK'
<1>1. crashes' \in 0 .. MaxCrashes
  BY UniverseAssumption DEF TypeOK, LoseCoroutines
<1>2. pc' \in [Jobs -> Position]
  BY DEF TypeOK, LoseCoroutines, Position
<1>3. task' \in [Jobs -> [Symbols -> TaskPosition]]
  BY DEF TypeOK, LoseCoroutines, TaskPosition
<1>. QED  BY <1>1, <1>2, <1>3 DEF TypeOK, LoseCoroutines


\* ReuseLatest and SaveSnapshot end in Open on a stored version, or in Fail.
LEMMA ReuseType ==
    ASSUME TypeOK, NEW j \in Jobs, ReuseLatest(j)
    PROVE  TypeOK'
<1>1. CASE versions # <<>> /\ Open(j, Len(versions), versions[Len(versions)])
  <2>1. versions \in Seq(Contents) /\ versions' \in Seq(Contents)
    BY DEF TypeOK, ReuseLatest
  <2>2. Len(versions) \in Nat /\ versions[Len(versions)] \in Contents
    BY <1>1, <2>1
  <2>. QED  BY <1>1, <2>1, <2>2, OpenType
<1>2. CASE versions = <<>> /\ Fail(j)
           /\ UNCHANGED <<run, item, cache, history, facts, command, snapshot,
                          constituents, task, completed, crashes>>
  <2>1. job' \in [Jobs -> JobRow] /\ pc' \in [Jobs -> Position]
    BY <1>2, FailType
  <2>. QED  BY <1>2, <2>1 DEF TypeOK, ReuseLatest
<1>. QED  BY <1>1, <1>2 DEF ReuseLatest

LEMMA SaveType ==
    ASSUME TypeOK, NEW j \in Jobs, NEW content \in Contents, SaveSnapshot(j, content)
    PROVE  TypeOK'
<1>0. versions \in Seq(Contents)
  BY DEF TypeOK
<1>1. CASE \E v \in DOMAIN versions : versions[v] = content
  <2>1. PICK v \in DOMAIN versions : versions[v] = content /\ Open(j, v, content)
    BY <1>1 DEF SaveSnapshot
  <2>2. v \in Nat /\ versions' \in Seq(Contents)
    BY <1>0, <1>1, <2>1 DEF SaveSnapshot
  <2>. QED  BY <2>1, <2>2, OpenType
<1>2. CASE ~ \E v \in DOMAIN versions : versions[v] = content
  <2>1. Open(j, Len(versions) + 1, content) /\ versions' = Append(versions, content)
    BY <1>2 DEF SaveSnapshot
  <2>2. Len(versions) + 1 \in Nat /\ versions' \in Seq(Contents)
    BY <1>0, <2>1
  <2>. QED  BY <2>1, <2>2, OpenType
<1>. QED  BY <1>1, <1>2

\* A job's own steps up to and after its tasks.
LEMMA AdvanceType ==
    ASSUME TypeOK, NEW j \in Jobs, Advance(j)
    PROVE  TypeOK'
<1>1. CASE Begin(j)
  <2>1. CASE ReuseLatest(j)
    BY <2>1, ReuseType
  <2>2. CASE ~ReuseLatest(j)
    BY <1>1, <2>2 DEF Begin, TypeOK, Position, Live, rows, store
  <2>. QED  BY <2>1, <2>2
<1>2. CASE SnapshotAnswer(j)
  BY <1>2, ReuseType, SaveType DEF SnapshotAnswer
<1>3. CASE BenchmarkAnswer(j)
  BY <1>3 DEF BenchmarkAnswer, TypeOK, Position, Live, TaskPosition, rows, store
<1>4. CASE Raise(j)
  <2>1. job' \in [Jobs -> JobRow] /\ pc' \in [Jobs -> Position]
    BY <1>4, FailType DEF Raise
  <2>. QED  BY <1>4, <2>1 DEF Raise, TypeOK, store
<1>5. CASE Finish(j)
  <2>1. /\ item' \in [Jobs -> [Symbols -> ItemStatus]]
        /\ run' \in [Jobs -> [status : RunStatus, counts : [ClosedItem -> Nat]]]
    BY <1>5, WriteRunType DEF Finish
  <2>2. job' \in [Jobs -> JobRow]
    <3>1. run'[j].status = RunVerdict(Reconciled(item[j]), Cancelled(j))
      BY <1>5 DEF Finish, WriteRun, TypeOK
    <3>2. JobVerdict(run'[j].status) \in FinalStatus
      BY <3>1, VerdictType
    <3>3. WithResult(job[j], JobVerdict(run'[j].status)) \in JobRow
      BY <3>2, RowType DEF TypeOK
    <3>. QED  BY <1>5, <3>3 DEF Finish, TypeOK
  <2>3. pc' \in [Jobs -> Position]
    BY <1>5 DEF Finish, TypeOK, Position
  <2>. QED  BY <1>5, <2>1, <2>2, <2>3 DEF Finish, TypeOK, store
<1>6. CASE FinishRaises(j)
  <2>1. job' \in [Jobs -> JobRow] /\ pc' \in [Jobs -> Position]
    BY <1>6, FailType DEF FinishRaises
  <2>2. /\ item' \in [Jobs -> [Symbols -> ItemStatus]]
        /\ run' \in [Jobs -> [status : RunStatus, counts : [ClosedItem -> Nat]]]
    BY <1>6, WriteRunType DEF FinishRaises
  <2>. QED  BY <1>6, <2>1, <2>2 DEF FinishRaises, TypeOK, store
<1>. QED  BY <1>1, <1>2, <1>3, <1>4, <1>5, <1>6 DEF Advance

\* The steps of the task of one constituent.
LEMMA ProcessType ==
    ASSUME TypeOK, NEW j \in Jobs, NEW s \in Symbols, Process(j, s)
    PROVE  TypeOK'
<1>. USE DEF ItemStatus, ClosedItem, CachedItem, OpenItem
<1>01. /\ item[j][s] \in ItemStatus /\ snapshot[j] \in Nat
       /\ history \in SUBSET Symbols /\ facts \in SUBSET Symbols
       /\ cache \in [Symbols -> CacheRow]
  BY DEF TypeOK
<1>02. [cache EXCEPT ![s].version = snapshot[j]] \in [Symbols -> CacheRow]
  BY <1>01 DEF CacheRow
<1>1. CASE CancelBeforeStart(j, s)
  BY <1>01, <1>02, <1>1, CloseType DEF CancelBeforeStart
<1>2. CASE Skip(j, s)
  BY <1>01, <1>02, <1>2, CloseType DEF Skip
<1>3. CASE Start(j, s)
  BY <1>3 DEF Start, TypeOK, TaskPosition, store
<1>4. CASE Admit(j, s)
  BY <1>4 DEF Admit, TypeOK, TaskPosition, rows, store
<1>5. CASE CancelAfterDownload(j, s)
  BY <1>01, <1>02, <1>5, CloseType DEF CancelAfterDownload
<1>6. CASE Store(j, s)
  <2>1. PICK f \in Fetched : Persist(j, s, f, Len(Writes)) /\ Close(j, s, ItemVerdict(s, f))
    BY <1>6 DEF Store
  <2>. QED  BY <1>6, <2>1, PersistType, CloseType DEF Store
<1>7. CASE StoreRaises(j, s)
  <2>1. PICK f \in Fetched, n \in 0 .. Len(Writes) : Persist(j, s, f, n)
    BY <1>7 DEF StoreRaises
  <2>2. PICK status \in {"failed", item[j][s]} : Close(j, s, status)
    BY <1>7 DEF StoreRaises
  <2>. QED  BY <1>01, <1>02, <1>7, <2>1, <2>2, PersistType, CloseType DEF StoreRaises
<1>8. CASE SkipRaises(j, s)
  BY <1>01, <1>02, <1>8, CloseType DEF SkipRaises
<1>9. CASE ProcessRaises(j, s)
  BY <1>01, <1>02, <1>9, CloseType DEF ProcessRaises
<1>. QED  BY <1>1, <1>2, <1>3, <1>4, <1>5, <1>6, <1>7, <1>8, <1>9 DEF Process

LEMMA TypeNext == TypeOK /\ [Next]_vars => TypeOK'
<1>. SUFFICES ASSUME TypeOK, [Next]_vars
              PROVE  TypeOK'
  OBVIOUS
<1>1. ASSUME NEW j \in Jobs, Post(j)
      PROVE  TypeOK'
  <2>1. NewRow \in JobRow
    <3>1. AbsentRow \in JobRow /\ "running" \in JobStatus
      BY WholeAssumption DEF AbsentRow, JobRow, JobStatus
    <3>. QED  BY <3>1 DEF NewRow, JobRow
  <2>. QED  BY <1>1, <2>1, UniverseAssumption
            DEF Post, TypeOK, Position, Live, store
<1>2. ASSUME NEW j \in Jobs, Cancel(j)
      PROVE  TypeOK'
  BY <1>2, RowType DEF Cancel, TypeOK, store, locals
<1>3. ASSUME NEW j \in Jobs, CrashWhileFinishing(j)
      PROVE  TypeOK'
  BY <1>3, WriteRunType, LoseType DEF CrashWhileFinishing, TypeOK
<1>4. ASSUME NEW j \in Jobs, NEW s \in Symbols, CrashWhileStoring(j, s)
      PROVE  TypeOK'
  BY <1>4, PersistType, LoseType DEF CrashWhileStoring, TypeOK
<1>5. ASSUME NEW s \in Symbols, Expire(s)
      PROVE  TypeOK'
  BY <1>5 DEF Expire, TypeOK, CacheRow, Age, rows, locals
<1>6. CASE Crash
  BY <1>6, LoseType DEF Crash, TypeOK
<1>7. CASE UNCHANGED vars
  BY <1>7 DEF TypeOK, vars, rows, store, locals
<1>. QED  BY <1>1, <1>2, <1>3, <1>4, <1>5, <1>6, <1>7, AdvanceType, ProcessType DEF Next

LEMMA TypeInit == Init => TypeOK
<1>. SUFFICES ASSUME Init
              PROVE  TypeOK
  OBVIOUS
<1>1. AbsentRow \in JobRow
  BY WholeAssumption DEF AbsentRow, JobRow, JobStatus
<1>2. NoRun \in [status : RunStatus, counts : [ClosedItem -> Nat]]
  BY DEF NoRun, NoCounts, RunStatus
<1>3. NoCache \in CacheRow
  BY DEF NoCache, CacheRow, Age
<1>4. crashes \in 0 .. MaxCrashes
  BY UniverseAssumption DEF Init
<1>. QED  BY <1>1, <1>2, <1>3, <1>4 DEF Init, TypeOK, ItemStatus, Position, TaskPosition

\* Every row, record and local of the refresh keeps its shape: the statuses
\* written by _process_constituent and refresh are those of the contracts, and
\* counts and progress stay numbers of the right range (Clamp in update_job).
THEOREM TypeCorrect == Spec => []TypeOK
  BY TypeInit, TypeNext, PTL DEF Spec


-----------------------------------------------------------------------------
\* Cancellation

LEMMA CancelNext == TypeOK /\ AcceptedCancelWins /\ [Next]_vars => AcceptedCancelWins'
<1>. SUFFICES ASSUME TypeOK, AcceptedCancelWins, [Next]_vars
              PROVE  AcceptedCancelWins'
  OBVIOUS
<1>. USE DEF AcceptedCancelWins
<1>0. job \in [Jobs -> JobRow]
  BY DEF TypeOK
<1>1. ASSUME NEW j \in Jobs, Post(j)
      PROVE  AcceptedCancelWins'
  BY <1>0, <1>1 DEF Post, NewRow, AbsentRow
<1>2. ASSUME NEW j \in Jobs, Cancel(j)
      PROVE  AcceptedCancelWins'
  <2>1. CancelRequested(job[j]).cancel => CancelRequested(job[j]).status # "completed"
    BY <1>0 DEF CancelRequested, JobRow
  <2>. QED  BY <1>0, <1>2, <2>1 DEF Cancel
<1>3. ASSUME NEW j \in Jobs, Fail(j)
      PROVE  AcceptedCancelWins'
  <2>1. PICK b \in BOOLEAN : job' = [job EXCEPT ![j] = WithError(@, b)]
    BY <1>3 DEF Fail
  <2>2. WithError(job[j], b).status # "completed"
    BY <1>0 DEF WithError, JobRow
  <2>. QED  BY <1>0, <2>1, <2>2
<1>4. ASSUME NEW j \in Jobs, Finish(j)
      PROVE  AcceptedCancelWins'
  <2>. DEFINE v == RunVerdict(Reconciled(item[j]), Cancelled(j))
  <2>1. run'[j].status = v
    BY <1>4 DEF Finish, WriteRun, TypeOK
  <2>2. Cancelled(j) => JobVerdict(v) = "cancelled"
    BY DEF RunVerdict, JobVerdict
  <2>3. /\ WithResult(job[j], JobVerdict(v)).status = JobVerdict(v)
        /\ WithResult(job[j], JobVerdict(v)).cancel = Cancelled(j)
    BY <1>0 DEF WithResult, JobRow, Cancelled
  <2>4. job' = [job EXCEPT ![j] = WithResult(@, JobVerdict(v))]
    BY <1>4, <2>1 DEF Finish
  <2>. HIDE DEF v
  <2>. QED  BY <1>0, <2>2, <2>3, <2>4
<1>5. ASSUME NEW j \in Jobs, NEW s \in Symbols, NEW status, Close(j, s, status)
      PROVE  AcceptedCancelWins'
  <2>1. PICK p : job' = [job EXCEPT ![j] = WithProgress(@, p)]
    BY <1>5 DEF Close
  <2>2. /\ WithProgress(job[j], p).status = job[j].status
        /\ WithProgress(job[j], p).cancel = job[j].cancel
    BY <1>0 DEF WithProgress, JobRow
  <2>. QED  BY <1>0, <2>1, <2>2
<1>6. ASSUME UNCHANGED job
      PROVE  AcceptedCancelWins'
  BY <1>6
<1>7. ASSUME NEW j \in Jobs, Advance(j)
      PROVE  AcceptedCancelWins'
  <2>1. Fail(j) \/ Finish(j) \/ UNCHANGED job
    BY <1>7 DEF Advance, Begin, SnapshotAnswer, BenchmarkAnswer, Raise, FinishRaises,
                ReuseLatest, SaveSnapshot, Open, rows
  <2>. QED  BY <2>1, <1>3, <1>4, <1>6
<1>8. ASSUME NEW j \in Jobs, NEW s \in Symbols, Process(j, s)
      PROVE  AcceptedCancelWins'
  <2>1. UNCHANGED job \/ \E status : Close(j, s, status)
    BY <1>8 DEF Process, CancelBeforeStart, Skip, Start, Admit, CancelAfterDownload,
                Store, StoreRaises, SkipRaises, ProcessRaises, rows
  <2>. QED  BY <2>1, <1>5, <1>6
<1>9. ASSUME \/ \E j \in Jobs : CrashWhileFinishing(j)
             \/ \E j \in Jobs, s \in Symbols : CrashWhileStoring(j, s)
             \/ \E s \in Symbols : Expire(s)
             \/ Crash
             \/ UNCHANGED vars
      PROVE  AcceptedCancelWins'
  <2>1. UNCHANGED job
    BY <1>9 DEF CrashWhileFinishing, CrashWhileStoring, Expire, Crash, LoseCoroutines,
                vars, rows
  <2>. QED  BY <2>1, <1>6
<1>. QED  BY <1>1, <1>2, <1>7, <1>8, <1>9 DEF Next

\* An accepted cancellation is never answered by a completed job, for any
\* number of jobs and companies: job_cancellation_requested is read once more
\* after gather (is_cancelled in refresh), in the step that writes the result.
THEOREM CancelWins == Spec => []AcceptedCancelWins
<1>1. Init => AcceptedCancelWins
  BY DEF Init, AcceptedCancelWins, AbsentRow
<1>. QED  BY <1>1, TypeCorrect, CancelNext, PTL DEF Spec

-----------------------------------------------------------------------------
\* Records and the data they stand for

LEMMA BackedNext == TypeOK /\ CompleteCacheIsBacked /\ [Next]_vars => CompleteCacheIsBacked'
<1>. SUFFICES ASSUME TypeOK, CompleteCacheIsBacked, [Next]_vars
              PROVE  CompleteCacheIsBacked'
  OBVIOUS
<1>. USE DEF CompleteCacheIsBacked
<1>0. cache \in [Symbols -> CacheRow]
  BY DEF TypeOK
<1>1. ASSUME NEW j \in Jobs, NEW s \in Symbols, NEW f \in Fetched, NEW n \in 0 .. Len(Writes),
             Persist(j, s, f, n)
      PROVE  CompleteCacheIsBacked'
  <2>1. ItemVerdict(s, f) = "completed" => f.history /\ f.facts
    BY DEF ItemVerdict
  <2>2. history \subseteq history' /\ facts \subseteq facts' /\ n \in Int
    BY <1>1 DEF Persist
  <2>3. Record(j, s, f).status = ItemVerdict(s, f)
    BY DEF Record
  <2>4. CASE n >= 3
    <3>1. cache' = [cache EXCEPT ![s] = Record(j, s, f)]
      BY <1>1, <2>4 DEF Persist
    <3>2. (f.history => s \in history') /\ (f.facts => s \in facts')
      BY <1>1, <2>2, <2>4 DEF Persist
    <3>. QED  BY <1>0, <2>1, <2>2, <2>3, <3>1, <3>2
  <2>5. CASE ~(n >= 3)
    <3>1. cache' = cache
      BY <1>1, <2>5 DEF Persist
    <3>. QED  BY <2>2, <3>1
  <2>. QED  BY <2>4, <2>5
<1>2. ASSUME NEW j \in Jobs, NEW s \in Symbols,
             cache' = [cache EXCEPT ![s].version = snapshot[j]],
             UNCHANGED <<history, facts>>
      PROVE  CompleteCacheIsBacked'
  BY <1>0, <1>2 DEF CacheRow
<1>3. ASSUME UNCHANGED <<cache, history, facts>>
      PROVE  CompleteCacheIsBacked'
  BY <1>3
<1>4. ASSUME NEW j \in Jobs, Advance(j)
      PROVE  CompleteCacheIsBacked'
  <2>1. UNCHANGED <<cache, history, facts>>
    BY <1>4 DEF Advance, Begin, SnapshotAnswer, BenchmarkAnswer, Raise, Finish, FinishRaises,
                ReuseLatest, SaveSnapshot, Open, store
  <2>. QED  BY <2>1, <1>3
<1>5. ASSUME NEW j \in Jobs, NEW s \in Symbols, Process(j, s)
      PROVE  CompleteCacheIsBacked'
  <2>1. \/ UNCHANGED <<cache, history, facts>>
        \/ cache' = [cache EXCEPT ![s].version = snapshot[j]] /\ UNCHANGED <<history, facts>>
        \/ \E f \in Fetched, n \in 0 .. Len(Writes) : Persist(j, s, f, n)
    BY <1>5 DEF Process, CancelBeforeStart, Skip, Start, Admit, CancelAfterDownload,
                Store, StoreRaises, SkipRaises, ProcessRaises, store, Writes
  <2>. QED  BY <2>1, <1>1, <1>2, <1>3
<1>6. ASSUME NEW j \in Jobs, NEW s \in Symbols, CrashWhileStoring(j, s)
      PROVE  CompleteCacheIsBacked'
  <2>1. \E f \in Fetched, n \in 0 .. Len(Writes) : Persist(j, s, f, n)
    BY <1>6 DEF CrashWhileStoring, Writes
  <2>. QED  BY <2>1, <1>1
<1>7. ASSUME NEW s \in Symbols, Expire(s)
      PROVE  CompleteCacheIsBacked'
  BY <1>0, <1>7 DEF Expire, CacheRow
<1>8. ASSUME \/ \E j \in Jobs : Post(j) \/ Cancel(j) \/ CrashWhileFinishing(j)
             \/ Crash
             \/ UNCHANGED vars
      PROVE  CompleteCacheIsBacked'
  <2>1. UNCHANGED <<cache, history, facts>>
    BY <1>8 DEF Post, Cancel, CrashWhileFinishing, Crash, LoseCoroutines, vars, store
  <2>. QED  BY <2>1, <1>3
<1>. QED  BY <1>4, <1>5, <1>6, <1>7, <1>8 DEF Next

\* The prices and facts of a complete record are stored, wherever a crash or an
\* exception cut the writes of _persist_item and however refreshes overlap.
THEOREM CacheBacked == Spec => []CompleteCacheIsBacked
<1>1. Init => CompleteCacheIsBacked
  BY DEF Init, CompleteCacheIsBacked, NoCache
<1>. QED  BY <1>1, TypeCorrect, BackedNext, PTL DEF Spec


-----------------------------------------------------------------------------
\* The inductive invariant RefreshInv, one part at a time.

LEMMA TasksNext == TypeOK /\ TasksFollowCoroutine /\ [Next]_vars => TasksFollowCoroutine'
<1>. SUFFICES ASSUME TypeOK, TasksFollowCoroutine, [Next]_vars
              PROVE  TasksFollowCoroutine'
  OBVIOUS
<1>. USE DEF TasksFollowCoroutine
<1>0. /\ pc \in [Jobs -> Position] /\ constituents \in [Jobs -> SUBSET Symbols]
      /\ task \in [Jobs -> [Symbols -> TaskPosition]]
  BY DEF TypeOK
<1>1. ASSUME NEW j \in Jobs, Post(j)
      PROVE  TasksFollowCoroutine'
  BY <1>0, <1>1 DEF Post
<1>2. ASSUME NEW j \in Jobs, Fail(j), UNCHANGED <<constituents, task>>,
             \A s \in Symbols : task[j][s] \in {"none", "done"}
      PROVE  TasksFollowCoroutine'
  BY <1>0, <1>2 DEF Fail
<1>3. ASSUME NEW j \in Jobs, NEW v, NEW content, Open(j, v, content),
             pc[j] \in {"created", "snapshot"}
      PROVE  TasksFollowCoroutine'
  BY <1>0, <1>3 DEF Open
<1>4. ASSUME NEW j \in Jobs, Advance(j)
      PROVE  TasksFollowCoroutine'
  <2>1. CASE BenchmarkAnswer(j)
    BY <1>0, <2>1 DEF BenchmarkAnswer
  <2>2. CASE Finish(j)
    BY <1>0, <2>2 DEF Finish, Gathered
  <2>3. CASE FinishRaises(j)
    <3>1. \A s \in Symbols : task[j][s] \in {"none", "done"}
      BY <1>0, <2>3 DEF FinishRaises, Gathered
    <3>. QED  BY <3>1, <2>3, <1>2 DEF FinishRaises
  <2>4. CASE Raise(j)
    <3>1. \A s \in Symbols : task[j][s] \in {"none", "done"}
      BY <1>0, <2>4 DEF Raise
    <3>. QED  BY <3>1, <2>4, <1>2 DEF Raise
  <2>5. CASE Begin(j) \/ SnapshotAnswer(j)
    <3>1. pc[j] \in {"created", "snapshot"}
      BY <2>5 DEF Begin, SnapshotAnswer
    <3>2. \A s \in Symbols : task[j][s] = "none"
      BY <1>0, <3>1
    <3>3. \/ \E v, content : Open(j, v, content)
          \/ Fail(j) /\ UNCHANGED <<constituents, task>>
          \/ pc' = [pc EXCEPT ![j] = "snapshot"] /\ UNCHANGED <<constituents, task>>
      BY <2>5 DEF Begin, SnapshotAnswer, ReuseLatest, SaveSnapshot
    <3>4. ASSUME pc' = [pc EXCEPT ![j] = "snapshot"], UNCHANGED <<constituents, task>>
          PROVE  TasksFollowCoroutine'
      BY <1>0, <3>2, <3>4
    <3>. QED  BY <3>1, <3>2, <3>3, <3>4, <1>2, <1>3
  <2>. QED  BY <1>4, <2>1, <2>2, <2>3, <2>4, <2>5 DEF Advance
<1>5. ASSUME NEW j \in Jobs, NEW s \in Symbols, Process(j, s)
      PROVE  TasksFollowCoroutine'
  <2>1. /\ task[j][s] \in {"ready", "waiting", "fetching"}
        /\ \E t : task' = [task EXCEPT ![j][s] = t]
        /\ UNCHANGED <<pc, constituents>>
    BY <1>5 DEF Process, CancelBeforeStart, Skip, Start, Admit, CancelAfterDownload,
                Store, StoreRaises, SkipRaises, ProcessRaises, Close
  <2>2. PICK t : task' = [task EXCEPT ![j][s] = t]
    BY <2>1
  <2>. QED  BY <1>0, <2>1, <2>2
<1>6. ASSUME LoseCoroutines
      PROVE  TasksFollowCoroutine'
  BY <1>0, <1>6 DEF LoseCoroutines, Live, Position
<1>7. ASSUME UNCHANGED <<pc, task, constituents>>
      PROVE  TasksFollowCoroutine'
  BY <1>7
<1>8. \/ \E j \in Jobs : Post(j)
      \/ \E j \in Jobs : Advance(j)
      \/ \E j \in Jobs, s \in Symbols : Process(j, s)
      \/ LoseCoroutines
      \/ UNCHANGED <<pc, task, constituents>>
  BY DEF Next, vars, locals, Cancel, CrashWhileFinishing, CrashWhileStoring, Expire, Crash
<1>. QED  BY <1>1, <1>4, <1>5, <1>6, <1>7, <1>8

LEMMA RunNext == TypeOK /\ RunFollowsCoroutine /\ [Next]_vars => RunFollowsCoroutine'
<1>. SUFFICES ASSUME TypeOK, RunFollowsCoroutine, [Next]_vars
              PROVE  RunFollowsCoroutine'
  OBVIOUS
<1>. USE DEF RunFollowsCoroutine
<1>0. /\ pc \in [Jobs -> Position]
      /\ run \in [Jobs -> [status : RunStatus, counts : [ClosedItem -> Nat]]]
  BY DEF TypeOK
<1>1. ASSUME NEW j \in Jobs, Post(j)
      PROVE  RunFollowsCoroutine'
  BY <1>0, <1>1 DEF Post, FinalRun
<1>2. ASSUME NEW j \in Jobs, NEW q \in Position, pc' = [pc EXCEPT ![j] = q],
             q \in {"ended", "gather", "benchmark"} \/ (q = "snapshot" /\ pc[j] = "created"),
             pc[j] \in Live, UNCHANGED run
      PROVE  RunFollowsCoroutine'
  <2>1. run[j].status \notin FinalRun
    BY <1>2 DEF Live
  <2>. QED  BY <1>0, <1>2, <2>1
<1>3. ASSUME NEW j \in Jobs, NEW v, NEW content, Open(j, v, content)
      PROVE  RunFollowsCoroutine'
  BY <1>0, <1>3 DEF Open, FinalRun
<1>4. ASSUME NEW j \in Jobs, NEW n, WriteRun(j, n), pc' = [pc EXCEPT ![j] = "ended"]
      PROVE  RunFollowsCoroutine'
  <2>1. \A k \in Jobs : k # j => run'[k] = run[k] /\ pc'[k] = pc[k]
    BY <1>0, <1>4 DEF WriteRun
  <2>2. pc'[j] = "ended"
    BY <1>0, <1>4
  <2>. QED  BY <2>1, <2>2
<1>5. ASSUME NEW j \in Jobs, Advance(j)
      PROVE  RunFollowsCoroutine'
  <2>. USE DEF Position, Live
  <2>1. CASE BenchmarkAnswer(j)
    BY <2>1, <1>2 DEF BenchmarkAnswer, rows
  <2>2. CASE Finish(j)
    BY <2>2, <1>4 DEF Finish
  <2>3. CASE FinishRaises(j)
    BY <2>3, <1>4 DEF FinishRaises, Fail
  <2>4. CASE Raise(j)
    BY <2>4, <1>2 DEF Raise, Fail
  <2>5. CASE Begin(j) \/ SnapshotAnswer(j)
    <3>1. pc[j] \in {"created", "snapshot"}
      BY <2>5 DEF Begin, SnapshotAnswer
    <3>2. \/ \E v, content : Open(j, v, content)
          \/ pc' = [pc EXCEPT ![j] = "ended"] /\ UNCHANGED run
          \/ pc[j] = "created" /\ pc' = [pc EXCEPT ![j] = "snapshot"] /\ UNCHANGED run
      BY <2>5 DEF Begin, SnapshotAnswer, ReuseLatest, SaveSnapshot, Fail, rows
    <3>. QED  BY <3>1, <3>2, <1>2, <1>3
  <2>. QED  BY <1>5, <2>1, <2>2, <2>3, <2>4, <2>5 DEF Advance
<1>6. ASSUME LoseCoroutines, UNCHANGED run
      PROVE  RunFollowsCoroutine'
  BY <1>0, <1>6 DEF LoseCoroutines, Live, Position
<1>7. ASSUME NEW j \in Jobs, CrashWhileFinishing(j)
      PROVE  RunFollowsCoroutine'
  <2>1. PICK n \in 1 .. 2 : WriteRun(j, n)
    BY <1>7 DEF CrashWhileFinishing
  <2>2. \A k \in Jobs : k # j => run'[k] = run[k]
    BY <1>0, <2>1 DEF WriteRun
  <2>3. pc'[j] = "lost" /\ \A k \in Jobs : pc'[k] = IF pc[k] \in Live THEN "lost" ELSE pc[k]
    BY <1>7 DEF CrashWhileFinishing, LoseCoroutines, Gathered, Live
  <2>. QED  BY <1>0, <2>2, <2>3 DEF Live, Position
<1>8. ASSUME UNCHANGED <<pc, run>>
      PROVE  RunFollowsCoroutine'
  BY <1>8
<1>9. \/ \E j \in Jobs : Post(j) \/ Advance(j) \/ CrashWhileFinishing(j)
      \/ LoseCoroutines /\ UNCHANGED run
      \/ UNCHANGED <<pc, run>>
  BY DEF Next, vars, rows, locals, Cancel, CrashWhileStoring, Expire, Crash, Process,
         CancelBeforeStart, Skip, Start, Admit, CancelAfterDownload, Store, StoreRaises,
         SkipRaises, ProcessRaises, Close
<1>. QED  BY <1>1, <1>5, <1>6, <1>7, <1>8, <1>9


\* A stored version is never rewritten, and a refresh opens on a stored one.
VersionsGrow ==
    /\ DOMAIN versions \subseteq DOMAIN versions'
    /\ \A v \in DOMAIN versions : versions'[v] = versions[v]

OpensOn(j, v, content) ==
    /\ Open(j, v, content)
    /\ v \in DOMAIN versions' /\ content \in Contents /\ versions'[v] = content

LEMMA OpensOnStored ==
    ASSUME TypeOK, NEW j \in Jobs
    PROVE  /\ ReuseLatest(j) => /\ VersionsGrow
                                /\ \/ \E v, content : OpensOn(j, v, content)
                                   \/ UNCHANGED <<item, cache, snapshot, constituents, run>>
           /\ \A content \in Contents : SaveSnapshot(j, content)
                 => VersionsGrow /\ \E v, c : OpensOn(j, v, c)
<1>. USE DEF VersionsGrow, OpensOn
<1>0. versions \in Seq(Contents)
  BY DEF TypeOK
<1>1. ASSUME ReuseLatest(j)
      PROVE  /\ VersionsGrow
             /\ \/ \E v, content : OpensOn(j, v, content)
                \/ UNCHANGED <<item, cache, snapshot, constituents, run>>
  <2>1. versions # <<>> => /\ Len(versions) \in DOMAIN versions
                           /\ versions[Len(versions)] \in Contents
    BY <1>0
  <2>. QED  BY <1>1, <2>1 DEF ReuseLatest
<1>2. ASSUME NEW content \in Contents, SaveSnapshot(j, content)
      PROVE  VersionsGrow /\ \E v, c : OpensOn(j, v, c)
  <2>1. CASE \E v \in DOMAIN versions : versions[v] = content
    BY <1>2, <2>1 DEF SaveSnapshot
  <2>2. CASE ~ \E v \in DOMAIN versions : versions[v] = content
    <3>1. versions' = Append(versions, content) /\ Open(j, Len(versions) + 1, content)
      BY <1>2, <2>2 DEF SaveSnapshot
    <3>2. /\ VersionsGrow
          /\ Len(versions) + 1 \in DOMAIN versions'
          /\ versions'[Len(versions) + 1] = content
      BY <1>0, <3>1
    <3>. QED  BY <3>1, <3>2
  <2>. QED  BY <2>1, <2>2
<1>. QED  BY <1>1, <1>2

\* What a step does to versions, snapshots and constituents.
LEMMA SnapshotSteps ==
    ASSUME TypeOK, [Next]_vars
    PROVE  /\ VersionsGrow
           /\ \/ \E j \in Jobs : \E v, content : OpensOn(j, v, content)
              \/ UNCHANGED <<snapshot, constituents>>
<1>1. ASSUME NEW j \in Jobs, Advance(j)
      PROVE  /\ VersionsGrow
             /\ \/ \E v, content : OpensOn(j, v, content)
                \/ UNCHANGED <<snapshot, constituents>>
  BY <1>1, OpensOnStored DEF Advance, Begin, SnapshotAnswer, BenchmarkAnswer, Raise, Finish,
                             FinishRaises, Fail, store, VersionsGrow
<1>2. ASSUME UNCHANGED <<versions, snapshot, constituents>>
      PROVE  /\ VersionsGrow
             /\ UNCHANGED <<snapshot, constituents>>
  BY <1>2 DEF VersionsGrow
<1>3. \/ \E j \in Jobs : Advance(j)
      \/ UNCHANGED <<versions, snapshot, constituents>>
  <2>1. ASSUME NEW j \in Jobs, Post(j) \/ Cancel(j) \/ CrashWhileFinishing(j)
        PROVE  UNCHANGED <<versions, snapshot, constituents>>
    BY <2>1 DEF Post, Cancel, CrashWhileFinishing, LoseCoroutines, store, locals
  <2>2. ASSUME NEW j \in Jobs, NEW s \in Symbols, Process(j, s)
        PROVE  UNCHANGED <<versions, snapshot, constituents>>
    BY <2>2 DEF Process, CancelBeforeStart, Skip, Start, Admit, CancelAfterDownload, Store,
                StoreRaises, SkipRaises, ProcessRaises, Close, store, locals
  <2>3. ASSUME NEW j \in Jobs, NEW s \in Symbols, CrashWhileStoring(j, s)
        PROVE  UNCHANGED <<versions, snapshot, constituents>>
    BY <2>3 DEF CrashWhileStoring, LoseCoroutines, store, locals
  <2>4. ASSUME Crash \/ (\E s \in Symbols : Expire(s)) \/ UNCHANGED vars
        PROVE  UNCHANGED <<versions, snapshot, constituents>>
    BY <2>4 DEF Crash, Expire, LoseCoroutines, store, locals, vars
  <2>. QED  BY <2>1, <2>2, <2>3, <2>4 DEF Next
<1>. QED  BY <1>1, <1>2, <1>3

\* What a step does to the items: one opens or closes, a run's items are
\* reconciled, or a new run queues its own.
SetsItem(j, s, status) ==
    /\ task[j][s] \in {"ready", "waiting", "fetching"}
    /\ status # "absent" \/ status = item[j][s]
    /\ item' = [item EXCEPT ![j][s] = status]
    /\ UNCHANGED <<run, snapshot, constituents>>

ClosesRun(j, n) ==
    /\ WriteRun(j, n)
    /\ Gathered(j)
    /\ UNCHANGED <<snapshot, constituents>>

LEMMA ItemSteps ==
    ASSUME TypeOK, [Next]_vars
    PROVE  \/ \E j \in Jobs : \E v, content : OpensOn(j, v, content)
           \/ \E j \in Jobs, s \in Symbols : \E status : SetsItem(j, s, status)
           \/ \E j \in Jobs, n \in 1 .. 2 : ClosesRun(j, n)
           \/ UNCHANGED <<item, run, snapshot, constituents>>
<1>. DEFINE Opens == \E j \in Jobs : \E v, content : OpensOn(j, v, content)
            Sets == \E j \in Jobs, s \in Symbols : \E status : SetsItem(j, s, status)
            Closes == \E j \in Jobs, n \in 1 .. 2 : ClosesRun(j, n)
            Same == UNCHANGED <<item, run, snapshot, constituents>>
<1>1. ASSUME NEW j \in Jobs, Advance(j)
      PROVE  Opens \/ Closes \/ Same
  <2>1. CASE Begin(j)
    BY <2>1, OpensOnStored DEF Begin, rows
  <2>2. CASE SnapshotAnswer(j)
    BY <2>2, OpensOnStored DEF SnapshotAnswer
  <2>3. CASE BenchmarkAnswer(j) \/ Raise(j)
    BY <2>3 DEF BenchmarkAnswer, Raise, rows
  <2>4. CASE Finish(j)
    BY <2>4 DEF Finish, ClosesRun
  <2>5. CASE FinishRaises(j)
    <3>1. PICK n \in 0 .. 2 : WriteRun(j, n)
      BY <2>5 DEF FinishRaises
    <3>2. CASE n = 0
      BY <2>5, <3>1, <3>2 DEF FinishRaises, WriteRun
    <3>3. CASE n \in 1 .. 2
      BY <2>5, <3>1, <3>3 DEF FinishRaises, ClosesRun
    <3>. QED  BY <3>2, <3>3
  <2>. QED  BY <1>1, <2>1, <2>2, <2>3, <2>4, <2>5 DEF Advance
<1>2. ASSUME NEW j \in Jobs, NEW s \in Symbols, Process(j, s)
      PROVE  Sets \/ Same
  <2>1. ASSUME NEW status, Close(j, s, status), status # "absent" \/ status = item[j][s],
               task[j][s] \in {"ready", "waiting", "fetching"}
        PROVE  Sets
    <3>1. SetsItem(j, s, status)
      BY <2>1 DEF Close, SetsItem
    <3>. QED  BY <3>1
  <2>2. CASE CancelBeforeStart(j, s) \/ Skip(j, s) \/ CancelAfterDownload(j, s)
    BY <2>1, <2>2 DEF CancelBeforeStart, Skip, CancelAfterDownload
  <2>3. CASE Start(j, s)
    <3>1. SetsItem(j, s, "running")
      BY <2>3 DEF Start, SetsItem
    <3>. QED  BY <3>1
  <2>4. CASE Admit(j, s)
    BY <2>4 DEF Admit, rows
  <2>5. CASE Store(j, s)
    <3>1. \A f \in Fetched : ItemVerdict(s, f) # "absent"
      BY DEF ItemVerdict
    <3>. QED  BY <2>1, <2>5, <3>1 DEF Store
  <2>6. CASE StoreRaises(j, s) \/ SkipRaises(j, s) \/ ProcessRaises(j, s)
    BY <2>1, <2>6 DEF StoreRaises, SkipRaises, ProcessRaises
  <2>. QED  BY <1>2, <2>2, <2>3, <2>4, <2>5, <2>6 DEF Process
<1>3. ASSUME NEW j \in Jobs, CrashWhileFinishing(j)
      PROVE  Closes
  BY <1>3 DEF CrashWhileFinishing, LoseCoroutines, ClosesRun
<1>4. \/ \E j \in Jobs : Advance(j) \/ CrashWhileFinishing(j)
      \/ \E j \in Jobs, s \in Symbols : Process(j, s)
      \/ Same
  BY DEF Next, vars, rows, locals, Post, Cancel, CrashWhileStoring, Expire, Crash, LoseCoroutines
<1>. QED  BY <1>1, <1>2, <1>3, <1>4

LEMMA SnapshotNext ==
    TypeOK /\ TasksFollowCoroutine /\ RefreshKeepsItsSnapshot /\ [Next]_vars
        => RefreshKeepsItsSnapshot'
<1>. SUFFICES ASSUME TypeOK, TasksFollowCoroutine, RefreshKeepsItsSnapshot, [Next]_vars
              PROVE  RefreshKeepsItsSnapshot'
  OBVIOUS
<1>. USE DEF RefreshKeepsItsSnapshot
<1>0. /\ snapshot \in [Jobs -> Nat] /\ constituents \in [Jobs -> SUBSET Symbols]
      /\ item \in [Jobs -> [Symbols -> ItemStatus]]
  BY DEF TypeOK
<1>1. VersionsGrow
  BY SnapshotSteps
<1>2. ASSUME NEW j \in Jobs, NEW v, NEW content, OpensOn(j, v, content)
      PROVE  RefreshKeepsItsSnapshot'
  <2>1. \A k \in Jobs : k # j => /\ snapshot'[k] = snapshot[k]
                                 /\ constituents'[k] = constituents[k]
                                 /\ item'[k] = item[k]
    BY <1>0, <1>2 DEF OpensOn, Open
  <2>2. /\ snapshot'[j] = v /\ constituents'[j] = Members[content]
        /\ \A s \in Members[content] : item'[j][s] # "absent"
        /\ v \in DOMAIN versions' /\ versions'[v] = content
    <3>1. Members[content] \in SUBSET Symbols
      BY <1>2, UniverseAssumption DEF OpensOn
    <3>. QED  BY <1>0, <1>2, <3>1 DEF OpensOn, Open
  <2>. QED  BY <1>1, <2>1, <2>2 DEF VersionsGrow
<1>3. ASSUME \A k \in Jobs, t \in Symbols : item[k][t] # "absent" => item'[k][t] # "absent",
             UNCHANGED <<snapshot, constituents>>
      PROVE  RefreshKeepsItsSnapshot'
  <2>. SUFFICES ASSUME NEW k \in Jobs, constituents[k] # {}
                PROVE  /\ snapshot[k] \in DOMAIN versions'
                       /\ constituents[k] = Members[versions'[snapshot[k]]]
                       /\ \A t \in constituents[k] : item'[k][t] # "absent"
    BY <1>3
  <2>. QED  BY <1>0, <1>1, <1>3 DEF VersionsGrow
<1>4. ASSUME NEW j \in Jobs, NEW s \in Symbols, NEW status, SetsItem(j, s, status)
      PROVE  RefreshKeepsItsSnapshot'
  <2>1. \A k \in Jobs, t \in Symbols : item[k][t] # "absent" => item'[k][t] # "absent"
    BY <1>0, <1>4 DEF SetsItem
  <2>. QED  BY <1>3, <1>4, <2>1 DEF SetsItem
<1>5. ASSUME NEW j \in Jobs, NEW n \in 1 .. 2, ClosesRun(j, n)
      PROVE  RefreshKeepsItsSnapshot'
  <2>1. \A s \in Symbols : item[j][s] # "absent" => Reconciled(item[j])[s] # "absent"
    BY DEF Reconciled
  <2>2. item' = [item EXCEPT ![j] = Reconciled(item[j])]
    BY <1>5 DEF ClosesRun, WriteRun
  <2>3. \A k \in Jobs, t \in Symbols : item[k][t] # "absent" => item'[k][t] # "absent"
    BY <1>0, <2>1, <2>2
  <2>. QED  BY <1>3, <1>5, <2>3 DEF ClosesRun
<1>6. ASSUME UNCHANGED <<item, snapshot, constituents>>
      PROVE  RefreshKeepsItsSnapshot'
  BY <1>3, <1>6
<1>. QED  BY <1>2, <1>4, <1>5, <1>6, ItemSteps

LEMMA CoverageNext ==
    TypeOK /\ TasksFollowCoroutine /\ RefreshKeepsItsSnapshot /\ CoverageWithinSnapshot
           /\ [Next]_vars
        => CoverageWithinSnapshot'
<1>. SUFFICES ASSUME TypeOK, TasksFollowCoroutine, RefreshKeepsItsSnapshot,
                     CoverageWithinSnapshot, [Next]_vars
              PROVE  CoverageWithinSnapshot'
  OBVIOUS
<1>. USE DEF CoverageWithinSnapshot
<1>0. cache \in [Symbols -> CacheRow]
  BY DEF TypeOK
<1>1. VersionsGrow
  BY SnapshotSteps
<1>2. ASSUME NEW j \in Jobs, NEW s \in Symbols, task[j][s] # "none"
      PROVE  snapshot[j] \in DOMAIN versions /\ s \in Members[versions[snapshot[j]]]
  BY <1>2 DEF TasksFollowCoroutine, RefreshKeepsItsSnapshot
<1>3. ASSUME NEW j \in Jobs, NEW s \in Symbols, NEW f \in Fetched, NEW n,
             task[j][s] = "fetching", Persist(j, s, f, n)
      PROVE  CoverageWithinSnapshot'
  <2>1. Record(j, s, f).version = snapshot[j]
    BY DEF Record
  <2>2. cache' = [cache EXCEPT ![s] = Record(j, s, f)] \/ cache' = cache
    BY <1>3 DEF Persist
  <2>. QED  BY <1>0, <1>1, <1>2, <1>3, <2>1, <2>2 DEF VersionsGrow
<1>4. ASSUME NEW j \in Jobs, NEW s \in Symbols, task[j][s] = "ready",
             cache' = [cache EXCEPT ![s].version = snapshot[j]]
      PROVE  CoverageWithinSnapshot'
  <2>1. \A t \in Symbols : /\ cache'[t].status = cache[t].status
                           /\ cache'[t].version = IF t = s THEN snapshot[j] ELSE cache[t].version
    BY <1>0, <1>4 DEF CacheRow
  <2>. QED  BY <1>1, <1>2, <1>4, <2>1 DEF VersionsGrow
<1>5. ASSUME NEW s \in Symbols, Expire(s)
      PROVE  CoverageWithinSnapshot'
  <2>1. \A t \in Symbols : /\ cache'[t].status = cache[t].status
                           /\ cache'[t].version = cache[t].version
    BY <1>0, <1>5 DEF Expire, CacheRow
  <2>. QED  BY <1>1, <2>1 DEF VersionsGrow
<1>6. ASSUME UNCHANGED cache
      PROVE  CoverageWithinSnapshot'
  BY <1>1, <1>6 DEF VersionsGrow
<1>7. ASSUME NEW j \in Jobs, NEW s \in Symbols, Process(j, s) \/ CrashWhileStoring(j, s)
      PROVE  CoverageWithinSnapshot'
  <2>1. \/ UNCHANGED cache
        \/ task[j][s] = "ready" /\ cache' = [cache EXCEPT ![s].version = snapshot[j]]
        \/ task[j][s] = "fetching" /\ \E f \in Fetched : \E n : Persist(j, s, f, n)
    BY <1>7 DEF Process, CancelBeforeStart, Skip, Start, Admit, CancelAfterDownload, Store,
                StoreRaises, SkipRaises, ProcessRaises, CrashWhileStoring, store
  <2>. QED  BY <2>1, <1>3, <1>4, <1>6
<1>8. \/ \E j \in Jobs, s \in Symbols : Process(j, s) \/ CrashWhileStoring(j, s)
      \/ \E s \in Symbols : Expire(s)
      \/ UNCHANGED cache
  BY DEF Next, vars, store, Post, Cancel, Advance, Begin, SnapshotAnswer, ReuseLatest,
         SaveSnapshot, Open, BenchmarkAnswer, Raise, Finish, FinishRaises, Fail,
         CrashWhileFinishing, Crash
<1>. QED  BY <1>5, <1>6, <1>7, <1>8


LEMMA ClosedNext ==
    TypeOK /\ RefreshInv /\ [Next]_vars => ClosedRunAccountsForItems'
<1>. SUFFICES ASSUME TypeOK, RefreshInv, [Next]_vars
              PROVE  ClosedRunAccountsForItems'
  OBVIOUS
<1>. USE DEF ClosedRunAccountsForItems
<1>0. /\ constituents \in [Jobs -> SUBSET Symbols]
      /\ run \in [Jobs -> [status : RunStatus, counts : [ClosedItem -> Nat]]]
      /\ item \in [Jobs -> [Symbols -> ItemStatus]]
      /\ ClosedRunAccountsForItems
  BY DEF TypeOK, RefreshInv
<1>1. ASSUME NEW j \in Jobs, NEW v, NEW content, OpensOn(j, v, content)
      PROVE  ClosedRunAccountsForItems'
  <2>1. \A k \in Jobs : k # j => /\ run'[k] = run[k] /\ item'[k] = item[k]
                                 /\ constituents'[k] = constituents[k]
    BY <1>0, <1>1 DEF OpensOn, Open
  <2>2. run'[j].status = "running"
    BY <1>0, <1>1 DEF OpensOn, Open
  <2>. QED  BY <1>0, <2>1, <2>2 DEF FinalRun
<1>2. ASSUME NEW j \in Jobs, NEW s \in Symbols, NEW status, SetsItem(j, s, status)
      PROVE  ClosedRunAccountsForItems'
  <2>1. run[j].status \notin FinalRun
    <3>1. pc[j] = "gather"
      BY <1>2 DEF SetsItem, RefreshInv, TasksFollowCoroutine
    <3>. QED  BY <3>1 DEF RefreshInv, RunFollowsCoroutine
  <2>2. \A k \in Jobs : k # j => item'[k] = item[k]
    BY <1>0, <1>2 DEF SetsItem
  <2>. QED  BY <1>0, <1>2, <2>1, <2>2 DEF SetsItem
<1>3. ASSUME NEW j \in Jobs, NEW n \in 1 .. 2, ClosesRun(j, n)
      PROVE  ClosedRunAccountsForItems'
  <2>. DEFINE closed == Reconciled(item[j])
  <2>1. run[j].status \notin FinalRun
    BY <1>3 DEF ClosesRun, Gathered, RefreshInv, RunFollowsCoroutine
  <2>2. \A s \in constituents[j] : closed[s] \in ClosedItem
    <3>. SUFFICES ASSUME NEW s \in constituents[j]
                  PROVE  closed[s] \in ClosedItem
      OBVIOUS
    <3>1. s \in Symbols /\ item[j][s] \in ItemStatus /\ item[j][s] # "absent"
      BY <1>0 DEF RefreshInv, RefreshKeepsItsSnapshot
    <3>. QED  BY <3>1 DEF Reconciled, ItemStatus, ClosedItem, CachedItem
  <2>. HIDE DEF closed
  <2>3. /\ \A k \in Jobs : k # j => run'[k] = run[k] /\ item'[k] = item[k]
        /\ item'[j] = closed /\ constituents' = constituents
    BY <1>0, <1>3 DEF ClosesRun, WriteRun, closed
  <2>4. run'[j] = run[j] \/ run'[j].counts = Counts(closed)
    BY <1>0, <1>3 DEF ClosesRun, WriteRun, closed
  <2>. QED  BY <1>0, <2>1, <2>2, <2>3, <2>4
<1>4. ASSUME UNCHANGED <<item, run, snapshot, constituents>>
      PROVE  ClosedRunAccountsForItems'
  <2>1. \A j \in Jobs : item'[j] = item[j]
    BY <1>4
  <2>. QED  BY <1>0, <1>4, <2>1 DEF Counts
<1>. QED  BY <1>1, <1>2, <1>3, <1>4, ItemSteps

LEMMA RefreshInvInit == Init => RefreshInv
<1>. SUFFICES ASSUME Init
              PROVE  RefreshInv
  OBVIOUS
<1>1. TasksFollowCoroutine /\ RunFollowsCoroutine
  BY DEF Init, TasksFollowCoroutine, RunFollowsCoroutine, NoRun, FinalRun
<1>2. RefreshKeepsItsSnapshot
  BY DEF Init, RefreshKeepsItsSnapshot
<1>3. CoverageWithinSnapshot
  BY DEF Init, CoverageWithinSnapshot, NoCache
<1>4. ClosedRunAccountsForItems
  BY DEF Init, ClosedRunAccountsForItems, NoRun, FinalRun
<1>. QED  BY <1>1, <1>2, <1>3, <1>4 DEF RefreshInv

\* The inductive invariant: the rows a refresh has written follow its coroutine,
\* and its constituents stay those of a stored snapshot version.
THEOREM RefreshInvariant == Spec => []RefreshInv
<1>1. TypeOK /\ RefreshInv /\ [Next]_vars => RefreshInv'
  BY TasksNext, RunNext, SnapshotNext, CoverageNext, ClosedNext DEF RefreshInv
<1>. QED  BY <1>1, RefreshInvInit, TypeCorrect, PTL DEF Spec

\* No record counts for a snapshot its company is not a member of, however
\* refreshes on different snapshots overlap (_persist_item, record_cache_status).
THEOREM Coverage == Spec => []CoverageWithinSnapshot
<1>1. RefreshInv => CoverageWithinSnapshot
  BY DEF RefreshInv
<1>. QED  BY <1>1, RefreshInvariant, PTL

\* A run that was closed has closed all its items and stored their counts, also
\* when a crash or an exception cut the last writes of refresh.
THEOREM ClosedRuns == Spec => []ClosedRunAccountsForItems
<1>1. RefreshInv => ClosedRunAccountsForItems
  BY DEF RefreshInv
<1>. QED  BY <1>1, RefreshInvariant, PTL

-----------------------------------------------------------------------------
\* The contract of local jobs

LEMMA DivisionGrows ==
    ASSUME NEW a \in Nat, NEW b \in Nat, a <= b, NEW t \in Nat \ {0}
    PROVE  a \div t <= b \div t
<1>. DEFINE p == a \div t
            q == b \div t
<1>1. p \in Int /\ q \in Int /\ a = t * p + (a % t) /\ b = t * q + (b % t)
  OBVIOUS
<1>2. a % t \in 0 .. t - 1 /\ b % t \in 0 .. t - 1
  OBVIOUS
<1>. HIDE DEF p, q
<1>3. SUFFICES ASSUME q < p PROVE FALSE
  BY <1>1 DEF p, q
<1>4. t * (q + 1) <= t * p
  BY <1>1, <1>3
<1>5. t * (q + 1) = t * q + t
  BY <1>1
<1>. QED  BY <1>1, <1>2, <1>4, <1>5

\* One more finished task never lowers the share of work done.
LEMMA ShareGrows ==
    ASSUME NEW n \in Nat, NEW total \in Nat
    PROVE  Clamp(Share(n, total)) <= Clamp(Share(n + 1, total))
<1>. DEFINE t == IF total = 0 THEN 1 ELSE total
<1>1. t \in Nat \ {0} /\ n * Whole \in Nat /\ (n + 1) * Whole \in Nat
  BY WholeAssumption
<1>2. n * Whole <= (n + 1) * Whole
  BY WholeAssumption
<1>3. (n * Whole) \div t <= ((n + 1) * Whole) \div t
  BY <1>1, <1>2, DivisionGrows
<1>4. Share(n, total) <= Share(n + 1, total)
  BY <1>3 DEF Share
<1>5. Share(n, total) \in Int /\ Share(n + 1, total) \in Int
  BY ShareType
<1>. QED  BY <1>4, <1>5, WholeAssumption DEF Clamp

LEMMA ClampTwice ==
    ASSUME NEW p \in Int
    PROVE  Clamp(p) \in 0 .. Whole /\ Clamp(Clamp(p)) = Clamp(p)
  BY WholeAssumption DEF Clamp

\* Where the row of a job is for each position of its coroutine: the contract
\* says nothing of the coroutine, and without it a row could be written again.
JobFollowsCoroutine ==
    \A j \in Jobs :
        /\ pc[j] = "none" => job[j].status = "absent" /\ completed[j] = 0
        /\ pc[j] \in Live => job[j].status = "running"
        /\ pc[j] \in {"created", "snapshot", "benchmark"} =>
              completed[j] = 0 /\ job[j].progress = 0
        /\ pc[j] = "gather" =>
              job[j].progress = Clamp(Share(completed[j], Cardinality(constituents[j])))

ContractStep == [Contract!Next]_job

LEMMA FailKeeps ==
    ASSUME TypeOK, JobFollowsCoroutine, NEW j \in Jobs, Fail(j), pc[j] \in Live,
           UNCHANGED <<constituents, completed>>
    PROVE  JobFollowsCoroutine' /\ ContractStep
<1>1. PICK b \in BOOLEAN : job' = [job EXCEPT ![j] = WithError(@, b)]
  BY DEF Fail
<1>2. pc' = [pc EXCEPT ![j] = "ended"]
  BY DEF Fail
<1>3. JobFollowsCoroutine'
  BY <1>1, <1>2 DEF JobFollowsCoroutine, TypeOK, Live
<1>4. Contract!EndWithError(j)
  BY <1>1 DEF JobFollowsCoroutine, Contract!EndWithError, Contract!Running,
              Contract!WithError, WithError
<1>. QED  BY <1>3, <1>4 DEF ContractStep, Contract!Next

\* Steps up to gather: the row rests, and the work that may be done is known.
LEMMA MoveKeeps ==
    ASSUME TypeOK, JobFollowsCoroutine, NEW j \in Jobs,
           NEW position \in {"snapshot", "benchmark", "gather"},
           pc[j] \in {"created", "snapshot", "benchmark"},
           pc' = [pc EXCEPT ![j] = position], UNCHANGED <<job, completed>>,
           \A k \in Jobs \ {j} : constituents'[k] = constituents[k],
           constituents'[j] \in SUBSET Symbols
    PROVE  JobFollowsCoroutine' /\ ContractStep
<1>1. Cardinality(constituents'[j]) \in Nat
  BY SymbolSets
<1>2. Clamp(Share(0, Cardinality(constituents'[j]))) = 0
  <2>. DEFINE total == Cardinality(constituents'[j])
              t == IF total = 0 THEN 1 ELSE total
  <2>1. t \in Nat \ {0} /\ 0 * Whole = 0
    BY <1>1, WholeAssumption
  <2>2. 0 \div t = 0
    BY <2>1
  <2>3. Share(0, total) = 0
    BY <2>1, <2>2 DEF Share
  <2>. QED  BY <2>3, WholeAssumption DEF Clamp
<1>3. pc \in [Jobs -> Position] /\ pc'[j] = position /\ \A k \in Jobs \ {j} : pc'[k] = pc[k]
  BY DEF TypeOK
<1>4. JobFollowsCoroutine'
  <2>1. ASSUME NEW k \in Jobs
        PROVE  /\ pc'[k] = "none" => job'[k].status = "absent" /\ completed'[k] = 0
               /\ pc'[k] \in Live => job'[k].status = "running"
               /\ pc'[k] \in {"created", "snapshot", "benchmark"} =>
                     completed'[k] = 0 /\ job'[k].progress = 0
               /\ pc'[k] = "gather" =>
                     job'[k].progress = Clamp(Share(completed'[k], Cardinality(constituents'[k])))
    <3>1. CASE k = j
      BY <1>2, <1>3, <3>1 DEF JobFollowsCoroutine, Live
    <3>2. CASE k # j
      BY <1>3, <3>2 DEF JobFollowsCoroutine
    <3>. QED  BY <3>1, <3>2
  <2>. QED  BY <2>1 DEF JobFollowsCoroutine
<1>. QED  BY <1>4 DEF ContractStep

LEMMA OpenKeeps ==
    ASSUME TypeOK, JobFollowsCoroutine, NEW j \in Jobs, NEW version, NEW content \in Contents,
           Open(j, version, content), pc[j] \in {"created", "snapshot"}
    PROVE  JobFollowsCoroutine' /\ ContractStep
<1>1. /\ constituents' = [constituents EXCEPT ![j] = Members[content]]
      /\ pc' = [pc EXCEPT ![j] = "benchmark"] /\ UNCHANGED <<job, completed>>
  BY DEF Open
<1>2. constituents \in [Jobs -> SUBSET Symbols] /\ Members[content] \in SUBSET Symbols
  BY UniverseAssumption DEF TypeOK
<1>3. constituents'[j] \in SUBSET Symbols /\ \A k \in Jobs \ {j} : constituents'[k] = constituents[k]
  BY <1>1, <1>2
<1>. QED  BY <1>1, <1>3, MoveKeeps

LEMMA ReuseKeeps ==
    ASSUME TypeOK, JobFollowsCoroutine, NEW j \in Jobs, ReuseLatest(j),
           pc[j] \in {"created", "snapshot"}
    PROVE  JobFollowsCoroutine' /\ ContractStep
<1>1. CASE versions # <<>> /\ Open(j, Len(versions), versions[Len(versions)])
  <2>1. versions[Len(versions)] \in Contents
    BY <1>1 DEF TypeOK
  <2>. QED  BY <1>1, <2>1, OpenKeeps
<1>2. CASE Fail(j) /\ UNCHANGED <<constituents, completed>>
  BY <1>2, FailKeeps DEF Live
<1>. QED  BY <1>1, <1>2 DEF ReuseLatest

LEMMA AdvanceKeeps ==
    ASSUME TypeOK, JobFollowsCoroutine, NEW j \in Jobs, Advance(j)
    PROVE  JobFollowsCoroutine' /\ ContractStep
<1>0. constituents \in [Jobs -> SUBSET Symbols]
  BY DEF TypeOK
<1>1. CASE Begin(j)
  <2>1. CASE ReuseLatest(j)
    BY <1>1, <2>1, ReuseKeeps DEF Begin
  <2>2. CASE pc' = [pc EXCEPT ![j] = "snapshot"] /\ UNCHANGED <<job, constituents, completed>>
    BY <1>0, <1>1, <2>2, MoveKeeps DEF Begin
  <2>. QED  BY <1>1, <2>1, <2>2 DEF Begin, rows
<1>2. CASE SnapshotAnswer(j)
  <2>1. ASSUME NEW content \in Contents, SaveSnapshot(j, content)
        PROVE  JobFollowsCoroutine' /\ ContractStep
    <3>1. PICK v : Open(j, v, content)
      BY <2>1 DEF SaveSnapshot
    <3>. QED  BY <1>2, <3>1, OpenKeeps DEF SnapshotAnswer
  <2>. QED  BY <1>2, <2>1, ReuseKeeps DEF SnapshotAnswer
<1>3. CASE BenchmarkAnswer(j)
  <2>1. /\ pc[j] = "benchmark" /\ pc' = [pc EXCEPT ![j] = "gather"]
        /\ UNCHANGED <<job, completed>>
    BY <1>3 DEF BenchmarkAnswer, rows
  <2>2. constituents'[j] \in SUBSET Symbols /\ \A k \in Jobs \ {j} : constituents'[k] = constituents[k]
    BY <1>0, <1>3 DEF BenchmarkAnswer
  <2>. QED  BY <2>1, <2>2, MoveKeeps
<1>4. CASE Raise(j)
  BY <1>4, FailKeeps DEF Raise, Live
<1>5. CASE FinishRaises(j)
  BY <1>5, FailKeeps DEF FinishRaises, Gathered, Live
<1>6. CASE Finish(j)
  <2>. DEFINE status == JobVerdict(run'[j].status)
  <2>1. /\ job' = [job EXCEPT ![j] = WithResult(@, status)]
        /\ pc' = [pc EXCEPT ![j] = "ended"] /\ pc[j] = "gather"
        /\ UNCHANGED <<constituents, completed>>
    BY <1>6 DEF Finish, Gathered
  <2>2. status \in FinalStatus
    <3>. DEFINE closed == Reconciled(item[j])
    <3>1. run'[j].status = RunVerdict(closed, Cancelled(j))
      BY <1>6 DEF Finish, WriteRun, TypeOK
    <3>. HIDE DEF closed
    <3>. QED  BY <3>1, VerdictType
  <2>. HIDE DEF status
  <2>3. JobFollowsCoroutine'
    BY <2>1 DEF JobFollowsCoroutine, TypeOK, Live
  <2>4. Contract!EndWithResult(j)
    BY <2>1, <2>2 DEF JobFollowsCoroutine, Live, Contract!EndWithResult, Contract!Running,
                      Contract!FinalStatus, FinalStatus, Contract!WithResult, WithResult
  <2>. QED  BY <2>3, <2>4 DEF ContractStep, Contract!Next
<1>. QED  BY <1>1, <1>2, <1>3, <1>4, <1>5, <1>6 DEF Advance

LEMMA CloseKeeps ==
    ASSUME TypeOK, TasksFollowCoroutine, JobFollowsCoroutine, NEW j \in Jobs, NEW s \in Symbols,
           NEW status, task[j][s] \in {"ready", "waiting", "fetching"}, Close(j, s, status)
    PROVE  JobFollowsCoroutine' /\ ContractStep
<1>. DEFINE total == Cardinality(constituents[j])
            share == Share(completed[j] + 1, total)
<1>1. pc[j] = "gather"
  BY DEF TasksFollowCoroutine
<1>2. /\ total \in Nat /\ completed[j] \in Nat
      /\ job \in [Jobs -> JobRow] /\ completed \in [Jobs -> Nat]
  BY SymbolSets DEF TypeOK
<1>3. /\ job' = [job EXCEPT ![j] = WithProgress(@, share)]
      /\ completed' = [completed EXCEPT ![j] = @ + 1]
      /\ UNCHANGED <<pc, constituents>>
  BY DEF Close
<1>4. share \in Int /\ Clamp(share) \in 0 .. Whole /\ Clamp(Clamp(share)) = Clamp(share)
  BY <1>2, ShareType, ClampTwice
<1>5. job[j].progress <= Clamp(share) /\ job[j].status = "running"
  BY <1>1, <1>2, ShareGrows DEF JobFollowsCoroutine, Live
<1>6. /\ job'[j].status = job[j].status /\ job'[j].progress = Clamp(share)
      /\ completed'[j] = completed[j] + 1
      /\ \A k \in Jobs \ {j} : job'[k] = job[k] /\ completed'[k] = completed[k]
  BY <1>2, <1>3 DEF WithProgress, JobRow
<1>7. JobFollowsCoroutine'
  <2>1. ASSUME NEW k \in Jobs
        PROVE  /\ pc'[k] = "none" => job'[k].status = "absent" /\ completed'[k] = 0
               /\ pc'[k] \in Live => job'[k].status = "running"
               /\ pc'[k] \in {"created", "snapshot", "benchmark"} =>
                     completed'[k] = 0 /\ job'[k].progress = 0
               /\ pc'[k] = "gather" =>
                     job'[k].progress = Clamp(Share(completed'[k], Cardinality(constituents'[k])))
    <3>1. CASE k = j
      BY <1>1, <1>3, <1>5, <1>6, <3>1
    <3>2. CASE k # j
      BY <1>3, <1>6, <3>2 DEF JobFollowsCoroutine
    <3>. QED  BY <3>1, <3>2
  <2>. QED  BY <2>1 DEF JobFollowsCoroutine
<1>8. Contract!Report(j)
  <2>1. job' = [job EXCEPT ![j] = WithProgress(@, Clamp(share))]
    BY <1>3, <1>4 DEF WithProgress
  <2>2. job[j].progress \in 0 .. Whole /\ Clamp(share) \in job[j].progress .. Whole
    BY <1>2, <1>4, <1>5 DEF JobRow
  <2>3. job' = [job EXCEPT ![j] = Contract!WithProgress(@, Clamp(share))]
    BY <2>1 DEF WithProgress, Contract!WithProgress, Clamp, Contract!Clamp
  <2>. HIDE DEF share
  <2>. QED  BY <1>5, <2>2, <2>3 DEF Contract!Report, Contract!Running
<1>. QED  BY <1>7, <1>8 DEF ContractStep, Contract!Next

LEMMA ProcessKeeps ==
    ASSUME TypeOK, TasksFollowCoroutine, JobFollowsCoroutine,
           NEW j \in Jobs, NEW s \in Symbols, Process(j, s)
    PROVE  JobFollowsCoroutine' /\ ContractStep
<1>1. CASE Start(j, s) \/ Admit(j, s)
  <2>1. UNCHANGED <<job, pc, completed, constituents>>
    BY <1>1 DEF Start, Admit, rows
  <2>. QED  BY <2>1 DEF JobFollowsCoroutine, ContractStep
<1>2. ASSUME ~(Start(j, s) \/ Admit(j, s))
      PROVE  task[j][s] \in {"ready", "waiting", "fetching"} /\ \E status : Close(j, s, status)
  BY <1>2 DEF Process, CancelBeforeStart, Skip, CancelAfterDownload, Store,
              StoreRaises, SkipRaises, ProcessRaises
<1>. QED  BY <1>1, <1>2, CloseKeeps

LEMMA LoseKeeps ==
    ASSUME TypeOK, JobFollowsCoroutine, LoseCoroutines
    PROVE  JobFollowsCoroutine' /\ ContractStep
  BY DEF LoseCoroutines, JobFollowsCoroutine, ContractStep, Live

LEMMA ContractNext ==
    ASSUME TypeOK, TasksFollowCoroutine, JobFollowsCoroutine, [Next]_vars
    PROVE  JobFollowsCoroutine' /\ ContractStep
<1>1. ASSUME NEW j \in Jobs, Post(j)
      PROVE  JobFollowsCoroutine' /\ ContractStep
  <2>1. JobFollowsCoroutine'
    BY <1>1 DEF Post, JobFollowsCoroutine, TypeOK, Live, NewRow, AbsentRow
  <2>2. Contract!Create(j)
    BY <1>1 DEF Post, JobFollowsCoroutine, Contract!Create, Contract!NewRow, Contract!AbsentRow,
                NewRow, AbsentRow
  <2>. QED  BY <2>1, <2>2 DEF ContractStep, Contract!Next
<1>2. ASSUME NEW j \in Jobs, Cancel(j)
      PROVE  JobFollowsCoroutine' /\ ContractStep
  <2>1. /\ job' = [job EXCEPT ![j] = CancelRequested(@)]
        /\ UNCHANGED <<pc, completed, constituents>>
        /\ job \in [Jobs -> JobRow]
    BY <1>2 DEF Cancel, locals, TypeOK
  <2>2. JobFollowsCoroutine'
    <3>1. \A k \in Jobs : job'[k].status = job[k].status /\ job'[k].progress = job[k].progress
      BY <2>1 DEF CancelRequested, JobRow
    <3>. QED  BY <2>1, <3>1 DEF JobFollowsCoroutine
  <2>3. CASE job[j].status = "running"
    <3>1. Contract!RequestCancel(j)
      BY <2>1, <2>3 DEF Contract!RequestCancel, Contract!Running, Contract!CancelRequested,
                        CancelRequested
    <3>. QED  BY <2>2, <3>1 DEF ContractStep, Contract!Next
  <2>4. CASE job[j].status # "running"
    <3>1. job' = job
      BY <2>1, <2>4 DEF CancelRequested
    <3>. QED  BY <2>2, <3>1 DEF ContractStep
  <2>. QED  BY <2>3, <2>4
<1>3. ASSUME NEW s \in Symbols, Expire(s)
      PROVE  JobFollowsCoroutine' /\ ContractStep
  BY <1>3 DEF Expire, rows, locals, JobFollowsCoroutine, ContractStep
<1>4. CASE UNCHANGED vars
  BY <1>4 DEF vars, rows, locals, JobFollowsCoroutine, ContractStep
<1>5. ASSUME LoseCoroutines
      PROVE  JobFollowsCoroutine' /\ ContractStep
  BY <1>5, LoseKeeps
<1>. QED
  BY <1>1, <1>2, <1>3, <1>4, <1>5, AdvanceKeeps, ProcessKeeps
  DEF Next, Crash, CrashWhileStoring, CrashWhileFinishing

\* The row of every refresh keeps the contract of LocalJob for any number of
\* jobs, companies, permits, exceptions and crashes: progress never falls while
\* tasks finish out of order, and no row that ended is written again
\* (run_refresh, finish_progress, request_job_cancellation).
THEOREM JobsKeepContract == Spec => JobContract
<1>1. Init => JobFollowsCoroutine /\ Contract!Init
  BY DEF Init, JobFollowsCoroutine, Live, AbsentRow, Contract!Init, Contract!AbsentRow
<1>2. TypeOK /\ RefreshInv /\ JobFollowsCoroutine /\ [Next]_vars =>
          JobFollowsCoroutine' /\ [Contract!Next]_job
  BY ContractNext DEF RefreshInv, ContractStep
<1>. QED
  BY <1>1, <1>2, TypeCorrect, RefreshInvariant, PTL DEF Spec, JobContract, Contract!Spec

=============================================================================

---------------------- MODULE IntelligenceRefreshProofs ----------------------
(***************************************************************************)
(* Theorems about IntelligenceRefresh, for every number of jobs, documents, *)
(* contents, releases and crashes.                                         *)
(***************************************************************************)
EXTENDS IntelligenceRefresh, WellFoundedInduction, TLAPS

-----------------------------------------------------------------------------
\* Numbers and rows

LEMMA LeastNumber ==
    ASSUME NEW T \in SUBSET Nat, T # {}
    PROVE  \E m \in T : \A k \in T : m <= k
<1>. DEFINE Less == OpToRel(<, Nat)
<1>1. PICK m \in T : \A k \in T : ~(<<k, m>> \in Less)
  BY NatLessThanWellFounded, WFMin, Zenon
<1>2. Less = {ss \in Nat \X Nat : ss[1] < ss[2]}
  BY Zenon DEF OpToRel
<1>. HIDE DEF Less
<1>3. ASSUME NEW k \in T PROVE m <= k
  <2>1. <<k, m>> \notin Less /\ k \in Nat /\ m \in Nat
    BY <1>1
  <2>. QED  BY <1>2, <2>1
<1>. QED  BY <1>3

LEMMA GreatestNumber ==
    ASSUME NEW T \in SUBSET Nat, T # {}, NEW bound \in Nat, \A k \in T : k <= bound
    PROVE  \E m \in T : \A k \in T : k <= m
<1>. DEFINE below == {bound - k : k \in T}
<1>1. below \in SUBSET Nat /\ below # {}
  <2>1. \A k \in T : bound - k \in Nat
    OBVIOUS
  <2>. QED  BY <2>1
<1>2. PICK b \in below : \A k \in below : b <= k
  BY <1>1, LeastNumber
<1>3. PICK m \in T : b = bound - m
  OBVIOUS
<1>4. ASSUME NEW k \in T PROVE k <= m
  <2>1. b <= bound - k
    BY <1>2
  <2>. QED  BY <2>1, <1>3
<1>. QED  BY <1>4

\* The functions of the job store keep a row a row.
LEMMA RowType ==
    ASSUME NEW row \in JobRow
    PROVE  /\ \A p \in Int : WithProgress(row, p) \in JobRow
           /\ \A status \in FinalStatus : WithResult(row, status) \in JobRow
           /\ \A b \in BOOLEAN : WithError(row, b) \in JobRow
           /\ CancelRequested(row) \in JobRow
<1>1. ASSUME NEW p \in Int
      PROVE  WithProgress(row, p) \in JobRow
  <2>1. Clamp(p) \in 0 .. Whole
    BY WholeAssumption DEF Clamp
  <2>. QED  BY <2>1 DEF WithProgress, JobRow
<1>2. ASSUME NEW status \in FinalStatus
      PROVE  WithResult(row, status) \in JobRow
  <2>1. Whole \in 0 .. Whole /\ status \in JobStatus
    BY WholeAssumption DEF JobStatus
  <2>. QED  BY <2>1 DEF WithResult, JobRow
<1>3. ASSUME NEW b \in BOOLEAN
      PROVE  WithError(row, b) \in JobRow
  BY DEF WithError, JobRow, JobStatus, FinalStatus
<1>4. CancelRequested(row) \in JobRow
  BY DEF CancelRequested, JobRow
<1>. QED  BY <1>1, <1>2, <1>3, <1>4

LEMMA ShareType ==
    ASSUME NEW done \in Nat, NEW total \in Nat \ {0}
    PROVE  Share(done, total) \in Int
<1>1. done * Whole \in Nat
  BY WholeAssumption
<1>2. (done * Whole) \div total \in Int
  BY <1>1
<1>. QED  BY <1>2 DEF Share

-----------------------------------------------------------------------------
\* Types

\* The positions between a download and the item of its document
InDocument == {"find", "insert", "content", "retry", "reset", "parse", "unreadable", "count",
               "failed", "extract", "span", "update", "claims", "mark", "unextracted"}

\* What the position of a thread says of what it holds.  Without it nothing
\* says that the document and the content the thread works on exist.
ThreadHolds ==
    \A j \in Jobs :
        /\ pc[j] \in InDocument \cup {"download"} => index[j] \in 1 .. Len(listing[j])
        /\ pc[j] \in InDocument => content[j] \in Contents

\* Versions are numbers below some bound, so there is a latest one.
VersionsBounded ==
    \E bound \in Nat :
        /\ \A d \in Documents, c \in Contents : document[d][c].version <= bound
        /\ \A j \in Jobs : base[j] <= bound

\* A release is new at most once for each restart.
ReleasesCounted == release <= crashes + 1

TypeInv == TypeOK /\ ThreadHolds /\ VersionsBounded /\ ReleasesCounted

LEMMA CurrentType ==
    ASSUME TypeOK, NEW j \in Jobs, index[j] \in 1 .. Len(listing[j])
    PROVE  Current(j) \in Documents
<1>1. listing[j] \in Seq(Documents)
  BY DEF TypeOK
<1>. QED  BY <1>1 DEF Current

LEMMA RowOfThread ==
    ASSUME TypeOK, ThreadHolds, NEW j \in Jobs, pc[j] \in InDocument
    PROVE  /\ Current(j) \in Documents
           /\ content[j] \in Contents
           /\ Row(j) \in DocumentRow
<1>1. Current(j) \in Documents /\ content[j] \in Contents
  BY CurrentType DEF ThreadHolds
<1>2. document \in [Documents -> [Contents -> DocumentRow]]
  BY DEF TypeOK
<1>. QED  BY <1>1, <1>2 DEF Row

LEMMA HighestVersionType ==
    ASSUME TypeOK, VersionsBounded, NEW d \in Documents
    PROVE  /\ HighestVersion(d) \in Nat
           /\ \A bound \in Nat : (\A c \in Contents : document[d][c].version <= bound) =>
                 HighestVersion(d) <= bound
<1>1. document[d] \in [Contents -> DocumentRow]
  BY DEF TypeOK
<1>2. CASE Stored(d) = {}
  BY <1>2 DEF HighestVersion
<1>3. CASE Stored(d) # {}
  <2>. DEFINE T == {document[d][c].version : c \in Stored(d)}
  <2>1. T \in SUBSET Nat /\ T # {}
    BY <1>1, <1>3 DEF Stored, DocumentRow
  <2>2. PICK bound \in Nat : \A k \in T : k <= bound
    BY DEF VersionsBounded, Stored
  <2>3. PICK m \in T : \A k \in T : k <= m
    BY <2>1, <2>2, GreatestNumber
  <2>4. Latest(d) # {}
    BY <2>3 DEF Latest
  <2>5. (CHOOSE c \in Latest(d) : TRUE) \in Contents
    BY <2>4 DEF Latest, Stored
  <2>. QED  BY <1>1, <1>3, <2>5 DEF HighestVersion, DocumentRow
<1>. QED  BY <1>2, <1>3

LEMMA CountsGrow ==
    ASSUME NEW n \in Counts, NEW u \in Nat
    PROVE  /\ [n EXCEPT !.unchanged = @ + u] \in Counts
           /\ [n EXCEPT !.parsed = @ + u] \in Counts
           /\ [n EXCEPT !.failed = @ + u] \in Counts
  BY DEF Counts

\* EndDocument assigns the item, the counts, the index, the position and what
\* the thread forgets.
LEMMA EndDocumentType ==
    ASSUME TypeOK, ThreadHolds, NEW j \in Jobs, NEW status \in ItemStatus \ {"absent"},
           EndDocument(j, status)
    PROVE  /\ item' \in [Jobs -> [Documents -> ItemStatus]]
           /\ counts' \in [Jobs -> Counts]
           /\ index' \in [Jobs -> Nat \ {0}]
           /\ pc' \in [Jobs -> Position]
           /\ content' \in [Jobs -> Contents \cup {None}]
           /\ base' \in [Jobs -> Nat]
           /\ seen' \in [Jobs -> ParseStatus]
           /\ \A k \in Jobs : base'[k] <= base[k]
           /\ ThreadHolds'
<1>1. item' \in [Jobs -> [Documents -> ItemStatus]]
  BY DEF TypeOK, EndDocument
<1>2. counts' \in [Jobs -> Counts]
  <2>1. PICK u \in Nat, p \in Nat, f \in Nat :
           counts' = [counts EXCEPT ![j].unchanged = @ + u, ![j].parsed = @ + p,
                                    ![j].failed = @ + f]
    <3>. DEFINE u == IF status = "unchanged" THEN 1 ELSE 0
                p == IF status \in {"parsed", "extraction_failed"} THEN 1 ELSE 0
                f == IF status \in Failure THEN 1 ELSE 0
    <3>1. u \in Nat /\ p \in Nat /\ f \in Nat
      OBVIOUS
    <3>2. counts' = [counts EXCEPT ![j].unchanged = @ + u, ![j].parsed = @ + p,
                                   ![j].failed = @ + f]
      BY DEF EndDocument
    <3>. QED  BY <3>1, <3>2
  <2>. DEFINE first == [counts EXCEPT ![j].unchanged = @ + u]
              second == [first EXCEPT ![j].parsed = @ + p]
  <2>2. first \in [Jobs -> Counts]
    <3>1. counts \in [Jobs -> Counts]
      BY DEF TypeOK
    <3>2. first = [counts EXCEPT ![j] = [counts[j] EXCEPT !.unchanged = @ + u]]
      BY <3>1
    <3>. QED  BY <3>1, <3>2, CountsGrow
  <2>3. second \in [Jobs -> Counts]
    <3>1. second = [first EXCEPT ![j] = [first[j] EXCEPT !.parsed = @ + p]]
      BY <2>2
    <3>. HIDE DEF first
    <3>. QED  BY <2>2, <3>1, CountsGrow
  <2>4. counts' = [second EXCEPT ![j].failed = @ + f]
    BY <2>1
  <2>5. counts' = [second EXCEPT ![j] = [second[j] EXCEPT !.failed = @ + f]]
    BY <2>3, <2>4
  <2>. HIDE DEF second
  <2>. QED  BY <2>3, <2>5, CountsGrow
<1>3. index' \in [Jobs -> Nat \ {0}]
  BY DEF TypeOK, EndDocument
<1>4. pc' \in [Jobs -> Position]
  BY DEF TypeOK, EndDocument, Goto, Position, Working
<1>5. /\ content' \in [Jobs -> Contents \cup {None}]
      /\ base' \in [Jobs -> Nat]
      /\ seen' \in [Jobs -> ParseStatus]
      /\ \A k \in Jobs : base'[k] <= base[k]
  BY DEF TypeOK, EndDocument, Forget, ParseStatus
<1>6. ThreadHolds'
  BY DEF TypeOK, EndDocument, Forget, Goto, ThreadHolds, InDocument
<1>. QED  BY <1>1, <1>2, <1>3, <1>4, <1>5, <1>6

\* A step that only moves the thread, as the previous position allows it to
LEMMA GotoType ==
    ASSUME TypeInv, NEW j \in Jobs, NEW position \in Position, Goto(j, position),
           position \in InDocument \cup {"download"} =>
               index[j] \in 1 .. Len(listing[j]),
           position \in InDocument => content[j] \in Contents,
           UNCHANGED <<document, listing, index, content, base>>
    PROVE  /\ pc' \in [Jobs -> Position]
           /\ ThreadHolds'
           /\ VersionsBounded'
<1>1. pc' \in [Jobs -> Position]
  BY DEF TypeInv, TypeOK, Goto
<1>2. ThreadHolds'
  BY DEF TypeInv, TypeOK, Goto, ThreadHolds
<1>3. VersionsBounded'
  BY DEF TypeInv, VersionsBounded
<1>. QED  BY <1>1, <1>2, <1>3

\* A step that gives the row of a thread other fields but the version
LEMMA RowChange ==
    ASSUME TypeInv, NEW j \in Jobs, pc[j] \in InDocument,
           NEW row \in DocumentRow, row.version = Row(j).version,
           document' = [document EXCEPT ![Current(j)][content[j]] = row]
    PROVE  /\ document' \in [Documents -> [Contents -> DocumentRow]]
           /\ \A d \in Documents, c \in Contents :
                 document'[d][c].version = document[d][c].version
<1>1. /\ Current(j) \in Documents /\ content[j] \in Contents
      /\ document \in [Documents -> [Contents -> DocumentRow]]
  BY RowOfThread DEF TypeInv, TypeOK
<1>2. document' \in [Documents -> [Contents -> DocumentRow]]
  BY <1>1
<1>3. ASSUME NEW d \in Documents, NEW c \in Contents
      PROVE  document'[d][c].version = document[d][c].version
  BY <1>1 DEF Row
<1>. QED  BY <1>2, <1>3

LEMMA BoundKept ==
    ASSUME TypeInv,
           \A d \in Documents, c \in Contents :
               document'[d][c].version = document[d][c].version,
           \A j \in Jobs : base'[j] <= base[j] /\ base'[j] \in Nat
    PROVE  VersionsBounded'
<1>1. PICK bound \in Nat :
          /\ \A d \in Documents, c \in Contents : document[d][c].version <= bound
          /\ \A j \in Jobs : base[j] <= bound
  BY DEF TypeInv, VersionsBounded
<1>2. \A j \in Jobs : base[j] \in Nat
  BY DEF TypeInv, TypeOK
<1>3. \A j \in Jobs : base'[j] <= bound
  BY <1>1, <1>2
<1>. QED  BY <1>1, <1>3 DEF VersionsBounded

\* The rows the actions write
LEMMA RowsWritten ==
    ASSUME TypeInv, NEW j \in Jobs, pc[j] \in InDocument
    PROVE  /\ SaveContent(j) => document' = [document EXCEPT ![Current(j)][content[j]] =
                                     [Row(j) EXCEPT !.parser = release]]
           /\ ResetStatus(j) => document' = [document EXCEPT ![Current(j)][content[j]] =
                                     [Row(j) EXCEPT !.status = "pending"]]
           /\ MarkFailed(j) => document' = [document EXCEPT ![Current(j)][content[j]] =
                                     [Row(j) EXCEPT !.status = "failed"]]
           /\ SaveSpan(j) => document' = [document EXCEPT ![Current(j)][content[j]] =
                                     [Row(j) EXCEPT !.spans = TRUE]]
           /\ SpanParsed(j) => document' = [document EXCEPT ![Current(j)][content[j]] =
                 [Row(j) EXCEPT !.status = IF @ = "pending" THEN "parsed" ELSE @]]
           /\ MarkParsed(j) => document' = [document EXCEPT ![Current(j)][content[j]] =
                                     [Row(j) EXCEPT !.status = "parsed", !.parser = release]]
<1>1. /\ Current(j) \in Documents /\ content[j] \in Contents
      /\ document \in [Documents -> [Contents -> DocumentRow]]
  BY RowOfThread DEF TypeInv, TypeOK
<1>. QED
  BY <1>1 DEF Row, SaveContent, ResetStatus, MarkFailed, SaveSpan, SpanParsed, MarkParsed

LEMMA RowsWrittenType ==
    ASSUME TypeInv, NEW j \in Jobs, pc[j] \in InDocument,
           \/ SaveContent(j) \/ ResetStatus(j) \/ MarkFailed(j) \/ SaveSpan(j)
           \/ SpanParsed(j) \/ MarkParsed(j)
    PROVE  /\ document' \in [Documents -> [Contents -> DocumentRow]]
           /\ \A d \in Documents, c \in Contents :
                 document'[d][c].version = document[d][c].version
<1>1. Row(j) \in DocumentRow /\ release \in Nat
  BY RowOfThread, IntelligenceAssumption DEF TypeInv, TypeOK, Releases
<1>2. CASE SaveContent(j)
  <2>1. [Row(j) EXCEPT !.parser = release] \in DocumentRow
    BY <1>1 DEF DocumentRow
  <2>. QED  BY <1>1, <1>2, <2>1, RowsWritten, RowChange DEF DocumentRow
<1>3. CASE ResetStatus(j)
  <2>1. [Row(j) EXCEPT !.status = "pending"] \in DocumentRow
    BY <1>1 DEF DocumentRow, ParseStatus
  <2>. QED  BY <1>1, <1>3, <2>1, RowsWritten, RowChange DEF DocumentRow
<1>4. CASE MarkFailed(j)
  <2>1. [Row(j) EXCEPT !.status = "failed"] \in DocumentRow
    BY <1>1 DEF DocumentRow, ParseStatus
  <2>. QED  BY <1>1, <1>4, <2>1, RowsWritten, RowChange DEF DocumentRow
<1>5. CASE SaveSpan(j)
  <2>1. [Row(j) EXCEPT !.spans = TRUE] \in DocumentRow
    BY <1>1 DEF DocumentRow
  <2>. QED  BY <1>1, <1>5, <2>1, RowsWritten, RowChange DEF DocumentRow
<1>6. CASE SpanParsed(j)
  <2>. DEFINE row == [Row(j) EXCEPT !.status = IF @ = "pending" THEN "parsed" ELSE @]
  <2>1. row \in DocumentRow /\ row.version = Row(j).version
    BY <1>1 DEF DocumentRow, ParseStatus
  <2>2. document' = [document EXCEPT ![Current(j)][content[j]] = row]
    BY <1>6, RowsWritten
  <2>. HIDE DEF row
  <2>. QED  BY <2>1, <2>2, RowChange
<1>7. CASE MarkParsed(j)
  <2>. DEFINE row == [Row(j) EXCEPT !.status = "parsed", !.parser = release]
  <2>1. row \in DocumentRow /\ row.version = Row(j).version
    BY <1>1 DEF DocumentRow, ParseStatus
  <2>2. document' = [document EXCEPT ![Current(j)][content[j]] = row]
    BY <1>7, RowsWritten
  <2>. HIDE DEF row
  <2>. QED  BY <2>1, <2>2, RowChange
<1>. QED  BY <1>2, <1>3, <1>4, <1>5, <1>6, <1>7

\* A step that ends a document and otherwise keeps every version
LEMMA EndKeepsTypes ==
    ASSUME TypeInv, NEW j \in Jobs, NEW status \in ItemStatus \ {"absent"},
           EndDocument(j, status), accepted' = accepted,
           job' \in [Jobs -> JobRow],
           document' \in [Documents -> [Contents -> DocumentRow]],
           \A d \in Documents, c \in Contents :
               document'[d][c].version = document[d][c].version
    PROVE  TypeInv'
<1>1. UNCHANGED <<run, release, force, listing, crashes>>
  BY DEF EndDocument
<1>2. TypeOK'
  BY <1>1, EndDocumentType DEF TypeInv, TypeOK
<1>3. VersionsBounded'
  BY EndDocumentType, BoundKept DEF TypeInv
<1>4. ReleasesCounted'
  BY <1>1 DEF TypeInv, ReleasesCounted
<1>. QED  BY <1>2, <1>3, <1>4, EndDocumentType DEF TypeInv

LEMMA EndAloneKeepsTypes ==
    ASSUME TypeInv, NEW j \in Jobs, NEW status \in ItemStatus \ {"absent"},
           EndDocument(j, status), UNCHANGED <<job, document, accepted>>
    PROVE  TypeInv'
  BY EndKeepsTypes DEF TypeInv, TypeOK

\* A step that moves the thread and nothing of what it holds
LEMMA MoveKeepsTypes ==
    ASSUME TypeInv, NEW j \in Jobs, NEW position \in Position, Goto(j, position),
           position \in InDocument => pc[j] \in InDocument,
           position = "download" =>
               index[j] \in 1 .. Len(listing[j]),
           UNCHANGED <<document, release, locals, crashes, accepted, item>>,
           job' \in [Jobs -> JobRow],
           run' \in [Jobs -> [status : {"absent", "running"} \cup FinalRun, counts : Counts]]
    PROVE  TypeInv'
<1>1. position \in InDocument => /\ index[j] \in 1 .. Len(listing[j])
                                 /\ content[j] \in Contents
  BY DEF TypeInv, ThreadHolds
<1>2. /\ pc' \in [Jobs -> Position] /\ ThreadHolds' /\ VersionsBounded'
  BY <1>1, GotoType DEF locals
<1>. QED  BY <1>2 DEF ReleasesCounted, TypeInv, TypeOK, locals

LEMMA StillMoveKeepsTypes ==
    ASSUME TypeInv, NEW j \in Jobs, NEW position \in Position, Goto(j, position),
           position \in InDocument => pc[j] \in InDocument, position # "download",
           UNCHANGED <<rows, document, release, locals, crashes, accepted>>
    PROVE  TypeInv'
<1>1. /\ job' \in [Jobs -> JobRow]
      /\ run' \in [Jobs -> [status : {"absent", "running"} \cup FinalRun, counts : Counts]]
      /\ item' = item
  BY DEF TypeInv, TypeOK, rows
<1>. QED  BY <1>1, MoveKeepsTypes

\* A step that writes the row of the thread's document and goes on
LEMMA WriteKeepsTypes ==
    ASSUME TypeInv, NEW j \in Jobs, pc[j] \in InDocument,
           \/ SaveContent(j) \/ ResetStatus(j) \/ SaveSpan(j) \/ SpanParsed(j)
    PROVE  TypeInv'
<1>1. PICK position \in InDocument :
          /\ Goto(j, position)
          /\ UNCHANGED <<rows, accepted, release, locals, crashes>>
  BY DEF SaveContent, ResetStatus, SaveSpan, SpanParsed, InDocument
<1>2. /\ document' \in [Documents -> [Contents -> DocumentRow]]
      /\ \A d \in Documents, c \in Contents :
            document'[d][c].version = document[d][c].version
  BY RowsWrittenType
<1>3. position \in Position
  BY DEF InDocument, Position, Working
<1>4. pc' \in [Jobs -> Position] /\ ThreadHolds'
  BY <1>1, <1>3 DEF TypeInv, TypeOK, Goto, ThreadHolds, locals
<1>5. VersionsBounded'
  BY <1>1, <1>2, BoundKept DEF TypeInv, TypeOK, locals
<1>. QED  BY <1>1, <1>2, <1>4, <1>5 DEF ReleasesCounted, TypeInv, TypeOK, rows, locals

LEMMA VerdictType ==
    ASSUME NEW n
    PROVE  RunVerdict(n) \in FinalRun \ {"cancelled"}
  BY DEF RunVerdict, FinalRun

LEMMA JobVerdictType ==
    ASSUME NEW status
    PROVE  JobVerdict(status) \in FinalStatus
  BY DEF JobVerdict, FinalStatus

LEMMA RouteType ==
    ASSUME TypeInv, NEW j \in Jobs, Post(j) \/ Cancel(j) \/ Complete(j) \/ Fail(j)
    PROVE  TypeInv'
<1>1. CASE Post(j)
  <2>1. job' \in [Jobs -> JobRow] /\ force' \in [Jobs -> BOOLEAN]
    <3>1. NewRow \in JobRow
      <4>1. AbsentRow \in JobRow
        BY WholeAssumption DEF AbsentRow, JobRow, JobStatus
      <4>. QED  BY <4>1 DEF NewRow, JobRow, JobStatus
    <3>2. job' = [job EXCEPT ![j] = NewRow] /\ job \in [Jobs -> JobRow]
      BY <1>1 DEF Post, TypeInv, TypeOK
    <3>3. force' \in [Jobs -> BOOLEAN]
      BY <1>1, IntelligenceAssumption DEF Post, TypeInv, TypeOK
    <3>. QED  BY <3>1, <3>2, <3>3
  <2>2. pc' \in [Jobs -> Position] /\ ThreadHolds' /\ VersionsBounded'
    BY <1>1 DEF Post, TypeInv, TypeOK, Position, Working, ThreadHolds, VersionsBounded, InDocument
  <2>. QED  BY <1>1, <2>1, <2>2 DEF ReleasesCounted, Post, TypeInv, TypeOK
<1>2. CASE Cancel(j)
  <2>1. job' \in [Jobs -> JobRow]
    BY <1>2, RowType DEF Cancel, TypeInv, TypeOK
  <2>2. accepted' \in [Jobs -> Nat]
    BY <1>2 DEF Cancel, TypeInv, TypeOK
  <2>3. ThreadHolds' /\ VersionsBounded'
    BY <1>2 DEF Cancel, TypeInv, ThreadHolds, VersionsBounded, locals
  <2>. QED  BY <1>2, <2>1, <2>2, <2>3 DEF ReleasesCounted, Cancel, TypeInv, TypeOK, locals
<1>3. CASE Complete(j)
  <2>1. job' \in [Jobs -> JobRow]
    BY <1>3, RowType, JobVerdictType DEF Complete, TypeInv, TypeOK
  <2>. QED
    BY <1>3, <2>1, MoveKeepsTypes
    DEF Complete, Goto, InDocument, Position, TypeInv, TypeOK
<1>4. CASE Fail(j)
  <2>1. job' \in [Jobs -> JobRow]
    <3>1. PICK b \in BOOLEAN : job' = [job EXCEPT ![j] = WithError(@, b)]
      BY <1>4 DEF Fail
    <3>. QED  BY <3>1, RowType DEF TypeInv, TypeOK
  <2>2. /\ pc' \in [Jobs -> Position]
        /\ content' \in [Jobs -> Contents \cup {None}]
        /\ base' \in [Jobs -> Nat]
        /\ seen' \in [Jobs -> ParseStatus]
        /\ \A k \in Jobs : base'[k] <= base[k]
    BY <1>4 DEF Fail, Forget, TypeInv, TypeOK, Position, ParseStatus
  <2>3. ThreadHolds'
    BY <1>4 DEF Fail, Forget, TypeInv, TypeOK, ThreadHolds, InDocument
  <2>4. VersionsBounded'
    BY <1>4, <2>2, BoundKept DEF Fail
  <2>. QED  BY <1>4, <2>1, <2>2, <2>3, <2>4 DEF ReleasesCounted, Fail, TypeInv, TypeOK
<1>. QED  BY <1>1, <1>2, <1>3, <1>4

LEMMA RunType ==
    ASSUME TypeInv, NEW j \in Jobs,
           Begin(j) \/ Discover(j) \/ LeaveLoop(j) \/ Finish(j) \/ StopCancelled(j)
    PROVE  TypeInv'
<1>. DEFINE RunRow == [status : {"absent", "running"} \cup FinalRun, counts : Counts]
<1>1. CASE Begin(j)
  <2>1. run' \in [Jobs -> RunRow]
    <3>1. run \in [Jobs -> RunRow]
      BY DEF TypeInv, TypeOK
    <3>2. run' = run \/ run' = [run EXCEPT ![j] = [run[j] EXCEPT !.status = "running"]]
      BY <1>1, <3>1 DEF Begin
    <3>3. [run[j] EXCEPT !.status = "running"] \in RunRow
      BY <3>1
    <3>. QED  BY <3>1, <3>2, <3>3
  <2>2. job' \in [Jobs -> JobRow]
    BY <1>1 DEF Begin, TypeInv, TypeOK
  <2>. QED
    BY <1>1, <2>1, <2>2, MoveKeepsTypes DEF Begin, InDocument, Position, Working
<1>2. CASE Discover(j)
  <2>1. listing' \in [Jobs -> Seq(Documents)]
    <3>1. listing \in [Jobs -> Seq(Documents)] /\ Listings \subseteq Seq(Documents)
      BY IntelligenceAssumption DEF TypeInv, TypeOK
    <3>2. \/ \E l \in Listings : listing' = [listing EXCEPT ![j] = l]
          \/ listing' = listing
      BY <1>2 DEF Discover
    <3>. QED  BY <3>1, <3>2
  <2>2. counts' \in [Jobs -> Counts]
    <3>1. counts \in [Jobs -> Counts]
      BY DEF TypeInv, TypeOK
    <3>2. PICK f \in Nat : counts' = [counts EXCEPT ![j].failed = f]
      BY <1>2 DEF Discover
    <3>3. counts' = [counts EXCEPT ![j] = [counts[j] EXCEPT !.failed = f]]
      BY <3>1, <3>2
    <3>4. [counts[j] EXCEPT !.failed = f] \in Counts
      BY <3>1 DEF Counts
    <3>. QED  BY <3>1, <3>3, <3>4
  <2>3. run' \in [Jobs -> RunRow]
    BY <1>2, <2>2 DEF Discover, CloseRun, TypeInv, TypeOK, FinalRun
  <2>4. pc' \in [Jobs -> Position] /\ ThreadHolds'
    <3>1. pc[j] = "discover"
      BY <1>2 DEF Discover
    <3>2. \/ /\ pc' = [pc EXCEPT ![j] = "next"]
             /\ \E l \in Listings : listing' = [listing EXCEPT ![j] = l]
          \/ pc' = [pc EXCEPT ![j] = "returned"] /\ listing' = listing
      BY <1>2 DEF Discover, CloseRun, Goto
    <3>3. UNCHANGED <<index, content>>
      BY <1>2 DEF Discover
    <3>4. pc' \in [Jobs -> Position]
      BY <3>2 DEF TypeInv, TypeOK, Position, Working
    <3>5. \A k \in Jobs \ {j} : pc'[k] = pc[k] /\ listing'[k] = listing[k]
      BY <3>2 DEF TypeInv, TypeOK
    <3>6. pc'[j] \notin InDocument \cup {"download"}
      BY <3>2 DEF TypeInv, TypeOK, InDocument
    <3>. QED  BY <3>3, <3>4, <3>5, <3>6 DEF TypeInv, ThreadHolds
  <2>5. VersionsBounded'
    BY <1>2 DEF Discover, TypeInv, VersionsBounded
  <2>. QED  BY <1>2, <2>1, <2>2, <2>3, <2>4, <2>5 DEF ReleasesCounted, Discover, TypeInv, TypeOK
<1>3. CASE LeaveLoop(j)
  <2>1. job' \in [Jobs -> JobRow]
    <3>1. job \in [Jobs -> JobRow] /\ Whole \in Int
      BY WholeAssumption DEF TypeInv, TypeOK
    <3>2. job' = [job EXCEPT ![j] = WithProgress(job[j], Whole)]
      BY <1>3, <3>1 DEF LeaveLoop
    <3>. QED  BY <3>1, <3>2, RowType
  <2>2. run' \in [Jobs -> RunRow]
    BY <1>3 DEF LeaveLoop, TypeInv, TypeOK
  <2>. QED
    BY <1>3, <2>1, <2>2, MoveKeepsTypes DEF LeaveLoop, InDocument, Position, Working
<1>4. CASE Finish(j) \/ StopCancelled(j)
  <2>1. PICK status \in FinalRun : CloseRun(j, status, counts[j])
    BY <1>4, VerdictType DEF Finish, StopCancelled, FinalRun
  <2>2. run' \in [Jobs -> RunRow]
    BY <2>1 DEF CloseRun, TypeInv, TypeOK
  <2>3. job' \in [Jobs -> JobRow]
    BY <1>4 DEF Finish, StopCancelled, TypeInv, TypeOK
  <2>. QED
    BY <1>4, <2>1, <2>2, <2>3, MoveKeepsTypes
    DEF Finish, StopCancelled, CloseRun, InDocument, Position, Working
<1>. QED  BY <1>1, <1>2, <1>3, <1>4

LEMMA ReadType ==
    ASSUME TypeInv, NEW j \in Jobs,
           Look(j) \/ Download(j) \/ FindDocument(j) \/ InsertDocument(j)
    PROVE  TypeInv'
<1>1. CASE Look(j)
  <2>1. job' \in [Jobs -> JobRow]
    <3>1. index[j] - 1 \in Nat /\ Len(listing[j]) \in Nat \ {0}
      BY <1>1 DEF Look, TypeInv, TypeOK
    <3>2. Share(index[j] - 1, Len(listing[j])) \in Int
      BY <3>1, ShareType
    <3>3. job' = [job EXCEPT ![j] =
                     WithProgress(@, Share(index[j] - 1, Len(listing[j])))]
      BY <1>1 DEF Look
    <3>. HIDE DEF Share
    <3>. QED  BY <3>2, <3>3, RowType DEF TypeInv, TypeOK
  <2>2. CASE EndDocument(j, "unchanged")
    BY <1>1, <2>1, <2>2, EndKeepsTypes DEF Look, ItemStatus, Success, TypeInv, TypeOK
  <2>3. CASE Goto(j, "download") /\ UNCHANGED <<run, item, release, locals, crashes>>
    <3>1. index[j] \in 1 .. Len(listing[j])
      BY <1>1 DEF Look, TypeInv, TypeOK
    <3>. QED
      BY <1>1, <2>1, <2>3, <3>1, MoveKeepsTypes
      DEF Look, InDocument, Position, Working, TypeInv, TypeOK
  <2>. QED  BY <1>1, <2>2, <2>3 DEF Look
<1>2. CASE Download(j)
  <2>1. ASSUME NEW status \in {"provider_failed", "parse_failed"}, EndDocument(j, status)
        PROVE  TypeInv'
    BY <1>2, <2>1, EndAloneKeepsTypes DEF Download, ItemStatus, Failure
  <2>2. ASSUME NEW c \in Contents, content' = [content EXCEPT ![j] = c], Goto(j, "find"),
               UNCHANGED <<run, item, release, force, listing, index, base, seen, counts,
                           crashes>>
        PROVE  TypeInv'
    <3>1. content' \in [Jobs -> Contents \cup {None}] /\ pc' \in [Jobs -> Position]
      BY <2>2 DEF TypeInv, TypeOK, Goto, Position, Working
    <3>2. pc[j] = "download" /\ UNCHANGED <<job, document, accepted>>
      BY <1>2 DEF Download
    <3>3. ThreadHolds'
      BY <2>2, <3>2 DEF TypeInv, TypeOK, ThreadHolds, Goto, InDocument
    <3>4. VersionsBounded'
      BY <2>2, <3>2 DEF TypeInv, VersionsBounded
    <3>. QED  BY <2>2, <3>1, <3>2, <3>3, <3>4 DEF ReleasesCounted, TypeInv, TypeOK
  <2>. QED  BY <1>2, <2>1, <2>2 DEF Download
<1>3. CASE FindDocument(j)
  <2>1. pc[j] \in InDocument
    BY <1>3 DEF FindDocument, InDocument
  <2>2. Row(j) \in DocumentRow /\ Current(j) \in Documents
    BY <2>1, RowOfThread DEF TypeInv
  <2>3. seen' \in [Jobs -> ParseStatus]
    BY <1>3, <2>2 DEF FindDocument, TypeInv, TypeOK, DocumentRow
  <2>4. HighestVersion(Current(j)) \in Nat
    BY <2>2, HighestVersionType DEF TypeInv
  <2>5. base' \in [Jobs -> Nat]
    BY <1>3, <2>4 DEF FindDocument, TypeInv, TypeOK
  <2>6. VersionsBounded'
    <3>1. PICK bound \in Nat :
              /\ \A d \in Documents, c \in Contents : document[d][c].version <= bound
              /\ \A k \in Jobs : base[k] <= bound
      BY DEF TypeInv, VersionsBounded
    <3>2. HighestVersion(Current(j)) <= bound
      BY <2>2, <3>1, HighestVersionType DEF TypeInv
    <3>3. base' = base \/ base' = [base EXCEPT ![j] = HighestVersion(Current(j))]
      BY <1>3 DEF FindDocument
    <3>4. \A k \in Jobs : base'[k] <= bound
      BY <3>1, <3>2, <3>3 DEF TypeInv, TypeOK
    <3>5. document' = document
      BY <1>3 DEF FindDocument
    <3>. QED  BY <3>1, <3>4, <3>5 DEF VersionsBounded
  <2>7. PICK position \in InDocument : Goto(j, position)
    BY <1>3 DEF FindDocument, InDocument
  <2>8. pc' \in [Jobs -> Position] /\ ThreadHolds'
    BY <1>3, <2>1, <2>7
    DEF FindDocument, Goto, TypeInv, TypeOK, ThreadHolds, InDocument, Position, Working
  <2>. QED  BY <1>3, <2>3, <2>5, <2>6, <2>8 DEF ReleasesCounted, FindDocument, TypeInv, TypeOK, rows
<1>4. CASE InsertDocument(j)
  <2>1. pc[j] \in InDocument
    BY <1>4 DEF InsertDocument, InDocument
  <2>2. CASE EndDocument(j, "parse_failed") /\ document' = document
    BY <1>4, <2>2, EndAloneKeepsTypes DEF InsertDocument, ItemStatus, Failure
  <2>3. ASSUME document' = [document EXCEPT ![Current(j)][content[j]] =
                               [NoDocument EXCEPT !.version = base[j] + 1]],
               seen' = [seen EXCEPT ![j] = "pending"], Goto(j, "content"),
               UNCHANGED <<run, item, release, force, listing, index, content, base, counts,
                           crashes>>
        PROVE  TypeInv'
    <3>. DEFINE new == [NoDocument EXCEPT !.version = base[j] + 1]
    <3>0. /\ Current(j) \in Documents /\ content[j] \in Contents
          /\ document \in [Documents -> [Contents -> DocumentRow]]
          /\ base \in [Jobs -> Nat]
      BY <2>1, RowOfThread DEF TypeInv, TypeOK
    <3>1. new \in DocumentRow /\ new.version = base[j] + 1
      <4>1. NoDocument \in DocumentRow
        BY DEF NoDocument, DocumentRow, ParseStatus
      <4>2. base[j] + 1 \in Nat
        BY <3>0
      <4>. QED  BY <4>1, <4>2 DEF DocumentRow, new
    <3>. HIDE DEF new
    <3>2. document' = [document EXCEPT ![Current(j)][content[j]] = new]
      BY <2>3 DEF new
    <3>3. document' \in [Documents -> [Contents -> DocumentRow]]
      BY <3>0, <3>1, <3>2
    <3>4. VersionsBounded'
      <4>1. PICK bound \in Nat :
                /\ \A d \in Documents, c \in Contents : document[d][c].version <= bound
                /\ \A k \in Jobs : base[k] <= bound
        BY DEF TypeInv, VersionsBounded
      <4>2. ASSUME NEW d \in Documents, NEW c \in Contents
            PROVE  document'[d][c].version <= bound + 1
        <5>1. document'[d][c] \in {document[d][c], new}
          BY <3>0, <3>2
        <5>2. document[d][c].version \in Nat
          BY <3>0 DEF DocumentRow
        <5>. QED  BY <3>0, <3>1, <4>1, <5>1, <5>2
      <4>3. \A k \in Jobs : base'[k] <= bound + 1
        BY <2>3, <3>0, <4>1
      <4>. QED  BY <4>2, <4>3 DEF VersionsBounded
    <3>5. pc' \in [Jobs -> Position] /\ ThreadHolds'
      BY <2>1, <2>3
      DEF Goto, TypeInv, TypeOK, ThreadHolds, InDocument, Position, Working
    <3>6. seen' \in [Jobs -> ParseStatus]
      BY <2>3 DEF TypeInv, TypeOK, ParseStatus
    <3>7. UNCHANGED <<job, accepted>>
      BY <1>4 DEF InsertDocument
    <3>. QED  BY <2>3, <3>3, <3>4, <3>5, <3>6, <3>7 DEF ReleasesCounted, TypeInv, TypeOK
  <2>. QED  BY <1>4, <2>2, <2>3 DEF InsertDocument
<1>. QED  BY <1>1, <1>2, <1>3, <1>4

LEMMA ParseType ==
    ASSUME TypeInv, NEW j \in Jobs,
           \/ SaveContent(j) \/ RetryParse(j) \/ ResetStatus(j) \/ Parse(j) \/ ReadRaises(j)
           \/ RefreshRaises(j) \/ Unreadable(j) \/ CountSpans(j) \/ MarkFailed(j)
    PROVE  TypeInv'
<1>1. CASE SaveContent(j) \/ ResetStatus(j)
  BY <1>1, WriteKeepsTypes DEF SaveContent, ResetStatus, InDocument
<1>2. CASE RetryParse(j) \/ Parse(j) \/ RefreshRaises(j) \/ CountSpans(j)
  <2>1. PICK position \in {"unreadable", "reset", "extract", "raised", "failed"} :
            /\ Goto(j, position)
            /\ position \in InDocument => pc[j] \in InDocument
            /\ UNCHANGED <<rows, document, accepted, release, locals, crashes>>
    BY <1>2 DEF RetryParse, Parse, RefreshRaises, CountSpans, InDocument
  <2>. QED  BY <2>1, StillMoveKeepsTypes DEF Position, Working
<1>3. ASSUME NEW status \in {"parse_failed", "unsupported_format"}, EndDocument(j, status),
             UNCHANGED <<job, document, accepted>>
      PROVE  TypeInv'
  BY <1>3, EndAloneKeepsTypes DEF ItemStatus, Failure
<1>4. CASE ReadRaises(j)
  <2>1. CASE EndDocument(j, "parse_failed")
    BY <1>3, <1>4, <2>1 DEF ReadRaises
  <2>2. CASE /\ pc[j] \in {"content", "retry", "reset", "parse"}
             /\ Goto(j, "unreadable")
             /\ UNCHANGED <<run, item, release, locals, crashes>>
    BY <1>4, <2>2, StillMoveKeepsTypes DEF ReadRaises, InDocument, Position, Working, rows
  <2>. QED  BY <1>4, <2>1, <2>2 DEF ReadRaises
<1>5. CASE Unreadable(j)
  <2>1. CASE UnreadableItem(j)
    BY <1>3, <1>5, <2>1 DEF Unreadable, UnreadableItem
  <2>2. CASE Goto(j, "count") /\ UNCHANGED <<run, item, release, locals, crashes>>
    BY <1>5, <2>2, StillMoveKeepsTypes DEF Unreadable, InDocument, Position, Working, rows
  <2>. QED  BY <1>5, <2>1, <2>2 DEF Unreadable
<1>6. CASE MarkFailed(j)
  <2>1. PICK status \in {"parse_failed", "unsupported_format"} : EndDocument(j, status)
    BY <1>6 DEF MarkFailed, UnreadableItem
  <2>2. /\ document' \in [Documents -> [Contents -> DocumentRow]]
        /\ \A d \in Documents, c \in Contents :
              document'[d][c].version = document[d][c].version
    BY <1>6, RowsWrittenType DEF MarkFailed, InDocument
  <2>3. job' \in [Jobs -> JobRow] /\ accepted' = accepted
    BY <1>6 DEF MarkFailed, TypeInv, TypeOK
  <2>4. status \in ItemStatus \ {"absent"}
    BY DEF ItemStatus, Failure
  <2>. QED  BY <2>1, <2>2, <2>3, <2>4, EndKeepsTypes
<1>. QED  BY <1>1, <1>2, <1>4, <1>5, <1>6

LEMMA ExtractType ==
    ASSUME TypeInv, NEW j \in Jobs,
           \/ Extract(j) \/ SaveSpan(j) \/ SpanParsed(j) \/ Claims(j) \/ Mark(j)
           \/ ItemRaises(j) \/ Unextracted(j)
    PROVE  TypeInv'
<1>1. CASE SaveSpan(j) \/ SpanParsed(j)
  BY <1>1, WriteKeepsTypes DEF SaveSpan, SpanParsed, InDocument
<1>2. CASE Extract(j) \/ Claims(j)
  <2>1. PICK position \in {"claims", "unextracted", "span", "mark"} :
            /\ Goto(j, position)
            /\ pc[j] \in InDocument
            /\ UNCHANGED <<rows, document, accepted, release, locals, crashes>>
    BY <1>2 DEF Extract, Claims, InDocument
  <2>. QED  BY <2>1, StillMoveKeepsTypes DEF Position, Working
<1>3. ASSUME MarkParsed(j), pc[j] \in InDocument
      PROVE  /\ document' \in [Documents -> [Contents -> DocumentRow]]
             /\ \A d \in Documents, c \in Contents :
                   document'[d][c].version = document[d][c].version
  BY <1>3, RowsWrittenType
<1>4. CASE Mark(j)
  <2>1. CASE MarkParsed(j) /\ EndDocument(j, "parsed") /\ accepted' = accepted
    BY <1>3, <1>4, <2>1, EndKeepsTypes
    DEF Mark, InDocument, ItemStatus, Success, TypeInv, TypeOK
  <2>2. CASE /\ Goto(j, "unextracted")
             /\ UNCHANGED <<run, item, document, accepted, release, locals, crashes>>
    BY <1>4, <2>2, StillMoveKeepsTypes DEF Mark, InDocument, Position, Working, rows
  <2>. QED  BY <1>4, <2>1, <2>2 DEF Mark
<1>5. CASE Unextracted(j)
  <2>1. CASE MarkParsed(j) /\ EndDocument(j, "extraction_failed")
    BY <1>3, <1>5, <2>1, EndKeepsTypes
    DEF Unextracted, InDocument, ItemStatus, Failure, TypeInv, TypeOK
  <2>2. CASE /\ Goto(j, "raised")
             /\ UNCHANGED <<run, item, document, release, locals, crashes>>
    BY <1>5, <2>2, StillMoveKeepsTypes DEF Unextracted, InDocument, Position, Working, rows
  <2>. QED  BY <1>5, <2>1, <2>2 DEF Unextracted
<1>6. CASE ItemRaises(j)
  <2>1. /\ document' \in [Documents -> [Contents -> DocumentRow]]
        /\ \A d \in Documents, c \in Contents :
              document'[d][c].version = document[d][c].version
    BY <1>3, <1>6 DEF ItemRaises, InDocument
  <2>2. counts' \in [Jobs -> Counts]
    <3>1. counts \in [Jobs -> Counts] /\ counts' = [counts EXCEPT ![j].parsed = @ + 1]
      BY <1>6 DEF ItemRaises, TypeInv, TypeOK
    <3>2. counts' = [counts EXCEPT ![j] = [counts[j] EXCEPT !.parsed = @ + 1]]
      BY <3>1
    <3>3. [counts[j] EXCEPT !.parsed = @ + 1] \in Counts
      BY <3>1, CountsGrow
    <3>. QED  BY <3>1, <3>2, <3>3
  <2>3. pc' \in [Jobs -> Position] /\ ThreadHolds'
    BY <1>6 DEF ItemRaises, Goto, TypeInv, TypeOK, ThreadHolds, InDocument, Position, Working
  <2>4. VersionsBounded'
    BY <1>6, <2>1, BoundKept DEF ItemRaises, TypeInv, TypeOK
  <2>. QED  BY <1>6, <2>1, <2>2, <2>3, <2>4 DEF ReleasesCounted, ItemRaises, TypeInv, TypeOK, rows
<1>. QED  BY <1>1, <1>2, <1>4, <1>5, <1>6

LEMMA CrashType ==
    ASSUME TypeInv, Crash
    PROVE  TypeInv'
<1>1. release' \in Releases /\ crashes' \in 0 .. MaxCrashes
  BY IntelligenceAssumption DEF Crash, TypeInv, TypeOK, ReleasesCounted, Releases
<1>2. pc' \in [Jobs -> Position]
  BY DEF Crash, TypeInv, TypeOK, Position
<1>3. /\ content' \in [Jobs -> Contents \cup {None}]
      /\ base' \in [Jobs -> Nat]
      /\ seen' \in [Jobs -> ParseStatus]
      /\ \A k \in Jobs : base'[k] <= base[k]
  BY DEF Crash, Forget, TypeInv, TypeOK, ParseStatus
<1>4. ThreadHolds'
  BY DEF Crash, ThreadHolds, TypeInv, InDocument, Working
<1>5. ReleasesCounted'
  BY IntelligenceAssumption DEF Crash, TypeInv, TypeOK, ReleasesCounted, Releases
<1>. QED
  BY <1>1, <1>2, <1>3, <1>4, <1>5, BoundKept DEF Crash, TypeInv, TypeOK, rows

LEMMA TypeNext ==
    ASSUME TypeInv, [Next]_vars
    PROVE  TypeInv'
<1>1. CASE UNCHANGED vars
  BY <1>1 DEF vars, rows, locals, TypeInv, TypeOK, ThreadHolds, VersionsBounded, ReleasesCounted
<1>2. ASSUME NEW j \in Jobs, Step(j)
      PROVE  TypeInv'
  BY <1>2, RouteType, RunType, ReadType, ParseType, ExtractType DEF Step
<1>. QED  BY <1>1, <1>2, RouteType, CrashType DEF Next

\* Every variable of a refresh keeps its type, in every release and after every
\* crash.
THEOREM TypeCorrect == Spec => []TypeInv
<1>1. Init => TypeInv
  <2>. SUFFICES ASSUME Init PROVE TypeInv
    OBVIOUS
  <2>1. AbsentRow \in JobRow
    BY WholeAssumption DEF AbsentRow, JobRow, JobStatus
  <2>2. NoDocument \in DocumentRow /\ NoDocument.version = 0
    BY DEF NoDocument, DocumentRow, ParseStatus
  <2>3. NoCounts \in Counts /\ NoRun.status = "absent" /\ NoRun.counts = NoCounts
        /\ NoRun = [status |-> "absent", counts |-> NoCounts]
    BY DEF NoCounts, NoRun, Counts
  <2>4. 1 \in Releases /\ 0 \in 0 .. MaxCrashes
    BY IntelligenceAssumption DEF Releases
  <2>5. TypeOK
    BY <2>1, <2>2, <2>3, <2>4 DEF Init, TypeOK, ItemStatus, Position, ParseStatus
  <2>6. ThreadHolds
    BY DEF Init, ThreadHolds, InDocument
  <2>7. VersionsBounded
    <3>1. 0 \in Nat /\ (\A d \in Documents, c \in Contents : document[d][c].version <= 0)
          /\ \A j \in Jobs : base[j] <= 0
      BY <2>2 DEF Init
    <3>. QED  BY <3>1 DEF VersionsBounded
  <2>8. ReleasesCounted
    BY DEF Init, ReleasesCounted
  <2>. QED  BY <2>5, <2>6, <2>7, <2>8 DEF TypeInv
<1>. QED  BY <1>1, TypeNext, PTL DEF Spec

-----------------------------------------------------------------------------
\* The shape of a step of a thread

Busy == InDocument \cup {"download"}

\* It ends a document ...
Ends(j) ==
    /\ pc[j] \in Busy
    /\ \E status \in ItemStatus \ {"absent"} :
          /\ EndDocument(j, status)
          /\ pc[j] = "unextracted" => status = "extraction_failed"
    /\ UNCHANGED <<job, accepted>>

\* ... or goes on with it, or raises; an item that is not written has been
\* counted already.
GoesOn(j) ==
    /\ pc[j] \in Busy
    /\ \E position \in InDocument \cup {"raised"} :
          /\ Goto(j, position)
          /\ pc[j] = "unextracted" => position = "raised"
          /\ \/ counts' = counts
             \/ position = "unextracted" /\ counts' = [counts EXCEPT ![j].parsed = @ + 1]
    /\ UNCHANGED <<rows, accepted, listing, index>>

LEMMA StepShape ==
    ASSUME NEW j \in Jobs, Step(j)
    PROVE  \/ Ends(j) \/ GoesOn(j) \/ Look(j) \/ Begin(j) \/ Discover(j) \/ LeaveLoop(j)
           \/ Finish(j) \/ StopCancelled(j) \/ Complete(j) \/ Fail(j)
           \/ RefreshRaises(j) /\ pc[j] \in {"next", "finish"}
<1>1. ASSUME NEW status \in ItemStatus \ {"absent"}, EndDocument(j, status), pc[j] \in Busy,
             pc[j] = "unextracted" => status = "extraction_failed",
             UNCHANGED <<job, accepted>>
      PROVE  Ends(j)
  BY <1>1 DEF Ends
<1>2. {"parse_failed", "unsupported_format", "provider_failed", "parsed", "extraction_failed"}
          \subseteq ItemStatus \ {"absent"}
  BY DEF ItemStatus, Failure, Success
<1>3. CASE Download(j)
  BY <1>1, <1>2, <1>3
  DEF Download, GoesOn, Busy, InDocument, rows
<1>4. CASE FindDocument(j)
  BY <1>4 DEF FindDocument, GoesOn, Busy, InDocument, Goto
<1>5. CASE InsertDocument(j)
  BY <1>1, <1>2, <1>5 DEF InsertDocument, GoesOn, Busy, InDocument, rows
<1>6. CASE SaveContent(j) \/ RetryParse(j) \/ ResetStatus(j) \/ Parse(j) \/ CountSpans(j)
  BY <1>6
  DEF SaveContent, RetryParse, ResetStatus, Parse, CountSpans, GoesOn, Busy, InDocument, locals
<1>7. CASE ReadRaises(j)
  BY <1>1, <1>2, <1>7 DEF ReadRaises, GoesOn, Busy, InDocument, rows, locals
<1>8. CASE RefreshRaises(j)
  BY <1>8 DEF RefreshRaises, GoesOn, Busy, InDocument, locals
<1>9. CASE Unreadable(j)
  <2>1. CASE UnreadableItem(j)
    BY <1>1, <1>2, <1>9, <2>1 DEF Unreadable, UnreadableItem, Busy, InDocument
  <2>. QED
    BY <1>9, <2>1 DEF Unreadable, GoesOn, Busy, InDocument, rows, locals
<1>10. CASE MarkFailed(j)
  BY <1>1, <1>2, <1>10 DEF MarkFailed, UnreadableItem, Busy, InDocument
<1>11. CASE Extract(j) \/ SaveSpan(j) \/ SpanParsed(j) \/ Claims(j)
  BY <1>11 DEF Extract, SaveSpan, SpanParsed, Claims, GoesOn, Busy, InDocument, locals
<1>12. CASE Mark(j)
  BY <1>1, <1>2, <1>12 DEF Mark, GoesOn, Busy, InDocument, rows, locals
<1>13. CASE ItemRaises(j)
  BY <1>13 DEF ItemRaises, GoesOn, Busy, InDocument
<1>14. CASE Unextracted(j)
  BY <1>1, <1>2, <1>14 DEF Unextracted, GoesOn, Busy, InDocument, rows, locals
<1>. QED
  BY <1>3, <1>4, <1>5, <1>6, <1>7, <1>8, <1>9, <1>10, <1>11, <1>12, <1>13, <1>14 DEF Step

\* A step of one job leaves what the others have alone.
LEMMA OthersKept ==
    ASSUME TypeInv, NEW j \in Jobs, Step(j) \/ Post(j) \/ Cancel(j), NEW k \in Jobs, k # j
    PROVE  /\ pc'[k] = pc[k] /\ index'[k] = index[k] /\ job'[k] = job[k]
           /\ accepted'[k] = accepted[k] /\ listing'[k] = listing[k]
           /\ item'[k] = item[k] /\ counts'[k] = counts[k] /\ run'[k] = run[k]
<1>0. /\ pc \in [Jobs -> Position] /\ index \in [Jobs -> Nat \ {0}] /\ job \in [Jobs -> JobRow]
      /\ accepted \in [Jobs -> Nat] /\ listing \in [Jobs -> Seq(Documents)]
      /\ item \in [Jobs -> [Documents -> ItemStatus]] /\ counts \in [Jobs -> Counts]
      /\ run \in [Jobs -> [status : {"absent", "running"} \cup FinalRun, counts : Counts]]
  BY DEF TypeInv, TypeOK
<1>1. ASSUME NEW status, EndDocument(j, status), accepted' = accepted, job'[k] = job[k]
      PROVE  /\ pc'[k] = pc[k] /\ index'[k] = index[k] /\ job'[k] = job[k]
             /\ accepted'[k] = accepted[k] /\ listing'[k] = listing[k]
             /\ item'[k] = item[k] /\ counts'[k] = counts[k] /\ run'[k] = run[k]
  BY <1>0, <1>1 DEF EndDocument, Goto
<1>2. CASE Post(j) \/ Cancel(j)
  BY <1>0, <1>2 DEF Post, Cancel, locals
<1>3. CASE Ends(j)
  BY <1>1, <1>3 DEF Ends
<1>4. CASE GoesOn(j)
  BY <1>0, <1>4 DEF GoesOn, Goto, rows
<1>5. CASE Look(j)
  <2>1. job'[k] = job[k] /\ accepted' = accepted
    BY <1>0, <1>5 DEF Look
  <2>2. CASE EndDocument(j, "unchanged")
    BY <1>1, <2>1, <2>2
  <2>3. CASE Goto(j, "download") /\ UNCHANGED <<run, item, release, locals, crashes>>
    BY <1>0, <2>1, <2>3 DEF Goto, locals
  <2>. QED  BY <1>5, <2>2, <2>3 DEF Look
<1>6. CASE Begin(j) \/ LeaveLoop(j) \/ RefreshRaises(j)
  BY <1>0, <1>6 DEF Begin, LeaveLoop, RefreshRaises, Goto, locals, rows
<1>7. CASE Discover(j)
  BY <1>0, <1>7 DEF Discover, CloseRun, Goto
<1>8. CASE Finish(j) \/ StopCancelled(j)
  BY <1>0, <1>8 DEF Finish, StopCancelled, CloseRun, Goto, locals
<1>9. CASE Complete(j) \/ Fail(j)
  BY <1>0, <1>9 DEF Complete, Fail, locals
<1>. QED  BY <1>2, <1>3, <1>4, <1>5, <1>6, <1>7, <1>8, <1>9, StepShape

-----------------------------------------------------------------------------
\* Cancellation

\* Within a document the loop has not passed the position of the request; only
\* after its end it may be one further.  CancelEndsLoop alone does not say where
\* the thread is.
CancelBound ==
    \A j \in Jobs :
        /\ pc[j] = "none" => job[j].status = "absent" /\ accepted[j] = 0
        /\ accepted[j] > 0 => /\ job[j].cancel
                              /\ index[j] <= accepted[j] + 1
                              /\ pc[j] \in Busy => index[j] <= accepted[j]

LEMMA EndIndex ==
    ASSUME TypeInv, NEW j \in Jobs, NEW status, EndDocument(j, status)
    PROVE  pc'[j] = "next" /\ index'[j] = index[j] + 1
  BY DEF EndDocument, Goto, TypeInv, TypeOK

LEMMA CancelStep ==
    ASSUME TypeInv, CancelBound, NEW j \in Jobs, Step(j) \/ Post(j) \/ Cancel(j)
    PROVE  CancelBound'
<1>0. /\ pc \in [Jobs -> Position] /\ index \in [Jobs -> Nat \ {0}] /\ job \in [Jobs -> JobRow]
      /\ accepted \in [Jobs -> Nat]
  BY DEF TypeInv, TypeOK
<1>a. /\ pc[j] = "none" => job[j].status = "absent" /\ accepted[j] = 0
      /\ accepted[j] > 0 => /\ job[j].cancel
                            /\ index[j] <= accepted[j] + 1
                            /\ pc[j] \in Busy => index[j] <= accepted[j]
  BY DEF CancelBound
<1>b. SUFFICES /\ pc'[j] = "none" => job'[j].status = "absent" /\ accepted'[j] = 0
               /\ accepted'[j] > 0 => /\ job'[j].cancel
                                      /\ index'[j] <= accepted'[j] + 1
                                      /\ pc'[j] \in Busy => index'[j] <= accepted'[j]
  <2>1. ASSUME NEW k \in Jobs, k # j
        PROVE  /\ pc'[k] = "none" => job'[k].status = "absent" /\ accepted'[k] = 0
               /\ accepted'[k] > 0 => /\ job'[k].cancel
                                      /\ index'[k] <= accepted'[k] + 1
                                      /\ pc'[k] \in Busy => index'[k] <= accepted'[k]
    BY <2>1, OthersKept DEF CancelBound
  <2>. QED  BY <2>1 DEF CancelBound
<1>1. CASE Post(j)
  <2>1. pc[j] = "none" /\ pc' = [pc EXCEPT ![j] = "queued"] /\ accepted' = accepted
    BY <1>1 DEF Post
  <2>2. accepted[j] = 0
    BY <1>a, <2>1
  <2>3. pc'[j] = "queued" /\ accepted'[j] = 0
    BY <1>0, <2>1, <2>2
  <2>. QED  BY <2>3
<1>2. CASE Cancel(j)
  <2>1. /\ pc' = pc /\ index' = index /\ job[j].status # "absent"
        /\ job' = [job EXCEPT ![j] = CancelRequested(@)]
        /\ accepted' = [accepted EXCEPT ![j] = IF job'[j].cancel /\ @ = 0 THEN index[j] ELSE @]
    BY <1>2 DEF Cancel, locals
  <2>2. job'[j] = CancelRequested(job[j]) /\ (job[j].cancel => job'[j].cancel)
    BY <1>0, <2>1 DEF CancelRequested, JobRow
  <2>3. accepted'[j] = IF job'[j].cancel /\ accepted[j] = 0 THEN index[j] ELSE accepted[j]
    BY <1>0, <2>1
  <2>4. accepted[j] \in Nat /\ index[j] \in Nat /\ pc[j] # "none"
    <3>1. pc[j] # "none"
      BY <1>a, <2>1
    <3>. QED  BY <1>0, <3>1
  <2>5. CASE accepted[j] = 0
    BY <2>1, <2>3, <2>4, <2>5
  <2>6. CASE accepted[j] # 0
    BY <1>a, <2>1, <2>2, <2>3, <2>4, <2>6
  <2>. QED  BY <2>5, <2>6
<1>3. CASE Ends(j)
  BY <1>0, <1>3, <1>a, EndIndex DEF Ends, Busy, InDocument
<1>4. CASE GoesOn(j)
  BY <1>0, <1>4, <1>a DEF GoesOn, Goto, rows, Busy, InDocument
<1>5. CASE Look(j)
  <2>1. /\ accepted[j] = 0 /\ accepted' = accepted /\ pc[j] = "next"
        /\ pc'[j] # "none"
    BY <1>0, <1>5, <1>a, EndIndex DEF Look, Goto
  <2>. QED  BY <2>1, <1>0
<1>6. CASE Begin(j) \/ Discover(j) \/ Finish(j) \/ StopCancelled(j)
  BY <1>0, <1>6, <1>a
  DEF Begin, Discover, Finish, StopCancelled, CloseRun, Goto, locals, Busy, InDocument
<1>7. CASE LeaveLoop(j)
  <2>1. job'[j].cancel = job[j].cancel
    BY <1>0, <1>7 DEF LeaveLoop, WithProgress, JobRow
  <2>. QED  BY <1>0, <1>7, <1>a, <2>1 DEF LeaveLoop, Goto, locals, Busy, InDocument
<1>8. CASE Complete(j) \/ Fail(j)
  <2>1. job'[j].cancel = job[j].cancel
    <3>1. CASE Complete(j)
      BY <1>0, <3>1 DEF Complete, WithResult, JobRow
    <3>2. CASE Fail(j)
      <4>1. PICK b \in BOOLEAN : job' = [job EXCEPT ![j] = WithError(@, b)]
        BY <3>2 DEF Fail
      <4>. QED  BY <1>0, <4>1 DEF WithError, JobRow
    <3>. QED  BY <1>8, <3>1, <3>2
  <2>. QED  BY <1>0, <1>8, <1>a, <2>1 DEF Complete, Fail, locals, Busy, InDocument
<1>9. CASE RefreshRaises(j)
  BY <1>0, <1>9, <1>a DEF RefreshRaises, Goto, locals, rows, Busy, InDocument
<1>. QED
  BY <1>1, <1>2, <1>3, <1>4, <1>5, <1>6, <1>7, <1>8, <1>9, StepShape

LEMMA CancelNext ==
    ASSUME TypeInv, CancelBound, [Next]_vars
    PROVE  CancelBound'
<1>1. CASE Crash
  BY <1>1 DEF Crash, CancelBound, rows, Busy, InDocument, Working, TypeInv, TypeOK
<1>2. CASE UNCHANGED vars
  BY <1>2 DEF vars, rows, locals, CancelBound
<1>. QED  BY <1>1, <1>2, CancelStep DEF Next

\* A job whose cancellation was accepted finishes at most the document it was
\* working on, with any number of jobs in threads and any statement failing
\* (the look at cancelled() and the position in refresh's loop).
THEOREM CancelStops == Spec => []CancelEndsLoop
<1>1. Init => CancelBound
  BY DEF Init, CancelBound, AbsentRow, Busy, InDocument
<1>2. CancelBound => CancelEndsLoop
  BY DEF CancelBound, CancelEndsLoop
<1>. QED  BY <1>1, <1>2, TypeCorrect, CancelNext, PTL DEF Spec

-----------------------------------------------------------------------------
\* The contract of local jobs

LEMMA DivisionGrows ==
    ASSUME NEW a \in Nat, NEW b \in Nat, a <= b, NEW t \in Nat \ {0}
    PROVE  a \div t <= b \div t
<1>. DEFINE p == a \div t
            q == b \div t
<1>1. p \in Int /\ q \in Int /\ a = t * p + (a % t) /\ b = t * q + (b % t)
  OBVIOUS
<1>2. a % t \in 0 .. t - 1 /\ b % t \in 0 .. t - 1
  OBVIOUS
<1>. HIDE DEF p, q
<1>3. SUFFICES ASSUME q < p PROVE FALSE
  BY <1>1 DEF p, q
<1>4. t * (q + 1) <= t * p
  BY <1>1, <1>3
<1>5. t * (q + 1) = t * q + t
  BY <1>1
<1>. QED  BY <1>1, <1>2, <1>4, <1>5

\* One more document never lowers the share of work done.
LEMMA ShareGrows ==
    ASSUME NEW n \in Nat, NEW total \in Nat \ {0}
    PROVE  Clamp(Share(n, total)) <= Clamp(Share(n + 1, total))
<1>1. n * Whole \in Nat /\ (n + 1) * Whole \in Nat /\ n * Whole <= (n + 1) * Whole
  BY WholeAssumption
<1>2. (n * Whole) \div total <= ((n + 1) * Whole) \div total
  BY <1>1, DivisionGrows
<1>3. Share(n, total) <= Share(n + 1, total)
  BY <1>2 DEF Share
<1>4. Share(n, total) \in Int /\ Share(n + 1, total) \in Int
  BY ShareType
<1>. QED  BY <1>3, <1>4, WholeAssumption DEF Clamp

LEMMA ClampTwice ==
    ASSUME NEW p \in Int
    PROVE  Clamp(p) \in 0 .. Whole /\ Clamp(Clamp(p)) = Clamp(p)
  BY WholeAssumption DEF Clamp

\* What a job may have reported before the document at a position
Reported(progress, i, total) ==
    progress = 0 \/ (total > 0 /\ progress <= Clamp(Share(i - 1, total)))

\* Where the row of a job is for each position of its thread
JobFollowsThread ==
    \A j \in Jobs :
        /\ pc[j] = "none" => job[j].status = "absent"
        /\ pc[j] \in Working => job[j].status = "running"
        /\ pc[j] \in {"queued", "discover"} => job[j].progress = 0
        /\ pc[j] \in Busy \cup {"next"} =>
              Reported(job[j].progress, index[j], Len(listing[j]))

ContractStep == [Contract!Next]_job

LEMMA ReportedNext ==
    ASSUME NEW progress \in Int, NEW i \in Nat \ {0}, NEW total \in Nat,
           Reported(progress, i, total)
    PROVE  Reported(progress, i + 1, total)
<1>1. CASE progress = 0
  BY <1>1 DEF Reported
<1>2. CASE total > 0 /\ progress <= Clamp(Share(i - 1, total))
  <2>1. i - 1 \in Nat /\ total \in Nat \ {0} /\ (i - 1) + 1 = (i + 1) - 1
    BY <1>2
  <2>2. Clamp(Share(i - 1, total)) <= Clamp(Share((i + 1) - 1, total))
    BY <2>1, ShareGrows
  <2>3. /\ Clamp(Share(i - 1, total)) \in Int
        /\ Clamp(Share((i + 1) - 1, total)) \in Int
    <3>1. (i + 1) - 1 \in Nat
      OBVIOUS
    <3>2. Share(i - 1, total) \in Int /\ Share((i + 1) - 1, total) \in Int
      BY <2>1, <3>1, ShareType
    <3>. QED  BY <3>2, ClampTwice
  <2>. QED  BY <1>2, <2>2, <2>3 DEF Reported
<1>. QED  BY <1>1, <1>2 DEF Reported

LEMMA ContractOfStep ==
    ASSUME TypeInv, JobFollowsThread, NEW j \in Jobs, Step(j) \/ Post(j) \/ Cancel(j)
    PROVE  JobFollowsThread' /\ ContractStep
<1>0. /\ pc \in [Jobs -> Position] /\ index \in [Jobs -> Nat \ {0}] /\ job \in [Jobs -> JobRow]
      /\ listing \in [Jobs -> Seq(Documents)] /\ Len(listing[j]) \in Nat
      /\ job[j].progress \in 0 .. Whole /\ index[j] \in Nat \ {0}
  <2>1. /\ pc \in [Jobs -> Position] /\ index \in [Jobs -> Nat \ {0}]
        /\ job \in [Jobs -> JobRow] /\ listing \in [Jobs -> Seq(Documents)]
    BY DEF TypeInv, TypeOK
  <2>. QED  BY <2>1 DEF JobRow
<1>a. /\ pc[j] = "none" => job[j].status = "absent"
      /\ pc[j] \in Working => job[j].status = "running"
      /\ pc[j] \in {"queued", "discover"} => job[j].progress = 0
      /\ pc[j] \in Busy \cup {"next"} =>
            Reported(job[j].progress, index[j], Len(listing[j]))
  BY DEF JobFollowsThread
<1>b. SUFFICES /\ ContractStep
               /\ pc'[j] = "none" => job'[j].status = "absent"
               /\ pc'[j] \in Working => job'[j].status = "running"
               /\ pc'[j] \in {"queued", "discover"} => job'[j].progress = 0
               /\ pc'[j] \in Busy \cup {"next"} =>
                     Reported(job'[j].progress, index'[j], Len(listing'[j]))
  <2>1. ASSUME NEW k \in Jobs, k # j
        PROVE  /\ pc'[k] = "none" => job'[k].status = "absent"
               /\ pc'[k] \in Working => job'[k].status = "running"
               /\ pc'[k] \in {"queued", "discover"} => job'[k].progress = 0
               /\ pc'[k] \in Busy \cup {"next"} =>
                     Reported(job'[k].progress, index'[k], Len(listing'[k]))
    BY <2>1, OthersKept DEF JobFollowsThread
  <2>. QED  BY <2>1 DEF JobFollowsThread
<1>c. job' = job => ContractStep
  BY DEF ContractStep
<1>1. CASE Post(j)
  <2>1. Contract!Create(j)
    BY <1>1, <1>a DEF Post, Contract!Create, Contract!NewRow, Contract!AbsentRow,
                      NewRow, AbsentRow
  <2>2. pc'[j] = "queued" /\ job'[j] = NewRow
    BY <1>0, <1>1 DEF Post
  <2>3. job'[j].status = "running" /\ job'[j].progress = 0
    BY <2>2 DEF NewRow, AbsentRow
  <2>. QED  BY <2>1, <2>2, <2>3 DEF ContractStep, Contract!Next, Busy, InDocument
<1>2. CASE Cancel(j)
  <2>1. /\ job' = [job EXCEPT ![j] = CancelRequested(@)]
        /\ UNCHANGED <<pc, index, listing>>
    BY <1>2 DEF Cancel, locals
  <2>2. job'[j].status = job[j].status /\ job'[j].progress = job[j].progress
    BY <1>0, <2>1 DEF CancelRequested, JobRow
  <2>3. ContractStep
    <3>1. CASE job[j].status = "running"
      <4>1. Contract!RequestCancel(j)
        BY <2>1, <3>1 DEF Contract!RequestCancel, Contract!Running, Contract!CancelRequested,
                          CancelRequested
      <4>. QED  BY <4>1 DEF ContractStep, Contract!Next
    <3>2. CASE job[j].status # "running"
      <4>1. job' = job
        BY <1>0, <2>1, <3>2 DEF CancelRequested
      <4>. QED  BY <4>1, <1>c
    <3>. QED  BY <3>1, <3>2
  <2>. QED  BY <1>a, <2>1, <2>2, <2>3
<1>d. ASSUME NEW status, EndDocument(j, status), job[j].status = "running",
             job'[j].status = "running", job'[j].progress \in Int,
             Reported(job'[j].progress, index[j], Len(listing[j]))
      PROVE  /\ pc'[j] = "none" => job'[j].status = "absent"
             /\ pc'[j] \in Working => job'[j].status = "running"
             /\ pc'[j] \in {"queued", "discover"} => job'[j].progress = 0
             /\ pc'[j] \in Busy \cup {"next"} =>
                   Reported(job'[j].progress, index'[j], Len(listing'[j]))
  <2>1. pc'[j] = "next" /\ index'[j] = index[j] + 1 /\ listing' = listing
    BY <1>d, EndIndex DEF EndDocument
  <2>2. Reported(job'[j].progress, index'[j], Len(listing'[j]))
    BY <1>0, <1>d, <2>1, ReportedNext
  <2>. QED  BY <1>d, <2>1, <2>2
<1>3. CASE Ends(j)
  <2>1. PICK status \in ItemStatus : EndDocument(j, status)
    BY <1>3 DEF Ends
  <2>2. pc[j] \in Busy /\ job' = job
    BY <1>3 DEF Ends
  <2>3. job[j].status = "running" /\ Reported(job[j].progress, index[j], Len(listing[j]))
    BY <1>a, <2>2 DEF Busy, InDocument, Working
  <2>. QED  BY <1>0, <1>c, <1>d, <2>1, <2>2, <2>3
<1>4. CASE GoesOn(j)
  <2>1. pc[j] \in Busy /\ UNCHANGED <<job, index, listing>>
    BY <1>4 DEF GoesOn, rows
  <2>2. pc'[j] \in InDocument \cup {"raised"}
    BY <1>0, <1>4 DEF GoesOn, Goto
  <2>. QED  BY <1>a, <1>c, <2>1, <2>2 DEF Busy, InDocument, Working
<1>5. CASE Look(j)
  <2>. DEFINE share == Share(index[j] - 1, Len(listing[j]))
  <2>1. /\ pc[j] = "next" /\ index[j] <= Len(listing[j])
        /\ job' = [job EXCEPT ![j] = WithProgress(@, share)]
    BY <1>5 DEF Look
  <2>2. /\ share \in Int /\ Clamp(share) \in 0 .. Whole /\ Clamp(Clamp(share)) = Clamp(share)
        /\ Len(listing[j]) > 0
    <3>1. index[j] - 1 \in Nat /\ Len(listing[j]) \in Nat \ {0}
      BY <1>0, <2>1
    <3>2. share \in Int
      BY <3>1, ShareType
    <3>. HIDE DEF share
    <3>. QED  BY <3>1, <3>2, ClampTwice
  <2>3. /\ job[j].status = "running" /\ job[j].progress <= Clamp(share)
    <3>1. job[j].status = "running" /\ Reported(job[j].progress, index[j], Len(listing[j]))
      BY <1>a, <2>1 DEF Working
    <3>. QED  BY <2>2, <3>1 DEF Reported
  <2>4. job'[j].status = "running" /\ job'[j].progress = Clamp(share)
    BY <1>0, <2>1, <2>3 DEF WithProgress, JobRow
  <2>5. Reported(job'[j].progress, index[j], Len(listing[j]))
    BY <2>2, <2>4 DEF Reported
  <2>6. ContractStep
    <3>1. job' = [job EXCEPT ![j] = WithProgress(@, Clamp(share))]
      BY <2>1, <2>2 DEF WithProgress
    <3>2. job' = [job EXCEPT ![j] = Contract!WithProgress(@, Clamp(share))]
      BY <3>1 DEF WithProgress, Contract!WithProgress, Clamp, Contract!Clamp
    <3>3. Clamp(share) \in job[j].progress .. Whole
      BY <1>0, <2>2, <2>3
    <3>. HIDE DEF share
    <3>4. Contract!Report(j)
      BY <2>3, <3>2, <3>3 DEF Contract!Report, Contract!Running
    <3>. QED  BY <3>4 DEF ContractStep, Contract!Next
  <2>7. CASE EndDocument(j, "unchanged")
    <3>1. job'[j].progress \in Int
      BY <2>2, <2>4
    <3>. QED  BY <1>d, <2>3, <2>4, <2>5, <2>6, <2>7, <3>1
  <2>8. CASE Goto(j, "download") /\ UNCHANGED <<run, item, release, locals, crashes>>
    <3>1. pc'[j] = "download" /\ UNCHANGED <<index, listing>>
      BY <1>0, <2>8 DEF Goto, locals
    <3>. QED  BY <2>4, <2>5, <2>6, <3>1
  <2>. QED  BY <1>5, <2>7, <2>8 DEF Look
<1>6. CASE Begin(j) \/ Finish(j) \/ StopCancelled(j) \/ RefreshRaises(j)
  <2>1. /\ job' = job /\ pc[j] \in Working
        /\ pc'[j] \in {"discover", "raised", "returned"}
        /\ pc'[j] = "discover" => pc[j] = "queued"
    BY <1>0, <1>6
    DEF Begin, Finish, StopCancelled, RefreshRaises, CloseRun, Goto, rows, Working
  <2>. QED  BY <1>a, <1>c, <2>1 DEF Busy, InDocument, Working
<1>7. CASE Discover(j)
  <2>1. job' = job /\ pc[j] = "discover" /\ pc'[j] \in {"next", "returned"}
    BY <1>0, <1>7 DEF Discover, CloseRun, Goto
  <2>2. job[j].status = "running" /\ job[j].progress = 0
    BY <1>a, <2>1 DEF Working
  <2>. QED  BY <1>c, <2>1, <2>2 DEF Busy, InDocument, Reported
<1>8. CASE LeaveLoop(j)
  <2>1. /\ job' = [job EXCEPT ![j] = WithProgress(@, Whole)]
        /\ pc[j] = "next" /\ pc'[j] = "finish"
    BY <1>0, <1>8 DEF LeaveLoop, Goto
  <2>2. job[j].status = "running"
    BY <1>a, <2>1 DEF Working
  <2>3. job'[j].status = "running"
    BY <1>0, <2>1, <2>2 DEF WithProgress, JobRow
  <2>4. Contract!Report(j)
    <3>1. Whole \in job[j].progress .. Whole
      BY <1>0, WholeAssumption
    <3>2. job' = [job EXCEPT ![j] = Contract!WithProgress(@, Whole)]
      BY <2>1 DEF WithProgress, Contract!WithProgress, Clamp, Contract!Clamp
    <3>. QED  BY <2>2, <3>1, <3>2 DEF Contract!Report, Contract!Running
  <2>. QED  BY <2>1, <2>3, <2>4 DEF ContractStep, Contract!Next, Busy, InDocument
<1>9. CASE Complete(j)
  <2>. DEFINE status == JobVerdict(run[j].status)
  <2>1. /\ pc[j] = "returned" /\ pc'[j] = "ended"
        /\ job' = [job EXCEPT ![j] = WithResult(@, status)]
    BY <1>0, <1>9 DEF Complete
  <2>2. status \in FinalStatus /\ job[j].status = "running"
    BY <1>a, <2>1, JobVerdictType DEF Working
  <2>. HIDE DEF status
  <2>3. Contract!EndWithResult(j)
    BY <2>1, <2>2 DEF Contract!EndWithResult, Contract!Running, Contract!FinalStatus,
                      FinalStatus, Contract!WithResult, WithResult
  <2>. QED  BY <2>1, <2>3 DEF ContractStep, Contract!Next, Busy, InDocument, Working
<1>10. CASE Fail(j)
  <2>1. PICK b \in BOOLEAN : job' = [job EXCEPT ![j] = WithError(@, b)]
    BY <1>10 DEF Fail
  <2>2. pc[j] = "raised" /\ pc'[j] = "ended"
    BY <1>0, <1>10 DEF Fail
  <2>3. job[j].status = "running"
    BY <1>a, <2>2 DEF Working
  <2>4. Contract!EndWithError(j)
    BY <2>1, <2>3 DEF Contract!EndWithError, Contract!Running, Contract!WithError, WithError
  <2>. QED  BY <2>2, <2>4 DEF ContractStep, Contract!Next, Busy, InDocument, Working
<1>. QED
  BY <1>1, <1>2, <1>3, <1>4, <1>5, <1>6, <1>7, <1>8, <1>9, <1>10, StepShape

LEMMA ContractNext ==
    ASSUME TypeInv, JobFollowsThread, [Next]_vars
    PROVE  JobFollowsThread' /\ ContractStep
<1>1. CASE Crash
  BY <1>1
  DEF Crash, JobFollowsThread, ContractStep, rows, Busy, InDocument, Working, TypeInv, TypeOK
<1>2. CASE UNCHANGED vars
  BY <1>2 DEF vars, rows, locals, JobFollowsThread, ContractStep
<1>. QED  BY <1>1, <1>2, ContractOfStep DEF Next

\* The row of every refresh keeps the contract of LocalJob although its thread and
\* the event loop write it in turn: it starts once, its progress never falls, and
\* no row that ended is written again (run_refresh, progress, cancel).
THEOREM JobsKeepContract == Spec => JobContract
<1>1. Init => JobFollowsThread /\ Contract!Init
  BY DEF Init, JobFollowsThread, Working, Busy, InDocument, AbsentRow, Contract!Init,
         Contract!AbsentRow
<1>2. TypeInv /\ JobFollowsThread /\ [Next]_vars => JobFollowsThread' /\ [Contract!Next]_job
  BY ContractNext DEF ContractStep
<1>. QED
  BY <1>1, <1>2, TypeCorrect, PTL DEF Spec, JobContract, Contract!Spec

-----------------------------------------------------------------------------
\* The items of a run

Read == {"parsed", "unchanged", "extraction_failed"}

Distinct(l) == \A i, k \in 1 .. Len(l) : l[i] = l[k] => i = k

Discovered(j) == {listing[j][i] : i \in 1 .. Len(listing[j])}

\* What the counts of a run say of the documents before the position of its loop.
\* After an item that could not be written one document is counted that has none
\* yet; "unextracted" gives it one, or the refresh raises.
Tally(j) ==
    /\ index[j] <= Len(listing[j]) + 1
    /\ \A i \in 1 .. (index[j] - 1) : item[j][listing[j][i]] # "absent"
    /\ counts[j].failed = 0 =>
          \A i \in 1 .. (index[j] - 1) : item[j][listing[j][i]] \in Success
    /\ counts[j].parsed + counts[j].unchanged = 0 =>
          \A i \in 1 .. (index[j] - 1) : item[j][listing[j][i]] \notin Read
    /\ counts[j].parsed + counts[j].unchanged > 0 /\ pc[j] # "unextracted" =>
          \E i \in 1 .. (index[j] - 1) : item[j][listing[j][i]] \in Read

\* What the status of a run that was not cancelled says of its documents
Accounts(j, status) ==
    /\ \A d \in Discovered(j) : item[j][d] # "absent"
    /\ status = "completed" => \A d \in Discovered(j) : item[j][d] \in Success
    /\ status = "failed" => \A d \in Discovered(j) : item[j][d] \notin Read
    /\ status = "partial" => \E d \in Discovered(j) : item[j][d] \in Read

Accounted == {"completed", "partial", "failed"}

RunOf(j) ==
    /\ Distinct(listing[j])
    /\ pc[j] \in {"none", "queued", "discover"} =>
          listing[j] = <<>> /\ index[j] = 1 /\ counts[j] = NoCounts
    /\ pc[j] \in Busy \cup {"next", "finish"} => Tally(j)
    /\ pc[j] = "finish" => index[j] = Len(listing[j]) + 1
    /\ run[j].status \in Accounted =>
          pc[j] \in {"returned", "ended", "lost"} /\ Accounts(j, run[j].status)

RunInv == \A j \in Jobs : RunOf(j)

LEMMA TallyOfEnd ==
    ASSUME TypeInv, NEW j \in Jobs, NEW status \in ItemStatus \ {"absent"},
           Distinct(listing[j]), Tally(j), index[j] <= Len(listing[j]),
           EndDocument(j, status), pc[j] = "unextracted" => status = "extraction_failed"
    PROVE  Tally(j)' /\ pc'[j] = "next" /\ listing' = listing /\ run' = run
<1>0. /\ pc'[j] = "next" /\ index'[j] = index[j] + 1 /\ listing' = listing /\ run' = run
      /\ index[j] \in Nat \ {0} /\ Len(listing[j]) \in Nat
      /\ item[j] \in [Documents -> ItemStatus]
      /\ listing[j] \in Seq(Documents)
  <2>1. pc'[j] = "next" /\ index'[j] = index[j] + 1 /\ listing' = listing /\ run' = run
    BY EndIndex DEF EndDocument
  <2>2. /\ index \in [Jobs -> Nat \ {0}] /\ listing \in [Jobs -> Seq(Documents)]
        /\ item \in [Jobs -> [Documents -> ItemStatus]]
    BY DEF TypeInv, TypeOK
  <2>. QED  BY <2>1, <2>2
<1>1. /\ item'[j][Current(j)] = status
      /\ \A i \in 1 .. (index[j] - 1) : item'[j][listing[j][i]] = item[j][listing[j][i]]
  <2>1. item' = [item EXCEPT ![j][Current(j)] = status]
    BY DEF EndDocument
  <2>2. Current(j) \in Documents
    BY <1>0 DEF Current
  <2>3. item'[j] = [item[j] EXCEPT ![Current(j)] = status]
    BY <2>1 DEF TypeInv, TypeOK
  <2>4. \A i \in 1 .. (index[j] - 1) : listing[j][i] # Current(j) /\ listing[j][i] \in Documents
    BY <1>0 DEF Distinct, Current
  <2>. QED  BY <1>0, <2>2, <2>3, <2>4
<1>2. listing[j][index[j]] = Current(j)
  BY DEF Current
<1>3. /\ counts[j].failed \in Nat /\ counts[j].parsed \in Nat /\ counts[j].unchanged \in Nat
      /\ counts'[j].unchanged = counts[j].unchanged + IF status = "unchanged" THEN 1 ELSE 0
      /\ counts'[j].parsed = counts[j].parsed
                              + IF status \in {"parsed", "extraction_failed"} THEN 1 ELSE 0
      /\ counts'[j].failed = counts[j].failed + IF status \in Failure THEN 1 ELSE 0
  <2>1. counts \in [Jobs -> Counts]
    BY DEF TypeInv, TypeOK
  <2>2. counts' = [counts EXCEPT
          ![j].unchanged = @ + IF status = "unchanged" THEN 1 ELSE 0,
          ![j].parsed    = @ + IF status \in {"parsed", "extraction_failed"} THEN 1 ELSE 0,
          ![j].failed    = @ + IF status \in Failure THEN 1 ELSE 0]
    BY DEF EndDocument
  <2>. QED  BY <2>1, <2>2 DEF Counts
<1>4. \A i \in 1 .. (index'[j] - 1) : i = index[j] \/ i \in 1 .. (index[j] - 1)
  BY <1>0
<1>5. index'[j] <= Len(listing[j]) + 1
  BY <1>0
<1>6. \A i \in 1 .. (index'[j] - 1) : item'[j][listing[j][i]] # "absent"
  BY <1>1, <1>2, <1>4 DEF Tally
<1>7. ASSUME counts'[j].failed = 0
      PROVE  \A i \in 1 .. (index'[j] - 1) : item'[j][listing[j][i]] \in Success
  <2>1. counts[j].failed = 0 /\ status \notin Failure
    BY <1>3, <1>7
  <2>2. status \in Success
    BY <2>1 DEF ItemStatus
  <2>. QED  BY <1>1, <1>2, <1>4, <2>1, <2>2 DEF Tally
<1>8. ASSUME counts'[j].parsed + counts'[j].unchanged = 0
      PROVE  \A i \in 1 .. (index'[j] - 1) : item'[j][listing[j][i]] \notin Read
  <2>1. counts[j].parsed + counts[j].unchanged = 0 /\ status \notin Read
    <3>1. CASE status = "unchanged"
      BY <1>3, <1>8, <3>1
    <3>2. CASE status \in {"parsed", "extraction_failed"}
      BY <1>3, <1>8, <3>2
    <3>. QED  BY <1>3, <1>8, <3>1, <3>2 DEF Read
  <2>. QED  BY <1>1, <1>2, <1>4, <2>1 DEF Tally
<1>9. ASSUME counts'[j].parsed + counts'[j].unchanged > 0
      PROVE  \E i \in 1 .. (index'[j] - 1) : item'[j][listing[j][i]] \in Read
  <2>1. index[j] \in 1 .. (index'[j] - 1)
        /\ \A i \in 1 .. (index[j] - 1) : i \in 1 .. (index'[j] - 1)
    BY <1>0
  <2>2. CASE status \in Read
    BY <1>1, <1>2, <2>1, <2>2
  <2>3. CASE status \notin Read
    <3>1. counts[j].parsed + counts[j].unchanged > 0 /\ pc[j] # "unextracted"
      BY <1>3, <1>9, <2>3 DEF Read
    <3>2. PICK i \in 1 .. (index[j] - 1) : item[j][listing[j][i]] \in Read
      BY <3>1 DEF Tally
    <3>. QED  BY <1>1, <2>1, <3>2
  <2>. QED  BY <2>2, <2>3
<1>10. Tally(j)'
  BY <1>0, <1>5, <1>6, <1>7, <1>8, <1>9 DEF Tally
<1>. QED  BY <1>0, <1>10

LEMMA AccountsOfVerdict ==
    ASSUME TypeInv, NEW j \in Jobs, Tally(j), index[j] = Len(listing[j]) + 1, pc[j] = "finish"
    PROVE  Accounts(j, RunVerdict(counts[j]))
<1>1. 1 .. (index[j] - 1) = 1 .. Len(listing[j])
  BY DEF TypeInv, TypeOK
<1>2. counts[j].failed \in Nat /\ counts[j].parsed \in Nat /\ counts[j].unchanged \in Nat
  BY DEF TypeInv, TypeOK, Counts
<1>3. \A d \in Discovered(j) : item[j][d] # "absent"
  BY <1>1 DEF Tally, Discovered
<1>4. RunVerdict(counts[j]) = "completed" => \A d \in Discovered(j) : item[j][d] \in Success
  BY <1>1, <1>2 DEF Tally, Discovered, RunVerdict
<1>5. ASSUME RunVerdict(counts[j]) = "failed"
      PROVE  \A d \in Discovered(j) : item[j][d] \notin Read
  <2>1. counts[j].parsed + counts[j].unchanged = 0
    BY <1>2, <1>5 DEF RunVerdict
  <2>2. \A i \in 1 .. Len(listing[j]) : item[j][listing[j][i]] \notin Read
    BY <1>1, <2>1 DEF Tally
  <2>. QED  BY <2>2 DEF Discovered
<1>6. RunVerdict(counts[j]) = "partial" => \E d \in Discovered(j) : item[j][d] \in Read
  BY <1>1, <1>2 DEF Tally, Discovered, RunVerdict
<1>. QED  BY <1>3, <1>4, <1>5, <1>6 DEF Accounts

LEMMA RunStep ==
    ASSUME TypeInv, CancelBound, RunInv, NEW j \in Jobs, Step(j) \/ Post(j) \/ Cancel(j)
    PROVE  RunInv'
<1>0. /\ pc \in [Jobs -> Position] /\ index \in [Jobs -> Nat \ {0}]
      /\ item \in [Jobs -> [Documents -> ItemStatus]] /\ counts \in [Jobs -> Counts]
      /\ listing \in [Jobs -> Seq(Documents)]
      /\ run \in [Jobs -> [status : {"absent", "running"} \cup FinalRun, counts : Counts]]
  BY DEF TypeInv, TypeOK
<1>a. /\ Distinct(listing[j])
      /\ pc[j] \in {"none", "queued", "discover"} =>
            listing[j] = <<>> /\ index[j] = 1 /\ counts[j] = NoCounts
      /\ pc[j] \in Busy \cup {"next", "finish"} => Tally(j)
      /\ pc[j] = "finish" => index[j] = Len(listing[j]) + 1
      /\ run[j].status \in Accounted =>
            pc[j] \in {"returned", "ended", "lost"} /\ Accounts(j, run[j].status)
  BY DEF RunInv, RunOf
<1>b. SUFFICES RunOf(j)'
  <2>1. ASSUME NEW k \in Jobs, k # j
        PROVE  RunOf(k)'
    <3>1. /\ pc'[k] = pc[k] /\ index'[k] = index[k] /\ listing'[k] = listing[k]
          /\ item'[k] = item[k] /\ counts'[k] = counts[k] /\ run'[k] = run[k]
      BY <2>1, OthersKept
    <3>2. Discovered(k)' = Discovered(k)
      BY <3>1 DEF Discovered
    <3>. QED  BY <3>1, <3>2 DEF RunInv, RunOf, Tally, Accounts
  <2>. QED  BY <2>1 DEF RunInv
<1>c. ASSUME NEW status \in ItemStatus \ {"absent"}, EndDocument(j, status),
             pc[j] = "unextracted" => status = "extraction_failed",
             pc[j] \in Busy \cup {"next"}, index[j] <= Len(listing[j])
      PROVE  RunOf(j)'
  <2>1. Tally(j)' /\ pc'[j] = "next" /\ listing' = listing /\ run' = run
    BY <1>a, <1>c, TallyOfEnd
  <2>2. run[j].status \notin Accounted
    BY <1>a, <1>c DEF Busy, InDocument
  <2>. QED  BY <1>a, <2>1, <2>2 DEF RunOf, Distinct, Busy, InDocument
\* A step that moves the thread alone
<1>d. ASSUME NEW position \in {"queued", "discover", "next", "raised", "finish", "returned", "ended"}
                               \cup Busy,
             pc' = [pc EXCEPT ![j] = position], UNCHANGED <<listing, index, item, counts>>,
             run'[j].status = run[j].status \/ run'[j].status \notin Accounted,
             pc[j] # "unextracted" \/ position = "raised",
             position \in {"queued", "discover"} => pc[j] \in {"none", "queued", "discover"},
             position \in Busy \cup {"next", "finish"} => pc[j] \in Busy \cup {"next"},
             position = "finish" => index[j] = Len(listing[j]) + 1,
             position \notin {"returned", "ended"} => pc[j] \notin {"returned", "ended", "lost"}
      PROVE  RunOf(j)'
  <2>1. pc'[j] = position
    BY <1>0, <1>d
  <2>2. position \in Busy \cup {"next", "finish"} => Tally(j)'
    BY <1>a, <1>d, <2>1 DEF Tally, Busy, InDocument
  <2>4. run'[j].status \in Accounted => run'[j].status = run[j].status
    BY <1>d
  <2>5. Discovered(j)' = Discovered(j)
    BY <1>d DEF Discovered
  <2>6. run'[j].status \in Accounted =>
            pc'[j] \in {"returned", "ended", "lost"} /\ Accounts(j, run[j].status)
    BY <1>a, <1>d, <2>1, <2>4 DEF Busy, InDocument
  <2>7. run'[j].status \in Accounted => Accounts(j, run[j].status)'
    BY <1>d, <2>4, <2>5, <2>6 DEF Accounts
  <2>. QED  BY <1>a, <1>d, <2>1, <2>2, <2>6, <2>7 DEF RunOf, Busy, InDocument
<1>1. CASE Post(j)
  BY <1>d, <1>1 DEF Post, Busy, InDocument
<1>2. CASE Cancel(j)
  BY <1>a, <1>2 DEF Cancel, locals, RunOf, Tally, Accounts, Discovered
<1>3. CASE Ends(j)
  <2>1. index[j] <= Len(listing[j]) /\ pc[j] \in Busy
    BY <1>0, <1>3 DEF Ends, TypeInv, ThreadHolds, Busy
  <2>. QED  BY <1>c, <1>3, <2>1 DEF Ends
<1>4. CASE GoesOn(j)
  <2>1. pc[j] \in Busy /\ UNCHANGED <<run, item, listing, index>>
    BY <1>4 DEF GoesOn, rows
  <2>2. CASE counts' = counts
    <3>1. PICK position \in InDocument \cup {"raised"} :
              Goto(j, position) /\ (pc[j] = "unextracted" => position = "raised")
      BY <1>4 DEF GoesOn
    <3>2. position \in Busy \cup {"raised"} /\ position \notin {"queued", "discover"}
      BY <3>1 DEF Busy, InDocument
    <3>3. pc[j] \notin {"returned", "ended", "lost"}
      BY <2>1 DEF Busy, InDocument
    <3>4. position \notin {"finish", "next"}
      BY <3>1 DEF InDocument
    <3>. QED  BY <1>d, <2>1, <2>2, <3>1, <3>2, <3>3, <3>4 DEF Goto
  <2>3. CASE Goto(j, "unextracted") /\ counts' = [counts EXCEPT ![j].parsed = @ + 1]
    <3>1. /\ counts[j].parsed \in Nat /\ counts[j].unchanged \in Nat
          /\ counts'[j].failed = counts[j].failed
          /\ counts'[j].parsed = counts[j].parsed + 1
          /\ counts'[j].unchanged = counts[j].unchanged
      BY <1>0, <2>3 DEF Counts
    <3>2. counts'[j].parsed + counts'[j].unchanged # 0 /\ pc'[j] = "unextracted"
      BY <1>0, <2>3, <3>1 DEF Goto
    <3>3. Tally(j)' /\ run[j].status \notin Accounted
      BY <1>a, <2>1, <3>1, <3>2 DEF Tally, Busy, InDocument
    <3>. QED  BY <1>a, <2>1, <3>2, <3>3 DEF RunOf, Busy, InDocument
  <2>. QED  BY <1>4, <2>2, <2>3 DEF GoesOn
<1>5. CASE Look(j)
  <2>1. pc[j] = "next" /\ index[j] <= Len(listing[j])
    BY <1>5 DEF Look
  <2>2. CASE EndDocument(j, "unchanged")
    BY <1>c, <2>1, <2>2 DEF ItemStatus, Success
  <2>3. CASE Goto(j, "download") /\ UNCHANGED <<run, item, release, locals, crashes>>
    BY <1>d, <2>1, <2>3 DEF Goto, locals, Busy, InDocument
  <2>. QED  BY <1>5, <2>2, <2>3 DEF Look
<1>6. CASE Begin(j)
  <2>1. run'[j].status = run[j].status \/ run'[j].status \notin Accounted
    BY <1>0, <1>6 DEF Begin, Accounted
  <2>. QED  BY <1>d, <1>6, <2>1 DEF Begin, Goto, locals, Busy, InDocument
<1>7. CASE Discover(j)
  <2>1. /\ pc[j] = "discover" /\ listing[j] = <<>> /\ index[j] = 1 /\ counts[j] = NoCounts
        /\ UNCHANGED <<item, index>> /\ run[j].status \notin Accounted
    BY <1>a, <1>7 DEF Discover
  <2>2. ASSUME NEW l \in Listings, NEW f \in 0 .. 1,
               listing' = [listing EXCEPT ![j] = l], counts' = [counts EXCEPT ![j].failed = f],
               Goto(j, "next"), run' = run
        PROVE  RunOf(j)'
    <3>1. listing'[j] = l /\ Distinct(l) /\ Len(l) \in Nat
      BY <1>0, <2>2, IntelligenceAssumption DEF Distinct
    <3>2. counts'[j].parsed = 0 /\ counts'[j].unchanged = 0
      BY <1>0, <2>1, <2>2 DEF NoCounts, Counts
    <3>3. 1 .. (index'[j] - 1) = {} /\ index'[j] <= Len(listing'[j]) + 1
      BY <2>1, <3>1
    <3>4. Tally(j)'
      BY <3>2, <3>3 DEF Tally
    <3>5. pc'[j] = "next"
      BY <1>0, <2>2 DEF Goto
    <3>. QED  BY <2>1, <2>2, <3>1, <3>4, <3>5 DEF RunOf, Busy, InDocument
  <2>3. ASSUME CloseRun(j, "failed", counts'[j]), listing' = listing
        PROVE  RunOf(j)'
    <3>1. run'[j].status = "failed" /\ pc'[j] = "returned"
      BY <1>0, <2>3 DEF CloseRun, Goto
    <3>2. Discovered(j)' = {}
      BY <2>1, <2>3 DEF Discovered
    <3>3. Accounts(j, "failed")'
      BY <3>2 DEF Accounts
    <3>. QED  BY <1>a, <2>3, <3>1, <3>3 DEF RunOf, Busy, InDocument
  <2>. QED  BY <1>7, <2>2, <2>3 DEF Discover
<1>8. CASE LeaveLoop(j)
  <2>1. index[j] = Len(listing[j]) + 1
    BY <1>0, <1>8, <1>a DEF LeaveLoop, Tally
  <2>. QED  BY <1>d, <1>8, <2>1 DEF LeaveLoop, Goto, locals, Busy, InDocument
<1>9. CASE Finish(j)
  <2>. DEFINE status == RunVerdict(counts[j])
  <2>1. Accounts(j, status)
    BY <1>9, <1>a, AccountsOfVerdict DEF Finish
  <2>2. run'[j].status = status /\ pc'[j] = "returned"
    BY <1>0, <1>9 DEF Finish, CloseRun, Goto
  <2>. HIDE DEF status
  <2>3. Accounts(j, run[j].status)'
    <3>1. UNCHANGED <<item, listing>>
      BY <1>9 DEF Finish, locals
    <3>2. Discovered(j)' = Discovered(j)
      BY <3>1 DEF Discovered
    <3>. QED  BY <2>1, <2>2, <3>1, <3>2 DEF Accounts
  <2>4. RunOf(j)'
    BY <1>9, <1>a, <2>2, <2>3 DEF Finish, locals, RunOf, Busy, InDocument
  <2>. QED  BY <2>4
<1>10. CASE StopCancelled(j)
  <2>1. run'[j].status \notin Accounted
    BY <1>0, <1>10 DEF StopCancelled, CloseRun, Accounted
  <2>. QED  BY <1>d, <1>10, <2>1 DEF StopCancelled, CloseRun, Goto, locals, Busy, InDocument
<1>11. CASE Complete(j) \/ Fail(j)
  BY <1>d, <1>11 DEF Complete, Fail, locals, Busy, InDocument
<1>12. CASE RefreshRaises(j) /\ pc[j] \in {"next", "finish"}
  BY <1>d, <1>12 DEF RefreshRaises, Goto, locals, rows, Busy, InDocument
<1>. QED
  BY <1>1, <1>2, <1>3, <1>4, <1>5, <1>6, <1>7, <1>8, <1>9, <1>10, <1>11, <1>12, StepShape

LEMMA RunNext ==
    ASSUME TypeInv, CancelBound, RunInv, [Next]_vars
    PROVE  RunInv'
<1>1. CASE Crash
  <2>1. \A j \in Jobs : pc'[j] = IF pc[j] \in Working THEN "lost" ELSE pc[j]
    BY <1>1 DEF Crash
  <2>2. UNCHANGED <<run, item, listing, index, counts>>
    BY <1>1 DEF Crash, rows
  <2>3. ASSUME NEW j \in Jobs
        PROVE  RunOf(j)'
    BY <2>1, <2>2 DEF RunInv, RunOf, Accounts, Discovered, Busy, InDocument, Working
  <2>. QED  BY <2>3 DEF RunInv
<1>2. CASE UNCHANGED vars
  BY <1>2 DEF vars, rows, locals, RunInv, RunOf, Tally, Accounts, Discovered
<1>. QED  BY <1>1, <1>2, RunStep DEF Next

\* A refresh that was not cancelled has an outcome for every document it discovered,
\* and its status follows from them, whatever other refreshes store meanwhile and
\* whichever statements fail (the loop of refresh and its last status).
THEOREM RunsAccount == Spec => []RunAccountsForDocuments
<1>1. Init => RunInv
  BY DEF Init, RunInv, RunOf, NoRun, Busy, InDocument, Accounted, Distinct
<1>2. Init => CancelBound
  BY DEF Init, CancelBound, AbsentRow, Busy, InDocument
<1>3. RunInv => RunAccountsForDocuments
  <2>. SUFFICES ASSUME RunInv, NEW j \in Jobs, run[j].status \in Accounted
                PROVE  LET outcomes == {item[j][d] : d \in Discovered(j)}
                       IN  /\ "absent" \notin outcomes
                           /\ run[j].status = "completed" => outcomes \subseteq Success
                           /\ run[j].status = "failed" => outcomes \cap Read = {}
                           /\ run[j].status = "partial" => outcomes \cap Read # {}
    BY DEF RunAccountsForDocuments, Discovered, Read, Accounted
  <2>1. Accounts(j, run[j].status)
    BY DEF RunInv, RunOf
  <2>. QED  BY <2>1 DEF Accounts
<1>. QED  BY <1>1, <1>2, <1>3, TypeCorrect, CancelNext, RunNext, PTL DEF Spec

-----------------------------------------------------------------------------
\* Evidence, when refreshes follow one another

\* A document that counts as read with evidence
Evident(row) == row.spans /\ row.status = "parsed"

EvidenceKept ==
    \A d \in Documents, c \in Contents : Evident(document[d][c]) => Evident(document'[d][c])

\* One refresh at a time
Alone == \A j, k \in Jobs : pc[j] \in Working /\ pc[k] \in Working => j = k

\* A row that was not stored has no spans.
SpansAreStored ==
    \A d \in Documents, c \in Contents : document[d][c].spans => document[d][c].version > 0

\* After save_document the row of the thread is stored; between a count of no
\* spans and the change of status that rests on it there are still none.
RowFollowsThread(j) ==
    /\ pc[j] \in InDocument \ {"find", "insert"} => Row(j).version > 0
    /\ pc[j] \in {"reset", "count", "failed"} => ~Row(j).spans

EvidenceInv == Alone /\ SpansAreStored /\ \A j \in Jobs : RowFollowsThread(j)

LEMMA RowReplaced ==
    ASSUME TypeInv, EvidenceInv, NEW j \in Jobs, pc[j] \in InDocument,
           NEW row \in DocumentRow, row.version > 0, Evident(Row(j)) => Evident(row),
           document' = [document EXCEPT ![Current(j)][content[j]] = row]
    PROVE  /\ EvidenceKept /\ SpansAreStored'
           /\ document'[Current(j)][content[j]] = row
<1>1. /\ Current(j) \in Documents /\ content[j] \in Contents
      /\ document \in [Documents -> [Contents -> DocumentRow]]
  BY RowOfThread DEF TypeInv, TypeOK
<1>2. document'[Current(j)][content[j]] = row
  BY <1>1
<1>3. ASSUME NEW d \in Documents, NEW c \in Contents
      PROVE  \/ document'[d][c] = document[d][c]
             \/ d = Current(j) /\ c = content[j] /\ document'[d][c] = row
  BY <1>1
<1>4. EvidenceKept
  BY <1>3 DEF EvidenceKept, Row
<1>5. SpansAreStored'
  BY <1>3 DEF EvidenceInv, SpansAreStored
<1>. QED  BY <1>2, <1>4, <1>5

\* A write to the row of a thread keeps evidence; afterwards the row has the
\* fields written.
LEMMA WriteKeepsEvidence ==
    ASSUME TypeInv, EvidenceInv, NEW j \in Jobs, pc[j] \in InDocument \ {"find", "insert"},
           \/ SaveContent(j) \/ ResetStatus(j) \/ MarkFailed(j) \/ SaveSpan(j)
           \/ SpanParsed(j) \/ MarkParsed(j)
    PROVE  /\ EvidenceKept /\ SpansAreStored'
           /\ document'[Current(j)][content[j]].version > 0
<1>1. /\ Row(j) \in DocumentRow /\ release \in Nat /\ Row(j).version > 0
      /\ pc[j] \in {"reset", "count", "failed"} => ~Row(j).spans
  BY RowOfThread, IntelligenceAssumption
  DEF TypeInv, TypeOK, Releases, EvidenceInv, RowFollowsThread
<1>2. ASSUME NEW row \in DocumentRow, row.version = Row(j).version,
             Evident(Row(j)) => Evident(row),
             document' = [document EXCEPT ![Current(j)][content[j]] = row]
      PROVE  /\ EvidenceKept /\ SpansAreStored'
             /\ document'[Current(j)][content[j]].version > 0
  BY <1>1, <1>2, RowReplaced
<1>3. CASE SaveContent(j)
  <2>1. /\ [Row(j) EXCEPT !.parser = release] \in DocumentRow
        /\ [Row(j) EXCEPT !.parser = release].version = Row(j).version
        /\ Evident(Row(j)) => Evident([Row(j) EXCEPT !.parser = release])
    BY <1>1 DEF DocumentRow, Evident
  <2>. QED  BY <1>2, <1>3, <2>1, RowsWritten
<1>4. CASE ResetStatus(j)
  <2>1. /\ [Row(j) EXCEPT !.status = "pending"] \in DocumentRow
        /\ [Row(j) EXCEPT !.status = "pending"].version = Row(j).version
    BY <1>1 DEF DocumentRow, ParseStatus
  <2>2. ~Evident(Row(j))
    BY <1>1, <1>4 DEF ResetStatus, Evident
  <2>. QED  BY <1>2, <1>4, <2>1, <2>2, RowsWritten
<1>5. CASE MarkFailed(j)
  <2>1. /\ [Row(j) EXCEPT !.status = "failed"] \in DocumentRow
        /\ [Row(j) EXCEPT !.status = "failed"].version = Row(j).version
    BY <1>1 DEF DocumentRow, ParseStatus
  <2>2. ~Evident(Row(j))
    BY <1>1, <1>5 DEF MarkFailed, Evident
  <2>. QED  BY <1>2, <1>5, <2>1, <2>2, RowsWritten
<1>6. CASE SaveSpan(j)
  <2>1. /\ [Row(j) EXCEPT !.spans = TRUE] \in DocumentRow
        /\ [Row(j) EXCEPT !.spans = TRUE].version = Row(j).version
        /\ Evident(Row(j)) => Evident([Row(j) EXCEPT !.spans = TRUE])
    BY <1>1 DEF DocumentRow, Evident
  <2>. QED  BY <1>2, <1>6, <2>1, RowsWritten
<1>7. CASE SpanParsed(j)
  <2>. DEFINE row == [Row(j) EXCEPT !.status = IF @ = "pending" THEN "parsed" ELSE @]
  <2>1. row \in DocumentRow /\ row.version = Row(j).version
        /\ (Evident(Row(j)) => Evident(row))
    BY <1>1 DEF DocumentRow, ParseStatus, Evident
  <2>2. document' = [document EXCEPT ![Current(j)][content[j]] = row]
    BY <1>7, RowsWritten
  <2>. HIDE DEF row
  <2>. QED  BY <1>2, <2>1, <2>2
<1>8. CASE MarkParsed(j)
  <2>. DEFINE row == [Row(j) EXCEPT !.status = "parsed", !.parser = release]
  <2>1. row \in DocumentRow /\ row.version = Row(j).version
        /\ (Evident(Row(j)) => Evident(row))
    BY <1>1 DEF DocumentRow, ParseStatus, Evident
  <2>2. document' = [document EXCEPT ![Current(j)][content[j]] = row]
    BY <1>8, RowsWritten
  <2>. HIDE DEF row
  <2>. QED  BY <1>2, <2>1, <2>2
<1>. QED  BY <1>3, <1>4, <1>5, <1>6, <1>7, <1>8

\* What a step of the working thread does to the documents, and where it leaves it
LEMMA EvidenceOfStep ==
    ASSUME TypeInv, EvidenceInv, NEW j \in Jobs, Step(j)
    PROVE  EvidenceKept /\ SpansAreStored' /\ RowFollowsThread(j)'
<1>0. pc \in [Jobs -> Position] /\ index \in [Jobs -> Nat \ {0}]
  BY DEF TypeInv, TypeOK
<1>a. /\ SpansAreStored /\ RowFollowsThread(j)
  BY DEF EvidenceInv
<1>b. document' = document => EvidenceKept /\ SpansAreStored'
  BY <1>a DEF EvidenceKept, SpansAreStored
\* outside a document nothing is said of a row
<1>c. pc'[j] \notin InDocument => RowFollowsThread(j)'
  BY DEF RowFollowsThread, InDocument
<1>d. ASSUME NEW status, EndDocument(j, status)
      PROVE  RowFollowsThread(j)'
  BY <1>d, <1>c, EndIndex DEF InDocument
<1>1. CASE Begin(j) \/ Discover(j) \/ LeaveLoop(j) \/ Finish(j) \/ StopCancelled(j)
           \/ RefreshRaises(j) \/ Complete(j) \/ Fail(j)
  <2>1. document' = document
    BY <1>1 DEF Begin, Discover, LeaveLoop, Finish, StopCancelled, RefreshRaises, Complete, Fail
  <2>2. pc'[j] \notin InDocument
    BY <1>0, <1>1 DEF Begin, Discover, LeaveLoop, Finish, StopCancelled, RefreshRaises, Complete,
                      Fail, CloseRun, Goto, InDocument
  <2>. QED  BY <1>b, <1>c, <2>1, <2>2
<1>2. CASE Look(j)
  <2>1. document' = document
    BY <1>2 DEF Look
  <2>2. CASE EndDocument(j, "unchanged")
    BY <1>b, <1>d, <2>1, <2>2
  <2>3. CASE Goto(j, "download")
    BY <1>0, <1>b, <1>c, <2>1, <2>3 DEF Goto, InDocument
  <2>. QED  BY <1>2, <2>2, <2>3 DEF Look
<1>3. CASE Download(j)
  <2>1. document' = document
    BY <1>3 DEF Download
  <2>2. CASE \E status : EndDocument(j, status)
    BY <1>b, <1>d, <2>1, <2>2
  <2>3. CASE Goto(j, "find")
    <3>1. pc'[j] = "find"
      BY <1>0, <2>3 DEF Goto
    <3>. QED  BY <1>b, <2>1, <3>1 DEF RowFollowsThread
  <2>. QED  BY <1>3, <2>2, <2>3 DEF Download
\* The thread goes on with the same row and the row is not written.
<1>e. ASSUME NEW position \in InDocument, Goto(j, position),
             UNCHANGED <<document, listing, index, content>>,
             position \notin {"find", "insert"} => Row(j).version > 0,
             position \in {"reset", "count", "failed"} => ~Row(j).spans
      PROVE  EvidenceKept /\ SpansAreStored' /\ RowFollowsThread(j)'
  <2>1. pc'[j] = position
    BY <1>0, <1>e DEF Goto
  <2>2. Row(j)' = Row(j)
    BY <1>e DEF Row, Current
  <2>. QED  BY <1>b, <1>e, <2>1, <2>2 DEF RowFollowsThread
\* The thread goes on with the same row, which it has written.
<1>f. ASSUME NEW position \in InDocument \ {"reset", "count", "failed"}, Goto(j, position),
             UNCHANGED <<listing, index, content>>, EvidenceKept, SpansAreStored',
             document'[Current(j)][content[j]].version > 0
      PROVE  EvidenceKept /\ SpansAreStored' /\ RowFollowsThread(j)'
  <2>1. pc'[j] = position
    BY <1>0, <1>f DEF Goto
  <2>2. Row(j)' = document'[Current(j)][content[j]]
    BY <1>f DEF Row, Current
  <2>. QED  BY <1>f, <2>1, <2>2 DEF RowFollowsThread
<1>4. CASE FindDocument(j)
  BY <1>e, <1>4 DEF FindDocument, InDocument
<1>5. CASE InsertDocument(j)
  <2>1. CASE EndDocument(j, "parse_failed") /\ document' = document
    BY <1>b, <1>d, <2>1
  <2>2. ASSUME document' = [document EXCEPT ![Current(j)][content[j]] =
                               [NoDocument EXCEPT !.version = base[j] + 1]],
               Row(j).version = 0, Goto(j, "content"), UNCHANGED <<listing, index, content>>
        PROVE  EvidenceKept /\ SpansAreStored' /\ RowFollowsThread(j)'
    <3>. DEFINE row == [NoDocument EXCEPT !.version = base[j] + 1]
    <3>1. pc[j] \in InDocument
      BY <1>5 DEF InsertDocument, InDocument
    <3>2. row \in DocumentRow /\ row.version > 0
      <4>1. NoDocument \in DocumentRow
        BY DEF NoDocument, DocumentRow, ParseStatus
      <4>2. base[j] + 1 \in Nat /\ base[j] + 1 > 0
        BY DEF TypeInv, TypeOK
      <4>. QED  BY <4>1, <4>2 DEF DocumentRow
    <3>3. ~Evident(Row(j))
      <4>1. /\ Current(j) \in Documents /\ content[j] \in Contents
        BY <3>1, RowOfThread DEF TypeInv
      <4>. QED  BY <1>a, <2>2, <4>1 DEF SpansAreStored, Row, Evident
    <3>. HIDE DEF row
    <3>4. /\ EvidenceKept /\ SpansAreStored'
          /\ document'[Current(j)][content[j]].version > 0
      BY <2>2, <3>1, <3>2, <3>3, RowReplaced DEF row
    <3>5. "content" \in InDocument \ {"reset", "count", "failed"}
      BY DEF InDocument
    <3>. QED  BY <1>f, <2>2, <3>4, <3>5
  <2>. QED  BY <1>5, <2>1, <2>2 DEF InsertDocument
<1>6. CASE SaveContent(j) \/ ResetStatus(j) \/ SaveSpan(j) \/ SpanParsed(j)
  <2>1. pc[j] \in InDocument \ {"find", "insert"}
    BY <1>6 DEF SaveContent, ResetStatus, SaveSpan, SpanParsed, InDocument
  <2>2. /\ EvidenceKept /\ SpansAreStored'
        /\ document'[Current(j)][content[j]].version > 0
    BY <1>6, <2>1, WriteKeepsEvidence
  <2>3. PICK position \in InDocument \ {"reset", "count", "failed"} : Goto(j, position)
    BY <1>6 DEF SaveContent, ResetStatus, SaveSpan, SpanParsed, InDocument
  <2>4. UNCHANGED <<listing, index, content>>
    BY <1>6 DEF SaveContent, ResetStatus, SaveSpan, SpanParsed, locals
  <2>. QED  BY <1>f, <2>2, <2>3, <2>4
<1>7. CASE RetryParse(j) \/ Parse(j) \/ Extract(j) \/ Claims(j)
  <2>1. /\ pc[j] \in InDocument \ {"find", "insert"}
        /\ UNCHANGED <<document, listing, index, content>>
    BY <1>7 DEF RetryParse, Parse, Extract, Claims, InDocument, locals
  <2>2. PICK position \in InDocument \ {"count", "failed"} :
            Goto(j, position) /\ (position = "reset" => ~Row(j).spans)
    BY <1>7 DEF RetryParse, Parse, Extract, Claims, InDocument
  <2>3. Row(j).version > 0
    BY <1>a, <2>1 DEF RowFollowsThread
  <2>. QED  BY <1>e, <2>1, <2>2, <2>3
<1>8. CASE ReadRaises(j)
  <2>1. document' = document
    BY <1>8 DEF ReadRaises
  <2>2. CASE EndDocument(j, "parse_failed")
    BY <1>b, <1>d, <2>1, <2>2
  <2>3. CASE /\ pc[j] \in {"content", "retry", "reset", "parse"}
             /\ Goto(j, "unreadable")
             /\ UNCHANGED <<run, item, release, locals, crashes>>
    <3>1. Row(j).version > 0 /\ "unreadable" \in InDocument
      BY <1>a, <2>3 DEF RowFollowsThread, InDocument
    <3>. QED  BY <1>e, <2>1, <2>3, <3>1 DEF locals
  <2>. QED  BY <1>8, <2>2, <2>3 DEF ReadRaises
<1>9. CASE Unreadable(j)
  <2>1. document' = document /\ pc[j] = "unreadable"
    BY <1>9 DEF Unreadable
  <2>2. CASE UnreadableItem(j)
    BY <1>b, <1>d, <2>1, <2>2 DEF UnreadableItem
  <2>3. CASE ~Row(j).spans /\ Goto(j, "count") /\ UNCHANGED <<run, item, release, locals, crashes>>
    <3>1. Row(j).version > 0 /\ "count" \in InDocument
      BY <1>a, <2>1 DEF RowFollowsThread, InDocument
    <3>. QED  BY <1>e, <2>1, <2>3, <3>1 DEF locals
  <2>. QED  BY <1>9, <2>2, <2>3 DEF Unreadable
<1>10. CASE CountSpans(j)
  <2>1. /\ UNCHANGED <<document, listing, index, content>>
        /\ Goto(j, "raised") \/ (Goto(j, "failed") /\ ~Row(j).spans)
        /\ Row(j).version > 0
    BY <1>a, <1>10 DEF CountSpans, locals, RowFollowsThread, InDocument
  <2>2. CASE Goto(j, "raised")
    BY <1>0, <1>b, <1>c, <2>1, <2>2 DEF Goto, InDocument
  <2>3. CASE Goto(j, "failed") /\ ~Row(j).spans
    BY <1>e, <2>1, <2>3 DEF InDocument
  <2>. QED  BY <2>1, <2>2, <2>3
<1>11. CASE MarkFailed(j)
  <2>1. pc[j] \in InDocument \ {"find", "insert"} /\ UnreadableItem(j)
    BY <1>11 DEF MarkFailed, InDocument
  <2>2. EvidenceKept /\ SpansAreStored'
    BY <1>11, <2>1, WriteKeepsEvidence
  <2>. QED  BY <1>d, <2>1, <2>2 DEF UnreadableItem
<1>12. CASE Mark(j) \/ ItemRaises(j) \/ Unextracted(j)
  <2>1. pc[j] \in InDocument \ {"find", "insert"} /\ Row(j).version > 0
    BY <1>a, <1>12 DEF Mark, ItemRaises, Unextracted, RowFollowsThread, InDocument
  <2>2. CASE MarkParsed(j) /\ \E status : EndDocument(j, status)
    <3>1. EvidenceKept /\ SpansAreStored'
      BY <2>1, <2>2, WriteKeepsEvidence
    <3>. QED  BY <1>d, <2>2, <3>1
  <2>3. CASE MarkParsed(j) /\ Goto(j, "unextracted") /\ UNCHANGED <<listing, index, content>>
    <3>1. /\ EvidenceKept /\ SpansAreStored'
          /\ document'[Current(j)][content[j]].version > 0
      BY <2>1, <2>3, WriteKeepsEvidence
    <3>2. "unextracted" \in InDocument \ {"reset", "count", "failed"}
      BY DEF InDocument
    <3>. QED  BY <1>f, <2>3, <3>1, <3>2
  <2>4. CASE /\ Goto(j, "unextracted") \/ Goto(j, "raised")
             /\ UNCHANGED <<document, listing, index, content>>
    <3>1. CASE Goto(j, "raised")
      BY <1>0, <1>b, <1>c, <2>4, <3>1 DEF Goto, InDocument
    <3>2. CASE Goto(j, "unextracted")
      BY <1>e, <2>1, <2>4, <3>2 DEF InDocument
    <3>. QED  BY <2>4, <3>1, <3>2
  <2>. QED  BY <1>12, <2>2, <2>3, <2>4 DEF Mark, ItemRaises, Unextracted, locals
<1>. QED
  BY <1>1, <1>2, <1>3, <1>4, <1>5, <1>6, <1>7, <1>8, <1>9, <1>10, <1>11, <1>12 DEF Step

LEMMA StepWorks ==
    ASSUME NEW j \in Jobs, Step(j)
    PROVE  pc[j] \in Working
<1>1. CASE Ends(j) \/ GoesOn(j)
  BY <1>1 DEF Ends, GoesOn, Busy, InDocument, Working
<1>2. CASE \/ Look(j) \/ Begin(j) \/ Discover(j) \/ LeaveLoop(j) \/ Finish(j)
           \/ StopCancelled(j) \/ Complete(j) \/ Fail(j)
  BY <1>2 DEF Look, Begin, Discover, LeaveLoop, Finish, StopCancelled, Complete, Fail, Working
<1>. QED  BY <1>1, <1>2, StepShape DEF Working

LEMMA EvidenceNext ==
    ASSUME ~Overlap, TypeInv, EvidenceInv, [Next]_vars
    PROVE  EvidenceInv' /\ EvidenceKept
<1>0. pc \in [Jobs -> Position]
  BY DEF TypeInv, TypeOK
<1>a. ASSUME document' = document
      PROVE  EvidenceKept /\ SpansAreStored'
  BY <1>a DEF EvidenceInv, EvidenceKept, SpansAreStored
<1>1. ASSUME NEW j \in Jobs, Step(j)
      PROVE  EvidenceInv' /\ EvidenceKept
  <2>1. pc[j] \in Working
    BY <1>1, StepWorks
  <2>2. ASSUME NEW k \in Jobs, k # j
        PROVE  pc'[k] = pc[k] /\ pc'[k] \notin Working
    BY <1>1, <2>1, <2>2, OthersKept DEF EvidenceInv, Alone
  <2>3. Alone'
    BY <2>2 DEF Alone
  <2>4. \A k \in Jobs \ {j} : RowFollowsThread(k)'
    BY <2>2 DEF RowFollowsThread, InDocument, Working
  <2>. QED  BY <1>1, <2>3, <2>4, EvidenceOfStep DEF EvidenceInv
<1>2. ASSUME NEW j \in Jobs, Post(j)
      PROVE  EvidenceInv' /\ EvidenceKept
  <2>1. /\ \A k \in Jobs : pc[k] \notin Working
        /\ pc' = [pc EXCEPT ![j] = "queued"] /\ document' = document
    BY <1>2 DEF Post
  <2>2. \A k \in Jobs : pc'[k] \notin InDocument /\ (pc'[k] \in Working => k = j)
    BY <1>0, <2>1 DEF InDocument, Working
  <2>3. Alone' /\ \A k \in Jobs : RowFollowsThread(k)'
    BY <2>2 DEF Alone, RowFollowsThread, InDocument
  <2>. QED  BY <1>a, <2>1, <2>3 DEF EvidenceInv
<1>3. ASSUME UNCHANGED <<pc, document, listing, index, content>>
      PROVE  EvidenceInv' /\ EvidenceKept
  <2>1. \A k \in Jobs : RowFollowsThread(k)'
    BY <1>3 DEF EvidenceInv, RowFollowsThread, Row, Current
  <2>. QED  BY <1>3, <1>a, <2>1 DEF EvidenceInv, Alone
<1>4. CASE Crash
  <2>1. /\ \A k \in Jobs : pc'[k] = IF pc[k] \in Working THEN "lost" ELSE pc[k]
        /\ document' = document
    BY <1>4 DEF Crash
  <2>2. \A k \in Jobs : pc'[k] \notin Working
    BY <2>1 DEF Working
  <2>3. Alone' /\ \A k \in Jobs : RowFollowsThread(k)'
    BY <2>2 DEF Alone, RowFollowsThread, InDocument, Working
  <2>. QED  BY <1>a, <2>1, <2>3 DEF EvidenceInv
<1>5. ASSUME NEW j \in Jobs, Cancel(j)
      PROVE  EvidenceInv' /\ EvidenceKept
  BY <1>3, <1>5 DEF Cancel, locals
<1>. QED
  BY <1>1, <1>2, <1>3, <1>4, <1>5 DEF Next, vars, locals

\* As long as one refresh follows another, parsed evidence keeps its spans and its
\* status through every failure, retry, new release and crash.  With overlapping
\* refreshes TLC finds a history in which it does not (the count of spans and the
\* update of mark_parse_failed and retry_parse are two statements).
THEOREM EvidenceStays ==
    ASSUME ~Overlap
    PROVE  Spec => ParsedEvidenceStays
<1>1. Init => EvidenceInv
  BY DEF Init, EvidenceInv, Alone, SpansAreStored, RowFollowsThread, NoDocument, Working,
         InDocument
<1>2. TypeInv /\ EvidenceInv /\ [Next]_vars => EvidenceInv'
  BY EvidenceNext
<1>3. TypeInv /\ EvidenceInv /\ [Next]_vars =>
          [\A d \in Documents, c \in Contents :
              document[d][c].spans /\ document[d][c].status = "parsed" =>
                  document'[d][c].spans /\ document'[d][c].status = "parsed"]_vars
  BY EvidenceNext DEF EvidenceKept, Evident
<1>. QED  BY <1>1, <1>2, <1>3, TypeCorrect, PTL DEF Spec, ParsedEvidenceStays

=============================================================================

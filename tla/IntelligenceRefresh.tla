------------------------- MODULE IntelligenceRefresh -------------------------
(***************************************************************************)
(* The refresh of a company's public SEC evidence:                         *)
(* IntelligenceRefreshService.refresh, the document rows EvidenceRepository *)
(* keeps, and the route that runs the refresh as a local job.              *)
(*                                                                         *)
(* Every job runs refresh() in a worker thread of its own (to_thread), so  *)
(* two jobs interleave between any two statements sent to the database,    *)
(* and the event loop's cancellation route between any two steps; the loop *)
(* writes the end of the job after the thread has returned.  One action is *)
(* the work between two accesses to rows another thread may change.  No    *)
(* group of statements is a transaction, so a process death keeps those    *)
(* that were made.                                                         *)
(***************************************************************************)
EXTENDS LocalJobStore, Sequences, FiniteSets

CONSTANTS
    Jobs,          \* identifiers of intelligence refresh jobs
    Documents,     \* external identifiers of SEC archive documents
    Contents,      \* content hashes
    Listings,      \* what discovery may find: sequences of Documents
    Outcome,       \* [Contents -> [Releases -> Outcomes]], see below
    Forces,        \* values of request.force
    Overlap,       \* may a refresh be posted while another one runs
    Fragile,       \* may any statement raise: threads share one connection,
                   \* and a result another thread has fetched is None
    MaxCrashes     \* bound on process deaths

\* A restart may bring a new release, with a new DOCUMENT_PARSER_VERSION.
Releases == 1 .. (MaxCrashes + 1)

\* What the parser of a release makes of a content: text with evidence spans,
\* text without any, a parse error, or a format it does not support.
Outcomes == {"evidence", "bare", "broken", "unsupported"}

ASSUME IntelligenceAssumption ==
    /\ MaxCrashes \in Nat
    /\ Listings \subseteq Seq(Documents)
       \* discover keeps one document of each external identifier
    /\ \A l \in Listings : \A i, k \in 1 .. Len(l) : l[i] = l[k] => i = k
    /\ Outcome \in [Contents -> [Releases -> Outcomes]]
    /\ Forces \subseteq BOOLEAN
    /\ Overlap \in BOOLEAN
    /\ Fragile \in BOOLEAN

VARIABLES
    job,           \* local_jobs
    run,           \* intelligence_refresh_runs, one per job that got that far
    item,          \* intelligence_refresh_items
    document,      \* evidence_documents and their contents and spans
    accepted,      \* history: position in the loop when cancellation was accepted
    release,       \* the program that runs: DOCUMENT_PARSER_VERSION
    pc,            \* where the worker thread of each job is
    force,         \* request.force
    listing,       \* discovery.documents
    index,         \* position in the loop over them
    content,       \* hash of the content just downloaded, or None
    base,          \* highest version save_document has read
    seen,          \* parse_status save_document has returned
    counts,        \* the dictionary counts
    crashes

rows   == <<job, run, item>>
locals == <<force, listing, index, content, base, seen, counts>>
vars   == <<rows, document, accepted, release, pc, locals, crashes>>

-----------------------------------------------------------------------------
\* Types

None == "none"     \* document is None: nothing of this download is stored

ParseStatus == {"pending", "parsed", "failed"}
Failure  == {"provider_failed", "unsupported_format", "parse_failed", "extraction_failed"}
Success  == {"parsed", "unchanged"}
ItemStatus == {"absent"} \cup Failure \cup Success
FinalRun == {"completed", "partial", "failed", "cancelled"}
Counts   == [unchanged : Nat, parsed : Nat, failed : Nat]
NoCounts == [unchanged |-> 0, parsed |-> 0, failed |-> 0]
NoRun    == [status |-> "absent", counts |-> NoCounts]

\* version 0: no such row.  "parser" is the release save_content and
\* mark_parsed have noted, 0 before.
DocumentRow == [version : Nat, status : ParseStatus, spans : BOOLEAN, parser : Nat]
NoDocument  == [version |-> 0, status |-> "pending", spans |-> FALSE, parser |-> 0]

\* Thread positions.  "queued", "returned" and "raised" wait for the pool or
\* for the event loop, the others for the next statement of the loop.
Working == {"queued", "discover", "next", "download", "find", "insert", "content", "retry",
            "reset", "parse", "unreadable", "count", "failed", "extract", "span", "update",
            "claims", "mark", "unextracted", "finish", "returned", "raised"}
Position == {"none", "ended", "lost"} \cup Working

TypeOK ==
    /\ job \in [Jobs -> JobRow]
    /\ run \in [Jobs -> [status : {"absent", "running"} \cup FinalRun, counts : Counts]]
    /\ item \in [Jobs -> [Documents -> ItemStatus]]
    /\ document \in [Documents -> [Contents -> DocumentRow]]
    /\ accepted \in [Jobs -> Nat]
    /\ release \in Releases
    /\ pc \in [Jobs -> Position]
    /\ force \in [Jobs -> BOOLEAN]
    /\ listing \in [Jobs -> Seq(Documents)]
    /\ index \in [Jobs -> Nat \ {0}]
    /\ content \in [Jobs -> Contents \cup {None}]
    /\ base \in [Jobs -> Nat]
    /\ seen \in [Jobs -> ParseStatus]
    /\ counts \in [Jobs -> Counts]
    /\ crashes \in 0 .. MaxCrashes

-----------------------------------------------------------------------------
\* Reading the tables

Current(j) == listing[j][index[j]]          \* the discovered document
Row(j)     == document[Current(j)][content[j]]

Stored(d) == {c \in Contents : document[d][c].version > 0}

\* ORDER BY version DESC LIMIT 1: any row of the highest version
Latest(d) == {c \in Stored(d) : \A e \in Stored(d) :
                                   document[d][e].version <= document[d][c].version}

HighestVersion(d) ==
    IF Stored(d) = {} THEN 0 ELSE document[d][CHOOSE c \in Latest(d) : TRUE].version

\* _fresh_unchanged
FreshUnchanged(j, d, c) ==
    /\ ~force[j]
    /\ document[d][c].status = "parsed"
    /\ document[d][c].parser = release

\* Mutated form: a failed document counts as one that was dealt with.
VerdictForgiving(n) == IF n.failed > 0 THEN "partial" ELSE "completed"

\* The status of a refresh that was not cancelled
RunVerdict(n) ==
    IF n.failed > 0 THEN IF n.parsed + n.unchanged > 0 THEN "partial" ELSE "failed"
    ELSE "completed"

\* Mutated form: the documents left are reported instead of those done.
ShareLeft(done, total) == ((total - done) * Whole) \div total

\* progress(index / total)
Share(done, total) == (done * Whole) \div total

\* How run_refresh maps it to the final status of the job
JobVerdict(status) == IF status \in {"cancelled", "failed"} THEN status ELSE "completed"

\* What the thread holds of a document it has finished with is not read again.
Forget(S) ==
    /\ content' = [k \in Jobs |-> IF k \in S THEN None ELSE content[k]]
    /\ base' = [k \in Jobs |-> IF k \in S THEN 0 ELSE base[k]]
    /\ seen' = [k \in Jobs |-> IF k \in S THEN "pending" ELSE seen[k]]

-----------------------------------------------------------------------------
\* The routes

\* POST /companies/{ticker}/sources/refresh
Post(j) ==
    /\ pc[j] = "none"
    /\ Overlap \/ \A k \in Jobs : pc[k] \notin Working
    /\ \E f \in Forces : force' = [force EXCEPT ![j] = f]
    /\ job' = [job EXCEPT ![j] = NewRow]
    /\ pc' = [pc EXCEPT ![j] = "queued"]
    /\ UNCHANGED <<run, item, document, accepted, release, listing, index, content, base,
                   seen, counts, crashes>>

\* POST /intelligence-jobs/{job_id}/cancel
Cancel(j) ==
    /\ job[j].status # "absent"
    /\ job' = [job EXCEPT ![j] = CancelRequested(@)]
    /\ accepted' = [accepted EXCEPT ![j] = IF job'[j].cancel /\ @ = 0 THEN index[j] ELSE @]
    /\ UNCHANGED <<run, item, document, release, pc, locals, crashes>>

\* The loop resumes run_refresh with the summary ...
Complete(j) ==
    /\ pc[j] = "returned"
    /\ job' = [job EXCEPT ![j] = WithResult(@, JobVerdict(run[j].status))]
    /\ pc' = [pc EXCEPT ![j] = "ended"]
    /\ UNCHANGED <<run, item, document, accepted, release, locals, crashes>>

\* ... or with the exception refresh raised, whatever the run's row says.
Fail(j) ==
    /\ pc[j] = "raised"
    /\ \E mentionsCancel \in BOOLEAN :
          job' = [job EXCEPT ![j] = WithError(@, mentionsCancel)]
    /\ pc' = [pc EXCEPT ![j] = "ended"]
    /\ Forget({j})
    /\ UNCHANGED <<run, item, document, accepted, release, force, listing, index, counts,
                   crashes>>

-----------------------------------------------------------------------------
\* The thread: company, discovery, end of the run

Goto(j, position) == pc' = [pc EXCEPT ![j] = position]

\* The company is resolved (after a sync of the SEC directory when it has to
\* be) and the run is started, or LookupError or the provider's error is raised.
Begin(j) ==
    /\ pc[j] = "queued"
    /\ \/ run' = [run EXCEPT ![j].status = "running"] /\ Goto(j, "discover")
       \/ run' = run /\ Goto(j, "raised")
    /\ UNCHANGED <<job, item, document, accepted, release, locals, crashes>>

\* refreshes.finish
CloseRun(j, status, n) ==
    /\ run' = [run EXCEPT ![j] = [status |-> status, counts |-> n]]
    /\ Goto(j, "returned")

\* collector.discover raises, or finds documents and perhaps one failure.
Discover(j) ==
    /\ pc[j] = "discover"
    /\ \/ \E l \in Listings, failures \in 0 .. 1 :
             /\ listing' = [listing EXCEPT ![j] = l]
             /\ counts' = [counts EXCEPT ![j].failed = failures]
             /\ Goto(j, "next")
             /\ run' = run
       \/ /\ counts' = [counts EXCEPT ![j].failed = 1]
          /\ CloseRun(j, "failed", counts'[j])
          /\ listing' = listing
    /\ UNCHANGED <<job, item, document, accepted, release, force, index, content, base,
                   seen, crashes>>

\* The loop is over: progress(1.0)
LeaveLoop(j) ==
    /\ pc[j] = "next"
    /\ index[j] > Len(listing[j])
    /\ job' = [job EXCEPT ![j] = WithProgress(@, Whole)]
    /\ Goto(j, "finish")
    /\ UNCHANGED <<run, item, document, accepted, release, locals, crashes>>

\* The last look at the items and finish
Finish(j) ==
    /\ pc[j] = "finish"
    /\ CloseRun(j, RunVerdict(counts[j]), counts[j])
    /\ UNCHANGED <<job, item, document, accepted, release, locals, crashes>>

\* cancelled() between two documents
StopCancelled(j) ==
    /\ pc[j] = "next"
    /\ index[j] <= Len(listing[j])
    /\ job[j].cancel
    /\ CloseRun(j, "cancelled", counts[j])
    /\ UNCHANGED <<job, item, document, accepted, release, locals, crashes>>

-----------------------------------------------------------------------------
\* The thread: one document

\* add_item and continue; documents_parsed counts extraction failures too.
EndDocument(j, status) ==
    /\ item' = [item EXCEPT ![j][Current(j)] = status]
    /\ counts' = [counts EXCEPT
          ![j].unchanged = @ + IF status = "unchanged" THEN 1 ELSE 0,
          ![j].parsed    = @ + IF status \in {"parsed", "extraction_failed"} THEN 1 ELSE 0,
          ![j].failed    = @ + IF status \in Failure THEN 1 ELSE 0]
    /\ index' = [index EXCEPT ![j] = @ + 1]
    /\ Goto(j, "next")
    /\ Forget({j})
    /\ UNCHANGED <<run, release, force, listing, crashes>>

\* Mutated form: cancellation is not looked at between two documents.
LookAnyway(j) ==
    /\ pc[j] = "next"
    /\ index[j] <= Len(listing[j])
    /\ Goto(j, "download")
    /\ UNCHANGED <<rows, document, accepted, release, locals, crashes>>

\* progress(index / total), latest_document and get_content
Look(j) ==
    /\ pc[j] = "next"
    /\ index[j] <= Len(listing[j])
    /\ ~job[j].cancel
    /\ job' = [job EXCEPT ![j] =
                  WithProgress(@, Share(index[j] - 1, Len(listing[j])))]
    /\ UNCHANGED <<document, accepted>>
    /\ LET d == Current(j)
       IN  \/ \E c \in Latest(d) : FreshUnchanged(j, d, c) /\ EndDocument(j, "unchanged")
           \/ /\ Stored(d) = {} \/ \E c \in Latest(d) : ~FreshUnchanged(j, d, c)
              /\ Goto(j, "download")
              /\ UNCHANGED <<run, item, release, locals, crashes>>

\* collector.download
Download(j) ==
    /\ pc[j] = "download"
    /\ \/ /\ \E c \in Contents : content' = [content EXCEPT ![j] = c]
          /\ Goto(j, "find")
          /\ UNCHANGED <<run, item, release, force, listing, index, base, seen, counts,
                         crashes>>
       \/ \E status \in {"provider_failed", "parse_failed"} : EndDocument(j, status)
    /\ UNCHANGED <<job, document, accepted>>

\* save_document reads: the row of this content, or the latest version
FindDocument(j) ==
    /\ pc[j] = "find"
    /\ IF Row(j).version > 0
       THEN /\ seen' = [seen EXCEPT ![j] = Row(j).status]
            /\ base' = base
            /\ Goto(j, "content")
       ELSE /\ base' = [base EXCEPT ![j] = HighestVersion(Current(j))]
            /\ seen' = seen
            /\ Goto(j, "insert")
    /\ UNCHANGED <<rows, document, accepted, release, force, listing, index, content,
                   counts, crashes>>

\* save_document inserts: a row of the same content another thread has
\* inserted since makes it raise, before document is assigned.
InsertDocument(j) ==
    /\ pc[j] = "insert"
    /\ \/ /\ Row(j).version = 0
          /\ document' = [document EXCEPT ![Current(j)][content[j]] =
                             [NoDocument EXCEPT !.version = base[j] + 1]]
          /\ seen' = [seen EXCEPT ![j] = "pending"]
          /\ Goto(j, "content")
          /\ UNCHANGED <<run, item, release, force, listing, index, content, base, counts,
                         crashes>>
       \/ /\ Row(j).version > 0
          /\ document' = document
          /\ EndDocument(j, "parse_failed")
    /\ UNCHANGED <<job, accepted>>

\* save_content notes the parser version before anything is parsed.
SaveContent(j) ==
    /\ pc[j] = "content"
    /\ document' = [document EXCEPT ![Current(j)][content[j]].parser = release]
    /\ Goto(j, IF seen[j] = "failed" THEN "retry" ELSE "parse")
    /\ UNCHANGED <<rows, accepted, release, locals, crashes>>

\* retry_parse: the spans are counted, then the status is reset.
RetryParse(j) ==
    /\ pc[j] = "retry"
    /\ Goto(j, IF Row(j).spans THEN "unreadable" ELSE "reset")
    /\ UNCHANGED <<rows, document, accepted, release, locals, crashes>>

ResetStatus(j) ==
    /\ pc[j] = "reset"
    /\ document' = [document EXCEPT ![Current(j)][content[j]].status = "pending"]
    /\ Goto(j, "parse")
    /\ UNCHANGED <<rows, accepted, release, locals, crashes>>

Parse(j) ==
    /\ pc[j] = "parse"
    /\ Goto(j, IF Outcome[content[j]][release] \in {"broken", "unsupported"}
               THEN "unreadable" ELSE "extract")
    /\ UNCHANGED <<rows, document, accepted, release, locals, crashes>>

\* Any other exception of the first try block; before save_document returns
\* there is no document to mark.
ReadRaises(j) ==
    /\ Fragile
    /\ \/ /\ pc[j] \in {"content", "retry", "reset", "parse"}
          /\ Goto(j, "unreadable")
          /\ UNCHANGED <<run, item, release, locals, crashes>>
       \/ pc[j] \in {"find", "insert"} /\ EndDocument(j, "parse_failed")
    /\ UNCHANGED <<job, document, accepted>>

\* An exception outside the try blocks leaves refresh.
RefreshRaises(j) ==
    /\ Fragile
    /\ pc[j] \in {"next", "unreadable", "count", "failed", "unextracted", "finish"}
    /\ Goto(j, "raised")
    /\ UNCHANGED <<rows, document, accepted, release, locals, crashes>>

\* The item of a document that could not be read
UnreadableItem(j) ==
    \E status \in {"parse_failed", "unsupported_format"} : EndDocument(j, status)

\* The handlers: only a document without spans is marked as failed.
Unreadable(j) ==
    /\ pc[j] = "unreadable"
    /\ \/ /\ ~Row(j).spans
          /\ Goto(j, "count")
          /\ UNCHANGED <<run, item, release, locals, crashes>>
       \/ Row(j).spans /\ UnreadableItem(j)
    /\ UNCHANGED <<job, document, accepted>>

\* mark_parse_failed counts the spans again and raises in the handler ...
CountSpans(j) ==
    /\ pc[j] = "count"
    /\ Goto(j, IF Row(j).spans THEN "raised" ELSE "failed")
    /\ UNCHANGED <<rows, document, accepted, release, locals, crashes>>

\* ... or updates the status.
MarkFailed(j) ==
    /\ pc[j] = "failed"
    /\ document' = [document EXCEPT ![Current(j)][content[j]].status = "failed"]
    /\ UnreadableItem(j)
    /\ UNCHANGED <<job, accepted>>

-----------------------------------------------------------------------------
\* The thread: extraction

\* save_span reads the status; a document without evidence has no span to save.
Extract(j) ==
    /\ pc[j] = "extract"
    /\ Goto(j, IF Outcome[content[j]][release] = "bare" THEN "claims"
               ELSE IF Row(j).status = "failed" THEN "unextracted" ELSE "span")
    /\ UNCHANGED <<rows, document, accepted, release, locals, crashes>>

\* Mutated form: a span moves its document back to pending.
SaveSpanReset(j) ==
    /\ pc[j] = "span"
    /\ document' = [document EXCEPT ![Current(j)][content[j]] =
                       [@ EXCEPT !.spans = TRUE, !.status = "pending"]]
    /\ Goto(j, "claims")
    /\ UNCHANGED <<rows, accepted, release, locals, crashes>>

\* save_span inserts ...
SaveSpan(j) ==
    /\ pc[j] = "span"
    /\ document' = [document EXCEPT ![Current(j)][content[j]].spans = TRUE]
    /\ Goto(j, "update")
    /\ UNCHANGED <<rows, accepted, release, locals, crashes>>

\* ... and moves a pending document to parsed.
SpanParsed(j) ==
    /\ pc[j] = "update"
    /\ document' = [document EXCEPT ![Current(j)][content[j]].status =
                       IF @ = "pending" THEN "parsed" ELSE @]
    /\ Goto(j, "claims")
    /\ UNCHANGED <<rows, accepted, release, locals, crashes>>

\* More spans, then relationships, observations and guidance statements
Claims(j) ==
    /\ pc[j] = "claims"
    /\ \/ Goto(j, "mark")
       \/ Fragile /\ Goto(j, "unextracted")
       \/ /\ Outcome[content[j]][release] = "evidence" /\ Row(j).status = "failed"
          /\ Goto(j, "unextracted")
    /\ UNCHANGED <<rows, document, accepted, release, locals, crashes>>

\* mark_parsed, which refuses a failed document
MarkParsed(j) ==
    document' = [document EXCEPT ![Current(j)][content[j]] =
                    [@ EXCEPT !.status = "parsed", !.parser = release]]

Mark(j) ==
    /\ pc[j] = "mark"
    /\ \/ /\ Row(j).status # "failed"
          /\ MarkParsed(j) /\ EndDocument(j, "parsed")
          /\ accepted' = accepted
       \/ /\ Row(j).status = "failed"
          /\ Goto(j, "unextracted")
          /\ UNCHANGED <<run, item, document, accepted, release, locals, crashes>>
    /\ UNCHANGED job

\* add_item raises after mark_parsed: documents_parsed is counted already.
ItemRaises(j) ==
    /\ Fragile
    /\ pc[j] = "mark"
    /\ Row(j).status # "failed"
    /\ MarkParsed(j)
    /\ counts' = [counts EXCEPT ![j].parsed = @ + 1]
    /\ Goto(j, "unextracted")
    /\ UNCHANGED <<rows, accepted, release, force, listing, index, content, base, seen, crashes>>

\* The handler of the second try block marks the document as parsed as well;
\* a failed document makes it raise, out of refresh.
Unextracted(j) ==
    /\ pc[j] = "unextracted"
    /\ \/ /\ Row(j).status # "failed"
          /\ MarkParsed(j) /\ EndDocument(j, "extraction_failed")
       \/ /\ Row(j).status = "failed"
          /\ Goto(j, "raised")
          /\ UNCHANGED <<run, item, document, release, locals, crashes>>
    /\ UNCHANGED <<job, accepted>>

-----------------------------------------------------------------------------
\* The process dies; it is started again, perhaps as a new release.
Crash ==
    /\ crashes < MaxCrashes
    /\ crashes' = crashes + 1
    /\ release' \in {release, release + 1}
    /\ pc' = [j \in Jobs |-> IF pc[j] \in Working THEN "lost" ELSE pc[j]]
    /\ Forget({j \in Jobs : pc[j] \in Working})
    /\ UNCHANGED <<rows, document, accepted, force, listing, index, counts>>

Init ==
    /\ job = [j \in Jobs |-> AbsentRow]
    /\ run = [j \in Jobs |-> NoRun]
    /\ item = [j \in Jobs |-> [d \in Documents |-> "absent"]]
    /\ document = [d \in Documents |-> [c \in Contents |-> NoDocument]]
    /\ accepted = [j \in Jobs |-> 0]
    /\ release = 1
    /\ pc = [j \in Jobs |-> "none"]
    /\ force = [j \in Jobs |-> FALSE]
    /\ listing = [j \in Jobs |-> <<>>]
    /\ index = [j \in Jobs |-> 1]
    /\ content = [j \in Jobs |-> None]
    /\ base = [j \in Jobs |-> 0]
    /\ seen = [j \in Jobs |-> "pending"]
    /\ counts = [j \in Jobs |-> NoCounts]
    /\ crashes = 0

\* One step of the thread of a job, or of the loop when the thread has ended
Step(j) ==
    \/ Begin(j) \/ Discover(j) \/ LeaveLoop(j) \/ Finish(j) \/ StopCancelled(j)
    \/ Look(j) \/ Download(j) \/ FindDocument(j) \/ InsertDocument(j) \/ SaveContent(j)
    \/ RetryParse(j) \/ ResetStatus(j) \/ Parse(j) \/ ReadRaises(j) \/ RefreshRaises(j)
    \/ Unreadable(j) \/ CountSpans(j) \/ MarkFailed(j)
    \/ Extract(j) \/ SaveSpan(j) \/ SpanParsed(j) \/ Claims(j) \/ Mark(j) \/ ItemRaises(j)
    \/ Unextracted(j) \/ Complete(j) \/ Fail(j)

Next ==
    \/ \E j \in Jobs : Post(j) \/ Cancel(j) \/ Step(j)
    \/ Crash

Spec == Init /\ [][Next]_vars

-----------------------------------------------------------------------------
\* Safety

\* "stores every source-level outcome": a refresh that was not cancelled has an
\* item for every document it discovered, and its status follows from them: it
\* is completed only when each was read and extracted or already was, failed
\* only when none could be read (the branches of the loop and RunVerdict).
RunAccountsForDocuments ==
    \A j \in Jobs : run[j].status \in {"completed", "partial", "failed"} =>
        LET outcomes == {item[j][d] : d \in {listing[j][i] : i \in 1 .. Len(listing[j])}}
        IN  /\ "absent" \notin outcomes
            /\ run[j].status = "completed" => outcomes \subseteq Success
            /\ run[j].status = "failed" => outcomes \cap {"parsed", "unchanged", "extraction_failed"} = {}
            /\ run[j].status = "partial" =>
                  outcomes \cap {"parsed", "unchanged", "extraction_failed"} # {}

\* "Request cooperative cancellation after the current document": a job whose
\* cancellation was accepted finishes at most the document it was working on,
\* whatever its thread had read before.
CancelEndsLoop ==
    \A j \in Jobs : accepted[j] > 0 => index[j] <= accepted[j] + 1

-----------------------------------------------------------------------------
\* Steps

\* A document whose spans are parsed evidence keeps them and its status, through
\* failures, new releases, retries and crashes: "Documents completed before
\* cancellation remain available".
ParsedEvidenceStays ==
    [][\A d \in Documents, c \in Contents :
          document[d][c].spans /\ document[d][c].status = "parsed" =>
              document'[d][c].spans /\ document'[d][c].status = "parsed"]_vars

\* A refresh job keeps the contract of local jobs, although its rows are written
\* by its thread and by the event loop in turn.
Contract == INSTANCE LocalJob WITH Whole <- Whole, Jobs <- Jobs, job <- job
JobContract == Contract!Spec

=============================================================================

--------------------------- MODULE DocumentClaims ---------------------------
(***************************************************************************)
(* How the three histories of a company are written: refreshes, one after  *)
(* the other, extract the claims of the documents they select, newest      *)
(* document first, while the routes of the event loop correct              *)
(* relationships between two claims.  Every save is a transaction, the     *)
(* extraction of a document is not.                                        *)
(***************************************************************************)
EXTENDS RelationshipHistory, GuidanceHistory, OperatingHistory, FiniteSets

CONSTANTS
    Claims,        \* [Documents -> Seq(Claim)]: in the order of extraction
    Relevant,      \* current reports with earnings-relevant items
    MaxRefreshes,  \* bound on refreshes
    MaxFailures,   \* bound on extractions that raise, and process deaths
    MaxRequests    \* bound on what the rest of the program writes meanwhile

Claim ==
    [kind : {"relationship"}, edge : Edges, exposure : Exposures]
        \cup [kind : {"fact"}, key : Keys, basis : Bases, period : Periods, value : Amounts]
        \cup [kind : {"sentence"}, thread : Threads, text : Texts]

ASSUME ClaimsAssumption ==
    /\ IsFiniteSet(Documents)
    /\ Claims \in [Documents -> Seq(Claim)]
    /\ Relevant \subseteq Documents
    /\ {MaxRefreshes, MaxFailures, MaxRequests} \subseteq Nat

VARIABLES
    registered,    \* edges whose counterparty resolves to one company
    listing,       \* discovery.documents the refresh has not come to yet
    force,         \* request.force
    document,      \* the document under extraction, or None
    next,          \* position of the next claim in Claims[document]
    definition,    \* what save_definition returned for that fact, 0 before
    parsed,        \* documents marked parsed with this parser version
    dated,         \* history: known_at of the command of the last step
    refreshes, failures, requests

histories == <<relationshipVars, guidanceVars, operatingVars>>
refresh   == <<listing, force, document, next, definition>>
bounds    == <<refreshes, failures, requests>>
vars      == <<histories, registered, refresh, parsed, dated, bounds>>

None == "none"
Undated == 0        \* the step saves nothing

TypeOK ==
    /\ RelationshipsTypeOK
    /\ GuidanceTypeOK
    /\ OperatingTypeOK
    /\ registered \subseteq Edges
    /\ listing \in Seq(Documents)
    /\ force \in BOOLEAN
    /\ document \in Documents \cup {None}
    /\ next \in Nat
    /\ definition \in Nat
    /\ parsed \subseteq Documents
    /\ dated \in Times \cup {Undated}
    /\ refreshes \in 0 .. MaxRefreshes
    /\ failures \in 0 .. MaxFailures
    /\ requests \in 0 .. MaxRequests

-----------------------------------------------------------------------------
\* The refresh

Orders(S) ==
    {s \in [1 .. Cardinality(S) -> S] : \A i, j \in DOMAIN s : i # j => s[i] # s[j]}

\* _submission_rows: newest first, and for a request for current reports only
\* the relevant ones before the others
NewestFirst(S, favoured) ==
    {s \in Orders(S) : \A i, j \in DOMAIN s : i < j =>
        \/ s[i] \in favoured /\ s[j] \notin favoured
        \/ (s[i] \in favoured <=> s[j] \in favoured) /\ KnownAt[s[j]] <= KnownAt[s[i]]}

\* The forms and the number of filings of the request select documents; a
\* cancellation, which is read between documents, selects fewer.
Refresh(S) ==
    /\ document = None /\ listing = <<>> /\ refreshes < MaxRefreshes
    /\ \E favoured \in {{}, Relevant} : listing' \in NewestFirst(S, favoured)
    /\ force' \in BOOLEAN
    /\ refreshes' = refreshes + 1
    /\ dated' = Undated
    /\ UNCHANGED <<histories, registered, document, next, definition, parsed, failures,
                   requests>>

NextDocument ==
    /\ document = None /\ listing # <<>>
    /\ listing' = Tail(listing)
    /\ dated' = Undated

\* _fresh_unchanged
Skip ==
    /\ NextDocument
    /\ Head(listing) \in parsed /\ ~force
    /\ UNCHANGED <<histories, registered, force, document, next, definition, parsed,
                   bounds>>

Open ==
    /\ NextDocument
    /\ Head(listing) \notin parsed \/ force
    /\ document' = Head(listing)
    /\ UNCHANGED <<histories, registered, force, next, definition, parsed, bounds>>

\* The next claim of the document
Pending(kind) ==
    /\ document # None
    /\ next <= Len(Claims[document])
    /\ Claims[document][next].kind = kind

Claimed == Claims[document][next]

Advance == next' = next + 1 /\ definition' = 0

\* A claim is saved with the document's known_at.
Extracting ==
    /\ dated' = KnownAt[document]
    /\ UNCHANGED <<registered, listing, force, document, parsed, bounds>>

ExtractRelationship ==
    /\ Pending("relationship")
    /\ Disclose(document, Claimed.edge, Claimed.exposure, Claimed.edge \in registered)
    /\ Advance
    /\ Extracting
    /\ UNCHANGED <<guidanceVars, operatingVars>>

\* The first of the two saves of a fact; the error is one warning, and the
\* fact is left out.
ExtractDefinition ==
    /\ Pending("fact") /\ definition = 0
    /\ IF TooEarly(document, Claimed.key, Claimed.basis)
       THEN Advance /\ UNCHANGED operatingVars
       ELSE /\ SaveDefinition(document, Claimed.key, Claimed.basis)
            /\ definition' = Returned(Claimed.key, Claimed.basis)
            /\ UNCHANGED <<next, figures, reported>>
    /\ Extracting
    /\ UNCHANGED <<relationshipVars, guidanceVars>>

ExtractFigure ==
    /\ Pending("fact") /\ definition # 0
    /\ SaveFigure(document, definition, Claimed.period, Claimed.value)
    /\ Advance
    /\ Extracting
    /\ UNCHANGED <<relationshipVars, guidanceVars, definitions, defined>>

ExtractSentence ==
    /\ Pending("sentence") /\ Bounds[Claimed.text].kind # "unscaled"
    /\ Guide(document, Claimed.thread, Claimed.text)
    /\ Advance
    /\ Extracting
    /\ UNCHANGED <<relationshipVars, operatingVars>>

\* mark_parsed; the request is not read again after the last document.
Leave ==
    /\ parsed' = parsed \cup {document}
    /\ document' = None
    /\ next' = 1
    /\ definition' = 0
    /\ force' = (force /\ listing' # <<>>)
    /\ dated' = Undated
    /\ UNCHANGED <<histories, registered, refreshes, requests>>

\* Item PARSED
Finish ==
    /\ document # None /\ next = Len(Claims[document]) + 1
    /\ UNCHANGED <<listing, failures>>
    /\ Leave

\* A number without a scale raises outside the try of its sentence.
SentenceRaises ==
    /\ Pending("sentence") /\ Bounds[Claimed.text].kind = "unscaled"
    /\ UNCHANGED <<listing, failures>>
    /\ Leave

\* An error that is neither ValueError nor LookupError ends the extraction ...
ExtractionFails ==
    /\ document # None /\ failures < MaxFailures
    /\ failures' = failures + 1
    /\ UNCHANGED <<listing>>
    /\ Leave

\* ... and a process death the refresh; save_span and save_content have made
\* the document a parsed one before its first claim.
Die ==
    /\ document # None /\ failures < MaxFailures
    /\ failures' = failures + 1
    /\ listing' = <<>>
    /\ Leave

-----------------------------------------------------------------------------
\* The rest of the program, which cites documents that have spans

Requesting(t) ==
    /\ requests < MaxRequests
    /\ requests' = requests + 1
    /\ dated' = t
    /\ UNCHANGED <<refresh, parsed, refreshes, failures>>

\* POST /companies/{ticker}/relationships/{relationship_id}/overrides
Override(e, x, resolved, valid, t, d) ==
    /\ Requesting(t)
    /\ d \in parsed \cup {document}
    /\ OverrideRelationship(e, x, resolved, valid, t, {d})
    /\ UNCHANGED <<guidanceVars, operatingVars, registered>>

\* GuidanceService.withdraw and evaluate_numeric, which no route calls
Assess(s, actual, t, d) ==
    /\ Requesting(t)
    /\ d \in parsed \cup {document}
    /\ Withdraw(s, d, t) \/ EvaluateNumeric(s, actual, t)
    /\ UNCHANGED <<relationshipVars, operatingVars, registered>>

\* Another company with the name of the counterparty is registered, the first
\* one (it resolves now) or one more (it does not any longer).
Register(e) ==
    /\ Requesting(Undated)
    /\ registered' = IF e \in registered THEN registered \ {e} ELSE registered \cup {e}
    /\ UNCHANGED histories

-----------------------------------------------------------------------------
Init ==
    /\ InitRelationships
    /\ InitGuidance
    /\ InitOperating
    /\ registered = {}
    /\ listing = <<>> /\ force = FALSE
    /\ document = None /\ next = 1 /\ definition = 0
    /\ parsed = {}
    /\ dated = Undated
    /\ refreshes = 0 /\ failures = 0 /\ requests = 0

Next ==
    \/ \E S \in SUBSET Documents \ {{}} : Refresh(S)
    \/ Skip
    \/ Open
    \/ ExtractRelationship
    \/ ExtractDefinition
    \/ ExtractFigure
    \/ ExtractSentence
    \/ SentenceRaises
    \/ Finish
    \/ ExtractionFails
    \/ Die
    \/ \E e \in Edges, x \in Exposures, resolved \in BOOLEAN, valid \in Validities,
          t \in Times, d \in Documents : Override(e, x, resolved, valid, t, d)
    \/ \E s \in DOMAIN statements, actual \in Actuals, t \in Times, d \in Documents :
          Assess(s, actual, t, d)
    \/ \E e \in Edges : Register(e)

Spec == Init /\ [][Next]_vars

-----------------------------------------------------------------------------
(***************************************************************************)
(* What a reader sees as of a time stays as it was when something is       *)
(* written that became known later (known_at filters of list_current,      *)
(* list_statements, list_evaluations, list_definitions, list_observations  *)
(* and list_claim_spans), also when it is not written in the order it      *)
(* became known.                                                           *)
(***************************************************************************)
SeenAsOf(t) == <<Network(t), RelationshipRecords(t), GuidanceRecords(t), OperatingSeries(t)>>

PastIsSettled == [][\A t \in Times : t < dated' => SeenAsOf(t)' = SeenAsOf(t)]_vars

(***************************************************************************)
(* The observation an as-of reader takes for current (list_current) is not *)
(* one that another observation he can see claims to supersede             *)
(* (supersedes_observation_id), although documents are extracted newest    *)
(* first and corrections are dated freely.                                 *)
(***************************************************************************)
CurrentIsNotSuperseded ==
    \A t \in Times, e \in Edges : \A i \in KnownRows(observations, t) :
        LatestObservation(e, t) # 0 => observations[i].supersedes # LatestObservation(e, t)

(***************************************************************************)
(* Statements of a thread form one chain of revisions: no two revise the   *)
(* same statement and no two are the same revision but the first           *)
(* (latest_comparable_statement, supersedes_statement_id).                 *)
(***************************************************************************)
RevisionsAreLinear ==
    \A i, j \in DOMAIN statements :
        (i # j /\ statements[i].supersedes # 0) =>
            /\ statements[i].supersedes # statements[j].supersedes
            /\ statements[i].thread = statements[j].thread =>
                  statements[i].revision # statements[j].revision

(***************************************************************************)
(* The definitions of a key are versions 1, 2, ... of one chain, although  *)
(* documents come in any order and may return to an earlier basis          *)
(* (latest_definition, supersedes_definition_id).                          *)
(***************************************************************************)
VersionsAreLinear ==
    \A k \in Keys :
        /\ {definitions[i].version : i \in OfKey(k)} = 1 .. Cardinality(OfKey(k))
        /\ \A i \in OfKey(k) :
              \/ definitions[i].version = 1 /\ definitions[i].supersedes = 0
              \/ /\ definitions[i].supersedes \in OfKey(k)
                 /\ definitions[i].version = definitions[definitions[i].supersedes].version + 1

(***************************************************************************)
(* Whatever is extracted, extracted again and corrected, in any order, the *)
(* guidance and the definitions stay chains without forks.                 *)
(***************************************************************************)
HistoriesAreLinear == RevisionsAreLinear /\ VersionsAreLinear

(***************************************************************************)
(* No claim a reader may see lacks evidence he may see, so that nothing is *)
(* ever withheld: _require_evidence compares the source with known_at, and *)
(* the links are made in the transaction of the claim.                     *)
(***************************************************************************)
EveryClaimHasEvidence ==
    \A t \in Times :
        /\ \A i \in KnownRows(observations, t) : Cited(i, t) # {}
        /\ \A i \in KnownRows(statements, t) : Quoted(i, t) # {}
        /\ \A i \in KnownRows(definitions, t) : Defined(i, t) # {}
        /\ \A i \in KnownRows(figures, t) : Reported(i, t) # {}

=============================================================================

------------------------- MODULE RelationshipHistory -------------------------
(***************************************************************************)
(* The business relationships of one company: RelationshipRepository and   *)
(* the reads and the correction of RelationshipService.  An edge is a      *)
(* counterparty with a type and a direction; what documents and people say *)
(* of it are observations, which are only ever appended.                   *)
(***************************************************************************)
EXTENDS AsOfRows

CONSTANTS
    Edges,         \* relationship_id's
    Exposures,     \* what is said of an edge: exposure and confidence
    Validities     \* the days valid_from .. valid_to an override may give

ASSUME ValidityAssumption == Validities \subseteq SUBSET Times

VARIABLES
    observations,  \* relationship_observations
    cited          \* evidence_claim_links: <<observation, document of the span>>

relationshipVars == <<observations, cited>>

Kinds == {"extracted", "human_override"}

RelationshipsTypeOK ==
    /\ observations \in Seq([edge : Edges, exposure : Exposures, resolved : BOOLEAN,
                             valid : SUBSET Times, known : Times, kind : Kinds,
                             supersedes : Nat])
    /\ cited \subseteq (DOMAIN observations) \X Documents

-----------------------------------------------------------------------------
\* _observation_id: everything but the chain and the time of writing
SaysTheSame(c) ==
    {i \in DOMAIN observations :
        \A f \in DOMAIN c : observations[i][f] = c[f]}

ObservationsOf(e) == {i \in DOMAIN observations : observations[i].edge = e}

\* Mutated form: the as_of boundary is forgotten.
LatestOfAll(e, t) == LastOf(observations, ObservationsOf(e))

\* latest_observation
LatestObservation(e, t) ==
    LastOf(observations, ObservationsOf(e) \cap KnownRows(observations, t))

\* Mutated form: sources are not compared with known_at.
EvidenceUnchecked(docs, t) == docs # {}

\* _require_source_evidence
EvidenceKnown(docs, t) == docs # {} /\ \A d \in docs : KnownAt[d] <= t

\* save_candidate: one transaction
SaveCandidate(c, docs) ==
    IF ~EvidenceKnown(docs, c.known) THEN UNCHANGED relationshipVars     \* ValueError
    ELSE IF SaysTheSame(c) # {}
    THEN /\ cited' = cited \cup (SaysTheSame(c) \X docs)
         /\ UNCHANGED observations
    ELSE /\ observations' = Append(observations,
               [edge |-> c.edge, exposure |-> c.exposure, resolved |-> c.resolved,
                valid |-> c.valid, known |-> c.known, kind |-> c.kind,
                supersedes |-> LatestObservation(c.edge, c.known)])
         /\ cited' = cited \cup ({Len(observations) + 1} \X docs)

\* RelationshipExtractor.candidates: an explicit statement of a document, and
\* whether the companies table resolves the counterparty at this moment
Disclose(d, e, x, resolved) ==
    SaveCandidate([edge |-> e, exposure |-> x, resolved |-> resolved, valid |-> Times,
                   known |-> KnownAt[d], kind |-> "extracted"], {d})

\* override: refused (LookupError) when nothing was known of the edge by then
OverrideRelationship(e, x, resolved, valid, t, docs) ==
    /\ LatestObservation(e, t) # 0
    /\ SaveCandidate([edge |-> e, exposure |-> x, resolved |-> resolved, valid |-> valid,
                      known |-> t, kind |-> "human_override"], docs)

-----------------------------------------------------------------------------
\* Reads

\* list_claim_spans, with the boundary on the document's known_at
Cited(i, t) == {d \in Documents : <<i, d>> \in cited /\ KnownAt[d] <= t}

\* list_current: the latest known observation of an edge, if it is valid then
CurrentObservations(t) ==
    {i \in DOMAIN observations :
        /\ i = LatestObservation(observations[i].edge, t)
        /\ t \in observations[i].valid}

\* network: what has no evidence is withheld
Network(t) ==
    {<<i, observations[i], Cited(i, t)>> :
        i \in {j \in CurrentObservations(t) : Cited(j, t) # {}}}

\* history
RelationshipRecords(t) ==
    {<<i, observations[i], Cited(i, t)>> : i \in KnownRows(observations, t)}

-----------------------------------------------------------------------------
InitRelationships ==
    /\ observations = <<>>
    /\ cited = {}

=============================================================================

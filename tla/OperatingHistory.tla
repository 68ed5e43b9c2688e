-------------------------- MODULE OperatingHistory --------------------------
(***************************************************************************)
(* Segments, geographies and KPIs of one company: OperationsRepository, the *)
(* reads of OperationsIntelligenceService and the choice of a predecessor   *)
(* in OperationsDocumentExtractor.  A key is category, member and measure;  *)
(* a basis is what the extractor compares of a definition: reporting basis, *)
(* unit, measure and value type.                                            *)
(***************************************************************************)
EXTENDS AsOfRows

CONSTANTS
    Keys,          \* category and definition_key
    Bases,
    Periods,       \* period_end, as numbers
    Amounts        \* reported values

ASSUME OperatingAssumption ==
    /\ Periods \subseteq Nat
    /\ Amounts \subseteq Nat

VARIABLES
    definitions,   \* operating_metric_definitions
    figures,       \* operating_metric_observations
    defined,       \* evidence_claim_links: <<definition, document of the span>>
    reported       \* evidence_claim_links: <<figure, document of the span>>

operatingVars == <<definitions, figures, defined, reported>>

OperatingTypeOK ==
    /\ definitions \in Seq([key : Keys, basis : Bases, version : Nat, known : Times,
                            supersedes : Nat])
    /\ figures \in Seq([definition : DOMAIN definitions, period : Periods, value : Amounts,
                        known : Times])
    /\ defined \subseteq (DOMAIN definitions) \X Documents
    /\ reported \subseteq (DOMAIN figures) \X Documents

-----------------------------------------------------------------------------
OfKey(k) == {i \in DOMAIN definitions : definitions[i].key = k}

\* latest_definition: ORDER BY version DESC, known_at DESC
LatestDefinition(k) ==
    IF OfKey(k) = {} THEN 0
    ELSE CHOOSE i \in OfKey(k) : \A j \in OfKey(k) \ {i} :
            \/ definitions[j].version < definitions[i].version
            \/ /\ definitions[j].version = definitions[i].version
               /\ definitions[j].known <= definitions[i].known

\* The definition of an earlier document that fits, 0 if there is none: the
\* extractor supersedes the latest one unless that fits.
Reused(k, basis) ==
    LET latest == LatestDefinition(k)
    IN  IF latest # 0 /\ definitions[latest].basis = basis THEN latest ELSE 0

\* A document older than the definition it repeats is refused (ValueError)
TooEarly(d, k, basis) ==
    /\ Reused(k, basis) # 0
    /\ KnownAt[d] < definitions[Reused(k, basis)].known

\* What save_definition returns: a new version is a new row.
Returned(k, basis) ==
    IF Reused(k, basis) # 0 THEN Reused(k, basis) ELSE Len(definitions) + 1

\* save_definition, for a fact of document d: one transaction
SaveDefinition(d, k, basis) ==
    LET latest == LatestDefinition(k)
        row    == [key |-> k, basis |-> basis, known |-> KnownAt[d], supersedes |-> latest,
                   version |-> IF latest = 0 THEN 1 ELSE definitions[latest].version + 1]
    IN  IF Reused(k, basis) # 0
        THEN /\ defined' = defined \cup {<<Reused(k, basis), d>>}
             /\ UNCHANGED definitions
        ELSE /\ definitions' = Append(definitions, row)
             /\ defined' = defined \cup {<<Len(definitions) + 1, d>>}

\* save_observation, for the definition save_definition returned: another one
SaveFigure(d, def, period, value) ==
    LET row == [definition |-> def, period |-> period, value |-> value, known |-> KnownAt[d]]
    IN  IF Same(figures, row) # {}
        THEN /\ reported' = reported \cup (Same(figures, row) \X {d})
             /\ UNCHANGED figures
        ELSE /\ figures' = Append(figures, row)
             /\ reported' = reported \cup {<<Len(figures) + 1, d>>}

-----------------------------------------------------------------------------
\* Reads

\* list_observations
FiguresBy(def, t) == {i \in KnownRows(figures, t) : figures[i].definition = def}

\* _latest_period_observations: the figure known last for each period
Points(def, t) ==
    {i \in FiguresBy(def, t) :
        i = LastOf(figures, {j \in FiguresBy(def, t) : figures[j].period = figures[i].period})}

\* growth is relative to the point before, in the same definition
GrowthBase(i, t) ==
    LET earlier == {j \in Points(figures[i].definition, t) : figures[j].period < figures[i].period}
    IN  {figures[j].value : j \in {k \in earlier : \A l \in earlier :
                                       figures[l].period <= figures[k].period}}

\* mix is relative to the points of one basis and period
MixBase(i, t) ==
    {<<j, figures[j].value>> : j \in
        {k \in UNION {Points(def, t) : def \in KnownRows(definitions, t)} :
            /\ figures[k].period = figures[i].period
            /\ definitions[figures[k].definition].basis
                  = definitions[figures[i].definition].basis}}

Defined(i, t)  == {d \in Documents : <<i, d>> \in defined /\ KnownAt[d] <= t}
Reported(i, t) == {d \in Documents : <<i, d>> \in reported /\ KnownAt[d] <= t}

\* history
OperatingSeries(t) ==
    {<<def, definitions[def], Defined(def, t),
       {<<i, figures[i], GrowthBase(i, t), MixBase(i, t), Reported(i, t)>> : i \in Points(def, t)}>> :
        def \in KnownRows(definitions, t)}

-----------------------------------------------------------------------------
InitOperating ==
    /\ definitions = <<>>
    /\ figures = <<>>
    /\ defined = {}
    /\ reported = {}

=============================================================================

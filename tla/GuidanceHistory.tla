--------------------------- MODULE GuidanceHistory ---------------------------
(***************************************************************************)
(* Management guidance of one company: GuidanceRepository, the reads and   *)
(* the evaluations of GuidanceService, and the choice of a predecessor in  *)
(* GuidanceDocumentExtractor.  A thread is a topic with a metric and a     *)
(* fiscal period: statements of a thread revise one another.               *)
(***************************************************************************)
EXTENDS AsOfRows

CONSTANTS
    Threads,
    Texts,         \* sentences, as _normalize_text makes them comparable
    Bounds,        \* [Texts -> [kind, low, high, value]], see TextKinds
    Actuals        \* reported values

\* "range": a range or a point with a direction, the actual values low .. high
\* deliver it; "approximate": a point without a tolerance; "unscaled": a range
\* of numbers without a unit, which the extractor cannot read.  "value" is the
\* point or the middle of the range.
TextKinds == {"range", "approximate", "qualitative", "unscaled"}

ASSUME GuidanceAssumption ==
    /\ Actuals \subseteq Int
    /\ Bounds \in [Texts -> [kind : TextKinds, low : Int, high : Int, value : Int]]

VARIABLES
    statements,    \* guidance_statements
    evaluations,   \* guidance_evaluations
    quoted         \* evidence_claim_links: <<statement, document of the span>>

guidanceVars == <<statements, evaluations, quoted>>

\* What rules and the system set; partial delivery is for people to say.
Statuses == {"open", "delivered", "missed", "withdrawn", "superseded"}

GuidanceTypeOK ==
    /\ statements \in Seq([thread : Threads, text : Texts, known : Times,
                           revision : Nat, supersedes : Nat])
    /\ evaluations \in Seq([statement : DOMAIN statements, status : Statuses, known : Times,
                            result : Nat])
    /\ quoted \subseteq (DOMAIN statements) \X Documents

-----------------------------------------------------------------------------
InThread(th) == {i \in DOMAIN statements : statements[i].thread = th}

\* max() keeps the first of the greatest, in the order of list_statements
Leads(i, j) ==
    \/ statements[j].revision < statements[i].revision
    \/ /\ statements[j].revision = statements[i].revision
       /\ \/ statements[j].known < statements[i].known
          \/ statements[j].known = statements[i].known /\ i < j

\* Mutated form: the statement known last, whatever its revision.
LatestKnownStatement(th) == LastOf(statements, InThread(th))

\* latest_comparable_statement: the greatest (revision, known_at), of all times
LatestComparable(th) ==
    IF InThread(th) = {} THEN 0
    ELSE CHOOSE i \in InThread(th) : \A j \in InThread(th) \ {i} : Leads(i, j)

\* The evaluation that save_statement appends for the predecessor
Superseded(prior, known) ==
    [statement |-> prior, status |-> "superseded", known |-> known,
     result |-> Len(statements) + 1]

\* save_statement: one transaction
SaveStatement(th, text, known, prior, docs) ==
    LET row == [thread |-> th, text |-> text, known |-> known, supersedes |-> prior,
                revision |-> IF prior = 0 THEN 1 ELSE statements[prior].revision + 1]
    IN  IF Same(statements, row) # {}
        THEN /\ quoted' = quoted \cup (Same(statements, row) \X docs)
             /\ UNCHANGED <<statements, evaluations>>
        ELSE /\ statements' = Append(statements, row)
             /\ quoted' = quoted \cup ({Len(statements) + 1} \X docs)
             /\ evaluations' = IF prior = 0 THEN evaluations
                               ELSE Append(evaluations, Superseded(prior, known))

\* _command and save_statement: the same wording revises nothing
Guide(d, th, text) ==
    LET latest == LatestComparable(th)
        prior  == IF latest # 0 /\ statements[latest].text # text THEN latest ELSE 0
    IN  SaveStatement(th, text, KnownAt[d], prior, {d})

\* save_evaluation: dated before its statement it is refused (ValueError)
SaveEvaluation(row) ==
    /\ row.known >= statements[row.statement].known
    /\ evaluations' = IF Same(evaluations, row) # {} THEN evaluations
                      ELSE Append(evaluations, row)
    /\ UNCHANGED <<statements, quoted>>

\* withdraw, on the evidence of a document known by then
Withdraw(s, d, t) ==
    /\ KnownAt[d] <= t
    /\ SaveEvaluation([statement |-> s, status |-> "withdrawn", known |-> t, result |-> 0])

\* evaluate_numeric
EvaluateNumeric(s, actual, t) ==
    LET bounds == Bounds[statements[s].text]
    IN  /\ bounds.kind = "range"
        /\ SaveEvaluation([statement |-> s, known |-> t, result |-> 0,
                           status |-> IF actual \in bounds.low .. bounds.high
                                      THEN "delivered" ELSE "missed"])

-----------------------------------------------------------------------------
\* Reads

\* Mutated form: all evaluations are listed.
EvaluationsOfAllTimes(s, t) == {e \in DOMAIN evaluations : evaluations[e].statement = s}

\* list_evaluations
EvaluationsBy(s, t) == {e \in KnownRows(evaluations, t) : evaluations[e].statement = s}

StatusAt(s, t) ==
    IF EvaluationsBy(s, t) = {} THEN "open"
    ELSE evaluations[LastOf(evaluations, EvaluationsBy(s, t))].status

Quoted(s, t) == {d \in Documents : <<s, d>> \in quoted /\ KnownAt[d] <= t}

\* _representative_value
Representative(s) == Bounds[statements[s].text].value

\* _revision_direction: a predecessor not known yet is no predecessor
DirectionAt(s, t) ==
    LET prior == statements[s].supersedes
        kinds == {Bounds[statements[i].text].kind : i \in {s, prior}}
    IN  IF prior \notin KnownRows(statements, t) THEN "initial"
        ELSE IF "qualitative" \in kinds THEN "changed"
        ELSE IF Representative(s) = Representative(prior) THEN "reaffirmed"
        ELSE IF Representative(s) > Representative(prior) THEN "raised" ELSE "cut"

\* history: what has no evidence is withheld
GuidanceRecords(t) ==
    {<<s, statements[s], DirectionAt(s, t), StatusAt(s, t), EvaluationsBy(s, t), Quoted(s, t)>> :
        s \in {i \in KnownRows(statements, t) : Quoted(i, t) # {}}}

-----------------------------------------------------------------------------
InitGuidance ==
    /\ statements = <<>>
    /\ evaluations = <<>>
    /\ quoted = {}

=============================================================================

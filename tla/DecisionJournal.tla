---------------------------- MODULE DecisionJournal ----------------------------
(***************************************************************************)
(* The decision journal on top of the plans it freezes: thesis cards, their *)
(* snapshots, decisions and the revisions of a decision.  A decision is    *)
(* written in two statements without a transaction, the current row first  *)
(* and then its revision; the process may stop, or the second statement    *)
(* fail, in between.  Until both are done nothing else runs on the loop.   *)
(*                                                                         *)
(* A thesis is a status and the evidence it cites; moat, risks, catalysts  *)
(* and rationale are left out, and of a review only its verdict on the     *)
(* process is kept.                                                        *)
(***************************************************************************)
EXTENDS PositionPlanning

CONSTANTS
    Spans,         \* evidence spans
    SpanOwner,     \* the company of the document a span belongs to
    ThesisInputs,  \* thesis cards a client enters
    Decisions,     \* 1 .. n: decision ids, in the order of creation
    States,        \* states of a decision
    Reviews        \* verdict on the process and later outcome a client enters

ThesisStatus == {"watch", "insufficient_evidence", "ready_for_position_planning", "invalidated"}
ThesisInput  == [status : ThesisStatus, criteria : BOOLEAN, spans : SUBSET Spans]
Verdict      == {"good", "poor", "mixed", "unreviewed"}
Outcome      == {"favorable", "unfavorable", "neutral", "unavailable", None}

ASSUME JournalAssumption ==
    /\ SpanOwner \in [Spans -> Companies]
    /\ ThesisInputs \subseteq ThesisInput
    /\ \A i \in ThesisInputs :
          i.status \in {"ready_for_position_planning", "invalidated"} => i.criteria
    /\ Decisions \subseteq Nat
    /\ Reviews \subseteq [quality : Verdict, outcome : Outcome]

VARIABLES
    theses,        \* decision_theses, one key per company
    snapshots,     \* decision_thesis_snapshots
    journal,       \* decision_journal: the current rows, one per decision
    revisions,     \* decision_journal_revisions
    saving         \* the row whose revision is still to be written, in a set

journalVars == <<theses, snapshots, journal, revisions, saving>>
vars == <<planningVars, journalVars>>

Books == <<owner, context, positions, policies, frozen, intents, plans>>

-----------------------------------------------------------------------------
\* Every cited span must belong to a document of the company.
SaveThesis(t, input) ==
    LET c   == owner[t]
        row == NextRow(c, CurrentVersion(theses, c),
                       [company |-> c, ticker |-> t, status |-> input.status,
                        spans |-> input.spans])
    IN  /\ Changed
        /\ c # NoCompany
        /\ \A span \in input.spans : SpanOwner[span] = c
        /\ Unused(theses, row)
        /\ theses' = Inserted(theses, row)
        /\ UNCHANGED <<Books, snapshots, journal, revisions, saving>>

SnapshotThesis(t) ==
    /\ Changed
    /\ Under(theses, owner[t]) # {}
    /\ snapshots' = snapshots \cup {Current(theses, owner[t])}
    /\ UNCHANGED <<Books, theses, journal, revisions, saving>>

-----------------------------------------------------------------------------
\* process_outcome_classification
Classification(quality, outcome) ==
    IF quality \in {"good", "poor"} /\ outcome \in {"favorable", "unfavorable"}
    THEN <<quality, outcome>> ELSE None

\* What a decision is about never changes ...
Parts(t, thesis, intent, plan, e) ==
    [company |-> owner[t], ticker |-> t, thesis |-> thesis, policy |-> CurrentPolicy,
     intent |-> intent, plan |-> plan,
     expression |-> IF e = None /\ plan # None THEN plan.content.expression ELSE e]

\* ... and what became of it does.
Entry(d, revision, parts, state, quality, outcome) ==
    [id |-> d, revision |-> revision, parts |-> parts, state |-> state,
     quality |-> quality, outcome |-> outcome,
     classification |-> Classification(quality, outcome)]

\* The current row; its revision is the next statement.
Write(row) ==
    /\ Changed
    /\ journal' = {r \in journal : r.id # row.id} \cup {row}
    /\ saving' = {row}
    /\ UNCHANGED <<Books, theses, snapshots, revisions>>

\* Mutated form: the thesis of another company is frozen with the decision.
BelongAny(c, parts) == TRUE

Belong(c, parts) == \A part \in parts \ {None} : part.content.company = c

\* create_decision.  A thesis or an intent named by its id may be an old
\* version; an id that is unknown freezes nothing, and so does a company
\* without one; an intent or a thesis that is not named is the current one.
CreateDecision(d, t, thesis, intent, plan, e, state) ==
    LET parts == Parts(t, thesis, intent, plan, e)
    IN  /\ owner[t] # NoCompany
        /\ Belong(owner[t], {thesis, intent, plan})
        /\ parts.expression # None => OnTicker(t, parts.expression)
        /\ Write(Entry(d, 1, parts, state, "unreviewed", None))

\* Mutated form: an update freezes the policy of the day again.
KeptRefreshed(parts) == [parts EXCEPT !.policy = CurrentPolicy]

\* model_copy keeps every field the update does not name.
Kept(parts) == parts

\* Mutated form: the revision keeps its number.
NextRevisionSame(row) == row.revision

NextRevision(row) == row.revision + 1

\* update_decision replaces state, review and outcome together, so an update
\* that leaves out a review takes it back.
UpdateDecision(row, state, review) ==
    Write(Entry(row.id, NextRevision(row), Kept(row.parts), state,
                review.quality, review.outcome))

\* UNIQUE (decision_id, revision)
NewRevision(row) == \A r \in revisions : r.id = row.id => r.revision # row.revision

\* _append_decision_revision
AppendRevision(row) ==
    /\ NewRevision(row)
    /\ revisions' = revisions \cup {row}
    /\ saving' = {}
    /\ UNCHANGED <<Books, changes, theses, snapshots, journal>>

\* The process stops, or the insert fails and the request with it.
Interrupt ==
    /\ saving # {}
    /\ saving' = {}
    /\ UNCHANGED <<Books, changes, theses, snapshots, journal, revisions>>

-----------------------------------------------------------------------------
Init ==
    /\ PlanningInit
    /\ theses = {}
    /\ snapshots = {}
    /\ journal = {}
    /\ revisions = {}
    /\ saving = {}

Recorded == {r.id : r \in journal}

Fresh(d) == d \notin Recorded /\ \A other \in Decisions : other < d => other \in Recorded

Request ==
    \/ PlanningNext /\ UNCHANGED journalVars
    \/ \E t \in Tickers :
          \/ \E input \in ThesisInputs : SaveThesis(t, input)
          \/ SnapshotThesis(t)
          \/ \E d \in Decisions, thesis \in theses \cup {None}, intent \in intents \cup {None},
                plan \in plans \cup {None}, e \in Candidates \cup {None}, state \in States :
                Fresh(d) /\ CreateDecision(d, t, thesis, intent, plan, e, state)
    \/ \E row \in journal, state \in States, review \in Reviews : UpdateDecision(row, state, review)

Next ==
    \/ saving = {} /\ Request
    \/ \E row \in saving : AppendRevision(row)
    \/ Interrupt

Spec == Init /\ [][Next]_vars

-----------------------------------------------------------------------------
\* Properties

(* What a decision was made on stays what it was: the row and all its      *)
(* revisions carry the same parts, whatever is saved, renamed or           *)
(* interrupted in between, and these parts are rows that are still stored  *)
(* and belong to the company of the decision.                              *)
FrozenComponents ==
    /\ \A r \in journal \cup revisions :
          /\ \E row \in journal : row.id = r.id /\ row.parts = r.parts
          /\ r.parts.thesis \in theses \cup {None}
          /\ r.parts.intent \in intents \cup {None}
          /\ r.parts.plan \in plans \cup {None}
          /\ r.parts.policy \in policies \cup {None}
          /\ \A part \in {r.parts.thesis, r.parts.intent, r.parts.plan} \ {None} :
                part.content.company = r.parts.company
    /\ \A r, q \in journal : r.id = q.id => r = q

(* The revisions of a decision never contradict its current row, also      *)
(* after a stop between the two statements: none is ahead of the row, one  *)
(* with its number is the row itself, no two have the same number, and the *)
(* update after a stop is not refused.                                     *)
RevisionsTellTheJournal ==
    /\ \A r \in revisions, row \in journal : row.id = r.id =>
          /\ r.revision <= row.revision
          /\ r.revision = row.revision => r = row
    /\ \A r, q \in revisions : q.id = r.id /\ q.revision = r.revision => q = r
    /\ \A row \in saving : row \in journal /\ NewRevision(row)

(* What is saved in versions is never rewritten, skipped or forked: the    *)
(* risk policies, the thesis cards and intents of a company and the        *)
(* versions of an entry plan grow by one at the end, also when a client    *)
(* updates a plan that was updated since it read it, or a decision freezes *)
(* them.                                                                   *)
PolicyChain == INSTANCE VersionChain
               WITH Keys <- {PolicyKey}, chain <- AsChain(policies, {PolicyKey})
ThesisChain == INSTANCE VersionChain
               WITH Keys <- Companies, chain <- AsChain(theses, Companies)
IntentChain == INSTANCE VersionChain
               WITH Keys <- Companies, chain <- AsChain(intents, Companies)
PlanChain   == INSTANCE VersionChain
               WITH Keys <- PlanKeys, chain <- AsChain(plans, PlanKeys)

VersionContract ==
    PolicyChain!Spec /\ ThesisChain!Spec /\ IntentChain!Spec /\ PlanChain!Spec

=============================================================================

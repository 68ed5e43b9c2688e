------------------------------ MODULE FactStore ------------------------------
(***************************************************************************)
(* The SEC facts of one company: FinancialFactService fetches the facts    *)
(* and the list of submissions, falls back on the payloads stored before,  *)
(* and FinancialFactRepository keeps one row per observation, read as of a *)
(* time.                                                                   *)
(*                                                                         *)
(* A day has four moments: before the open, while the exchange is open,    *)
(* the close itself, and after it.  What the SEC has published follows     *)
(* from the time; the program learns of it when it asks.                   *)
(***************************************************************************)
EXTENDS Amounts, FiniteSets

CONSTANTS
    Filings,       \* accession numbers
    Histories,     \* what the filings of a company may be: [Filings -> Filing]
    Moments,       \* the times at which something happens
    Recent,        \* how many filings the list of recent submissions holds
    MaxSyncs       \* bound on the times the facts are fetched

Day(t)   == t \div 4
Close(d) == 4 * d + 2
EndOf(d) == 4 * d + 3

Forms == {"10-Q", "10-Q/A", "10-K", "10-K/A"}

\* What a filing says: of a flow from the quarter start to the quarter end, of
\* anything else at the end of a quarter
Observation == [concept : STRING, start : Int \cup {None}, end : Int, value : Int, unit : STRING]

\* EDGAR dates what arrives after the close with the day or with the next one.
IsFiling(f) ==
    /\ f.form \in Forms /\ f.fiscal \in STRING
    /\ f.accepted \in Nat
    /\ f.filed \in Day(f.accepted) .. Day(f.accepted) + (IF f.accepted > Close(Day(f.accepted)) THEN 1 ELSE 0)
    /\ f.facts \subseteq Observation
    /\ IsFiniteSet(f.facts)

ASSUME FactAssumption ==
    /\ IsFiniteSet(Filings)
    /\ Moments \subseteq Nat
    /\ Recent \in Nat
    /\ MaxSyncs \in Nat
    /\ \A h \in Histories : DOMAIN h = Filings /\ \A n \in Filings : IsFiling(h[n])

VARIABLES
    filing,        \* the filings of the company: a member of Histories
    now,           \* the time
    payloads,      \* provider_cache: when each answer that is kept was given, or None
    facts,         \* sec_financial_facts
    syncs          \* how often the facts were fetched

factVars == <<filing, now, payloads, facts, syncs>>

Published(t) == {n \in Filings : filing[n].accepted <= t}

-----------------------------------------------------------------------------
\* The answers of the SEC

\* Company Facts: the frame of a period is on the observation filed last.
Facts(t) ==
    LET Later(n, o) == {p \in Published(t) : /\ filing[p].accepted > filing[n].accepted
                                             /\ \E q \in filing[p].facts :
                                                   <<q.concept, q.start, q.end>> = <<o.concept, o.start, o.end>>}
    IN  UNION {{[filing |-> n, observation |-> o, framed |-> Later(n, o) = {}] :
                  o \in filing[n].facts} : n \in Published(t)}

\* acceptance_times: the filings listed by the submissions of time t
Listed(t) ==
    {n \in Published(t) :
        Cardinality({p \in Published(t) : filing[p].accepted > filing[n].accepted}) < Recent}

-----------------------------------------------------------------------------
\* ingest_company_facts

\* Without its acceptance a filing counts as known at the end of the day it is filed.
Fallback(n) == EndOf(filing[n].filed)

\* _parse_fact, with the payload of submissions of time s or without one
Row(fact, s) ==
    LET n     == fact.filing
        o     == fact.observation
        exact == s # None /\ n \in Listed(s)
    IN  [filing |-> n, form |-> filing[n].form, fiscal |-> filing[n].fiscal,
         filed |-> filing[n].filed, concept |-> o.concept, start |-> o.start, end |-> o.end,
         value |-> o.value, unit |-> o.unit, framed |-> fact.framed,
         known |-> IF exact THEN filing[n].accepted ELSE Fallback(n), exact |-> exact]

\* The rows of the table, of which None is none
Rows == [filing : Filings, form : Forms, fiscal : STRING, filed : Int, concept : STRING,
         start : Int \cup {None}, end : Int, value : Int, unit : STRING, framed : BOOLEAN,
         known : Nat, exact : BOOLEAN]

ASSUME RowsAssumption == None \notin Rows

\* What fact_id is the hash of: all but the value and when it became known
SameFact(r, q) ==
    [r EXCEPT !.value = q.value, !.known = q.known, !.exact = q.exact] = q

\* Mutated form: what is known of the time is replaced by what comes last.
ImprovesAny(r, q) == SameFact(r, q)

\* The stored fact r takes over the time of the incoming fact q.
Improves(r, q) == SameFact(r, q) /\ ~r.exact /\ q.exact

\* save_facts: INSERT OR IGNORE, then UPDATE of the times, in one transaction
Saved(stored, incoming) ==
    LET new == {q \in incoming : \A r \in stored : ~SameFact(r, q)}
    IN  {r \in stored : \A q \in incoming : ~Improves(r, q)}
        \cup {[p[2] EXCEPT !.value = p[1].value] : p \in {p \in stored \X incoming : Improves(p[1], p[2])}}
        \cup new

\* query_facts
KnownAt(rows, t) == {r \in rows : r.known <= t}

-----------------------------------------------------------------------------
FactInit ==
    /\ filing \in Histories
    /\ now = 0
    /\ payloads = [facts |-> None, submissions |-> None]
    /\ facts = {}
    /\ syncs = 0

\* The next moment
Pass ==
    /\ \E t \in Moments :
          /\ now < t
          /\ \A u \in Moments : now < u => t <= u
          /\ now' = t
    /\ UNCHANGED <<filing, payloads, facts, syncs>>

\* _persist_item and sync_company_facts: each of the two requests is answered
\* or fails, then the stored payload of the same kind stands in.
Sync(answered) ==
    LET kept == [p \in DOMAIN payloads |-> IF p \in answered THEN now ELSE payloads[p]]
    IN  /\ syncs < MaxSyncs
        /\ syncs' = syncs + 1
        /\ payloads' = kept
        /\ facts' = IF kept.facts = None THEN facts
                    ELSE Saved(facts, {Row(fact, kept.submissions) : fact \in Facts(kept.facts)})
        /\ UNCHANGED <<filing, now>>

FactNext == Pass \/ \E answered \in SUBSET DOMAIN payloads : Sync(answered)

=============================================================================

------------------------------ MODULE AsOfRows ------------------------------
(***************************************************************************)
(* Append-only tables that are read as of a time.  A table is the sequence *)
(* of its rows in the order of created_at; the position of a row stands    *)
(* for its identifier, which the code computes from the content.  Field    *)
(* "known" is known_at: when the public could know what the row says.      *)
(***************************************************************************)
EXTENDS Integers, Sequences

CONSTANTS
    Documents,     \* stored evidence documents of the company
    Times,         \* points in time, as numbers
    KnownAt        \* [Documents -> Times]: known_at of the document

ASSUME DocumentAssumption ==
    /\ Times \subseteq Nat \ {0}
    /\ KnownAt \in [Documents -> Times]

\* WHERE known_at <= ?
KnownRows(rows, t) == {i \in DOMAIN rows : rows[i].known <= t}

\* ORDER BY known_at, created_at puts row i behind row j
Behind(rows, i, j) ==
    rows[j].known < rows[i].known \/ (rows[j].known = rows[i].known /\ j < i)

\* The last row of S in that order, 0 when there is none
LastOf(rows, S) ==
    IF S = {} THEN 0 ELSE CHOOSE i \in S : \A j \in S \ {i} : Behind(rows, i, j)

\* Rows that say the same: what the content hash of an identifier covers
Same(rows, row) == {i \in DOMAIN rows : rows[i] = row}

=============================================================================

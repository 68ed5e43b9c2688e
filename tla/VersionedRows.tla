---------------------------- MODULE VersionedRows ----------------------------
(***************************************************************************)
(* Rows of a table that keeps everything it was ever given under a key and *)
(* a version: risk_policies, decision_theses, decision_position_intents    *)
(* and decision_entry_plans.  The tables have UNIQUE (key, version), and   *)
(* an identifier is as good as the pair, so supersedes is a version, 0     *)
(* standing for NULL.                                                      *)
(***************************************************************************)
EXTENDS Integers

Under(rows, key) == {r \in rows : r.key = key}

Versions(rows, key) == {r.version : r \in Under(rows, key)}

\* ORDER BY version DESC LIMIT 1, 0 when there is none
CurrentVersion(rows, key) ==
    IF Under(rows, key) = {} THEN 0
    ELSE CHOOSE n \in Versions(rows, key) : \A m \in Versions(rows, key) : m <= n

RowOf(rows, key, version) == CHOOSE r \in Under(rows, key) : r.version = version

Current(rows, key) == RowOf(rows, key, CurrentVersion(rows, key))

\* The version that comes after another one
NextRow(key, prior, content) ==
    [key |-> key, version |-> prior + 1, supersedes |-> prior, content |-> content]

\* Mutated form: the table takes a second row under a key and a version.
UnusedOrNot(rows, row) == row \notin rows

\* UNIQUE (key, version)
Unused(rows, row) == row.version \notin Versions(rows, row.key)

\* Mutated form: the row of a key is replaced.
InsertedOver(rows, row) == (rows \ Under(rows, row.key)) \cup {row}

Inserted(rows, row) == rows \cup {row}

\* The rows read as one chain per key: what is stored as each version of it,
\* one row as long as the pairs are unique
AsChain(rows, keys) ==
    [k \in keys |-> [n \in 1 .. CurrentVersion(rows, k) |->
                        {r \in Under(rows, k) : r.version = n}]]

=============================================================================

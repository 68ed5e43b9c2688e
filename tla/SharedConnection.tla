--------------------------- MODULE SharedConnection ---------------------------
(***************************************************************************)
(* The one DuckDB connection of LocalMarketStore.  The event loop runs the *)
(* routes' repository calls on it, and the thread of an intelligence       *)
(* refresh runs its own calls on the same connection, so the statements of *)
(* two calls interleave.  A call is a program of statements; a statement   *)
(* is executed by DuckDB as one step.                                      *)
(*                                                                         *)
(* What a statement does to the connection is DuckDB's: a transaction      *)
(* belongs to the connection, not to the thread that began it.  A failed   *)
(* statement may or may not abort the open transaction, whoever began it:  *)
(* both are modelled.                                                      *)
(***************************************************************************)
EXTENDS Integers, Sequences

CONSTANTS
    Threads,       \* the event loop and the worker threads
    Repertoire,    \* the programs each thread runs
    MaxCalls       \* bound on the calls of a behaviour

Statements == {"begin", "read", "write", "commit"}

Has(program, statement) == \E i \in DOMAIN program : program[i] = statement

\* A transaction is begun once, ends with its COMMIT and holds every write.
WellBracketed(program) ==
    \A i \in DOMAIN program :
        /\ program[i] \in {"write", "commit"} /\ Has(program, "begin") =>
              \E b \in 1..(i - 1) : program[b] = "begin"
        /\ program[i] = "commit" =>
              /\ Has(program, "begin")
              /\ \A j \in DOMAIN program : j > i => program[j] = "read"
        /\ program[i] = "begin" =>
              /\ \A j \in DOMAIN program : program[j] = "begin" => j = i
              /\ \E j \in DOMAIN program : j > i /\ program[j] = "commit"

ASSUME ConnectionAssumption ==
    /\ MaxCalls \in Nat
    /\ \A t \in Threads : \A program \in Repertoire[t] :
          /\ program \in Seq(Statements) /\ program # << >>
          /\ WellBracketed(program)

VARIABLES
    calls,     \* the calls made so far, in the order they began
    owner,     \* the call that began the open transaction, 0 when none is open
    aborted,   \* whether DuckDB refuses the transaction's statements
    pending,   \* rows written in the open transaction
    stored     \* rows committed

connectionVars == <<calls, owner, aborted, pending, stored>>

Programs == UNION {Repertoire[t] : t \in Threads}
Writes(c) == {i \in DOMAIN calls[c].program : calls[c].program[i] = "write"}
Rows(c) == {c} \X Writes(c)
Transactional(c) == Has(calls[c].program, "begin")

ActiveCalls(t) == {c \in DOMAIN calls : calls[c].thread = t /\ calls[c].status \in {"running", "raising"}}

\* The statement call c is about to execute
At(c, statement) ==
    /\ calls[c].status = "running"
    /\ calls[c].program[calls[c].pc] = statement

-----------------------------------------------------------------------------
\* How a call goes on after a statement

\* The statement succeeds: the next one follows, or the call returns.
\* inTry says whether the call is between BEGIN and COMMIT.
Advance(c, inTry) ==
    calls' = [calls EXCEPT ![c].pc = @ + 1,
                           ![c].inTry = inTry,
                           ![c].status = IF calls[c].pc = Len(calls[c].program)
                                         THEN "done" ELSE "running"]

\* The statement raises: `except Exception` catches it inside the try block.
Raise(c) ==
    calls' = [calls EXCEPT ![c].status = IF calls[c].inTry THEN "raising" ELSE "failed"]

CloseTransaction ==
    /\ owner' = 0 /\ aborted' = FALSE /\ pending' = {}

-----------------------------------------------------------------------------
\* Statements

\* A thread runs one call at a time: no call of the loop awaits, and the
\* worker is one thread.
Call(t, program) ==
    /\ Len(calls) < MaxCalls
    /\ ActiveCalls(t) = {}
    /\ calls' = Append(calls, [thread |-> t, program |-> program, pc |-> 1,
                               inTry |-> FALSE, status |-> "running", unwritten |-> FALSE])
    /\ UNCHANGED <<owner, aborted, pending, stored>>

Begin(c) ==
    /\ At(c, "begin")
    /\ owner = 0
    /\ owner' = c
    /\ Advance(c, TRUE)
    /\ UNCHANGED <<aborted, pending, stored>>

\* Mutated form: BEGIN inside the try block, whose ROLLBACK then ends the
\* transaction of the other call.
BeginRefusedInTry(c) ==
    /\ At(c, "begin")
    /\ owner # 0
    /\ calls' = [calls EXCEPT ![c].status = "raising"]
    /\ aborted' \in {aborted, TRUE}
    /\ UNCHANGED <<owner, pending, stored>>

\* A transaction is open already.  BEGIN stands before the try block, so the
\* error leaves the call without a ROLLBACK.
BeginRefused(c) ==
    /\ At(c, "begin")
    /\ owner # 0
    /\ calls' = [calls EXCEPT ![c].status = "failed"]
    /\ aborted' \in {aborted, TRUE}
    /\ UNCHANGED <<owner, pending, stored>>

Read(c) ==
    /\ At(c, "read")
    /\ ~aborted
    /\ Advance(c, calls[c].inTry)
    /\ UNCHANGED <<owner, aborted, pending, stored>>

\* A write joins the transaction that is open, whoever began it; with none
\* open it is committed at once.
Write(c) ==
    /\ At(c, "write")
    /\ ~aborted
    /\ IF owner = 0
       THEN stored' = stored \cup {<<c, calls[c].pc>>} /\ UNCHANGED pending
       ELSE pending' = pending \cup {<<c, calls[c].pc>>} /\ UNCHANGED stored
    /\ Advance(c, calls[c].inTry)
    /\ UNCHANGED <<owner, aborted>>

\* A query fails, or what it returned makes the repository raise
StatementFails(c) ==
    /\ At(c, "read") \/ At(c, "write")
    /\ Raise(c)
    /\ aborted' \in {aborted, owner # 0}
    /\ aborted => aborted'
    /\ UNCHANGED <<owner, pending, stored>>

Commit(c) ==
    /\ At(c, "commit")
    /\ owner # 0 /\ ~aborted
    /\ stored' = stored \cup pending
    /\ CloseTransaction
    /\ Advance(c, FALSE)

\* Nothing to commit, or an aborted transaction, which stays open
CommitRefused(c) ==
    /\ At(c, "commit")
    /\ owner = 0 \/ aborted
    /\ Raise(c)
    /\ UNCHANGED <<owner, aborted, pending, stored>>

\* DuckDB gives the transaction up when it cannot write it; the except clause
\* still follows with its ROLLBACK.
CommitFails(c) ==
    /\ At(c, "commit")
    /\ owner # 0
    /\ CloseTransaction
    /\ calls' = [calls EXCEPT ![c].status = "raising", ![c].unwritten = TRUE]
    /\ UNCHANGED stored

\* ROLLBACK ends whatever transaction is open, then the error is raised again;
\* with none open the ROLLBACK raises instead.
Rollback(c) ==
    /\ calls[c].status = "raising"
    /\ CloseTransaction
    /\ calls' = [calls EXCEPT ![c].status = "failed", ![c].inTry = FALSE]
    /\ UNCHANGED stored

\* The process is stopped: what is not committed is gone
Kill ==
    /\ calls' = [c \in DOMAIN calls |->
                    IF calls[c].status \in {"running", "raising"}
                    THEN [calls[c] EXCEPT !.status = "killed", !.inTry = FALSE] ELSE calls[c]]
    /\ CloseTransaction
    /\ UNCHANGED stored

-----------------------------------------------------------------------------
ConnectionInit ==
    /\ calls = << >>
    /\ owner = 0
    /\ aborted = FALSE
    /\ pending = {} /\ stored = {}

Execute(c) ==
    \/ Begin(c) \/ BeginRefused(c)
    \/ Read(c) \/ Write(c) \/ StatementFails(c)
    \/ Commit(c) \/ CommitRefused(c) \/ CommitFails(c)
    \/ Rollback(c)

ConnectionNext ==
    \/ \E t \in Threads : \E program \in Repertoire[t] : Call(t, program)
    \/ \E c \in DOMAIN calls : Execute(c)
    \/ Kill

ConnectionSpec == ConnectionInit /\ [][ConnectionNext]_connectionVars

-----------------------------------------------------------------------------
\* Properties

CallType == [thread : Threads, program : Programs, pc : Nat \ {0}, inTry : BOOLEAN,
             status : {"running", "raising", "done", "failed", "killed"},
             unwritten : BOOLEAN]  \* history: DuckDB could not write its transaction

\* Types, and rows are pending only while a transaction is open.
ConnectionTypeOK ==
    /\ calls \in Seq(CallType)
    /\ owner \in 0..Len(calls)
    /\ aborted \in BOOLEAN
    /\ pending \subseteq (DOMAIN calls) \X Nat
    /\ stored \subseteq (DOMAIN calls) \X Nat
    /\ owner = 0 => pending = {} /\ ~aborted

\* DuckDB wrote every transaction it was asked to commit
CommitsWritten == \A c \in DOMAIN calls : ~calls[c].unwritten

\* However the statements of two threads interleave, fail or are cut off by a
\* stop of the process, the database holds all the rows of a transactional
\* call or none of them.  It takes every COMMIT to be written: the ROLLBACK that
\* follows one that is not may meet the transaction another call began since.
AllOrNothing ==
    CommitsWritten => \A c \in DOMAIN calls :
        Transactional(c) => (Rows(c) \cap stored) \in {{}, Rows(c)}

\* A transactional call that returned has its rows in the database.
ReturnedIsStored ==
    CommitsWritten => \A c \in DOMAIN calls :
        Transactional(c) /\ calls[c].status = "done" => Rows(c) \subseteq stored

\* An open transaction belongs to a call that will still end it: no failed or
\* returned call leaves the connection inside a transaction, which would hold
\* back every later write and refuse every later BEGIN.
TransactionIsOwned ==
    owner # 0 => calls[owner].status \in {"running", "raising"} /\ calls[owner].inTry

\* The strengthening that makes them inductive: where a call is in its program
\* says whether it is inside its transaction,
Earlier(program, k, statement) == \E i \in DOMAIN program : i < k /\ program[i] = statement
Passed(c, statement) == Earlier(calls[c].program, calls[c].pc, statement)

PositionOfCall(c) ==
    /\ calls[c].status = "running" => calls[c].pc \in DOMAIN calls[c].program
    /\ calls[c].status = "running" /\ calls[c].inTry =>
          Passed(c, "begin") /\ ~Passed(c, "commit")
    /\ calls[c].status = "running" /\ ~calls[c].inTry /\ Passed(c, "begin") =>
          Passed(c, "commit")
    /\ calls[c].status = "raising" => calls[c].inTry
    /\ calls[c].inTry => calls[c].status \in {"running", "raising"}

PositionInv == \A c \in DOMAIN calls : PositionOfCall(c)

\* and that says where its rows are.
RowsOfCall(c) ==
    /\ \A i \in Writes(c) : <<c, i>> \in pending => owner = c
    /\ owner = c => \A i \in Writes(c) : <<c, i>> \notin stored
    /\ owner = c /\ calls[c].status = "running" =>
          \A i \in Writes(c) : i < calls[c].pc => <<c, i>> \in pending
    /\ calls[c].status = "running" /\ ~Passed(c, "begin") =>
          \A i \in Writes(c) : <<c, i>> \notin stored
    /\ calls[c].status = "running" /\ Passed(c, "commit") =>
          \A i \in Writes(c) : <<c, i>> \in stored
    /\ calls[c].status = "done" => \A i \in Writes(c) : <<c, i>> \in stored
    /\ \/ \A i \in Writes(c) : <<c, i>> \in stored
       \/ \A i \in Writes(c) : <<c, i>> \notin stored

RowsInv ==
    CommitsWritten => \A c \in DOMAIN calls :
        /\ calls[c].inTry => owner = c
        /\ Transactional(c) => RowsOfCall(c)

ConnectionInv == PositionInv /\ TransactionIsOwned /\ RowsInv

===============================================================================

------------------------------- MODULE CallLog -------------------------------
(***************************************************************************)
(* PostgresCallLogger: one connection, and so one transaction, that every  *)
(* log_call and every query of the process uses.  The connection carries   *)
(* out one command at a time; tasks interleave between their commands.     *)
(*                                                                         *)
(* External, as psycopg and PostgreSQL do it: a command outside a          *)
(* transaction begins one; an error makes the transaction useless until it *)
(* is rolled back; committing a useless one rolls it back and says nothing.*)
(***************************************************************************)
EXTENDS FiniteSets

CONSTANTS Record,    \* calls of log_call
          Malformed, \* those whose call_id is not a UUID
          Twin       \* pairs of records with the same call_id

ASSUME CallLogAssumption ==
    /\ Malformed \subseteq Record
    /\ Twin \subseteq Record \X Record

VARIABLES db_pool, \* the connection: none, idle, open or failed in a transaction, closed
          pending, \* records inserted in the open transaction
          calls_table, \* records committed
          logging, \* where each log_call is
          struck   \* history: records in the transaction when something failed

callLogVars == <<db_pool, pending, calls_table, logging, struck>>

Connection == {"none", "idle", "open", "failed", "closed"}
LogState == {"not called", "inserting", "committing", "undoing", "logged", "raised", "skipped"}

CallLogInit ==
    /\ db_pool = "none"
    /\ pending = {} /\ calls_table = {} /\ struck = {}
    /\ logging = [r \in Record |-> "not called"]

LogGoes(r, from, to) == logging[r] = from /\ logging' = [logging EXCEPT ![r] = to]

\* The transaction ends in state conn without its records.
Discard(conn) == db_pool' = conn /\ pending' = {} /\ struck' = struck \cup pending

\* connect; if the schema cannot be set up the connection stays all the same.
ConnectDatabase ==
    /\ db_pool = "none" /\ db_pool' = "idle"
    /\ UNCHANGED <<pending, calls_table, logging, struck>>

\* disconnect, or the server goes away.
CloseDatabase ==
    /\ db_pool \in {"idle", "open", "failed"} /\ Discard("closed")
    /\ UNCHANGED <<calls_table, logging>>

BeginLog(r) ==
    /\ LogGoes(r, "not called", IF db_pool = "none" THEN "skipped" ELSE "inserting")
    /\ UNCHANGED <<db_pool, pending, calls_table, struck>>

Insertable(r) ==
    /\ db_pool \in {"idle", "open"} /\ r \notin Malformed
    /\ \A s \in pending \cup calls_table : <<r, s>> \notin Twin

\* Mutant of InsertRecord: log_call ends without its commit.
InsertUncommitted(r) ==
    /\ LogGoes(r, "inserting", "logged") /\ Insertable(r)
    /\ db_pool' = "open" /\ pending' = pending \cup {r}
    /\ UNCHANGED <<calls_table, struck>>

InsertRecord(r) ==
    /\ LogGoes(r, "inserting", "committing") /\ Insertable(r)
    /\ db_pool' = "open" /\ pending' = pending \cup {r}
    /\ UNCHANGED <<calls_table, struck>>

\* A malformed call_id is found before the command, everything else by the server.
InsertFails(r) ==
    /\ LogGoes(r, "inserting", "undoing")
    /\ IF r \in Malformed THEN UNCHANGED <<db_pool, pending, struck>>
       ELSE Discard(IF db_pool = "closed" THEN "closed" ELSE "failed")
    /\ UNCHANGED calls_table

\* The commit of whatever is in the transaction now.
CommitLog(r) ==
    /\ LogGoes(r, "committing", "logged") /\ db_pool # "closed"
    /\ db_pool' = "idle" /\ pending' = {} /\ calls_table' = calls_table \cup pending
    /\ UNCHANGED struck

\* The connection is lost, after the server has committed or before.
CommitFails(r) ==
    /\ LogGoes(r, "committing", "undoing") /\ Discard("closed")
    /\ calls_table' \in {calls_table, calls_table \cup pending}

\* rollback, which raises itself on a closed connection; then the error is raised.
RollbackLog(r) ==
    /\ LogGoes(r, "undoing", "raised")
    /\ IF db_pool = "closed" THEN UNCHANGED <<db_pool, pending, struck>> ELSE Discard("idle")
    /\ UNCHANGED calls_table

\* A query or the health check: no commit follows it.
QueryCalls ==
    /\ db_pool \in {"idle", "open"} /\ db_pool' = "open"
    /\ UNCHANGED <<pending, calls_table, logging, struck>>

\* Its error is logged and an empty result returned: no rollback follows it.
QueryFails ==
    /\ db_pool \in {"idle", "open"} /\ Discard("failed")
    /\ UNCHANGED <<calls_table, logging>>

CallLogNext ==
    \/ ConnectDatabase \/ CloseDatabase \/ QueryCalls \/ QueryFails
    \/ \E r \in Record : \/ BeginLog(r) \/ InsertRecord(r) \/ InsertFails(r)
                         \/ CommitLog(r) \/ CommitFails(r) \/ RollbackLog(r)

CallLogSpec == CallLogInit /\ [][CallLogNext]_callLogVars

-----------------------------------------------------------------------------
(* Properties *)

CallLogTypeOK ==
    /\ db_pool \in Connection
    /\ logging \in [Record -> LogState]
    /\ pending \subseteq Record /\ calls_table \subseteq Record /\ struck \subseteq Record
    /\ pending # {} => db_pool = "open"

\* Tasks may commit each other's records: a log_call that has returned without an
\* error has its record in the table, unless another command failed, or the
\* connection was closed, between its insert and its commit.
LossNeedsAFailure ==
    \A r \in Record : logging[r] = "logged" => r \in calls_table \cup struck
=============================================================================

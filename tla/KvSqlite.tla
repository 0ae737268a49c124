------------------------------ MODULE KvSqlite ------------------------------
(***************************************************************************)
(* kvgit's SQLite backend (kvgit-ts/src/backends/sqlite.ts): processes that *)
(* open one file, each running its statements one after another, others' in *)
(* between.  SQLite lets one connection write at a time and refuses another *)
(* meanwhile; what a transaction wrote is seen when it commits, and dropped *)
(* when it rolls back or its process dies.                                  *)
(***************************************************************************)
EXTENDS FiniteSets, KvStore

CONSTANT NoOne

VARIABLES
    writer,  \* the connection in a write transaction, or NoOne
    work     \* caller -> the keys its batch has checked and written so far

vars == <<data, calls, writer, work>>

NoWork == [checked |-> {}, made |-> {}]

SqliteInit == Init /\ writer = NoOne /\ work = [c \in Callers |-> NoWork]

Begun(c, op) == Ask(c, op) /\ UNCHANGED <<writer, work>>

\* set, remove, clear, cas: one statement does it all.
Alone(op) == Cardinality(DOMAIN op.puts) = 1 /\ DOMAIN op.expected \subseteq DOMAIN op.puts

\* cas's statements: INSERT OR IGNORE, or UPDATE WHERE the value is the one
\* expected; changed says whether a row was.
Statement(c) ==
    /\ Is(c, "batch") /\ Alone(calls[c].op) /\ writer = NoOne
    /\ Land(c)
    /\ UNCHANGED <<writer, work>>

\* setMany, removeMany, casMany: BEGIN, and the write lock; casMany's BEGIN
\* IMMEDIATE takes it before the checks, BEGIN with the first write.
Lock(c) ==
    /\ Is(c, "batch") /\ ~Alone(calls[c].op) /\ writer = NoOne
    /\ writer' = c
    /\ UNCHANGED <<data, calls, work>>

\* casMany: a key read and compared; ROLLBACK at the first that differs.
Check(c, k) ==
    /\ writer = c /\ k \in DOMAIN calls[c].op.expected \ work[c].checked
    /\ IF data[k] = calls[c].op.expected[k]
       THEN /\ work' = [work EXCEPT ![c].checked = @ \cup {k}]
            /\ UNCHANGED <<calls, writer>>
       ELSE /\ calls' = [calls EXCEPT ![c] = Done([landed |-> FALSE])]
            /\ work' = [work EXCEPT ![c] = NoWork]
            /\ writer' = NoOne
    /\ UNCHANGED data

Write(c, k) ==
    /\ writer = c /\ work[c].checked = DOMAIN calls[c].op.expected
    /\ k \in DOMAIN calls[c].op.puts \ work[c].made
    /\ work' = [work EXCEPT ![c].made = @ \cup {k}]
    /\ UNCHANGED <<data, calls, writer>>

\* COMMIT, once every statement has run.
Commit(c) ==
    /\ writer = c
    /\ work[c].checked = DOMAIN calls[c].op.expected /\ work[c].made = DOMAIN calls[c].op.puts
    /\ data' = Over(calls[c].op.puts, data)
    /\ calls' = [calls EXCEPT ![c] = Done([landed |-> TRUE])]
    /\ work' = [work EXCEPT ![c] = NoWork]
    /\ writer' = NoOne

\* getMany: one SELECT a key; get, has, keys, items: one statement.
Select(c, k) == ReadKey(c, k) /\ UNCHANGED <<writer, work>>

Released(c) ==
    /\ work' = [work EXCEPT ![c] = NoWork]
    /\ writer' = IF writer = c THEN NoOne ELSE writer

\* A statement throws (the file is locked, the disk is full): ROLLBACK.
Throws(c) == Fail(c) /\ Released(c)

\* The answer taken, or the process dead.
Gone(c) == Leave(c) /\ Released(c)

\* The process dead as it committed.
GoneCommitted(c) ==
    /\ writer = c
    /\ work[c].checked = DOMAIN calls[c].op.expected /\ work[c].made = DOMAIN calls[c].op.puts
    /\ LandUnheard(c)
    /\ Released(c)

SqliteNext == \E c \in Callers :
    \/ \E op \in Ops : Begun(c, op)
    \/ Statement(c) \/ Lock(c) \/ Commit(c) \/ Throws(c) \/ Gone(c) \/ GoneCommitted(c)
    \/ \E k \in Keys : Check(c, k) \/ Write(c, k) \/ Select(c, k)

SqliteSpec == SqliteInit /\ [][SqliteNext]_vars
=============================================================================

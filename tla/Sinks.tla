------------------------------- MODULE Sinks -------------------------------
(***************************************************************************)
(* The storage behind a recording: InMemorySink, CsvSink, JsonlSink,       *)
(* SqliteSink, ParquetSink and PostgresSink, each driven by one caller     *)
(* through open, write_many and close. A step runs from one await to the   *)
(* next; the sinks without an await inside a call have steps of their own  *)
(* only because the process may be killed between them.                    *)
(*                                                                         *)
(* A sample is numbered. Its row is cut down to two columns whose type     *)
(* depends on the sample: value (None for a failed poll or off scale) and  *)
(* sequence (None on SBI). A type stands for a value of that type.         *)
(***************************************************************************)
EXTENDS Naturals, SequencesExt

CONSTANTS
  Tables,     \* the tables a database may hold before the run
  MaxSamples, \* bound: samples ever written
  MaxBatch,   \* bound: samples in one write_many
  MaxOpens    \* bound: calls of open

Columns == {"value", "sequence"}
Schemas == UNION {[cols -> {"float", "int", "str"}] : cols \in SUBSET Columns}

ASSUME SinksAssumption ==
  /\ Tables \subseteq Schemas
  /\ {MaxSamples, MaxBatch, MaxOpens} \subseteq Nat \ {0}

VARIABLES
  kind,    \* the sink's class
  create,  \* create_table
  handle,  \* _file, _conn, _pool or _pa; "dead" is a file that close could not flush
  schema,  \* SchemaLock's columns and their types
  ready,   \* _insert_sql or _writer is set
  pc,      \* what the call under way awaits
  batch,   \* the rows of the latest write_many
  raised,  \* how the latest write_many ended
  scars,   \* what went wrong with this sink object before
  opens,   \* calls of open so far
  table,   \* the columns of the file or table
  stored,  \* the rows that survive the process
  pending, \* rows in the file's buffer or in a file without its footer
  txn,     \* rows of sqlite's open transaction
  fate     \* by sample: what became of its write_many

object == <<handle, schema, ready, scars>>
disk   == <<table, stored, pending, txn>>
vars   == <<kind, create, object, pc, batch, raised, opens, disk, fate>>

Rows    == {[value |-> "float", sequence |-> "int"],   \* xBPI
            [value |-> "float", sequence |-> "None"],  \* SBI
            [value |-> "None",  sequence |-> "None"]}  \* a failed poll

Kinds     == {"memory", "csv", "jsonl", "sqlite", "parquet", "postgres"}
Databases == {"sqlite", "postgres"}
Absent    == <<>>
Unlocked  == <<>>

Samples == 1..MaxSamples
Ids(rows) == [i \in DOMAIN rows |-> rows[i].id]
Named(rows) == Range(Ids(rows))
Settle(how) == fate' = [i \in Samples |-> IF i \in Named(batch) THEN how ELSE fate[i]]

----------------------------------------------------------------------------
\* SchemaLock: the first batch types the columns; no values type a column as text.
Inferred(rows) ==
  [c \in Columns |->
     LET types == {rows[i].cells[c] : i \in DOMAIN rows} \ {"None"}
     IN CASE types = {} -> "str"
          [] types = {"int", "float"} -> "float"
          [] \E t \in types : types = {t} -> CHOOSE t \in types : TRUE
          [] OTHER -> "str"]

Locked == schema # Unlocked

\* A column of text takes None only, except in sqlite, which converts.
Takes(type, cell) ==
  \/ kind = "sqlite"
  \/ cell \in {"None", type}
  \/ type = "float" /\ cell = "int"

Fits(rows) ==
  /\ DOMAIN schema \subseteq DOMAIN table
  /\ \A i \in DOMAIN rows : \A c \in DOMAIN schema : Takes(table[c], rows[i].cells[c])

\* The row as it is kept: project drops what the schema lacks; sqlite's columns convert.
Kept(rows) ==
  [i \in DOMAIN rows |->
     [id |-> rows[i].id,
      cells |-> [c \in Columns |->
        IF kind \in {"memory", "jsonl"} THEN rows[i].cells[c]
        ELSE IF kind = "csv" THEN "str"
        ELSE IF c \notin DOMAIN schema \/ rows[i].cells[c] = "None" THEN "None"
        ELSE table[c]]]]

----------------------------------------------------------------------------
New == handle = "none" /\ schema = Unlocked /\ ready = FALSE /\ scars = {}

Init ==
  /\ kind \in Kinds
  /\ create \in (IF kind \in Databases THEN BOOLEAN ELSE {TRUE})
  /\ table \in (IF kind \in Databases THEN Tables \cup {Absent} ELSE {Absent})
  /\ New
  /\ pc = "idle" /\ batch = <<>> /\ raised = "no" /\ opens = 0
  /\ stored = <<>> /\ pending = <<>> /\ txn = <<>>
  /\ fate = [i \in Samples |-> "unwritten"]

\* An open for writing drops the file's earlier rows.
Truncated ==
  /\ stored' = <<>>
  /\ pending' = <<>>
  /\ fate' = [i \in Samples |-> IF fate[i] = "acked" THEN "overwritten" ELSE fate[i]]

Opened(h, next) ==
  /\ handle' = h
  /\ pc' = next
  /\ UNCHANGED <<kind, create, schema, ready, batch, raised, scars>>

OpenMemory == kind = "memory" /\ Opened("open", "idle") /\ UNCHANGED <<disk, fate>>
OpenFile   == kind \in {"csv", "jsonl"} /\ Opened("open", "idle") /\ Truncated /\ UNCHANGED <<table, txn>>

\* A parquet sink only loads its library: the file waits for the first batch.
OpenParquet == kind = "parquet" /\ Opened("open", "idle") /\ UNCHANGED <<disk, fate>>

\* Connect, and read the table's columns unless the sink is to create it.
OpenSqlite ==
  kind = "sqlite" /\ Opened("open", IF create THEN "idle" ELSE "introspect") /\ UNCHANGED <<disk, fate>>
OpenPostgres ==
  kind = "postgres" /\ Opened("open", IF create THEN "idle" ELSE "introspect") /\ UNCHANGED <<disk, fate>>

Open ==
  /\ pc = "idle" /\ handle = "none" /\ opens < MaxOpens
  /\ opens' = opens + 1
  /\ \/ OpenMemory \/ OpenFile \/ OpenParquet \/ OpenSqlite \/ OpenPostgres
     \/ Opened("none", "idle") /\ UNCHANGED <<disk, fate>>  \* nothing could be opened

\* The table's columns lock the schema, once in the life of the object.
Introspected ==
  /\ pc = "introspect" /\ handle = "open"
  /\ table # Absent /\ ~Locked
  /\ schema' = table
  /\ ready' = TRUE
  /\ pc' = "idle"
  /\ UNCHANGED <<kind, create, handle, batch, raised, scars, opens, disk, fate>>

\* No such table, a schema locked by an earlier open, a failed or cancelled query.
Unread(h) ==
  /\ pc = "introspect"
  /\ handle' = h
  /\ pc' = "idle"
  /\ scars' = scars \cup {"introspect"}
  /\ UNCHANGED <<kind, create, schema, ready, batch, raised, opens, disk, fate>>

\* Mutant: the statement is not prepared.
IntrospectUnprepared ==
  /\ kind = "sqlite" /\ pc = "introspect" /\ handle = "open"
  /\ table # Absent /\ ~Locked
  /\ schema' = table
  /\ pc' = "idle"
  /\ UNCHANGED <<kind, create, handle, ready, batch, raised, scars, opens, disk, fate>>

\* sqlite drops its connection when the columns cannot be read, postgres keeps its pool.
IntrospectSqlite   == kind = "sqlite" /\ (Introspected \/ Unread("none"))
IntrospectPostgres == kind = "postgres" /\ (Introspected \/ Unread(handle))

----------------------------------------------------------------------------
Written == Cardinality({i \in Samples : fate[i] # "unwritten"})

Times(i, rows) == Cardinality({n \in DOMAIN rows : rows[n].id = i})
Held == stored \o pending

\* The rows of new samples, or those of the latest write_many once more
\* (bound: while no sample is held twice).
Offers ==
  {[i \in 1..n |-> [id |-> Written + i, cells |-> cells[i]]] :
     n \in 1..MaxBatch, cells \in [1..MaxBatch -> Rows]}
  \cup (IF raised \in {"error", "assert"} /\ \A i \in Samples : Times(i, Held) <= 1 THEN {batch} ELSE {})

Refuse(how, rows) ==
  /\ raised' = how
  /\ pc' = "idle"
  /\ batch' = rows
  /\ fate' = [i \in Samples |-> IF i \in Named(rows) THEN "raised" ELSE fate[i]]

Start(rows, next, columns) ==
  /\ pc' = next
  /\ batch' = rows
  /\ raised' = "no"
  /\ schema' = columns
  /\ fate' = [i \in Samples |-> IF i \in Named(rows) THEN "under way" ELSE fate[i]]

Assertion(rows) == Refuse("assert", rows) /\ UNCHANGED schema

\* write_many up to its first await, by sink. jsonl and memory have no schema.
StartPlain(rows) ==
  /\ kind \in {"memory", "jsonl"}
  /\ Start(rows, "insert", schema)
  /\ UNCHANGED <<ready, table>>

\* csv: the first row names the columns and the header joins the file's buffer.
StartCsv(rows) ==
  /\ kind = "csv"
  /\ LET columns == IF ready THEN schema ELSE [c \in DOMAIN rows[1].cells |-> "str"]
     IN Start(rows, "insert", columns) /\ table' = columns
  /\ ready' = TRUE

StartSqlite(rows) ==
  /\ kind = "sqlite"
  /\ IF ~Locked /\ create THEN Start(rows, "create", Inferred(rows))
     ELSE IF ready THEN Start(rows, "insert", schema)
     ELSE Assertion(rows)
  /\ UNCHANGED <<ready, table>>

StartParquet(rows) ==
  /\ kind = "parquet"
  /\ IF ~Locked THEN Start(rows, "create", Inferred(rows))
     ELSE IF ready THEN Start(rows, "insert", schema)
     ELSE Assertion(rows)
  /\ UNCHANGED <<ready, table>>

StartPostgres(rows) ==
  /\ kind = "postgres"
  /\ IF ~Locked
     THEN IF create THEN Start(rows, "create", Inferred(rows)) ELSE Assertion(rows)
     ELSE IF ready THEN Start(rows, "insert", schema) ELSE Assertion(rows)
  /\ UNCHANGED <<ready, table>>

Write ==
  /\ pc = "idle" /\ handle = "open"
  /\ \E rows \in Offers :
       /\ Named(rows) \subseteq Samples
       /\ \/ StartPlain(rows) \/ StartCsv(rows)
          \/ StartSqlite(rows) \/ StartParquet(rows) \/ StartPostgres(rows)
  /\ UNCHANGED <<kind, create, handle, scars, opens, stored, pending, txn>>

Created(columns) ==
  /\ pc = "create" /\ handle = "open"
  /\ table' = columns
  /\ ready' = TRUE
  /\ pc' = "insert"
  /\ UNCHANGED <<kind, create, handle, schema, batch, raised, scars, opens, txn>>

\* Failed, cancelled, or the connection closed meanwhile: the schema stays locked.
Uncreated(tables) ==
  /\ pc = "create"
  /\ table' \in tables
  /\ scars' = scars \cup {"create"}
  /\ Refuse("error", batch)
  /\ UNCHANGED <<kind, create, handle, schema, ready, opens, stored, pending, txn>>

\* CREATE TABLE IF NOT EXISTS.
Existing == IF table = Absent THEN schema ELSE table

CreateSqlite ==
  /\ kind = "sqlite"
  /\ \/ Created(Existing) /\ UNCHANGED <<stored, pending, fate>>
     \/ Uncreated({table})

CreatePostgres ==
  /\ kind = "postgres"
  /\ \/ Created(Existing) /\ UNCHANGED <<stored, pending, fate>>
     \/ Uncreated({table, Existing})

\* The parquet file with its writer.
OpenWriter ==
  /\ kind = "parquet"
  /\ \/ Created(schema) /\ Truncated
     \/ Uncreated({table})

Return ==
  /\ raised' = "no"
  /\ pc' = "idle"
  /\ Settle("acked")
  /\ UNCHANGED <<kind, create, object, batch, opens>>

Fail ==
  /\ Refuse("error", batch)
  /\ UNCHANGED <<kind, create, object, opens>>

\* Mutant: no flush before write_many returns.
FlushLater ==
  /\ pc = "insert" /\ kind \in {"csv", "jsonl"}
  /\ pending' = pending \o Kept(batch)
  /\ Return
  /\ UNCHANGED <<table, stored, txn>>

\* csv and jsonl: the lines join the file's buffer, and the buffer is flushed.
Flush ==
  /\ pc = "insert" /\ kind \in {"csv", "jsonl"}
  /\ LET lines == pending \o Kept(batch)
     IN \/ stored' = stored \o lines /\ pending' = <<>> /\ Return
        \/ \E n \in 0..(Len(lines) - 1) :   \* what a failed flush leaves stays in the buffer
             /\ stored' = stored \o SubSeq(lines, 1, n)
             /\ pending' = SubSeq(lines, n + 1, Len(lines))
             /\ Fail
  /\ UNCHANGED <<table, txn>>

Remember ==
  /\ pc = "insert" /\ kind = "memory"
  /\ pending' = pending \o Kept(batch)
  /\ Return
  /\ UNCHANGED <<table, stored, txn>>

\* parquet: one row group, or none when a column does not take its values.
WriteTable ==
  /\ pc = "insert" /\ kind = "parquet"
  /\ \/ Fits(batch) /\ pending' = pending \o Kept(batch) /\ Return
     \/ pending' \in {pending} \cup (IF Fits(batch) THEN {pending \o Kept(batch)} ELSE {}) /\ Fail
  /\ UNCHANGED <<table, stored, txn>>

\* Mutant: no transaction around the INSERTs.
InsertAutocommits ==
  /\ pc = "insert" /\ kind = "sqlite"
  /\ \/ Fits(batch) /\ stored' = stored \o Kept(batch) /\ Return
     \/ \E n \in 0..Len(batch) : stored' = stored \o SubSeq(Kept(batch), 1, n) /\ Fail
  /\ UNCHANGED <<table, pending, txn>>

\* sqlite: BEGIN IMMEDIATE and the INSERTs. An error rolls back, if that succeeds.
Insert ==
  /\ pc = "insert" /\ kind = "sqlite"
  /\ \/ /\ handle = "open" /\ txn = <<>> /\ Fits(batch)
        /\ txn' = Kept(batch)
        /\ pc' = "commit"
        /\ UNCHANGED <<kind, create, object, batch, raised, opens, fate>>
     \/ txn' \in {<<>>, txn} /\ Fail
  /\ UNCHANGED <<table, stored, pending>>

Commit ==
  /\ pc = "commit"
  /\ \/ handle = "open" /\ stored' = stored \o txn /\ txn' = <<>> /\ Return
     \/ txn' \in {<<>>, txn} /\ Fail /\ UNCHANGED stored
  /\ UNCHANGED <<table, pending>>

\* Mutant: executemany outside a transaction.
CopyInParts ==
  /\ pc = "insert" /\ kind = "postgres"
  /\ \/ Fits(batch) /\ stored' = stored \o Kept(batch) /\ Return
     \/ Fits(batch) /\ stored' = stored \o SubSeq(Kept(batch), 1, 1) /\ Fail
  /\ UNCHANGED <<table, pending, txn>>

\* postgres: one COPY or transaction; its outcome may be lost with the connection.
Copy ==
  /\ pc = "insert" /\ kind = "postgres"
  /\ \/ Fits(batch) /\ stored' = stored \o Kept(batch) /\ Return
     \/ /\ stored' \in {stored} \cup (IF Fits(batch) THEN {stored \o Kept(batch)} ELSE {})
        /\ Fail
  /\ UNCHANGED <<table, pending, txn>>

\* A write that is cancelled before its worker thread starts; postgres' await
\* is the whole of Copy.
Cancel ==
  /\ pc = "insert" /\ kind = "sqlite"
  /\ Fail
  /\ UNCHANGED disk

----------------------------------------------------------------------------
\* csv and jsonl: a file whose buffer cannot be flushed keeps its handle.
CloseFile ==
  /\ kind \in {"csv", "jsonl"}
  /\ \/ /\ stored' = stored \o pending
        /\ handle' = "none" /\ ready' = FALSE
     \/ /\ \E n \in 0..Len(pending) : stored' = stored \o SubSeq(pending, 1, n)
        /\ handle' = "dead" /\ UNCHANGED ready
  /\ pending' = <<>>
  /\ UNCHANGED <<txn, fate>>

\* sqlite: the transaction that is open goes with its connection.
CloseSqlite ==
  /\ kind = "sqlite"
  /\ handle' = "none" /\ txn' = <<>>
  /\ UNCHANGED <<ready, stored, pending, fate>>

\* parquet: the footer makes the file readable; without it every row is dropped.
CloseParquet ==
  /\ kind = "parquet"
  /\ ready' = FALSE
  /\ pending' = <<>>
  /\ \/ stored' = stored \o pending /\ handle' = "none" /\ UNCHANGED fate
     \/ /\ ready
        /\ fate' = [i \in Samples |->
             IF fate[i] = "acked" /\ i \in Named(pending) THEN "dropped" ELSE fate[i]]
        /\ UNCHANGED <<stored, handle>>
  /\ UNCHANGED txn

ClosePostgres == kind = "postgres" /\ handle' = "none" /\ UNCHANGED <<ready, stored, pending, txn, fate>>
CloseMemory   == kind = "memory" /\ handle' = "none" /\ UNCHANGED <<ready, stored, pending, txn, fate>>

CloseHandle ==
  /\ scars' = scars \cup {"closed"}
  /\ CloseFile \/ CloseSqlite \/ CloseParquet \/ ClosePostgres \/ CloseMemory
  /\ UNCHANGED <<kind, create, schema, table, opens, pc, batch, raised>>

Close == pc = "idle" /\ handle = "open" /\ CloseHandle

\* The second close of a file that the first could not flush.
CloseDead ==
  /\ pc = "idle" /\ handle = "dead"
  /\ handle' = "none" /\ ready' = FALSE
  /\ UNCHANGED <<kind, create, schema, scars, pc, batch, raised, opens, disk, fate>>

\* The process dies and the program is started again with a new sink. What
\* the memory sink and a parquet file without its footer hold is gone.
Crash ==
  /\ opens < MaxOpens
  /\ handle' = "none" /\ schema' = Unlocked /\ ready' = FALSE /\ scars' = {}
  /\ pc' = "idle" /\ batch' = <<>> /\ raised' = "no"
  /\ pending' = <<>> /\ txn' = <<>>
  /\ \E done \in CASE kind = "postgres" /\ pc = "insert" /\ Fits(batch) -> {<<>>, Kept(batch)}
                   [] pc = "commit" -> {<<>>, txn}
                   [] OTHER -> {<<>>} :
       stored' = stored \o done
  /\ fate' = [i \in Samples |->
       CASE fate[i] = "under way" -> "cut off"
         [] fate[i] = "acked" /\ kind \in {"memory", "parquet"}
              /\ i \in Named(pending) -> "lost"
         [] OTHER -> fate[i]]
  /\ UNCHANGED <<kind, create, opens, table>>

Step ==
  \/ IntrospectSqlite \/ IntrospectPostgres
  \/ CreateSqlite \/ CreatePostgres \/ OpenWriter
  \/ Flush \/ Remember \/ WriteTable \/ Insert \/ Commit \/ Copy \/ Cancel

Call == Open \/ Write \/ Close \/ CloseDead

----------------------------------------------------------------------------
IsRows(rows) ==
  \A i \in DOMAIN rows :
    /\ rows[i].id \in Samples
    /\ rows[i].cells \in [Columns -> {"float", "int", "str", "None"}]

(* Type correctness; a call is under way just when a sample is, or while   *)
(* open reads the table's columns, and a prepared statement or writer has  *)
(* a schema behind it.                                                     *)
TypeOK ==
  /\ kind \in Kinds /\ create \in BOOLEAN
  /\ handle \in {"none", "open", "dead"} /\ schema \in Schemas /\ table \in Schemas
  /\ ready \in BOOLEAN /\ (ready => Locked)
  /\ pc \in {"idle", "introspect", "create", "insert", "commit"}
  /\ raised \in {"no", "error", "assert"}
  /\ scars \subseteq {"introspect", "create", "closed"}
  /\ opens \in 0..MaxOpens
  /\ IsRows(batch) /\ IsRows(stored) /\ IsRows(pending) /\ IsRows(txn)
  /\ fate \in [Samples -> {"unwritten", "under way", "acked", "raised", "cut off", "overwritten", "dropped", "lost"}]
  /\ pc \in {"create", "insert", "commit"} <=> \E i \in Samples : fate[i] = "under way"

(* Once write_many has returned, its samples are in the file or table, and *)
(* stay there through later failures, retries, closes and crashes, in the  *)
(* order they were written but for repeats of a batch that is written      *)
(* again. Exceptions: a file opened again is overwritten, and parquet and  *)
(* memory keep nothing of a process that dies.                             *)
AckedIsHeld ==
  /\ TypeOK
  /\ \A i \in Samples :
       fate[i] = "acked" => Times(i, IF kind \in {"memory", "parquet"} THEN Held ELSE stored) >= 1
  /\ \A n \in DOMAIN Held : \A m \in 1..(n - 1) :
       Held[m].id > Held[n].id => \E k \in 1..(m - 1) : Held[k].id = Held[n].id
  /\ \A i \in Samples : fate[i] \in {"lost", "dropped"} => kind \in {"memory", "parquet"}

(* A batch whose write_many raised has left no row behind in sqlite, so it *)
(* can be written again without a duplicate. csv, jsonl and postgres may   *)
(* hold rows of a batch that raised: the flush or the acknowledgement      *)
(* failed after them.                                                      *)
RaisedIsAbsent ==
  /\ kind = "sqlite" => \A i \in Samples : fate[i] \in {"raised", "under way"} => Times(i, stored) = 0
  /\ kind \in {"sqlite", "memory"} => \A i \in Samples : Times(i, Held) <= 1

(* In the databases a batch arrives whole or not at all, whatever fails    *)
(* inside it; only the file sinks grow by a part of one.                   *)
BatchesWhole ==
  [][(kind \in Databases /\ stored' # stored) => Ids(stored') = Ids(stored) \o Ids(batch)]_vars

(* The sink's own assertions (a statement or writer is there once the      *)
(* schema is locked) fail only on an object whose first create or          *)
(* introspection failed, or on a parquet sink that was closed before.      *)
AssertionsExplained ==
  raised = "assert" =>
    \/ "create" \in scars
    \/ kind = "postgres" /\ "introspect" \in scars
    \/ kind = "parquet" /\ "closed" \in scars
=============================================================================

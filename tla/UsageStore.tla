------------------------------ MODULE UsageStore ------------------------------
(***************************************************************************)
(* The usage store: handlers enqueue a record without ever waiting, one    *)
(* goroutine inserts them into SQLite, a request row and then one row per  *)
(* attempt, in statements of their own whose errors are ignored.           *)
(***************************************************************************)
EXTENDS Integers, Sequences

CONSTANT QueueCap \* capacity of the queue: 1024 in the code

ASSUME UsageStoreAssumption == QueueCap \in Nat \ {0}

VARIABLES
  enabled, \* usage recording is on and the database opened, in this process
  queue,   \* records waiting for the writer
  writing, \* the record the writer is inserting, as a set of at most one
  rowNo,   \* the row it inserts next: 0 the request, i the i-th attempt
  rows,    \* the table requests: a set of records, one per request id
  tries    \* the table attempts: a set of <<request id, attempt index>>

usageVars == <<enabled, queue, writing, rowNo, rows, tries>>

UsageInit ==
  /\ enabled \in BOOLEAN
  /\ queue = <<>>
  /\ writing = {}
  /\ rowNo = 0
  /\ rows = {}
  /\ tries = {}

(* A mutant: the handler waits until the queue has room. *)
WaitsForRoom(rec) ==
  /\ Len(queue) < QueueCap
  /\ queue' = Append(queue, rec)
  /\ UNCHANGED <<enabled, writing, rowNo, rows, tries>>

(* RecordRequest: non-blocking, drops on full. *)
RecordRequest(rec) ==
  /\ queue' = IF enabled /\ Len(queue) < QueueCap THEN Append(queue, rec) ELSE queue
  /\ UNCHANGED <<enabled, writing, rowNo, rows, tries>>

WriterTakes ==
  /\ writing = {}
  /\ queue # <<>>
  /\ writing' = {Head(queue)}
  /\ rowNo' = 0
  /\ queue' = Tail(queue)
  /\ UNCHANGED <<enabled, rows, tries>>

(* One Exec of insert: row 0 goes to requests, the others to attempts.     *)
(* INSERT OR REPLACE keeps one row per key.  An Exec may fail; the writer  *)
(* then goes on with the next row.                                         *)
InsertRow(rec) ==
  /\ rec \in writing
  /\ \/ UNCHANGED <<rows, tries>>
     \/ /\ rowNo = 0
        /\ rows' = {row \in rows : row.req # rec.req} \cup {rec}
        /\ UNCHANGED tries
     \/ /\ rowNo > 0
        /\ tries' = tries \cup {<<rec.req, rowNo>>}
        /\ UNCHANGED rows
  /\ writing' = IF rowNo = rec.attempts THEN {} ELSE writing
  /\ rowNo' = IF rowNo = rec.attempts THEN 0 ELSE rowNo + 1
  /\ UNCHANGED <<enabled, queue>>

(* Close does not wait for the queue, and a crash waits for nothing: what  *)
(* the next process finds is the database.                                 *)
CloseAndReopen ==
  /\ enabled' \in BOOLEAN
  /\ queue' = <<>>
  /\ writing' = {}
  /\ rowNo' = 0
  /\ UNCHANGED <<rows, tries>>
=============================================================================

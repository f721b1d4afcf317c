------------------------------ MODULE Ingestion ------------------------------
(***************************************************************************)
(* Extraction of source objects into the raw store (ingestion/service.py,  *)
(* ingestion/store.py, the extract handler of main.py) from an incremental *)
(* table (connectors/postgresql.py).                                       *)
(*                                                                         *)
(* The handler is a coroutine: it gives the event loop of its process away *)
(* only while the connector extracts, so requests of one process interleave*)
(* there only, but files, a flush and two commits follow each other and    *)
(* the process may die between any two of them, and the database refuse    *)
(* any of the statements.  The API and the demo script are processes of    *)
(* their own over one database and one raw store.                          *)
(***************************************************************************)
EXTENDS Naturals, FiniteSets

CONSTANTS Objects,    \* the tables of one source system
          Requests,   \* calls of IngestionService.extract; each makes one run
          Processes,
          ProcessOf,  \* the process a request runs in
          LastRow,    \* bound: a table has at most this many rows
          Value,      \* row -> its value of the incremental field
          MaxRows,    \* options.max_rows
          Faulty,     \* requests whose statements the database may refuse, or
                      \* perform and not answer
          None

ASSUME IngestionAssumption ==
    /\ ProcessOf \in [Requests -> Processes]
    /\ LastRow \in Nat /\ MaxRows \in Nat \ {0}
    /\ Value \in [1..LastRow -> 1..LastRow]
    /\ \A m, n \in 1..LastRow : m <= n => Value[m] <= Value[n]
    /\ Faulty \subseteq Requests
    /\ None \notin Requests \cup Objects
    /\ None \notin {"running", "succeeded", "failed"}

VARIABLES
    rows,      \* object -> number of rows in the source table
    runs,      \* request -> its row of ingestion_runs
    snapshots, \* raw_snapshots
    payloads, manifests,  \* files of the raw store
    audit,     \* runs with an ingestion.completed event
    loop,      \* process -> the request its event loop is running
    req        \* request -> where it is and what it carries

vars == <<rows, runs, snapshots, payloads, manifests, audit, loop, req>>

\* Rows are numbered as they are inserted; a later one has no smaller value,
\* but may have an equal one.  A batch is the set of its rows and stands for
\* the content and its checksum.
Contents == SUBSET (1..LastRow)

\* cursor 0 is no cursor: {}, or {"value": None} after an empty batch
Run == [status : {None, "running", "succeeded", "failed"},
        cursor : 0..LastRow, attempt : Nat]

Snapshot == [run : Requests, object : Objects, content : Contents]

Synchronous == {"started", "batch", "payload", "stored", "reuse", "insert", "flushed",
                "committed"}
Ended == {"refused", "unbuilt", "error", "ok", "dead"}

\* lineal: the run was resumed, if at all, from runs of the same object
Request == [pc : {"free", "extracting", "done"} \cup Synchronous \cup Ended,
            object : Objects \cup {None}, batch : Contents, reused : BOOLEAN,
            lineal : BOOLEAN]

TypeOK ==
    /\ rows \in [Objects -> 0..LastRow]
    /\ runs \in [Requests -> Run]
    /\ snapshots \subseteq Snapshot
    /\ payloads \subseteq Objects \X Contents
    /\ manifests \subseteq Objects \X Contents
    /\ audit \subseteq Requests
    /\ loop \in [Processes -> Requests \cup {None}]
    /\ req \in [Requests -> Request]

NoRun == [status |-> None, cursor |-> 0, attempt |-> 0]

Init ==
    /\ rows = [o \in Objects |-> 0]
    /\ runs = [q \in Requests |-> NoRun]
    /\ snapshots = {} /\ payloads = {} /\ manifests = {} /\ audit = {}
    /\ loop = [p \in Processes |-> None]
    /\ req = [q \in Requests |-> [pc |-> "free", object |-> None, batch |-> {},
                                  reused |-> FALSE, lineal |-> TRUE]]

\* Mutant: requests served by threads instead of the event loop.
MayRunInThread(q) == TRUE

\* The event loop is free, or already running q.
MayRun(q) == loop[ProcessOf[q]] \in {None, q}

Hold(q) == [loop EXCEPT ![ProcessOf[q]] = q]
GiveWay(q) == [loop EXCEPT ![ProcessOf[q]] = None]

Location(q) == <<req[q].object, req[q].batch>>

-----------------------------------------------------------------------------
\* The source table is written by others.
Grow(o) ==
    /\ rows[o] < LastRow
    /\ rows' = [rows EXCEPT ![o] = @ + 1]
    /\ UNCHANGED <<runs, snapshots, payloads, manifests, audit, loop, req>>

\* An unknown source or object, or a run to resume of another source.
Refuse(q) ==
    /\ req[q].pc = "free" /\ MayRun(q)
    /\ req' = [req EXCEPT ![q].pc = "refused"]
    /\ UNCHANGED <<rows, runs, snapshots, payloads, manifests, audit, loop>>

\* The run row is committed with the cursor of the run it resumes, whatever
\* the status of that run and the object it was about.
Start(q, o, previous) ==
    /\ req[q].pc = "free" /\ MayRun(q)
    /\ previous # None => runs[previous].status # None
    /\ runs' = [runs EXCEPT ![q] =
                  [status |-> "running",
                   cursor |-> IF previous = None THEN 0 ELSE runs[previous].cursor,
                   attempt |-> IF previous = None THEN 1
                               ELSE runs[previous].attempt + 1]]
    /\ req' = [req EXCEPT ![q].pc = "started", ![q].object = o,
                          ![q].lineal = \/ previous = None
                                        \/ /\ req[previous].object = o
                                           /\ req[previous].lineal]
    /\ loop' = Hold(q)
    /\ UNCHANGED <<rows, snapshots, payloads, manifests, audit>>

\* build_connector raises outside the try block.
BuildFails(q) ==
    /\ req[q].pc = "started" /\ MayRun(q)
    /\ req' = [req EXCEPT ![q].pc = "unbuilt"]
    /\ loop' = GiveWay(q)
    /\ UNCHANGED <<rows, runs, snapshots, payloads, manifests, audit>>

\* await connector.extract(...)
Build(q) ==
    /\ req[q].pc = "started" /\ MayRun(q)
    /\ req' = [req EXCEPT ![q].pc = "extracting"]
    /\ loop' = GiveWay(q)
    /\ UNCHANGED <<rows, runs, snapshots, payloads, manifests, audit>>

Unread(q) == {n \in 1..rows[req[q].object] : Value[n] > runs[q].cursor}

\* SELECT ... WHERE field > cursor ORDER BY field LIMIT max_rows: which of
\* several rows with the last value are returned is up to the database.
Batches(q) ==
    {batch \in SUBSET Unread(q) :
        /\ Cardinality(batch) <= MaxRows
        /\ batch # Unread(q) => Cardinality(batch) = MaxRows
        /\ \A m \in batch, n \in Unread(q) \ batch : Value[m] <= Value[n]}

\* The value of the last row, or none
CursorOf(batch) ==
    IF batch = {} THEN 0
    ELSE CHOOSE v \in {Value[n] : n \in batch} : \A n \in batch : Value[n] <= v

Extract(q) ==
    /\ req[q].pc = "extracting" /\ MayRun(q)
    /\ \E batch \in Batches(q) :
           req' = [req EXCEPT ![q].pc = "batch", ![q].batch = batch]
    /\ loop' = Hold(q)
    /\ UNCHANGED <<rows, runs, snapshots, payloads, manifests, audit>>

\* Any exception of the connector: the run is committed as failed and keeps
\* the cursor it started from.
ExtractFails(q) ==
    /\ req[q].pc = "extracting" /\ MayRun(q)
    /\ runs' = [runs EXCEPT ![q].status = "failed"]
    /\ req' = [req EXCEPT ![q].pc = "error"]
    /\ UNCHANGED <<rows, snapshots, payloads, manifests, audit, loop>>

-----------------------------------------------------------------------------
(* RawSnapshotStore.store *)

\* Written under a temporary name and renamed, unless the file is there.
StorePayload(q) ==
    /\ req[q].pc = "batch" /\ MayRun(q)
    /\ payloads' = payloads \cup {Location(q)}
    /\ req' = [req EXCEPT ![q].pc = "payload",
                          ![q].reused = Location(q) \in payloads]
    /\ UNCHANGED <<rows, runs, snapshots, manifests, audit, loop>>

\* Mutant: a payload that is there is taken for a complete snapshot.
StoreManifestIfNew(q) ==
    /\ req[q].pc = "payload" /\ MayRun(q)
    /\ manifests' = IF req[q].reused THEN manifests
                    ELSE manifests \cup {Location(q)}
    /\ req' = [req EXCEPT ![q].pc = "stored"]
    /\ UNCHANGED <<rows, runs, snapshots, payloads, audit, loop>>

\* The manifest has a check of its own.
StoreManifest(q) ==
    /\ req[q].pc = "payload" /\ MayRun(q)
    /\ manifests' = manifests \cup {Location(q)}
    /\ req' = [req EXCEPT ![q].pc = "stored"]
    /\ UNCHANGED <<rows, runs, snapshots, payloads, audit, loop>>

\* Mutant: the cursor is advanced before the batch is stored.
StoreFailsAdvancing(q) ==
    /\ req[q].pc \in {"batch", "payload"} /\ MayRun(q)
    /\ runs' = [runs EXCEPT ![q].status = "failed",
                            ![q].cursor = CursorOf(req[q].batch)]
    /\ req' = [req EXCEPT ![q].pc = "error"]
    /\ loop' = GiveWay(q)
    /\ UNCHANGED <<rows, snapshots, payloads, manifests, audit>>

\* The file system refuses: unexpected_connector_failure.
StoreFails(q) ==
    /\ req[q].pc \in {"batch", "payload"} /\ MayRun(q)
    /\ runs' = [runs EXCEPT ![q].status = "failed"]
    /\ req' = [req EXCEPT ![q].pc = "error"]
    /\ loop' = GiveWay(q)
    /\ UNCHANGED <<rows, snapshots, payloads, manifests, audit>>

-----------------------------------------------------------------------------
(* The snapshot row and the end of the run *)

\* Another transaction has inserted the same key and not ended.
Pending(q) == \E p \in Requests \ {q} :
                 req[p].pc = "flushed" /\ Location(p) = Location(q)

InTable(q) ==
    \E s \in snapshots : s.object = req[q].object /\ s.content = req[q].batch

\* Mutant: a row that is only being inserted is taken for a recorded one.
RecordedOrPending(q) == InTable(q) \/ Pending(q)

\* SELECT from raw_snapshots by object and checksum
Recorded(q) == InTable(q)

SelectSnapshot(q) ==
    /\ req[q].pc = "stored" /\ MayRun(q)
    /\ req' = [req EXCEPT ![q].pc = IF Recorded(q) THEN "reuse" ELSE "insert"]
    /\ UNCHANGED <<rows, runs, snapshots, payloads, manifests, audit, loop>>

\* Mutant: the handler awaits between its insert and the commit.
FlushAwaiting(q) ==
    /\ req[q].pc = "insert" /\ MayRun(q)
    /\ ~Pending(q) /\ ~Recorded(q)
    /\ req' = [req EXCEPT ![q].pc = "flushed"]
    /\ loop' = GiveWay(q)
    /\ UNCHANGED <<rows, runs, snapshots, payloads, manifests, audit>>

\* INSERT under uq_snapshot_content; it waits for a pending one.
Flush(q) ==
    /\ req[q].pc = "insert" /\ MayRun(q)
    /\ ~Pending(q) /\ ~Recorded(q)
    /\ req' = [req EXCEPT ![q].pc = "flushed"]
    /\ UNCHANGED <<rows, runs, snapshots, payloads, manifests, audit, loop>>

\* The key is taken.  The handler for it commits on a session that the failed
\* flush has deactivated, which raises again: the run row is not written.
FlushFails(q) ==
    /\ req[q].pc = "insert" /\ MayRun(q)
    /\ ~Pending(q) /\ Recorded(q)
    /\ req' = [req EXCEPT ![q].pc = "error"]
    /\ loop' = GiveWay(q)
    /\ UNCHANGED <<rows, runs, snapshots, payloads, manifests, audit>>

\* One commit for the snapshot row and the run.
CommitRun(q) ==
    /\ req[q].pc \in {"reuse", "flushed"} /\ MayRun(q)
    /\ snapshots' = IF req[q].pc = "reuse" THEN snapshots
                    ELSE snapshots \cup {[run |-> q, object |-> req[q].object,
                                          content |-> req[q].batch]}
    /\ runs' = [runs EXCEPT ![q].status = "succeeded",
                            ![q].cursor = CursorOf(req[q].batch)]
    /\ UNCHANGED <<rows, payloads, manifests, audit>>

Succeed(q) ==
    /\ CommitRun(q)
    /\ req' = [req EXCEPT ![q].pc = "committed"]
    /\ UNCHANGED loop

\* The snapshot is read again and the connector closed, which awaits.
Close(q) ==
    /\ req[q].pc = "committed" /\ MayRun(q)
    /\ req' = [req EXCEPT ![q].pc = "done"]
    /\ loop' = GiveWay(q)
    /\ UNCHANGED <<rows, runs, snapshots, payloads, manifests, audit>>

\* A commit of its own, by the handler of the request
RecordAudit(q) ==
    /\ req[q].pc = "done" /\ MayRun(q)
    /\ audit' = audit \cup {q}
    /\ req' = [req EXCEPT ![q].pc = "ok"]
    /\ UNCHANGED <<rows, runs, snapshots, payloads, manifests, loop>>

-----------------------------------------------------------------------------
(* Statements the database refuses: none is retried and no session is rolled *)
(* back before the handler of the exception commits on it.                    *)

Broken(q) ==
    /\ q \in Faulty /\ MayRun(q)
    /\ req' = [req EXCEPT ![q].pc = "error"]
    /\ loop' = GiveWay(q)
    /\ UNCHANGED <<rows, payloads, manifests>>

\* The refresh of the new run, outside the try block; the commit of a handler;
\* or a lookup, a flush or a commit inside the block, whose handler then
\* commits on a session, or a transaction, that is no longer usable.  The run
\* row, and a pending insert, is as it was.
StatementFails(q) ==
    /\ req[q].pc \in {"extracting", "done"} \cup Synchronous
    /\ Broken(q)
    /\ UNCHANGED <<runs, snapshots, audit>>

\* A lookup of the snapshot, before or after the commit, raises and leaves the
\* session usable (SQLite): the handler records the failure, also of a run
\* that has succeeded.
LookupFails(q) ==
    /\ req[q].pc \in {"stored", "committed"}
    /\ Broken(q)
    /\ runs' = [runs EXCEPT ![q].status = "failed"]
    /\ UNCHANGED <<snapshots, audit>>

\* The commit is performed and its answer lost; the handler's own commit
\* raises on the ended transaction.
CommitUnanswered(q) == CommitRun(q) /\ Broken(q)

AuditUnanswered(q) ==
    /\ req[q].pc = "done"
    /\ Broken(q)
    /\ audit' = audit \cup {q}
    /\ UNCHANGED <<runs, snapshots>>

DatabaseFails(q) ==
    \/ StatementFails(q) \/ LookupFails(q)
    \/ CommitUnanswered(q) \/ AuditUnanswered(q)

-----------------------------------------------------------------------------
\* The process dies with its requests; open transactions are rolled back.
Crash(p) ==
    /\ \E q \in Requests : ProcessOf[q] = p /\ req[q].pc \notin {"free"} \cup Ended
    /\ req' = [q \in Requests |->
                 IF ProcessOf[q] = p /\ req[q].pc \notin {"free"} \cup Ended
                 THEN [req[q] EXCEPT !.pc = "dead"] ELSE req[q]]
    /\ loop' = [loop EXCEPT ![p] = None]
    /\ UNCHANGED <<rows, runs, snapshots, payloads, manifests, audit>>

-----------------------------------------------------------------------------
Proceed(q) ==
    \/ BuildFails(q) \/ Build(q) \/ Extract(q) \/ ExtractFails(q)
    \/ StorePayload(q) \/ StoreManifest(q) \/ StoreFails(q)
    \/ SelectSnapshot(q) \/ Flush(q) \/ FlushFails(q)
    \/ Succeed(q) \/ Close(q) \/ RecordAudit(q)

Next ==
    \/ \E o \in Objects : Grow(o)
    \/ \E q \in Requests : Refuse(q)
    \/ \E q \in Requests, o \in Objects, previous \in Requests \cup {None} :
           Start(q, o, previous)
    \/ \E q \in Requests : Proceed(q) \/ DatabaseFails(q)
    \/ \E p \in Processes : Crash(p)

Spec == Init /\ [][Next]_vars

-----------------------------------------------------------------------------
(* Properties *)

\* The content of an object is recorded once.  A snapshot row always has its
\* payload and its manifest in the raw store, although a crash may leave a
\* payload without one, and belongs to a run that succeeded: a failed, stuck or
\* dead run leaves no row, except that the run is recorded as failed when the
\* snapshot cannot be read again after the commit.
SnapshotsBacked ==
    /\ \A s, t \in snapshots :
           s.object = t.object /\ s.content = t.content => s = t
    /\ \A s \in snapshots :
           /\ <<s.object, s.content>> \in payloads \cap manifests
           /\ \/ runs[s.run].status = "succeeded"
              \/ s.run \in Faulty /\ runs[s.run].status = "failed"

\* The tables and files are well typed and every snapshot is backed.
SnapshotsSound == TypeOK /\ SnapshotsBacked

\* After a run that only resumed runs of its own object, the rows up to its
\* cursor are in snapshots: no failure, crash or resubmission skips a batch.  A
\* row is missed only where another with the same value was taken: max_rows may
\* cut between the two, or the second be inserted after the first was read.
ResumeSkipsNothing ==
    \A q \in Requests :
        runs[q].status # None /\ req[q].lineal =>
            \A n \in 1..LastRow :
                Value[n] <= runs[q].cursor =>
                    \E s \in snapshots :
                        /\ s.object = req[q].object
                        /\ \E m \in s.content : Value[m] = Value[n]

\* A run that succeeded has a snapshot of the content it extracted, its own or
\* an earlier one of the same object, and only such runs are audited.
SuccessIsTrue ==
    /\ \A q \in Requests :
           runs[q].status = "succeeded" =>
               \E s \in snapshots :
                   s.object = req[q].object /\ s.content = req[q].batch
    /\ \A q \in audit : runs[q].status = "succeeded"

\* A run whose extraction was answered with an error is recorded as failed
\* (asserted by tests/integration/test_ingestion_service.py).
ExtractionErrorIsRecorded ==
    \A q \in Requests : req[q].pc = "error" => runs[q].status = "failed"

\* A request that has ended leaves its run "running" in four cases only: its
\* process died, the connector could not be built, the database refused one of
\* its statements, or another process recorded the same content between the
\* lookup of a snapshot and its insertion.  Runs of one process cannot get
\* there, because no await separates the two.
RunningIsExplained ==
    \A q \in Requests \ Faulty :
        (req[q].pc \in Ended /\ runs[q].status = "running") =>
            \/ req[q].pc \in {"dead", "unbuilt"}
            \/ \E s \in snapshots : /\ <<s.object, s.content>> = Location(q)
                                    /\ ProcessOf[s.run] # ProcessOf[q]

\* An insert that waits for the uncommitted insert of another request blocks its
\* own event loop meanwhile, yet nobody waits in a circle: the request waited
\* for has the loop of its process and goes on to its commit.
NoCircularWait ==
    \A p, q \in Requests :
        /\ req[q].pc = "insert" /\ loop[ProcessOf[q]] = q
        /\ req[p].pc = "flushed" /\ Location(p) = Location(q)
        => MayRun(p)
==============================================================================

--------------------------- MODULE IngestionProofs ---------------------------
(***************************************************************************)
(* Safety of ingestion for any number of requests, processes, objects and  *)
(* rows, any batch size and any values of the incremental field.  What     *)
(* makes the properties inductive is the discipline of the event loop      *)
(* (LoopInv): between its awaits a request is alone in its process, so a   *)
(* snapshot it did not find can only be inserted by another process.       *)
(***************************************************************************)
EXTENDS Ingestion, Integers, WellFoundedInduction, TLAPS

\* A request between two awaits has the event loop of its process, and a loop
\* that is taken is taken by such a request.
LoopInv ==
    /\ \A q \in Requests : req[q].pc \in Synchronous => loop[ProcessOf[q]] = q
    /\ \A p \in Processes : loop[p] # None =>
           req[loop[p]].pc \in Synchronous /\ ProcessOf[loop[p]] = p

\* What the run row says at each point of its request.
RunInv ==
    \A q \in Requests :
        /\ req[q].pc \in {"free", "refused"} <=> runs[q].status = None
        /\ req[q].pc \notin {"free", "refused"} => req[q].object \in Objects
        /\ req[q].pc \in {"extracting", "unbuilt"} \cup (Synchronous \ {"committed"}) =>
               runs[q].status = "running"
        /\ req[q].pc \in {"committed", "done", "ok"} => runs[q].status = "succeeded"
        /\ q \in audit => req[q].pc \in {"ok", "error"}

\* What a request has stored, or found in the table, at each point.
FileInv ==
    \A q \in Requests :
        /\ req[q].pc \in {"payload", "stored", "reuse", "insert", "flushed"} =>
               Location(q) \in payloads
        /\ req[q].pc \in {"stored", "reuse", "insert", "flushed"} =>
               Location(q) \in manifests
        /\ req[q].pc = "reuse" => InTable(q)

\* A request with a batch that is not yet recorded.
Carrying == Synchronous \ {"started", "committed"}

\* A batch has a row for every value between the cursor it was read from and
\* the one it leads to, whatever was inserted since.
BatchInv ==
    \A q \in Requests :
        req[q].pc \in Carrying =>
            \A n \in 1..LastRow :
                (runs[q].cursor < Value[n] /\ Value[n] <= CursorOf(req[q].batch)) =>
                    \E m \in req[q].batch : Value[m] = Value[n]

\* While a request that found no snapshot of its content is about to insert
\* one, only another process can have inserted it.
InsertInv ==
    \A q \in Requests :
        req[q].pc = "insert" =>
            \A s \in snapshots :
                (s.object = req[q].object /\ s.content = req[q].batch) =>
                    ProcessOf[s.run] # ProcessOf[q]

\* A pending insert is the only one of its content, which no row has.
FlushInv ==
    \A q \in Requests : req[q].pc = "flushed" => ~Pending(q) /\ ~InTable(q)

\* The inductive invariant: the properties and what carries them along.
IInv ==
    /\ TypeOK /\ LoopInv /\ RunInv /\ FileInv /\ BatchInv /\ InsertInv
    /\ FlushInv /\ SnapshotsBacked /\ SuccessIsTrue /\ ResumeSkipsNothing /\ RunningIsExplained
-----------------------------------------------------------------------------
USE DEF Synchronous, Ended, Carrying

\* Every nonempty set of naturals has a least element.
LEMMA HasLeast ==
    ASSUME NEW S \in SUBSET Nat, S # {}
    PROVE  \E x \in S : \A y \in S : x <= y
  <1> DEFINE R == OpToRel(<, Nat)
  <1>1. PICK x \in S : \A y \in S : <<y, x>> \notin R
    <2>1. IsWellFoundedOn(R, Nat)
      BY NatLessThanWellFounded
    <2> HIDE DEF R
    <2> QED
      BY <2>1, WFMin
  <1>2. \A y \in S : <<y, x>> \in Nat \X Nat
    OBVIOUS
  <1>3. \A y \in S : ~(y < x)
    BY <1>1, <1>2 DEF OpToRel
  <1> QED
    BY <1>3

\* The cursor of a batch (postgresql.py, the value of its last row) is the
\* greatest value of its rows, and 0 for an empty batch.
LEMMA CursorIsGreatest ==
    ASSUME NEW batch \in SUBSET (1..LastRow)
    PROVE  /\ CursorOf(batch) \in 0..LastRow
           /\ batch = {} => CursorOf(batch) = 0
           /\ batch # {} => /\ \E n \in batch : CursorOf(batch) = Value[n]
                            /\ \A n \in batch : Value[n] <= CursorOf(batch)
  <1>a. LastRow \in Nat /\ \A n \in batch : Value[n] \in 1..LastRow
    BY IngestionAssumption
  <1>b. LastRow \in Int /\ \A n \in batch : Value[n] \in Int
    BY <1>a
  <1>1. CASE batch = {}
    BY <1>1, <1>a DEF CursorOf
  <1>2. CASE batch # {}
    <2> DEFINE Left == {LastRow - Value[n] : n \in batch}
    <2>1. Left \in SUBSET Nat /\ Left # {}
      <3>1. \A v \in 1..LastRow : LastRow - v \in Nat
        BY <1>a
      <3> QED
        BY <1>2, <1>a, <3>1
    <2>2. PICK x \in Left : \A y \in Left : x <= y
      BY <2>1, HasLeast
    <2>3. PICK n \in batch : x = LastRow - Value[n]
      BY <2>2
    <2>4. \A m \in batch : Value[m] <= Value[n]
      <3> SUFFICES ASSUME NEW m \in batch PROVE Value[m] <= Value[n]
        OBVIOUS
      <3>1. LastRow - Value[n] <= LastRow - Value[m]
        BY <2>2, <2>3
      <3>2. LastRow \in Int /\ Value[m] \in Int /\ Value[n] \in Int
        BY <1>b
      <3>3. \A a, b, c \in Int : c - a <= c - b => b <= a
        OBVIOUS
      <3> QED
        BY <3>1, <3>2, <3>3
    <2>5. \E v \in {Value[m] : m \in batch} : \A m \in batch : Value[m] <= v
      BY <2>4
    <2>6. CursorOf(batch) = CHOOSE v \in {Value[m] : m \in batch} : \A m \in batch : Value[m] <= v
      BY <1>2 DEF CursorOf
    <2>7. /\ CursorOf(batch) \in {Value[m] : m \in batch}
          /\ \A m \in batch : Value[m] <= CursorOf(batch)
      BY <2>5, <2>6
    <2> QED
      BY <1>2, <1>a, <2>7
  <1> QED
    BY <1>1, <1>2

\* The initial state: no run, no file, no row, all loops free.
LEMMA InitIInv == Init => IInv
  <1> SUFFICES ASSUME Init PROVE IInv
    OBVIOUS
  <1> USE IngestionAssumption DEF Init
  <1>1. TypeOK
    <2>1. runs \in [Requests -> Run]
      BY DEF Run, NoRun
    <2>2. req \in [Requests -> Request]
      BY DEF Request, Contents
    <2>3. rows \in [Objects -> 0..LastRow]
      OBVIOUS
    <2> QED
      BY <2>1, <2>2, <2>3 DEF TypeOK
  <1>2. LoopInv /\ RunInv /\ FileInv /\ BatchInv /\ InsertInv /\ FlushInv
    BY DEF LoopInv, RunInv, FileInv, BatchInv, InsertInv, FlushInv, NoRun
  <1>3. SnapshotsBacked /\ SuccessIsTrue /\ ResumeSkipsNothing /\ RunningIsExplained
    BY DEF SnapshotsBacked, SuccessIsTrue, ResumeSkipsNothing, RunningIsExplained, NoRun
  <1> QED
    BY <1>1, <1>2, <1>3 DEF IInv

\* Assignments to several fields of a request keep it well typed.
LEMMA RequestTyped ==
    ASSUME req \in [Requests -> Request], NEW q \in Requests
    PROVE  /\ \A o \in Objects, l \in BOOLEAN :
                [req EXCEPT ![q].pc = "started", ![q].object = o, ![q].lineal = l]
                  \in [Requests -> Request]
           /\ \A batch \in Contents :
                [req EXCEPT ![q].pc = "batch", ![q].batch = batch] \in [Requests -> Request]
           /\ \A r \in BOOLEAN :
                [req EXCEPT ![q].pc = "payload", ![q].reused = r] \in [Requests -> Request]
           /\ \A pc \in {"extracting", "done"} \cup Synchronous \cup Ended :
                [req EXCEPT ![q].pc = pc] \in [Requests -> Request]
  <1>1. ASSUME NEW o \in Objects, NEW l \in BOOLEAN
        PROVE  [req EXCEPT ![q].pc = "started", ![q].object = o, ![q].lineal = l]
                 \in [Requests -> Request]
    <2>1. [req[q] EXCEPT !.pc = "started", !.object = o, !.lineal = l] \in Request
      BY DEF Request
    <2>2. [req EXCEPT ![q].pc = "started", ![q].object = o, ![q].lineal = l]
            = [req EXCEPT ![q] = [req[q] EXCEPT !.pc = "started", !.object = o, !.lineal = l]]
      BY DEF Request
    <2> QED
      BY <2>1, <2>2
  <1>2. ASSUME NEW batch \in Contents
        PROVE  [req EXCEPT ![q].pc = "batch", ![q].batch = batch] \in [Requests -> Request]
    BY ZenonT(60) DEF Request
  <1>3. ASSUME NEW r \in BOOLEAN
        PROVE  [req EXCEPT ![q].pc = "payload", ![q].reused = r] \in [Requests -> Request]
    BY ZenonT(60) DEF Request
  <1>4. ASSUME NEW pc \in {"extracting", "done"} \cup Synchronous \cup Ended
        PROVE  [req EXCEPT ![q].pc = pc] \in [Requests -> Request]
    BY DEF Request
  <1> QED
    BY <1>1, <1>2, <1>3, <1>4

\* Every action keeps tables, files and requests well typed.
LEMMA TypePreserved == IInv /\ [Next]_vars => TypeOK'
  <1> SUFFICES ASSUME TypeOK, RunInv, [Next]_vars PROVE TypeOK'
    BY DEF IInv
  <1> USE DEF TypeOK, Request
  <1>1. ASSUME NEW o \in Objects, Grow(o) PROVE TypeOK'
    <2>1. rows' \in [Objects -> 0..LastRow]
      BY <1>1, IngestionAssumption DEF Grow
    <2> QED
      BY <1>1, <2>1 DEF Grow
  <1>2. ASSUME NEW q \in Requests, Refuse(q) PROVE TypeOK'
    BY <1>2 DEF Refuse
  <1>3. ASSUME NEW q \in Requests, NEW o \in Objects, NEW previous \in Requests \cup {None},
               Start(q, o, previous)
        PROVE  TypeOK'
    <2>1. runs' \in [Requests -> Run]
      <3> DEFINE cursor == IF previous = None THEN 0 ELSE runs[previous].cursor
                 attempt == IF previous = None THEN 1 ELSE runs[previous].attempt + 1
      <3>1. cursor \in 0..LastRow /\ attempt \in Nat
        BY IngestionAssumption DEF Run
      <3>2. runs' = [runs EXCEPT ![q] = [status |-> "running", cursor |-> cursor, attempt |-> attempt]]
        BY <1>3 DEF Start
      <3> HIDE DEF cursor, attempt
      <3> QED
        BY <3>1, <3>2 DEF Run
    <2>2. req' \in [Requests -> Request]
      <3> DEFINE lineal == previous = None \/ (req[previous].object = o /\ req[previous].lineal)
      <3>1. lineal \in BOOLEAN
        BY Zenon
      <3>2. req' = [req EXCEPT ![q].pc = "started", ![q].object = o, ![q].lineal = lineal]
        BY <1>3 DEF Start
      <3> HIDE DEF lineal, Request
      <3> QED
        BY <3>1, <3>2, RequestTyped
    <2> QED
      BY <1>3, <2>1, <2>2, IngestionAssumption DEF Start, Hold
  <1>4. ASSUME NEW q \in Requests, BuildFails(q) \/ Build(q) PROVE TypeOK'
    <2>1. PICK pc \in {"unbuilt", "extracting"} : req' = [req EXCEPT ![q].pc = pc]
      BY <1>4 DEF BuildFails, Build
    <2>2. req' \in [Requests -> Request]
      BY <2>1, RequestTyped
    <2> HIDE DEF Request
    <2> QED
      BY <1>4, <2>2 DEF BuildFails, Build, GiveWay
  <1>5. ASSUME NEW q \in Requests, Extract(q) PROVE TypeOK'
    <2>1. PICK batch \in Batches(q) :
            req' = [req EXCEPT ![q].pc = "batch", ![q].batch = batch]
      BY <1>5 DEF Extract
    <2>2. batch \in SUBSET (1..LastRow)
      <3>1. req[q].object \in Objects
        BY <1>5 DEF Extract, RunInv
      <3> QED
        BY <3>1, IngestionAssumption DEF Batches, Unread
    <2> QED
      BY <1>5, <2>1, <2>2, RequestTyped DEF Extract, Hold, Contents
  <1>6. ASSUME NEW q \in Requests, ExtractFails(q) \/ StoreFails(q) PROVE TypeOK'
    <2>1. runs' \in [Requests -> Run]
      <3>1. runs' = [runs EXCEPT ![q].status = "failed"]
        BY <1>6 DEF ExtractFails, StoreFails
      <3> QED
        BY <3>1 DEF Run
    <2> QED
      BY <1>6, <2>1 DEF ExtractFails, StoreFails, GiveWay
  <1>7. ASSUME NEW q \in Requests, StorePayload(q) PROVE TypeOK'
    <2>1. req' \in [Requests -> Request]
      <3> DEFINE reused == Location(q) \in payloads
      <3>1. reused \in BOOLEAN
        OBVIOUS
      <3>2. req' = [req EXCEPT ![q].pc = "payload", ![q].reused = reused]
        BY <1>7 DEF StorePayload
      <3> HIDE DEF reused, Request
      <3> QED
        BY <3>1, <3>2, RequestTyped
    <2>2. req[q].object \in Objects
      BY <1>7 DEF StorePayload, RunInv
    <2> QED
      BY <1>7, <2>1, <2>2 DEF StorePayload, Location
  <1>8. ASSUME NEW q \in Requests, StoreManifest(q) PROVE TypeOK'
    <2>1. req[q].object \in Objects
      BY <1>8 DEF StoreManifest, RunInv
    <2> QED
      BY <1>8, <2>1 DEF StoreManifest, Location
  <1>9. ASSUME NEW q \in Requests, SelectSnapshot(q) \/ Flush(q) \/ FlushFails(q) PROVE TypeOK'
    BY <1>9 DEF SelectSnapshot, Flush, FlushFails, GiveWay
  <1>10. ASSUME NEW q \in Requests, Succeed(q) \/ CommitUnanswered(q) PROVE TypeOK'
    <2>1. req[q].object \in Objects /\ CursorOf(req[q].batch) \in 0..LastRow
      BY <1>10, CursorIsGreatest DEF Succeed, CommitUnanswered, CommitRun, Broken, RunInv, Contents
    <2>2. snapshots' \subseteq Snapshot
      BY <1>10, <2>1 DEF Succeed, CommitUnanswered, CommitRun, Broken, Snapshot
    <2>3. runs' \in [Requests -> Run]
      <3>1. [runs[q] EXCEPT !.status = "succeeded", !.cursor = CursorOf(req[q].batch)] \in Run
        BY <2>1, ZenonT(60) DEF Run
      <3>2. runs' = [runs EXCEPT ![q] =
                       [runs[q] EXCEPT !.status = "succeeded", !.cursor = CursorOf(req[q].batch)]]
        BY <1>10 DEF Succeed, CommitUnanswered, CommitRun, Broken, Run
      <3> QED
        BY <3>1, <3>2
    <2> QED
      <3>1. CASE Succeed(q)
        BY <2>2, <2>3, <3>1, ZenonT(60) DEF Succeed, CommitRun
      <3>2. CASE CommitUnanswered(q)
        BY <2>2, <2>3, <3>2, ZenonT(60) DEF CommitUnanswered, CommitRun, Broken, GiveWay
      <3> QED
        BY <1>10, <3>1, <3>2
  <1>11. ASSUME NEW q \in Requests, RecordAudit(q) PROVE TypeOK'
    BY <1>11 DEF RecordAudit
  <1>12. ASSUME NEW p \in Processes, Crash(p) PROVE TypeOK'
    <2>1. \A q \in Requests : req'[q] \in Request
      BY <1>12 DEF Crash
    <2>2. req' \in [Requests -> Request]
      BY <1>12, <2>1 DEF Crash
    <2> HIDE DEF Request
    <2> QED
      BY <1>12, <2>2 DEF Crash
  <1>13. ASSUME NEW q \in Requests, Close(q) \/ StatementFails(q) \/ AuditUnanswered(q)
         PROVE  TypeOK'
    <2>1. PICK pc \in {"done", "error"} : req' = [req EXCEPT ![q].pc = pc]
      BY <1>13 DEF Close, StatementFails, AuditUnanswered, Broken
    <2>2. req' \in [Requests -> Request]
      BY <2>1, RequestTyped
    <2> HIDE DEF Request
    <2> QED
      BY <1>13, <2>2 DEF Close, StatementFails, AuditUnanswered, Broken, GiveWay
  <1>14. ASSUME NEW q \in Requests, LookupFails(q) PROVE TypeOK'
    <2>1. runs' \in [Requests -> Run]
      BY <1>14 DEF LookupFails, Run
    <2> QED
      <3>1. req' \in [Requests -> Request]
        BY <1>14, RequestTyped DEF LookupFails, Broken
      <3> HIDE DEF Request
      <3> QED
        BY <1>14, <2>1, <3>1 DEF LookupFails, Broken, GiveWay
  <1>15. CASE UNCHANGED vars
    BY <1>15 DEF vars
  <1> HIDE DEF TypeOK
  <1> QED
    BY <1>1, <1>2, <1>3, <1>4, <1>5, <1>6, <1>7, <1>8, <1>9, <1>10, <1>11, <1>12, <1>13,
       <1>14, <1>15, Zenon DEF Next, Proceed, DatabaseFails

\* What the commit of a run does, whether or not its answer arrives.
LEMMA CommitStep ==
    ASSUME TypeOK, NEW q \in Requests, Succeed(q) \/ CommitUnanswered(q)
    PROVE  /\ req[q].pc \in {"reuse", "flushed"}
           /\ req'[q].pc \in {"committed", "error"}
           /\ \A r \in Requests : /\ req'[r].object = req[r].object
                                  /\ req'[r].batch = req[r].batch
                                  /\ req'[r].lineal = req[r].lineal
           /\ \A r \in Requests \ {q} : req'[r] = req[r] /\ runs'[r] = runs[r]
           /\ runs'[q].status = "succeeded" /\ runs'[q].cursor = CursorOf(req[q].batch)
           /\ snapshots' = IF req[q].pc = "reuse" THEN snapshots
                           ELSE snapshots \cup {[run |-> q, object |-> req[q].object,
                                                 content |-> req[q].batch]}
           /\ payloads' = payloads /\ manifests' = manifests /\ audit' = audit
  <1>1. CommitRun(q)
    BY DEF Succeed, CommitUnanswered
  <1>2. PICK pc \in {"committed", "error"} : req' = [req EXCEPT ![q].pc = pc]
    BY DEF Succeed, CommitUnanswered, Broken
  <1>3. /\ req'[q].pc = pc
        /\ \A r \in Requests : /\ req'[r].object = req[r].object
                               /\ req'[r].batch = req[r].batch
                               /\ req'[r].lineal = req[r].lineal
        /\ \A r \in Requests \ {q} : req'[r] = req[r]
    BY <1>2 DEF TypeOK, Request
  <1>4. /\ \A r \in Requests \ {q} : runs'[r] = runs[r]
        /\ runs'[q].status = "succeeded" /\ runs'[q].cursor = CursorOf(req[q].batch)
    BY <1>1 DEF CommitRun, TypeOK, Run
  <1>5. /\ req[q].pc \in {"reuse", "flushed"}
        /\ payloads' = payloads /\ manifests' = manifests /\ audit' = audit
        /\ snapshots' = IF req[q].pc = "reuse" THEN snapshots
                        ELSE snapshots \cup {[run |-> q, object |-> req[q].object,
                                              content |-> req[q].batch]}
    BY <1>1 DEF CommitRun
  <1> QED
    BY <1>2, <1>3, <1>4, <1>5

\* The event loop is handed over at awaits and at the end of a request only.
LEMMA LoopPreserved == IInv /\ [Next]_vars => LoopInv'
  <1> SUFFICES ASSUME TypeOK, LoopInv, [Next]_vars PROVE LoopInv'
    BY DEF IInv
  <1> USE IngestionAssumption DEF TypeOK, Run, Request, LoopInv, MayRun, Hold, GiveWay
  <1>1. ASSUME NEW o \in Objects, Grow(o) PROVE LoopInv'
    BY <1>1 DEF Grow
  <1>2. ASSUME NEW q \in Requests, NEW o \in Objects, NEW previous \in Requests \cup {None},
               Start(q, o, previous)
        PROVE  LoopInv'
    BY <1>2 DEF Start
  <1>3. ASSUME NEW q \in Requests, Refuse(q) PROVE LoopInv'
    BY <1>3 DEF Refuse
  <1>4. ASSUME NEW q \in Requests, BuildFails(q) PROVE LoopInv'
    BY <1>4 DEF BuildFails
  <1>5. ASSUME NEW q \in Requests, Build(q) PROVE LoopInv'
    BY <1>5 DEF Build
  <1>6. ASSUME NEW q \in Requests, Extract(q) PROVE LoopInv'
    BY <1>6 DEF Extract
  <1>7. ASSUME NEW q \in Requests, ExtractFails(q) PROVE LoopInv'
    BY <1>7 DEF ExtractFails
  <1>8. ASSUME NEW q \in Requests, StorePayload(q) PROVE LoopInv'
    BY <1>8 DEF StorePayload
  <1>9. ASSUME NEW q \in Requests, StoreManifest(q) PROVE LoopInv'
    BY <1>9 DEF StoreManifest
  <1>10. ASSUME NEW q \in Requests, StoreFails(q) PROVE LoopInv'
    BY <1>10 DEF StoreFails
  <1>11. ASSUME NEW q \in Requests, SelectSnapshot(q) PROVE LoopInv'
    BY <1>11 DEF SelectSnapshot
  <1>12. ASSUME NEW q \in Requests, Flush(q) PROVE LoopInv'
    BY <1>12 DEF Flush
  <1>13. ASSUME NEW q \in Requests, FlushFails(q) PROVE LoopInv'
    BY <1>13 DEF FlushFails
  <1>14. ASSUME NEW q \in Requests, Succeed(q) \/ CommitUnanswered(q) PROVE LoopInv'
    <2>1. CASE Succeed(q)
      BY <2>1 DEF Succeed, CommitRun
    <2>2. CASE CommitUnanswered(q)
      BY <2>2 DEF CommitUnanswered, CommitRun, Broken
    <2> QED
      BY <1>14, <2>1, <2>2
  <1>15. ASSUME NEW q \in Requests, RecordAudit(q) PROVE LoopInv'
    BY <1>15 DEF RecordAudit
  <1>16. ASSUME NEW p \in Processes, Crash(p) PROVE LoopInv'
    BY <1>16 DEF Crash
  <1>18. ASSUME NEW q \in Requests, StatementFails(q) PROVE LoopInv'
    BY <1>18 DEF StatementFails, Broken
  <1>19. ASSUME NEW q \in Requests, LookupFails(q) PROVE LoopInv'
    BY <1>19 DEF LookupFails, Broken
  <1>20. ASSUME NEW q \in Requests, AuditUnanswered(q) PROVE LoopInv'
    BY <1>20 DEF AuditUnanswered, Broken
  <1>21. ASSUME NEW q \in Requests, Close(q) PROVE LoopInv'
    BY <1>21 DEF Close
  <1>17. CASE UNCHANGED vars
    BY <1>17 DEF vars
  <1> HIDE DEF LoopInv
  <1> QED
    BY <1>1, <1>2, <1>3, <1>4, <1>5, <1>6, <1>7, <1>8, <1>9, <1>10, <1>11, <1>12, <1>13, <1>14, <1>15, <1>16, <1>17,
       <1>18, <1>19, <1>20, <1>21,
       Zenon DEF Next, Proceed, DatabaseFails

\* The status of a run row follows its request.
LEMMA RunPreserved == IInv /\ [Next]_vars => RunInv'
  <1> SUFFICES ASSUME TypeOK, RunInv, [Next]_vars PROVE RunInv'
    BY DEF IInv
  <1> USE IngestionAssumption DEF TypeOK, Run, Request, RunInv
  <1>1. ASSUME NEW o \in Objects, Grow(o) PROVE RunInv'
    BY <1>1 DEF Grow
  <1>2. ASSUME NEW q \in Requests, NEW o \in Objects, NEW previous \in Requests \cup {None},
               Start(q, o, previous)
        PROVE  RunInv'
    BY <1>2 DEF Start
  <1>3. ASSUME NEW q \in Requests, Refuse(q) PROVE RunInv'
    BY <1>3 DEF Refuse
  <1>4. ASSUME NEW q \in Requests, BuildFails(q) PROVE RunInv'
    BY <1>4 DEF BuildFails
  <1>5. ASSUME NEW q \in Requests, Build(q) PROVE RunInv'
    BY <1>5 DEF Build
  <1>6. ASSUME NEW q \in Requests, Extract(q) PROVE RunInv'
    BY <1>6 DEF Extract
  <1>7. ASSUME NEW q \in Requests, ExtractFails(q) PROVE RunInv'
    BY <1>7 DEF ExtractFails
  <1>8. ASSUME NEW q \in Requests, StorePayload(q) PROVE RunInv'
    BY <1>8 DEF StorePayload
  <1>9. ASSUME NEW q \in Requests, StoreManifest(q) PROVE RunInv'
    BY <1>9 DEF StoreManifest
  <1>10. ASSUME NEW q \in Requests, StoreFails(q) PROVE RunInv'
    BY <1>10 DEF StoreFails
  <1>11. ASSUME NEW q \in Requests, SelectSnapshot(q) PROVE RunInv'
    BY <1>11 DEF SelectSnapshot
  <1>12. ASSUME NEW q \in Requests, Flush(q) PROVE RunInv'
    BY <1>12 DEF Flush
  <1>13. ASSUME NEW q \in Requests, FlushFails(q) PROVE RunInv'
    BY <1>13 DEF FlushFails
  <1>14. ASSUME NEW q \in Requests, Succeed(q) \/ CommitUnanswered(q) PROVE RunInv'
    <2>1. CASE Succeed(q)
      BY <2>1 DEF Succeed, CommitRun
    <2>2. CASE CommitUnanswered(q)
      BY <2>2 DEF CommitUnanswered, CommitRun, Broken
    <2> QED
      BY <1>14, <2>1, <2>2
  <1>15. ASSUME NEW q \in Requests, RecordAudit(q) PROVE RunInv'
    BY <1>15 DEF RecordAudit
  <1>16. ASSUME NEW p \in Processes, Crash(p) PROVE RunInv'
    BY <1>16 DEF Crash
  <1>18. ASSUME NEW q \in Requests, StatementFails(q) PROVE RunInv'
    BY <1>18 DEF StatementFails, Broken
  <1>19. ASSUME NEW q \in Requests, LookupFails(q) PROVE RunInv'
    BY <1>19 DEF LookupFails, Broken
  <1>20. ASSUME NEW q \in Requests, AuditUnanswered(q) PROVE RunInv'
    BY <1>20 DEF AuditUnanswered, Broken
  <1>21. ASSUME NEW q \in Requests, Close(q) PROVE RunInv'
    BY <1>21 DEF Close
  <1>17. CASE UNCHANGED vars
    BY <1>17 DEF vars
  <1> HIDE DEF RunInv
  <1> QED
    BY <1>1, <1>2, <1>3, <1>4, <1>5, <1>6, <1>7, <1>8, <1>9, <1>10, <1>11, <1>12, <1>13, <1>14, <1>15, <1>16, <1>17,
       <1>18, <1>19, <1>20, <1>21,
       Zenon DEF Next, Proceed, DatabaseFails

\* Files and rows, once there, stay, and a request looks before it goes on.
LEMMA FilesPreserved == IInv /\ [Next]_vars => FileInv'
  <1> SUFFICES ASSUME TypeOK, FileInv, [Next]_vars PROVE FileInv'
    BY DEF IInv
  <1> USE IngestionAssumption DEF TypeOK, Run, Request, FileInv, Location, InTable
  <1>1. ASSUME NEW o \in Objects, Grow(o) PROVE FileInv'
    BY <1>1 DEF Grow
  <1>2. ASSUME NEW q \in Requests, NEW o \in Objects, NEW previous \in Requests \cup {None},
               Start(q, o, previous)
        PROVE  FileInv'
    BY <1>2, ZenonT(60) DEF Start
  <1>3. ASSUME NEW p \in Processes, Crash(p) PROVE FileInv'
    BY <1>3 DEF Crash
  <1>4. ASSUME NEW q \in Requests, Refuse(q) PROVE FileInv'
    BY <1>4 DEF Refuse
  <1>5. ASSUME NEW q \in Requests, BuildFails(q) PROVE FileInv'
    BY <1>5 DEF BuildFails
  <1>6. ASSUME NEW q \in Requests, Build(q) PROVE FileInv'
    BY <1>6 DEF Build
  <1>7. ASSUME NEW q \in Requests, Extract(q) PROVE FileInv'
    BY <1>7 DEF Extract
  <1>8. ASSUME NEW q \in Requests, ExtractFails(q) PROVE FileInv'
    BY <1>8 DEF ExtractFails
  <1>9. ASSUME NEW q \in Requests, StorePayload(q) PROVE FileInv'
    <2>1. /\ \A r \in Requests \ {q} : req'[r] = req[r]
          /\ req'[q].pc = "payload" /\ Location(q)' = Location(q)
          /\ payloads' = payloads \cup {Location(q)}
          /\ UNCHANGED <<manifests, snapshots>>
      BY <1>9 DEF StorePayload
    <2> HIDE DEF TypeOK, Run, Request
    <2> QED
      BY <2>1
  <1>10. ASSUME NEW q \in Requests, StoreManifest(q) PROVE FileInv'
    BY <1>10 DEF StoreManifest
  <1>11. ASSUME NEW q \in Requests, StoreFails(q) PROVE FileInv'
    BY <1>11 DEF StoreFails
  <1>12. ASSUME NEW q \in Requests, SelectSnapshot(q) PROVE FileInv'
    BY <1>12, ZenonT(60) DEF SelectSnapshot, Recorded
  <1>13. ASSUME NEW q \in Requests, Flush(q) PROVE FileInv'
    BY <1>13 DEF Flush
  <1>14. ASSUME NEW q \in Requests, FlushFails(q) PROVE FileInv'
    BY <1>14 DEF FlushFails
  <1>15. ASSUME NEW q \in Requests, Succeed(q) \/ CommitUnanswered(q) PROVE FileInv'
    <2>1. /\ req'[q].pc \in {"committed", "error"}
          /\ \A r \in Requests \ {q} : req'[r] = req[r]
          /\ payloads' = payloads /\ manifests' = manifests /\ snapshots \subseteq snapshots'
      <3> HIDE DEF TypeOK, Run, Request, FileInv
      <3> QED
        BY <1>15, CommitStep
    <2> HIDE DEF TypeOK, Run, Request
    <2> QED
      BY <2>1
  <1>16. ASSUME NEW q \in Requests, RecordAudit(q) PROVE FileInv'
    BY <1>16 DEF RecordAudit
  <1>18. ASSUME NEW q \in Requests, StatementFails(q) PROVE FileInv'
    BY <1>18 DEF StatementFails, Broken
  <1>19. ASSUME NEW q \in Requests, LookupFails(q) PROVE FileInv'
    BY <1>19 DEF LookupFails, Broken
  <1>20. ASSUME NEW q \in Requests, AuditUnanswered(q) PROVE FileInv'
    BY <1>20 DEF AuditUnanswered, Broken
  <1>21. ASSUME NEW q \in Requests, Close(q) PROVE FileInv'
    BY <1>21 DEF Close
  <1>17. CASE UNCHANGED vars
    BY <1>17 DEF vars
  <1> HIDE DEF FileInv
  <1> QED
    BY <1>1, <1>2, <1>3, <1>4, <1>5, <1>6, <1>7, <1>8, <1>9, <1>10, <1>11,
       <1>12, <1>13, <1>14, <1>15, <1>16, <1>17,
       <1>18, <1>19, <1>20, <1>21, Zenon DEF Next, Proceed, DatabaseFails

\* A step that leaves batches and cursors alone keeps batches complete.
LEMMA BatchKept ==
    ASSUME BatchInv,
           \A r \in Requests : req'[r].pc \in Carrying =>
               req'[r] = req[r] /\ runs'[r] = runs[r]
    PROVE  BatchInv'
  <1> SUFFICES ASSUME NEW r \in Requests, req'[r].pc \in Carrying,
                      NEW n \in 1..LastRow,
                      runs'[r].cursor < Value[n] /\ Value[n] <= CursorOf(req'[r].batch)
               PROVE  \E m \in req'[r].batch : Value[m] = Value[n]
    BY DEF BatchInv, CursorOf
  <1>1. req'[r] = req[r] /\ runs'[r] = runs[r]
    OBVIOUS
  <1>2. CursorOf(req'[r].batch) = CursorOf(req[r].batch)
    BY <1>1
  <1> QED
    BY <1>1, <1>2 DEF BatchInv

\* A batch is complete up to its cursor when it is read, and nothing changes it.
LEMMA BatchPreserved == IInv /\ [Next]_vars => BatchInv'
  <1> SUFFICES ASSUME TypeOK, RunInv, BatchInv, [Next]_vars PROVE BatchInv'
    BY DEF IInv
  <1> USE IngestionAssumption DEF TypeOK, Run, Request, BatchInv
  <1>1. ASSUME NEW o \in Objects, Grow(o) PROVE BatchInv'
    BY <1>1 DEF Grow
  <1>2. ASSUME NEW q \in Requests, NEW o \in Objects, NEW previous \in Requests \cup {None},
               Start(q, o, previous)
        PROVE  BatchInv'
    <2>1. /\ req'[q].pc = "started"
          /\ \A r \in Requests \ {q} : req'[r] = req[r] /\ runs'[r] = runs[r]
      BY <1>2 DEF Start
    <2> HIDE DEF TypeOK, BatchInv
    <2> QED
      BY <2>1, BatchKept
  <1>3. ASSUME NEW p \in Processes, Crash(p) PROVE BatchInv'
    <2>1. /\ runs' = runs
          /\ \A r \in Requests : req'[r].pc \in Synchronous => req'[r] = req[r]
      BY <1>3 DEF Crash
    <2> HIDE DEF TypeOK, BatchInv
    <2> QED
      BY <2>1, BatchKept
  <1>4. ASSUME NEW q \in Requests, Refuse(q) PROVE BatchInv'
    BY <1>4, ZenonT(60) DEF Refuse
  <1>5. ASSUME NEW q \in Requests, BuildFails(q) PROVE BatchInv'
    BY <1>5 DEF BuildFails
  <1>6. ASSUME NEW q \in Requests, Build(q) PROVE BatchInv'
    BY <1>6 DEF Build
  <1>7. ASSUME NEW q \in Requests, Extract(q) PROVE BatchInv'
    <2>1. PICK batch \in Batches(q) :
            req' = [req EXCEPT ![q].pc = "batch", ![q].batch = batch]
      BY <1>7 DEF Extract
    <2>2. runs' = runs /\ req[q].object \in Objects
      BY <1>7 DEF Extract, RunInv
    <2> DEFINE last == rows[req[q].object]
    <2>3. last \in 0..LastRow
      BY <2>2
    <2>a. Unread(q) = {n \in 1..last : Value[n] > runs[q].cursor}
      BY DEF Unread
    <2>b. /\ batch \in SUBSET Unread(q)
          /\ \A m \in batch, n \in Unread(q) \ batch : Value[m] <= Value[n]
      BY DEF Batches
    <2>c. \A m \in batch : m \in 1..last /\ m \in 1..LastRow
      <3> HIDE DEF TypeOK, last
      <3> QED
        BY <2>3, <2>a, <2>b
    <2> HIDE DEF last
    <2>4. ASSUME NEW n \in 1..LastRow,
                 runs[q].cursor < Value[n], Value[n] <= CursorOf(batch)
          PROVE  \E m \in batch : Value[m] = Value[n]
      <3>1. /\ Value[n] \in 1..LastRow /\ runs[q].cursor \in 0..LastRow
            /\ CursorOf(batch) \in 0..LastRow
        BY <2>c, CursorIsGreatest
      <3>2. PICK m \in batch : CursorOf(batch) = Value[m]
        <4>1. CursorOf(batch) # 0
          BY <2>4, <3>1
        <4> QED
          BY <2>c, <4>1, CursorIsGreatest
      <3>3. m \in 1..LastRow /\ m \in 1..last /\ Value[m] \in 1..LastRow
        BY <2>c
      <3>4. CASE n \in batch
        BY <3>4
      <3>5. CASE n \notin batch /\ n <= last
        <4>1. n \in Unread(q) \ batch
          BY <2>3, <2>4, <2>a, <3>1, <3>5
        <4>2. Value[m] <= Value[n]
          BY <2>b, <4>1
        <4> QED
          BY <2>4, <3>1, <3>2, <3>3, <4>2
      <3>6. CASE n > last
        <4>1. m <= n
          BY <2>3, <3>3, <3>6
        <4>2. Value[m] <= Value[n]
          BY <3>3, <4>1
        <4> QED
          BY <2>4, <3>1, <3>2, <3>3, <4>2
      <3> QED
        BY <3>4, <3>5, <3>6, <2>3
    <2>5. /\ req'[q].batch = batch
          /\ \A r \in Requests \ {q} : req'[r] = req[r]
      BY <2>1
    <2>6. SUFFICES ASSUME NEW r \in Requests, req'[r].pc \in Carrying,
                          NEW n \in 1..LastRow,
                          runs[r].cursor < Value[n], Value[n] <= CursorOf(req'[r].batch)
                   PROVE  \E m \in req'[r].batch : Value[m] = Value[n]
      BY <2>2
    <2> HIDE DEF TypeOK
    <2>7. CASE r = q
      BY <2>4, <2>5, <2>6, <2>7
    <2>8. CASE r # q
      <3> HIDE DEF Run, Request
      <3>1. req'[r] = req[r]
        BY <2>5, <2>8
      <3>2. /\ req[r].pc \in Carrying /\ Value[n] <= CursorOf(req[r].batch)
            /\ runs[r].cursor < Value[n]
        BY <2>6, <3>1
      <3>3. \E m \in req[r].batch : Value[m] = Value[n]
        BY <3>2, Zenon DEF BatchInv
      <3> QED
        BY <3>1, <3>3, Zenon
    <2> QED
      BY <2>7, <2>8
  <1>8. ASSUME NEW q \in Requests, ExtractFails(q) PROVE BatchInv'
    BY <1>8, ZenonT(60) DEF ExtractFails
  <1>9. ASSUME NEW q \in Requests, StorePayload(q) PROVE BatchInv'
    BY <1>9, ZenonT(60) DEF StorePayload
  <1>10. ASSUME NEW q \in Requests, StoreManifest(q) PROVE BatchInv'
    BY <1>10, ZenonT(60) DEF StoreManifest
  <1>11. ASSUME NEW q \in Requests, StoreFails(q) PROVE BatchInv'
    BY <1>11, ZenonT(60) DEF StoreFails
  <1>12. ASSUME NEW q \in Requests, SelectSnapshot(q) PROVE BatchInv'
    BY <1>12, ZenonT(60) DEF SelectSnapshot
  <1>13. ASSUME NEW q \in Requests, Flush(q) PROVE BatchInv'
    BY <1>13, ZenonT(60) DEF Flush
  <1>14. ASSUME NEW q \in Requests, FlushFails(q) PROVE BatchInv'
    BY <1>14 DEF FlushFails
  <1>15. ASSUME NEW q \in Requests, Succeed(q) \/ CommitUnanswered(q) PROVE BatchInv'
    <2>1. \A r \in Requests : req'[r].pc \in Carrying =>
            req'[r] = req[r] /\ runs'[r] = runs[r]
      BY <1>15, CommitStep
    <2> HIDE DEF TypeOK, BatchInv
    <2> QED
      BY <2>1, BatchKept
  <1>16. ASSUME NEW q \in Requests, RecordAudit(q) PROVE BatchInv'
    BY <1>16, ZenonT(60) DEF RecordAudit
  <1>18. ASSUME NEW q \in Requests, StatementFails(q) PROVE BatchInv'
    BY <1>18 DEF StatementFails, Broken
  <1>19. ASSUME NEW q \in Requests, LookupFails(q) PROVE BatchInv'
    <2>1. /\ req'[q].pc = "error"
          /\ \A r \in Requests \ {q} : req'[r] = req[r] /\ runs'[r] = runs[r]
      BY <1>19 DEF LookupFails, Broken
    <2> HIDE DEF TypeOK, BatchInv
    <2> QED
      BY <2>1, BatchKept
  <1>20. ASSUME NEW q \in Requests, AuditUnanswered(q) PROVE BatchInv'
    BY <1>20 DEF AuditUnanswered, Broken
  <1>21. ASSUME NEW q \in Requests, Close(q) PROVE BatchInv'
    BY <1>21 DEF Close
  <1>17. CASE UNCHANGED vars
    BY <1>17 DEF vars
  <1> HIDE DEF BatchInv
  <1> QED
    BY <1>1, <1>2, <1>3, <1>4, <1>5, <1>6, <1>7, <1>8, <1>9, <1>10, <1>11,
       <1>12, <1>13, <1>14, <1>15, <1>16, <1>17,
       <1>18, <1>19, <1>20, <1>21, Zenon DEF Next, Proceed, DatabaseFails

\* A request about to insert keeps its process from inserting the same content.
LEMMA InsertPreserved == IInv /\ [Next]_vars => InsertInv'
  <1> SUFFICES ASSUME TypeOK, LoopInv, RunInv, InsertInv, [Next]_vars PROVE InsertInv'
    BY DEF IInv
  <1> USE IngestionAssumption DEF TypeOK, Run, Request, InsertInv, Snapshot
  <1>1. ASSUME NEW o \in Objects, Grow(o) PROVE InsertInv'
    BY <1>1 DEF Grow
  <1>2. ASSUME NEW q \in Requests, NEW o \in Objects, NEW previous \in Requests \cup {None},
               Start(q, o, previous)
        PROVE  InsertInv'
    BY <1>2, ZenonT(60) DEF Start
  <1>3. ASSUME NEW p \in Processes, Crash(p) PROVE InsertInv'
    BY <1>3 DEF Crash
  <1>4. ASSUME NEW q \in Requests, Refuse(q) PROVE InsertInv'
    BY <1>4 DEF Refuse
  <1>5. ASSUME NEW q \in Requests, BuildFails(q) PROVE InsertInv'
    BY <1>5 DEF BuildFails
  <1>6. ASSUME NEW q \in Requests, Build(q) PROVE InsertInv'
    BY <1>6 DEF Build
  <1>7. ASSUME NEW q \in Requests, Extract(q) PROVE InsertInv'
    <2>1. PICK batch \in Batches(q) :
            req' = [req EXCEPT ![q].pc = "batch", ![q].batch = batch]
      BY <1>7 DEF Extract
    <2>2. /\ req'[q].pc = "batch" /\ req[q].pc = "extracting"
          /\ \A r \in Requests \ {q} : req'[r] = req[r]
          /\ UNCHANGED <<runs, snapshots, audit>>
      BY <1>7, <2>1 DEF Extract
    <2> HIDE DEF TypeOK
    <2> QED
      BY <2>2
  <1>8. ASSUME NEW q \in Requests, ExtractFails(q) PROVE InsertInv'
    BY <1>8 DEF ExtractFails
  <1>9. ASSUME NEW q \in Requests, StorePayload(q) PROVE InsertInv'
    BY <1>9, ZenonT(60) DEF StorePayload
  <1>10. ASSUME NEW q \in Requests, StoreManifest(q) PROVE InsertInv'
    BY <1>10 DEF StoreManifest
  <1>11. ASSUME NEW q \in Requests, StoreFails(q) PROVE InsertInv'
    BY <1>11 DEF StoreFails
  <1>12. ASSUME NEW q \in Requests, SelectSnapshot(q) PROVE InsertInv'
    BY <1>12 DEF SelectSnapshot, Recorded, InTable
  <1>13. ASSUME NEW q \in Requests, Flush(q) PROVE InsertInv'
    BY <1>13 DEF Flush
  <1>14. ASSUME NEW q \in Requests, FlushFails(q) PROVE InsertInv'
    BY <1>14 DEF FlushFails
  <1>15. ASSUME NEW q \in Requests, Succeed(q) \/ CommitUnanswered(q) PROVE InsertInv'
    <2>1. /\ req'[q].pc # "insert" /\ req[q].pc \in Synchronous
          /\ \A r \in Requests \ {q} : req'[r] = req[r]
      BY <1>15, CommitStep
    <2>2. \A s \in snapshots' : s \in snapshots \/ s.run = q
      BY <1>15, CommitStep
    <2>3. \A r \in Requests \ {q} : req[r].pc = "insert" => ProcessOf[q] # ProcessOf[r]
      BY <2>1 DEF LoopInv
    <2> HIDE DEF TypeOK, Run, Request, Snapshot
    <2> QED
      BY <2>1, <2>2, <2>3
  <1>16. ASSUME NEW q \in Requests, RecordAudit(q) PROVE InsertInv'
    BY <1>16 DEF RecordAudit
  <1>18. ASSUME NEW q \in Requests, StatementFails(q) PROVE InsertInv'
    BY <1>18 DEF StatementFails, Broken
  <1>19. ASSUME NEW q \in Requests, LookupFails(q) PROVE InsertInv'
    BY <1>19 DEF LookupFails, Broken
  <1>20. ASSUME NEW q \in Requests, AuditUnanswered(q) PROVE InsertInv'
    BY <1>20 DEF AuditUnanswered, Broken
  <1>21. ASSUME NEW q \in Requests, Close(q) PROVE InsertInv'
    BY <1>21 DEF Close
  <1>17. CASE UNCHANGED vars
    BY <1>17 DEF vars
  <1> HIDE DEF InsertInv
  <1> QED
    BY <1>1, <1>2, <1>3, <1>4, <1>5, <1>6, <1>7, <1>8, <1>9, <1>10, <1>11,
       <1>12, <1>13, <1>14, <1>15, <1>16, <1>17,
       <1>18, <1>19, <1>20, <1>21, Zenon DEF Next, Proceed, DatabaseFails

\* The unique key admits one insert of a content, and the row it leads to.
LEMMA FlushPreserved == IInv /\ [Next]_vars => FlushInv'
  <1> SUFFICES ASSUME TypeOK, FlushInv, [Next]_vars PROVE FlushInv'
    BY DEF IInv
  <1> USE IngestionAssumption DEF TypeOK, Run, Request, FlushInv, Location, InTable, Pending
  <1>a. ASSUME \A r \in Requests : req'[r].pc = "flushed" => req'[r] = req[r],
               snapshots' = snapshots
        PROVE  FlushInv'
    <2> HIDE DEF TypeOK, Run, Request
    <2> QED
      BY <1>a
  <1> HIDE DEF FlushInv
  <1>1. ASSUME NEW o \in Objects, Grow(o) PROVE FlushInv'
    BY <1>1, <1>a DEF Grow
  <1>2. ASSUME NEW q \in Requests, NEW o \in Objects, NEW previous \in Requests \cup {None},
               Start(q, o, previous)
        PROVE  FlushInv'
    BY <1>2, <1>a DEF Start
  <1>3. ASSUME NEW p \in Processes, Crash(p) PROVE FlushInv'
    BY <1>3, <1>a DEF Crash
  <1>4. ASSUME NEW q \in Requests, Refuse(q) PROVE FlushInv'
    BY <1>4, <1>a DEF Refuse
  <1>5. ASSUME NEW q \in Requests, BuildFails(q) PROVE FlushInv'
    BY <1>5, <1>a DEF BuildFails
  <1>6. ASSUME NEW q \in Requests, Build(q) PROVE FlushInv'
    BY <1>6, <1>a DEF Build
  <1>7. ASSUME NEW q \in Requests, ExtractFails(q) PROVE FlushInv'
    BY <1>7, <1>a DEF ExtractFails
  <1>8. ASSUME NEW q \in Requests, StorePayload(q) PROVE FlushInv'
    BY <1>8, <1>a DEF StorePayload
  <1>9. ASSUME NEW q \in Requests, StoreManifest(q) PROVE FlushInv'
    BY <1>9, <1>a DEF StoreManifest
  <1>10. ASSUME NEW q \in Requests, StoreFails(q) PROVE FlushInv'
    BY <1>10, <1>a DEF StoreFails
  <1>11. ASSUME NEW q \in Requests, SelectSnapshot(q) PROVE FlushInv'
    BY <1>11, <1>a DEF SelectSnapshot
  <1>12. ASSUME NEW q \in Requests, FlushFails(q) PROVE FlushInv'
    BY <1>12, <1>a DEF FlushFails
  <1>13. ASSUME NEW q \in Requests, Close(q) PROVE FlushInv'
    BY <1>13, <1>a DEF Close
  <1>14. ASSUME NEW q \in Requests, RecordAudit(q) PROVE FlushInv'
    BY <1>14, <1>a DEF RecordAudit
  <1>15. ASSUME NEW q \in Requests, StatementFails(q) PROVE FlushInv'
    BY <1>15, <1>a DEF StatementFails, Broken
  <1>16. ASSUME NEW q \in Requests, LookupFails(q) PROVE FlushInv'
    BY <1>16, <1>a DEF LookupFails, Broken
  <1>17. ASSUME NEW q \in Requests, AuditUnanswered(q) PROVE FlushInv'
    BY <1>17, <1>a DEF AuditUnanswered, Broken
  <1>18. ASSUME NEW q \in Requests, Extract(q) PROVE FlushInv'
    <2>1. PICK batch \in Batches(q) :
            req' = [req EXCEPT ![q].pc = "batch", ![q].batch = batch]
      BY <1>18 DEF Extract
    <2>2. /\ req'[q].pc = "batch" /\ snapshots' = snapshots
          /\ \A r \in Requests \ {q} : req'[r] = req[r]
      BY <1>18, <2>1 DEF Extract
    <2> HIDE DEF TypeOK
    <2> QED
      BY <1>a, <2>2
  <1>19. ASSUME NEW q \in Requests, Flush(q) PROVE FlushInv'
    <2>1. /\ req'[q].pc = "flushed" /\ snapshots' = snapshots
          /\ req'[q].object = req[q].object /\ req'[q].batch = req[q].batch
          /\ \A r \in Requests \ {q} : req'[r] = req[r]
      BY <1>19 DEF Flush
    <2>2. \A r \in Requests : req'[r].object = req[r].object /\ req'[r].batch = req[r].batch
      <3> HIDE DEF TypeOK, Request
      <3> QED
        BY <2>1
    <2>3. ~Pending(q) /\ ~InTable(q)
      BY <1>19 DEF Flush, Recorded
    <2> HIDE DEF TypeOK, Run, Request
    <2> QED
      BY <2>1, <2>2, <2>3 DEF FlushInv
  <1>20. ASSUME NEW q \in Requests, Succeed(q) \/ CommitUnanswered(q) PROVE FlushInv'
    <2>1. /\ req'[q].pc # "flushed" /\ \A r \in Requests \ {q} : req'[r] = req[r]
      BY <1>20 DEF Succeed, CommitUnanswered, CommitRun, Broken
    <2>2. ASSUME NEW s \in snapshots'
          PROVE  \/ s \in snapshots
                 \/ req[q].pc = "flushed" /\ s.object = req[q].object /\ s.content = req[q].batch
      BY <1>20 DEF Succeed, CommitUnanswered, CommitRun
    <2> HIDE DEF TypeOK, Run, Request
    <2> QED
      BY <2>1, <2>2 DEF FlushInv
  <1>21. CASE UNCHANGED vars
    BY <1>21, <1>a DEF vars
  <1> QED
    BY <1>1, <1>2, <1>3, <1>4, <1>5, <1>6, <1>7, <1>8, <1>9, <1>10,
       <1>11, <1>12, <1>13, <1>14, <1>15, <1>16, <1>17, <1>18, <1>19, <1>20, <1>21,
       Zenon DEF Next, Proceed, DatabaseFails

\* A commit adds a row for stored files, and no run loses its success.
LEMMA BackedPreserved == IInv /\ [Next]_vars => SnapshotsBacked'
  <1> SUFFICES ASSUME TypeOK, RunInv, FileInv, FlushInv, SnapshotsBacked, [Next]_vars PROVE SnapshotsBacked'
    BY DEF IInv
  <1> USE IngestionAssumption DEF TypeOK, Run, Request, SnapshotsBacked, RunInv, Snapshot
  <1>1. ASSUME NEW o \in Objects, Grow(o) PROVE SnapshotsBacked'
    BY <1>1 DEF Grow
  <1>2. ASSUME NEW q \in Requests, NEW o \in Objects, NEW previous \in Requests \cup {None},
               Start(q, o, previous)
        PROVE  SnapshotsBacked'
    BY <1>2 DEF Start
  <1>3. ASSUME NEW p \in Processes, Crash(p) PROVE SnapshotsBacked'
    BY <1>3 DEF Crash
  <1>4. ASSUME NEW q \in Requests, Refuse(q) PROVE SnapshotsBacked'
    BY <1>4 DEF Refuse
  <1>5. ASSUME NEW q \in Requests, BuildFails(q) PROVE SnapshotsBacked'
    BY <1>5 DEF BuildFails
  <1>6. ASSUME NEW q \in Requests, Build(q) PROVE SnapshotsBacked'
    BY <1>6 DEF Build
  <1>7. ASSUME NEW q \in Requests, Extract(q) PROVE SnapshotsBacked'
    BY <1>7 DEF Extract
  <1>8. ASSUME NEW q \in Requests, ExtractFails(q) PROVE SnapshotsBacked'
    BY <1>8 DEF ExtractFails
  <1>9. ASSUME NEW q \in Requests, StorePayload(q) PROVE SnapshotsBacked'
    BY <1>9 DEF StorePayload
  <1>10. ASSUME NEW q \in Requests, StoreManifest(q) PROVE SnapshotsBacked'
    BY <1>10 DEF StoreManifest
  <1>11. ASSUME NEW q \in Requests, StoreFails(q) PROVE SnapshotsBacked'
    BY <1>11 DEF StoreFails
  <1>12. ASSUME NEW q \in Requests, SelectSnapshot(q) PROVE SnapshotsBacked'
    BY <1>12 DEF SelectSnapshot
  <1>13. ASSUME NEW q \in Requests, Flush(q) PROVE SnapshotsBacked'
    BY <1>13 DEF Flush
  <1>14. ASSUME NEW q \in Requests, FlushFails(q) PROVE SnapshotsBacked'
    BY <1>14 DEF FlushFails
  <1>15. ASSUME NEW q \in Requests, Succeed(q) \/ CommitUnanswered(q) PROVE SnapshotsBacked'
    <2> DEFINE new == [run |-> q, object |-> req[q].object, content |-> req[q].batch]
               Backed(s) == /\ <<s.object, s.content>> \in payloads \cap manifests
                            /\ s.run \in Requests
                            /\ \/ runs[s.run].status = "succeeded"
                               \/ s.run \in Faulty /\ runs[s.run].status = "failed"
    <2>1. /\ payloads' = payloads /\ manifests' = manifests
          /\ runs'[q].status = "succeeded"
          /\ \A r \in Requests \ {q} : runs'[r] = runs[r]
          /\ snapshots' = IF req[q].pc = "reuse" THEN snapshots ELSE snapshots \cup {new}
          /\ req[q].pc # "reuse" => req[q].pc = "flushed"
      BY <1>15, CommitStep
    <2>2. Location(q) \in payloads \cap manifests
      BY <1>15, CommitStep DEF FileInv
    <2>3. \A s \in snapshots : Backed(s)
      OBVIOUS
    <2>4. new.run = q /\ <<new.object, new.content>> \in payloads \cap manifests
      BY <2>2 DEF Location
    <2>5. \A s, t \in snapshots : s.object = t.object /\ s.content = t.content => s = t
      BY DEF SnapshotsBacked
    <2>6. ASSUME req[q].pc = "flushed", NEW s \in snapshots
          PROVE  ~(s.object = new.object /\ s.content = new.content)
      BY <2>6 DEF FlushInv, InTable
    <2> HIDE DEF TypeOK, new, Run, Request, RunInv, Snapshot
    <2>7. ASSUME NEW s \in snapshots' PROVE Backed(s)'
      <3>1. CASE s \in snapshots
        BY <2>1, <2>3, <3>1
      <3>2. CASE s = new
        BY <2>1, <2>4, <3>2
      <3> QED
        BY <2>1, <3>1, <3>2
    <2>8. ASSUME NEW s \in snapshots', NEW t \in snapshots',
                 s.object = t.object, s.content = t.content
          PROVE  s = t
      BY <2>1, <2>5, <2>6, <2>8
    <2> QED
      BY <2>7, <2>8
  <1>16. ASSUME NEW q \in Requests, RecordAudit(q) PROVE SnapshotsBacked'
    BY <1>16 DEF RecordAudit
  <1>18. ASSUME NEW q \in Requests, StatementFails(q) PROVE SnapshotsBacked'
    BY <1>18 DEF StatementFails, Broken
  <1>19. ASSUME NEW q \in Requests, LookupFails(q) PROVE SnapshotsBacked'
    BY <1>19 DEF LookupFails, Broken
  <1>20. ASSUME NEW q \in Requests, AuditUnanswered(q) PROVE SnapshotsBacked'
    BY <1>20 DEF AuditUnanswered, Broken
  <1>21. ASSUME NEW q \in Requests, Close(q) PROVE SnapshotsBacked'
    BY <1>21 DEF Close
  <1>17. CASE UNCHANGED vars
    BY <1>17 DEF vars
  <1> HIDE DEF SnapshotsBacked
  <1> QED
    BY <1>1, <1>2, <1>3, <1>4, <1>5, <1>6, <1>7, <1>8, <1>9, <1>10, <1>11,
       <1>12, <1>13, <1>14, <1>15, <1>16, <1>17,
       <1>18, <1>19, <1>20, <1>21, Zenon DEF Next, Proceed, DatabaseFails

\* A run succeeds with a snapshot of its batch in the table, which stays there.
LEMMA SuccessPreserved == IInv /\ [Next]_vars => SuccessIsTrue'
  <1> SUFFICES ASSUME TypeOK, RunInv, FileInv, SuccessIsTrue, [Next]_vars PROVE SuccessIsTrue'
    BY DEF IInv
  <1> USE IngestionAssumption DEF TypeOK, Run, Request, SuccessIsTrue, RunInv
  <1>1. ASSUME NEW o \in Objects, Grow(o) PROVE SuccessIsTrue'
    BY <1>1 DEF Grow
  <1>2. ASSUME NEW q \in Requests, NEW o \in Objects, NEW previous \in Requests \cup {None},
               Start(q, o, previous)
        PROVE  SuccessIsTrue'
    <2>1. /\ runs'[q].status = "running" /\ runs[q].status = None
          /\ UNCHANGED <<snapshots, audit>>
          /\ \A r \in Requests \ {q} : req'[r] = req[r] /\ runs'[r] = runs[r]
      BY <1>2 DEF Start
    <2>2. audit \subseteq Requests
      OBVIOUS
    <2> HIDE DEF TypeOK, Run, Request, RunInv
    <2>3. \A r \in audit : r # q /\ runs'[r].status = "succeeded"
      BY <2>1, <2>2, IngestionAssumption
    <2> QED
      BY <2>1, <2>3
  <1>3. ASSUME NEW p \in Processes, Crash(p) PROVE SuccessIsTrue'
    BY <1>3 DEF Crash
  <1>4. ASSUME NEW q \in Requests, Refuse(q) PROVE SuccessIsTrue'
    BY <1>4, ZenonT(60) DEF Refuse
  <1>5. ASSUME NEW q \in Requests, BuildFails(q) PROVE SuccessIsTrue'
    BY <1>5, ZenonT(60) DEF BuildFails
  <1>6. ASSUME NEW q \in Requests, Build(q) PROVE SuccessIsTrue'
    BY <1>6, ZenonT(60) DEF Build
  <1>7. ASSUME NEW q \in Requests, Extract(q) PROVE SuccessIsTrue'
    <2>1. PICK batch \in Batches(q) :
            req' = [req EXCEPT ![q].pc = "batch", ![q].batch = batch]
      BY <1>7 DEF Extract
    <2>2. /\ req'[q].pc = "batch" /\ req[q].pc = "extracting"
          /\ \A r \in Requests \ {q} : req'[r] = req[r]
          /\ UNCHANGED <<runs, snapshots, audit>>
      BY <1>7, <2>1 DEF Extract
    <2> HIDE DEF TypeOK
    <2> QED
      BY <2>2
  <1>8. ASSUME NEW q \in Requests, ExtractFails(q) PROVE SuccessIsTrue'
    BY <1>8 DEF ExtractFails
  <1>9. ASSUME NEW q \in Requests, StorePayload(q) PROVE SuccessIsTrue'
    BY <1>9, ZenonT(60) DEF StorePayload
  <1>10. ASSUME NEW q \in Requests, StoreManifest(q) PROVE SuccessIsTrue'
    BY <1>10 DEF StoreManifest
  <1>11. ASSUME NEW q \in Requests, StoreFails(q) PROVE SuccessIsTrue'
    BY <1>11 DEF StoreFails
  <1>12. ASSUME NEW q \in Requests, SelectSnapshot(q) PROVE SuccessIsTrue'
    BY <1>12 DEF SelectSnapshot
  <1>13. ASSUME NEW q \in Requests, Flush(q) PROVE SuccessIsTrue'
    BY <1>13, ZenonT(60) DEF Flush
  <1>14. ASSUME NEW q \in Requests, FlushFails(q) PROVE SuccessIsTrue'
    BY <1>14 DEF FlushFails
  <1>15. ASSUME NEW q \in Requests, Succeed(q) \/ CommitUnanswered(q) PROVE SuccessIsTrue'
    <2> DEFINE new == [run |-> q, object |-> req[q].object, content |-> req[q].batch]
    <2>1. /\ \A r \in Requests : req'[r].object = req[r].object /\ req'[r].batch = req[r].batch
          /\ runs'[q].status = "succeeded" /\ audit' = audit
          /\ \A r \in Requests \ {q} : runs'[r] = runs[r]
      <3> HIDE DEF TypeOK, Run, Request, SuccessIsTrue, RunInv
      <3> QED
        BY <1>15, CommitStep
    <2>2. \E s \in snapshots' : s.object = req[q].object /\ s.content = req[q].batch
      <3>1. CASE req[q].pc = "reuse"
        BY <1>15, <3>1, CommitStep DEF FileInv, InTable
      <3>2. CASE req[q].pc = "flushed"
        <4>1. new \in snapshots'
          <5>1. snapshots' = IF req[q].pc = "reuse" THEN snapshots ELSE snapshots \cup {new}
            BY <1>15, CommitStep
          <5> QED
            BY <3>2, <5>1
        <4> QED
          BY <4>1
      <3> QED
        BY <1>15, <3>1, <3>2, CommitStep
    <2>3. \A s \in snapshots : s \in snapshots'
      <3> HIDE DEF TypeOK, Run, Request, SuccessIsTrue, RunInv
      <3> QED
        BY <1>15, CommitStep
    <2>4. audit \subseteq Requests
      OBVIOUS
    <2> HIDE DEF TypeOK, Run, Request, RunInv, new
    <2>5. ASSUME NEW r \in Requests, runs'[r].status = "succeeded"
          PROVE  \E s \in snapshots' : s.object = req'[r].object /\ s.content = req'[r].batch
      <3>1. CASE r = q
        BY <2>1, <2>2, <3>1
      <3>2. CASE r # q
        <4>1. PICK s \in snapshots : s.object = req[r].object /\ s.content = req[r].batch
          BY <2>1, <2>5, <3>2
        <4> QED
          BY <2>1, <2>3, <4>1
      <3> QED
        BY <3>1, <3>2
    <2>6. \A r \in audit' : runs'[r].status = "succeeded"
      BY <2>1, <2>4
    <2> QED
      BY <2>5, <2>6
  <1>16. ASSUME NEW q \in Requests, RecordAudit(q) PROVE SuccessIsTrue'
    BY <1>16, ZenonT(60) DEF RecordAudit
  <1>18. ASSUME NEW q \in Requests, StatementFails(q) PROVE SuccessIsTrue'
    BY <1>18, ZenonT(60) DEF StatementFails, Broken
  <1>19. ASSUME NEW q \in Requests, LookupFails(q) PROVE SuccessIsTrue'
    <2>1. /\ runs'[q].status = "failed" /\ \A r \in Requests \ {q} : runs'[r] = runs[r]
          /\ \A r \in Requests \ {q} : req'[r] = req[r]
          /\ UNCHANGED <<snapshots, audit>>
      BY <1>19 DEF LookupFails, Broken
    <2>2. q \notin audit
      BY <1>19 DEF LookupFails
    <2>3. audit \subseteq Requests
      OBVIOUS
    <2> HIDE DEF TypeOK, Run, Request, RunInv
    <2> QED
      BY <2>1, <2>2, <2>3
  <1>20. ASSUME NEW q \in Requests, AuditUnanswered(q) PROVE SuccessIsTrue'
    BY <1>20, ZenonT(60) DEF AuditUnanswered, Broken
  <1>21. ASSUME NEW q \in Requests, Close(q) PROVE SuccessIsTrue'
    BY <1>21 DEF Close
  <1>17. CASE UNCHANGED vars
    BY <1>17 DEF vars
  <1> HIDE DEF SuccessIsTrue
  <1> QED
    BY <1>1, <1>2, <1>3, <1>4, <1>5, <1>6, <1>7, <1>8, <1>9, <1>10, <1>11,
       <1>12, <1>13, <1>14, <1>15, <1>16, <1>17,
       <1>18, <1>19, <1>20, <1>21, Zenon DEF Next, Proceed, DatabaseFails

\* An insertion that fails has been overtaken by another process.
LEMMA RunningPreserved == IInv /\ [Next]_vars => RunningIsExplained'
  <1> SUFFICES ASSUME TypeOK, RunInv, InsertInv, RunningIsExplained, [Next]_vars PROVE RunningIsExplained'
    BY DEF IInv
  <1> USE IngestionAssumption DEF TypeOK, Run, Request, RunningIsExplained, RunInv, Location
  <1>1. ASSUME NEW o \in Objects, Grow(o) PROVE RunningIsExplained'
    BY <1>1 DEF Grow
  <1>2. ASSUME NEW q \in Requests, NEW o \in Objects, NEW previous \in Requests \cup {None},
               Start(q, o, previous)
        PROVE  RunningIsExplained'
    BY <1>2 DEF Start
  <1>3. ASSUME NEW p \in Processes, Crash(p) PROVE RunningIsExplained'
    BY <1>3 DEF Crash
  <1>4. ASSUME NEW q \in Requests, Refuse(q) PROVE RunningIsExplained'
    BY <1>4 DEF Refuse
  <1>5. ASSUME NEW q \in Requests, BuildFails(q) PROVE RunningIsExplained'
    BY <1>5 DEF BuildFails
  <1>6. ASSUME NEW q \in Requests, Build(q) PROVE RunningIsExplained'
    BY <1>6 DEF Build
  <1>7. ASSUME NEW q \in Requests, Extract(q) PROVE RunningIsExplained'
    BY <1>7 DEF Extract
  <1>8. ASSUME NEW q \in Requests, ExtractFails(q) PROVE RunningIsExplained'
    BY <1>8 DEF ExtractFails
  <1>9. ASSUME NEW q \in Requests, StorePayload(q) PROVE RunningIsExplained'
    BY <1>9 DEF StorePayload
  <1>10. ASSUME NEW q \in Requests, StoreManifest(q) PROVE RunningIsExplained'
    BY <1>10 DEF StoreManifest
  <1>11. ASSUME NEW q \in Requests, StoreFails(q) PROVE RunningIsExplained'
    BY <1>11 DEF StoreFails
  <1>12. ASSUME NEW q \in Requests, SelectSnapshot(q) PROVE RunningIsExplained'
    BY <1>12 DEF SelectSnapshot
  <1>13. ASSUME NEW q \in Requests, Flush(q) PROVE RunningIsExplained'
    BY <1>13 DEF Flush
  <1>14. ASSUME NEW q \in Requests, FlushFails(q) PROVE RunningIsExplained'
    BY <1>14 DEF FlushFails, InsertInv, Recorded, InTable
  <1>15. ASSUME NEW q \in Requests, Succeed(q) \/ CommitUnanswered(q) PROVE RunningIsExplained'
    <2>1. /\ runs'[q].status = "succeeded" /\ snapshots \subseteq snapshots'
          /\ \A r \in Requests \ {q} : req'[r] = req[r] /\ runs'[r] = runs[r]
      BY <1>15, CommitStep
    <2> HIDE DEF TypeOK, Run, Request, RunInv
    <2> QED
      BY <2>1
  <1>16. ASSUME NEW q \in Requests, RecordAudit(q) PROVE RunningIsExplained'
    BY <1>16 DEF RecordAudit
  <1>18. ASSUME NEW q \in Requests, StatementFails(q) PROVE RunningIsExplained'
    BY <1>18 DEF StatementFails, Broken
  <1>19. ASSUME NEW q \in Requests, LookupFails(q) PROVE RunningIsExplained'
    BY <1>19 DEF LookupFails, Broken
  <1>20. ASSUME NEW q \in Requests, AuditUnanswered(q) PROVE RunningIsExplained'
    BY <1>20 DEF AuditUnanswered, Broken
  <1>21. ASSUME NEW q \in Requests, Close(q) PROVE RunningIsExplained'
    BY <1>21 DEF Close
  <1>17. CASE UNCHANGED vars
    BY <1>17 DEF vars
  <1> HIDE DEF RunningIsExplained
  <1> QED
    BY <1>1, <1>2, <1>3, <1>4, <1>5, <1>6, <1>7, <1>8, <1>9, <1>10, <1>11,
       <1>12, <1>13, <1>14, <1>15, <1>16, <1>17,
       <1>18, <1>19, <1>20, <1>21, Zenon DEF Next, Proceed, DatabaseFails

\* The rows of an object up to a cursor are in a set of snapshots, a row
\* standing for all that share its value.
Covered(S, o, cursor) ==
    \A n \in 1..LastRow :
        Value[n] <= cursor =>
            \E s \in S : s.object = o /\ \E m \in s.content : Value[m] = Value[n]

\* Snapshots that are added cover no less.
LEMMA CoveredMonotone ==
    ASSUME NEW S, NEW T, S \subseteq T, NEW o, NEW cursor, Covered(S, o, cursor)
    PROVE  Covered(T, o, cursor)
  BY DEF Covered

\* A cursor moves only to the end of a batch that the same commit records, and
\* is handed on only to a run of the same object.
LEMMA ResumePreserved == IInv /\ [Next]_vars => ResumeSkipsNothing'
  <1> SUFFICES ASSUME TypeOK, RunInv, FileInv, BatchInv, ResumeSkipsNothing, [Next]_vars
               PROVE  ResumeSkipsNothing'
    BY DEF IInv
  <1> USE IngestionAssumption
  <1> DEFINE Goal == \A r \in Requests :
                       runs'[r].status # None /\ req'[r].lineal =>
                         Covered(snapshots', req'[r].object, runs'[r].cursor)
             Kept(r) == /\ req'[r].object = req[r].object /\ req'[r].lineal = req[r].lineal
                        /\ runs'[r].cursor = runs[r].cursor
                        /\ runs[r].status = None => runs'[r].status = None
  <1>a. \A r \in Requests :
          runs[r].status # None /\ req[r].lineal =>
            Covered(snapshots, req[r].object, runs[r].cursor)
    BY DEF ResumeSkipsNothing, Covered
  <1>b. SUFFICES Goal
    BY DEF ResumeSkipsNothing, Covered
  <1>c. ASSUME NEW r \in Requests, Kept(r), snapshots \subseteq snapshots',
               runs'[r].status # None /\ req'[r].lineal
        PROVE  Covered(snapshots', req'[r].object, runs'[r].cursor)
    BY <1>a, <1>c, CoveredMonotone
  <1>d. (snapshots \subseteq snapshots' /\ \A r \in Requests : Kept(r)) => Goal
    <2> HIDE DEF Kept
    <2> QED
      BY <1>c
  <1>e. ASSUME NEW q \in Requests, NEW pc, req' = [req EXCEPT ![q].pc = pc],
               UNCHANGED <<runs, snapshots>>
        PROVE  Goal
    <2>1. \A r \in Requests : Kept(r)
      BY <1>e DEF TypeOK, Request
    <2> HIDE DEF Kept, Goal
    <2> QED
      BY <1>d, <1>e, <2>1
  <1>1. ASSUME NEW o \in Objects, Grow(o) PROVE Goal
    BY <1>1, <1>d DEF Grow
  <1>2. ASSUME NEW q \in Requests, NEW o \in Objects, NEW previous \in Requests \cup {None},
               Start(q, o, previous)
        PROVE  Goal
    <2>1. \A r \in Requests \ {q} : Kept(r)
      BY <1>2 DEF Start, TypeOK
    <2>2. snapshots' = snapshots /\ previous # q
      BY <1>2 DEF Start, RunInv
    <2>3. /\ req'[q].object = o
          /\ req'[q].lineal = (previous = None \/ (req[previous].object = o /\ req[previous].lineal))
          /\ runs'[q].cursor = IF previous = None THEN 0 ELSE runs[previous].cursor
      BY <1>2, ZenonT(60) DEF Start, TypeOK, Request, Run
    <2>4. CASE previous = None
      <3>1. Covered(snapshots', o, 0)
        BY DEF Covered
      <3> QED
        BY <2>1, <2>2, <2>3, <2>4, <3>1, <1>c
    <2>5. CASE previous # None
      <3>1. previous \in Requests /\ runs[previous].status # None
        BY <1>2, <2>5 DEF Start
      <3>2. req'[q].lineal => Covered(snapshots', o, runs[previous].cursor)
        BY <1>a, <2>2, <2>3, <2>5, <3>1
      <3> HIDE DEF Kept
      <3> QED
        BY <2>1, <2>2, <2>3, <2>5, <3>2, <1>c
    <2> QED
      BY <2>4, <2>5
  <1>3. ASSUME NEW p \in Processes, Crash(p) PROVE Goal
    BY <1>3, <1>d DEF Crash, TypeOK, Request
  <1>4. ASSUME NEW q \in Requests, Refuse(q) \/ BuildFails(q) \/ Build(q) PROVE Goal
    <2>1. PICK pc : req' = [req EXCEPT ![q].pc = pc]
      BY <1>4 DEF Refuse, BuildFails, Build
    <2>2. UNCHANGED <<runs, snapshots>>
      BY <1>4 DEF Refuse, BuildFails, Build
    <2> QED
      BY <1>e, <2>1, <2>2
  <1>5. ASSUME NEW q \in Requests, Extract(q) PROVE Goal
    BY <1>5, <1>d DEF Extract, TypeOK, Request
  <1>6. ASSUME NEW q \in Requests, ExtractFails(q) \/ StoreFails(q) \/ LookupFails(q) PROVE Goal
    <2>1. runs[q].status # None
      BY <1>6 DEF ExtractFails, StoreFails, LookupFails, Broken, RunInv
    <2>2. /\ req' = [req EXCEPT ![q].pc = "error"]
          /\ runs' = [runs EXCEPT ![q].status = "failed"]
          /\ snapshots' = snapshots
      BY <1>6 DEF ExtractFails, StoreFails, LookupFails, Broken
    <2>3. \A r \in Requests : req'[r].object = req[r].object /\ req'[r].lineal = req[r].lineal
      BY <2>2 DEF TypeOK, Request
    <2>4. \A r \in Requests : /\ runs'[r].cursor = runs[r].cursor
                               /\ runs[r].status = None => runs'[r].status = None
      BY <2>1, <2>2 DEF TypeOK, Run
    <2> QED
      BY <1>d, <2>2, <2>3, <2>4
  <1>7. ASSUME NEW q \in Requests, StorePayload(q) \/ StoreManifest(q) PROVE Goal
    <2>1. CASE StorePayload(q)
      <3>1. \A r \in Requests : Kept(r)
        BY <2>1 DEF StorePayload, TypeOK, Request
      <3> HIDE DEF Kept, Goal
      <3> QED
        BY <1>d, <2>1, <3>1 DEF StorePayload
    <2>2. CASE StoreManifest(q)
      BY <1>e, <2>2 DEF StoreManifest
    <2> QED
      BY <1>7, <2>1, <2>2
  <1>8. ASSUME NEW q \in Requests, SelectSnapshot(q) \/ Flush(q) \/ FlushFails(q) \/ Close(q)
                                     \/ StatementFails(q) \/ AuditUnanswered(q)
        PROVE  Goal
    <2>1. PICK pc : req' = [req EXCEPT ![q].pc = pc]
      BY <1>8 DEF SelectSnapshot, Flush, FlushFails, Close, StatementFails, AuditUnanswered, Broken
    <2>2. UNCHANGED <<runs, snapshots>>
      BY <1>8 DEF SelectSnapshot, Flush, FlushFails, Close, StatementFails, AuditUnanswered, Broken
    <2> QED
      BY <1>e, <2>1, <2>2
  <1>9. ASSUME NEW q \in Requests, Succeed(q) \/ CommitUnanswered(q) PROVE Goal
    <2>1. \A r \in Requests \ {q} : Kept(r)
      BY <1>9 DEF Succeed, CommitUnanswered, CommitRun, Broken, TypeOK, Request, Run
    <2>2. snapshots \subseteq snapshots'
      BY <1>9 DEF Succeed, CommitUnanswered, CommitRun, Broken
    <2>3. /\ req'[q].object = req[q].object /\ req'[q].lineal = req[q].lineal
          /\ runs'[q].cursor = CursorOf(req[q].batch)
          /\ runs[q].status # None
          /\ runs[q].cursor \in 0..LastRow /\ CursorOf(req[q].batch) \in 0..LastRow
      BY <1>9, CursorIsGreatest DEF Succeed, CommitUnanswered, CommitRun, Broken, TypeOK, Request, Run, RunInv, Contents
    <2>4. PICK s \in snapshots' : s.object = req[q].object /\ s.content = req[q].batch
      <3> DEFINE new == [run |-> q, object |-> req[q].object, content |-> req[q].batch]
      <3>1. CASE req[q].pc = "reuse"
        BY <1>9, <3>1 DEF Succeed, CommitUnanswered, CommitRun, Broken, FileInv, InTable
      <3>2. CASE req[q].pc = "flushed"
        <4>1. new \in snapshots'
          BY <1>9, <3>2 DEF Succeed, CommitUnanswered, CommitRun, Broken
        <4> QED
          BY <4>1
      <3> QED
        BY <1>9, <3>1, <3>2 DEF Succeed, CommitUnanswered, CommitRun, Broken
    <2>5. ASSUME req[q].lineal
          PROVE  Covered(snapshots', req[q].object, CursorOf(req[q].batch))
      <3> SUFFICES ASSUME NEW n \in 1..LastRow, Value[n] <= CursorOf(req[q].batch)
                   PROVE  \E t \in snapshots' : /\ t.object = req[q].object
                                                /\ \E m \in t.content : Value[m] = Value[n]
        BY DEF Covered
      <3>a. Value[n] \in Int /\ runs[q].cursor \in Int
        <4>1. Value[n] \in 1..LastRow
          BY IngestionAssumption, Zenon
        <4>2. runs[q].cursor \in 0..LastRow
          BY <2>3, Zenon
        <4>3. \A k \in 0..LastRow : k \in Int
          BY IngestionAssumption
        <4>4. \A k \in 1..LastRow : k \in Int
          BY IngestionAssumption
        <4> QED
          BY <4>1, <4>2, <4>3, <4>4, Zenon
      <3>1. CASE Value[n] <= runs[q].cursor
        <4>1. Covered(snapshots, req[q].object, runs[q].cursor)
          BY <1>a, <2>3, <2>5
        <4>2. Covered(snapshots', req[q].object, runs[q].cursor)
          BY <2>2, <4>1, CoveredMonotone
        <4> QED
          BY <3>1, <4>2 DEF Covered
      <3>2. CASE runs[q].cursor < Value[n]
        <4>1. \E m \in req[q].batch : Value[m] = Value[n]
          BY <1>9, <3>2 DEF Succeed, CommitUnanswered, CommitRun, Broken, BatchInv
        <4> QED
          BY <2>4, <4>1
      <3>3. \A a, b \in Int : a <= b \/ b < a
        OBVIOUS
      <3> QED
        BY <3>a, <3>1, <3>2, <3>3
    <2> HIDE DEF Kept
    <2> QED
      BY <2>1, <2>2, <2>3, <2>5, <1>c
  <1>10. ASSUME NEW q \in Requests, RecordAudit(q) PROVE Goal
    BY <1>10, <1>d DEF RecordAudit, TypeOK, Request
  <1>11. CASE UNCHANGED vars
    BY <1>11, <1>d DEF vars
  <1> HIDE DEF Goal
  <1> QED
    BY <1>1, <1>2, <1>3, <1>4, <1>5, <1>6, <1>7, <1>8, <1>9, <1>10, <1>11,
       Zenon DEF Next, Proceed, DatabaseFails

-----------------------------------------------------------------------------
\* The invariant is inductive.
LEMMA IInvPreserved == IInv /\ [Next]_vars => IInv'
  BY TypePreserved, LoopPreserved, RunPreserved, FilesPreserved, BatchPreserved,
     InsertPreserved, FlushPreserved, BackedPreserved, SuccessPreserved, ResumePreserved,
     RunningPreserved DEF IInv

\* It holds in every state of every behaviour of ingestion, crashes and refused
\* statements included.
THEOREM IInvAlways == Spec => []IInv
  BY InitIInv, IInvPreserved, PTL DEF Spec

\* No content of an object has two snapshot rows; every row has both its files
\* in the raw store and belongs to a run that succeeded, or was recorded as
\* failed after its commit, whatever crashes or is refused by the database
\* between the files, the flush and the commits (service.py and store.py).
THEOREM SnapshotsAreSound == Spec => []SnapshotsSound
  <1>1. IInv => SnapshotsSound
    BY DEF IInv, SnapshotsSound
  <1> QED
    BY <1>1, IInvAlways, PTL

\* Resuming a run never skips rows: those up to its cursor are in snapshots.
THEOREM ResumingSkipsNothing == Spec => []ResumeSkipsNothing
  <1>1. IInv => ResumeSkipsNothing
    BY DEF IInv
  <1> QED
    BY <1>1, IInvAlways, PTL

\* A run recorded as succeeded has its content in the table of snapshots.
THEOREM SuccessIsAlwaysTrue == Spec => []SuccessIsTrue
  <1>1. IInv => SuccessIsTrue
    BY DEF IInv
  <1> QED
    BY <1>1, IInvAlways, PTL

\* Only a dead process, a connector that was not built, a statement that the
\* database refused or an insertion overtaken by another process leaves a run
\* "running" (the exception handler of service.py, which does not roll back).
THEOREM RunningIsAlwaysExplained == Spec => []RunningIsExplained
  <1>1. IInv => RunningIsExplained
    BY DEF IInv
  <1> QED
    BY <1>1, IInvAlways, PTL

\* The request whose insertion another one waits for may always go on.
THEOREM NobodyWaitsInACircle == Spec => []NoCircularWait
  <1>1. IInv => NoCircularWait
    BY DEF IInv, LoopInv, NoCircularWait, MayRun
  <1> QED
    BY <1>1, IInvAlways, PTL
=============================================================================

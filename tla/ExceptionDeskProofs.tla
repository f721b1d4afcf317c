------------------------- MODULE ExceptionDeskProofs -------------------------
(***************************************************************************)
(* Safety of the exception desk for any number of records, reviewers and   *)
(* requests.  As at the match review desk, the row lock carries the        *)
(* argument from the UPDATE to the commit; here it also keeps the buffered *)
(* row, which repeats columns that the UPDATE does not set, equal to what  *)
(* the record would become (LockInv, TxInv), and it is why the row that is *)
(* read back before the commit is the request's own (AnswerInv).           *)
(***************************************************************************)
EXTENDS ExceptionDesk, Sequences, TLAPS

Buffered == {"inserted", "audited", "read_back"}

\* A transaction that passed its UPDATE holds its record's row, whose
\* committed revision is still the expected one; nobody else holds a row.
LockInv ==
    /\ \A q \in Requests : req[q].pc \in InTx =>
           /\ lock[req[q].rec] = q
           /\ rec[req[q].rec].revision = req[q].expected
    /\ \A x \in Records : lock[x] # None =>
           req[lock[x]].pc \in InTx /\ req[lock[x]].rec = x

\* What a transaction has buffered at each of its steps.
TxInv ==
    \A q \in Requests :
        /\ req[q].pc \in InTx => tx[q].update = {Resolved(q)}
        /\ req[q].pc \in Buffered => tx[q].rows = {ResolutionRow(q)}
        /\ req[q].pc \in {"audited", "read_back"} =>
               tx[q].events = {AuditEvent(ResolutionRow(q))}

\* A request is about a record that exists, at a revision of its past; past
\* the checks it is about one of its own organization and has a resolution.
RequestInv ==
    \A q \in Requests : req[q].pc # "free" =>
        /\ req[q].rec \in Records /\ req[q].reviewer \in Reviewers
        /\ Exists(req[q].rec)
        /\ req[q].expected <= rec[req[q].rec].revision
        /\ req[q].pc \in {"checked", "conflict", "committed", "saved"} \cup InTx =>
               /\ req[q].status \in Resolutions
               /\ OrgOf(req[q].rec) = ReviewerOrg[req[q].reviewer]

\* A request that still expects the current revision was sent from a screen
\* with the current status; only one about another organization saw none.
SeenInv ==
    \A q \in Requests : req[q].pc # "free" =>
        \/ req[q].seen = None /\ OrgOf(req[q].rec) # ReviewerOrg[req[q].reviewer]
        \/ /\ req[q].seen \in Statuses
           /\ req[q].expected = rec[req[q].rec].revision =>
                  req[q].seen = rec[req[q].rec].status

\* A screen shows an issue of its past, and what is current about it is true.
ViewInv ==
    \A r \in Reviewers : view[r].rec # None =>
        /\ view[r].rec \in Records /\ Exists(view[r].rec)
        /\ view[r].status \in Statuses
        /\ view[r].revision <= rec[view[r].rec].revision
        /\ view[r].revision = rec[view[r].rec].revision =>
               view[r].status = rec[view[r].rec].status

\* Rows are what their requests built, and only committed requests have one.
RowInv ==
    /\ \A d \in resolutions : /\ req[d.id].pc \in {"committed", "saved", "lost"}
                              /\ d = ResolutionRow(d.id)
    /\ \A q \in Requests : req[q].pc \in {"committed", "saved"} =>
           ResolutionRow(q) \in resolutions

\* A record that does not exist has no history; one that does has a snapshot.
AbsentInv == \A x \in Records : IF Exists(x) THEN rec[x].snapshot \in Snapshots
                                             ELSE rec[x].revision = 0

\* HistoryComplete, one quantifier at a time.
HistoryInv ==
    /\ \A d \in resolutions : 1 <= d.revision /\ d.revision <= rec[d.rec].revision
    /\ \A x \in Records : \A n \in 1..rec[x].revision :
           \E d \in resolutions : d.rec = x /\ d.revision = n
    /\ \A d, e \in resolutions : d.rec = e.rec /\ d.revision = e.revision => d = e

AuditInv == audit = {AuditEvent(d) : d \in resolutions}

\* What was read back, and who took the revision of a refused request.
AnswerInv ==
    \A q \in Requests :
        /\ req[q].pc \in {"read_back", "committed", "saved"} => req[q].response = q
        /\ req[q].pc = "conflict" =>
               \E d \in resolutions : /\ d.rec = req[q].rec
                                      /\ d.revision = req[q].expected + 1

IInv ==
    /\ TypeOK /\ LockInv /\ TxInv /\ RequestInv /\ SeenInv /\ ViewInv /\ RowInv
    /\ AbsentInv /\ HistoryInv /\ AuditInv /\ AnswerInv
    /\ RecordShowsLastResolution
-----------------------------------------------------------------------------
USE DEF Statuses, Exists, RowsOf, InTx, Serving, Answered, Buffered

\* No record, no request, no screen: every conjunct holds at the start.
LEMMA InitIInv == Init => IInv
  <1> SUFFICES ASSUME Init PROVE IInv
    OBVIOUS
  <1> USE ConstantsAssumption DEF Init
  <1>1. TypeOK
    <2>1. AbsentRecord \in Record
      BY DEF AbsentRecord, Record
    <2>2. FreeRequest \in Request
      BY DEF FreeRequest, Request
    <2>3. EmptyTx \in Transaction
      BY DEF EmptyTx, Transaction
    <2>4. [rec |-> None, status |-> None, revision |-> 0] \in View
      BY DEF View
    <2> QED
      BY <2>1, <2>2, <2>3, <2>4 DEF TypeOK
  <1>2. \A q \in Requests : req[q].pc = "free"
    BY DEF FreeRequest
  <1>3. LockInv /\ TxInv /\ RequestInv /\ SeenInv /\ AnswerInv
    BY <1>2 DEF LockInv, TxInv, RequestInv, SeenInv, AnswerInv
  <1>4. ViewInv /\ RowInv
    BY <1>2 DEF ViewInv, RowInv
  <1>5. AbsentInv /\ HistoryInv
    BY DEF AbsentInv, HistoryInv, AbsentRecord
  <1>6. AuditInv /\ RecordShowsLastResolution
    BY DEF AuditInv, RecordShowsLastResolution
  <1> QED
    BY <1>1, <1>3, <1>4, <1>5, <1>6 DEF IInv

\* The columns of the row that an UPDATE leaves (ValidationService.resolve):
\* it sets six of them and keeps the snapshot and the link.
LEMMA ResolvedColumns ==
    ASSUME NEW q \in Requests, rec[req[q].rec] \in Record
    PROVE  /\ Resolved(q).status = req[q].status
           /\ Resolved(q).revision = req[q].expected + 1
           /\ Resolved(q).snapshot = rec[req[q].rec].snapshot
           /\ Resolved(q).reviewer = req[q].reviewer
           /\ Resolved(q).corrected = req[q].corrected
           /\ Resolved(q).resolved = (req[q].status \notin ATTENTION_STATUSES)
           /\ Resolved(q).waived = (req[q].status = "waived")
           /\ Resolved(q).link = rec[req[q].rec].link
  <1>1. /\ Resolved(q).status = req[q].status
        /\ Resolved(q).revision = req[q].expected + 1
        /\ Resolved(q).snapshot = rec[req[q].rec].snapshot
        /\ Resolved(q).reviewer = req[q].reviewer
        /\ Resolved(q).corrected = req[q].corrected
        /\ Resolved(q).link = rec[req[q].rec].link
    BY DEF Resolved, Record
  <1>2. /\ Resolved(q).resolved = (req[q].status \notin ATTENTION_STATUSES)
        /\ Resolved(q).waived = (req[q].status = "waived")
    BY DEF Resolved, Record
  <1> QED
    BY <1>1, <1>2

\* An UPDATE of the six columns leaves a well-typed row.
LEMMA RecordTyped ==
    ASSUME NEW r \in Record, NEW s \in Resolutions, NEW v \in Reviewers,
           NEW w \in BOOLEAN, NEW c \in Snapshots \cup {None}, NEW b \in BOOLEAN,
           NEW n \in Nat
    PROVE  [r EXCEPT !.status = s, !.reviewer = v, !.waived = w, !.corrected = c,
                     !.resolved = b, !.revision = n] \in Record
  BY DEF Record

\* A request that moves on, and one that has read a row back, is well typed.
LEMMA RequestTyped ==
    ASSUME req \in [Requests -> Request], NEW q \in Requests, NEW d \in Requests,
           NEW p \in {"free"} \cup Serving \cup Answered
    PROVE  /\ [req EXCEPT ![q].pc = p] \in [Requests -> Request]
           /\ [req EXCEPT ![q].pc = p, ![q].response = d] \in [Requests -> Request]
  <1>1. [req EXCEPT ![q].pc = p] \in [Requests -> Request]
    BY DEF Request
  <1>2. [req[q] EXCEPT !.pc = p, !.response = d] \in Request
    BY ZenonT(60) DEF Request
  <1> QED
    BY <1>1, <1>2

\* A step that moves only the pc of request q leaves what requests carry.
LEMMA PcStep ==
    ASSUME TypeOK, NEW q \in Requests, NEW p, req' = [req EXCEPT ![q].pc = p]
    PROVE  /\ req'[q].pc = p
           /\ \A x \in Requests : x # q => req'[x] = req[x]
           /\ \A x \in Requests :
                  /\ req'[x].reviewer = req[x].reviewer
                  /\ req'[x].rec = req[x].rec
                  /\ req'[x].status = req[x].status
                  /\ req'[x].corrected = req[x].corrected
                  /\ req'[x].expected = req[x].expected
                  /\ req'[x].seen = req[x].seen
                  /\ req'[x].response = req[x].response
  BY DEF TypeOK, Request

\* The types that several steps need.
LEMMA Typed ==
    ASSUME TypeOK, RequestInv, NEW q \in Requests, req[q].pc # "free"
    PROVE  /\ req[q].rec \in Records /\ req[q].expected \in Nat
           /\ req[q].reviewer \in Reviewers /\ req[q].corrected \in Snapshots \cup {None}
           /\ rec[req[q].rec] \in Record /\ rec[req[q].rec].revision \in Nat
  <1>1. req[q].rec \in Records /\ req[q].reviewer \in Reviewers
    BY DEF RequestInv
  <1>2. req[q] \in Request /\ rec[req[q].rec] \in Record
    BY <1>1 DEF TypeOK
  <1> QED
    BY <1>1, <1>2 DEF Request, Record

\* Every action keeps the tables, requests and screens well typed.
LEMMA TypePreserved == IInv /\ [Next]_vars => TypeOK'
  <1> SUFFICES ASSUME TypeOK, RequestInv, ViewInv, TxInv, [Next]_vars PROVE TypeOK'
    BY DEF IInv
  <1> USE ConstantsAssumption DEF TypeOK
  <1>0. EmptyTx \in Transaction /\ \A q \in Requests : Release(q) \in [Records -> Requests \cup {None}]
    BY DEF EmptyTx, Transaction, Release
  <1>1. CASE Validate
    <2>1. PICK S \in (SUBSET Records) \ {{}}, s \in Snapshots :
            /\ \A x \in S : ~Exists(x)
            /\ rec' = [x \in Records |-> IF x \in S THEN NewRecord(s) ELSE rec[x]]
            /\ UNCHANGED <<resolutions, audit, lock, req, tx, view>>
      BY <1>1 DEF Validate
    <2>2. NewRecord(s) \in Record
      BY DEF NewRecord, AbsentRecord, Record
    <2>3. rec' \in [Records -> Record]
      BY <2>1, <2>2
    <2> QED
      BY <1>1, <2>3 DEF Validate
  <1>2. ASSUME NEW prior \in Records, NEW current \in Records, ReprocessLink(prior, current)
        PROVE  TypeOK'
    BY <1>2 DEF ReprocessLink, Record
  <1>3. ASSUME NEW r \in Reviewers, ReadQueue(r) PROVE TypeOK'
    <2>1. PICK x \in Records :
            view' = [view EXCEPT ![r] = [rec |-> x, status |-> rec[x].status,
                                         revision |-> rec[x].revision]]
      BY <1>3 DEF ReadQueue
    <2>2. [rec |-> x, status |-> rec[x].status, revision |-> rec[x].revision] \in View
      BY DEF Record, View
    <2> QED
      BY <1>3, <2>1, <2>2 DEF ReadQueue
  <1>4. ASSUME NEW q \in Requests, NEW r \in Reviewers, Submit(q, r) PROVE TypeOK'
    <2>1. PICK s \in Resolutions \cup {None}, corrected \in Snapshots \cup {None} :
            req' = [req EXCEPT ![q] =
                      [FreeRequest EXCEPT
                         !.pc = "received", !.reviewer = r, !.rec = view[r].rec,
                         !.status = s, !.corrected = corrected,
                         !.expected = view[r].revision, !.seen = view[r].status]]
      BY <1>4 DEF Submit
    <2>2. [FreeRequest EXCEPT
             !.pc = "received", !.reviewer = r, !.rec = view[r].rec,
             !.status = s, !.corrected = corrected,
             !.expected = view[r].revision, !.seen = view[r].status] \in Request
      <3>1. view[r].rec \in Records /\ view[r].revision \in Nat /\ view[r].status \in Statuses
        BY <1>4 DEF Submit, ViewInv, View
      <3> QED
        BY <3>1 DEF FreeRequest, Request
    <2> QED
      BY <1>4, <2>1, <2>2 DEF Submit
  <1>5. ASSUME NEW q \in Requests, NEW r \in Reviewers, SubmitForeign(q, r) PROVE TypeOK'
    <2>1. PICK x \in Records, s \in Resolutions :
            req' = [req EXCEPT ![q] =
                      [FreeRequest EXCEPT
                         !.pc = "received", !.reviewer = r, !.rec = x, !.status = s]]
      BY <1>5 DEF SubmitForeign
    <2>2. [FreeRequest EXCEPT
             !.pc = "received", !.reviewer = r, !.rec = x, !.status = s] \in Request
      BY DEF FreeRequest, Request
    <2> QED
      BY <1>5, <2>1, <2>2 DEF SubmitForeign
  <1>6. ASSUME NEW q \in Requests, Check(q) \/ Conflict(q) \/ Respond(q) PROVE TypeOK'
    BY <1>6 DEF Check, Conflict, Respond, Request
  <1>7. ASSUME NEW q \in Requests, Update(q) PROVE TypeOK'
    <2>1. Resolved(q) \in Record
      <3>1. /\ rec[req[q].rec] \in Record /\ req[q].status \in Resolutions
            /\ req[q].reviewer \in Reviewers /\ req[q].corrected \in Snapshots \cup {None}
            /\ req[q].expected + 1 \in Nat
        BY <1>7, Typed DEF Update, RequestInv
      <3> DEFINE r == rec[req[q].rec]
                 w == req[q].status = "waived"
                 b == req[q].status \notin ATTENTION_STATUSES
                 n == req[q].expected + 1
      <3>2. w \in BOOLEAN /\ b \in BOOLEAN
        OBVIOUS
      <3>3. Resolved(q) = [r EXCEPT !.status = req[q].status, !.reviewer = req[q].reviewer,
                                    !.waived = w, !.corrected = req[q].corrected,
                                    !.resolved = b, !.revision = n]
        BY DEF Resolved
      <3> HIDE DEF TypeOK, r, w, b, n, Statuses
      <3>4. r \in Record /\ n \in Nat
        BY <3>1 DEF r, n
      <3>5. [r EXCEPT !.status = req[q].status, !.reviewer = req[q].reviewer,
                      !.waived = w, !.corrected = req[q].corrected,
                      !.resolved = b, !.revision = n] \in Record
        BY <3>1, <3>2, <3>4, RecordTyped, ZenonT(60)
      <3> QED
        BY <3>3, <3>5
    <2>2. tx' = [tx EXCEPT ![q] = [tx[q] EXCEPT !.update = {Resolved(q)}]]
      BY <1>7 DEF Update
    <2>3. tx' \in [Requests -> Transaction]
      BY <2>1, <2>2 DEF Transaction
    <2>4. req' \in [Requests -> Request] /\ lock' \in [Records -> Requests \cup {None}]
      BY <1>7, RequestTyped DEF Update
    <2> QED
      BY <1>7, <2>3, <2>4 DEF Update
  <1>8. ASSUME NEW q \in Requests, InsertResolution(q) PROVE TypeOK'
    <2>1. ResolutionRow(q) \in Row
      BY <1>8, Typed DEF InsertResolution, RequestInv, ResolutionRow, Row
    <2>2. tx' \in [Requests -> Transaction]
      BY <1>8, <2>1, ZenonT(60) DEF InsertResolution, Transaction
    <2>3. req' \in [Requests -> Request]
      BY <1>8 DEF InsertResolution, Request
    <2> QED
      BY <1>8, <2>2, <2>3 DEF InsertResolution
  <1>9. ASSUME NEW q \in Requests, InsertAudit(q) PROVE TypeOK'
    <2> DEFINE e == [rec |-> req[q].rec, revision |-> req[q].expected + 1,
                     status |-> req[q].status]
    <2>1. tx' = [tx EXCEPT ![q].events = {e}]
      <3>1. PICK u \in tx[q].update :
              tx' = [tx EXCEPT ![q].events =
                       {[rec |-> req[q].rec, revision |-> u.revision, status |-> u.status]}]
        BY <1>9 DEF InsertAudit
      <3>2. u = Resolved(q)
        BY <1>9 DEF InsertAudit, TxInv
      <3>3. rec[req[q].rec] \in Record
        BY <1>9, Typed DEF InsertAudit
      <3>4. u.revision = req[q].expected + 1 /\ u.status = req[q].status
        BY <3>2, <3>3, ResolvedColumns
      <3> QED
        BY <3>1, <3>4
    <2>2. e \in Event
      BY <1>9, Typed DEF InsertAudit, RequestInv, Event
    <2> HIDE DEF e
    <2>3. tx' \in [Requests -> Transaction]
      BY <2>1, <2>2 DEF Transaction
    <2>4. req' \in [Requests -> Request]
      BY <1>9 DEF InsertAudit, Request
    <2> QED
      BY <1>9, <2>3, <2>4 DEF InsertAudit
  <1>10. ASSUME NEW q \in Requests, ReadBack(q) PROVE TypeOK'
    <2>1. PICK d \in RowsOf(req[q].rec) \cup tx[q].rows :
            req' = [req EXCEPT ![q].pc = "read_back", ![q].response = d.id]
      BY <1>10 DEF ReadBack
    <2>2. d.id \in Requests
      <3>1. RowsOf(req[q].rec) \subseteq Row /\ tx[q].rows \subseteq Row
        BY DEF RowsOf, Transaction
      <3>2. d \in Row
        BY <2>1, <3>1, Zenon
      <3> QED
        BY <3>2 DEF Row
    <2>3. req' \in [Requests -> Request]
      BY <2>1, <2>2, RequestTyped
    <2> QED
      BY <1>10, <2>3 DEF ReadBack
  <1>11. ASSUME NEW q \in Requests, Commit(q) PROVE TypeOK'
    <2>1. PICK u \in tx[q].update : rec' = [rec EXCEPT ![req[q].rec] = u]
      BY <1>11 DEF Commit
    <2>2. u \in Record /\ tx[q].rows \subseteq Row /\ tx[q].events \subseteq Event
      BY DEF Transaction
    <2>3. rec' \in [Records -> Record]
      BY <2>1, <2>2
    <2>4. req' \in [Requests -> Request] /\ tx' \in [Requests -> Transaction]
      BY <1>0, <1>11, RequestTyped, ZenonT(60) DEF Commit
    <2> QED
      BY <1>0, <1>11, <2>2, <2>3, <2>4 DEF Commit
  <1>12. ASSUME NEW q \in Requests, Fail(q) PROVE TypeOK'
    <2>1. req' \in [Requests -> Request] /\ tx' \in [Requests -> Transaction]
      BY <1>0, <1>12, RequestTyped DEF Fail
    <2> QED
      BY <1>0, <1>12, <2>1 DEF Fail
  <1>13. CASE UNCHANGED vars
    BY <1>13 DEF vars
  <1> HIDE DEF TypeOK
  <1> QED
    BY <1>1, <1>2, <1>3, <1>4, <1>5, <1>6, <1>7, <1>8, <1>9, <1>10, <1>11, <1>12,
       <1>13, Zenon DEF Next, Serve

\* A row names its request, and the columns of the request it came from.
LEMMA RowTyped ==
    ASSUME TypeOK
    PROVE  \A d \in resolutions : /\ d.id \in Requests /\ d.rec \in Records
                                  /\ d.revision \in Nat
  BY DEF TypeOK, Row

\* What an UPDATE leaves depends on the row and on what the request carries.
LEMMA ResolvedSame ==
    ASSUME NEW x \in Requests, rec'[req'[x].rec] = rec[req[x].rec],
           req'[x].status = req[x].status, req'[x].reviewer = req[x].reviewer,
           req'[x].corrected = req[x].corrected, req'[x].expected = req[x].expected,
           req'[x].rec = req[x].rec
    PROVE  Resolved(x)' = Resolved(x) /\ ResolutionRow(x)' = ResolutionRow(x)
  BY DEF Resolved, ResolutionRow

\* A validation run and reprocess_link write no row that a transaction holds,
\* and no column that a resolution sets.
LEMMA TableStep ==
    ASSUME IInv, TypeOK', UNCHANGED <<resolutions, audit, lock, req, tx, view>>,
           \A x \in Records : /\ rec'[x].revision = rec[x].revision
                              /\ lock[x] # None => rec'[x] = rec[x],
           \A x \in Records : Exists(x) =>
               /\ rec'[x].status = rec[x].status /\ rec'[x].snapshot = rec[x].snapshot
               /\ rec'[x].reviewer = rec[x].reviewer
               /\ rec'[x].corrected = rec[x].corrected
               /\ rec'[x].resolved = rec[x].resolved
               /\ rec'[x].waived = rec[x].waived,
           \A x \in Records : ~Exists(x) =>
               rec'[x].status = None \/ rec'[x].snapshot \in Snapshots
    PROVE  IInv'
  <1> USE DEF IInv
  <1>1. LockInv'
    BY DEF LockInv, RequestInv
  <1>2. TxInv'
    <2>1. ASSUME NEW q \in Requests, req[q].pc \in InTx
          PROVE  Resolved(q)' = Resolved(q)
      <3>1. req[q].rec \in Records /\ lock[req[q].rec] # None
        BY <2>1, ConstantsAssumption DEF LockInv, RequestInv
      <3>2. rec'[req[q].rec] = rec[req[q].rec]
        BY <3>1
      <3> QED
        BY <3>2, ResolvedSame
    <2>2. \A q \in Requests : ResolutionRow(q)' = ResolutionRow(q)
      BY DEF ResolutionRow
    <2> HIDE DEF IInv
    <2>3. TxInv
      BY DEF IInv
    <2> QED
      BY <2>1, <2>2, <2>3 DEF TxInv, AuditEvent
  <1>3. RequestInv' /\ SeenInv'
    BY DEF RequestInv, SeenInv, OrgOf
  <1>4. ViewInv' /\ AbsentInv'
    BY DEF ViewInv, AbsentInv
  <1>5. RowInv'
    BY DEF RowInv, ResolutionRow
  <1>6. \A d \in resolutions : d.rec \in Records /\ Exists(d.rec)
    BY RowTyped DEF HistoryInv, AbsentInv
  <1>7. HistoryInv' /\ AuditInv' /\ AnswerInv'
    BY <1>6 DEF HistoryInv, AuditInv, AuditEvent, AnswerInv
  <1>8. RecordShowsLastResolution'
    BY <1>6 DEF RecordShowsLastResolution
  <1> QED
    BY <1>1, <1>2, <1>3, <1>4, <1>5, <1>7, <1>8

\* A validation adds records that nobody has resolved.
LEMMA ValidateStep == IInv /\ TypeOK' /\ Validate => IInv'
  <1> SUFFICES ASSUME IInv, TypeOK', Validate PROVE IInv'
    OBVIOUS
  <1>1. PICK S \in (SUBSET Records) \ {{}}, s \in Snapshots :
          /\ \A x \in S : ~Exists(x)
          /\ rec' = [x \in Records |-> IF x \in S THEN NewRecord(s) ELSE rec[x]]
          /\ UNCHANGED <<resolutions, audit, lock, req, tx, view>>
    BY DEF Validate
  <1>2. NewRecord(s).revision = 0 /\ NewRecord(s).snapshot = s
    BY DEF NewRecord, AbsentRecord
  <1>3. \A x \in Records : IF x \in S THEN rec'[x] = NewRecord(s) ELSE rec'[x] = rec[x]
    BY <1>1
  <1>4. \A x \in S : rec[x].revision = 0 /\ lock[x] = None
    <2>1. \A x \in Records : lock[x] # None => Exists(x)
      BY DEF IInv, TypeOK, LockInv, RequestInv
    <2> QED
      BY <1>1, <2>1 DEF IInv, AbsentInv
  <1> QED
    BY <1>1, <1>2, <1>3, <1>4, TableStep

\* Reprocessing links a record to its predecessor and changes nothing else of it.
LEMMA LinkStep ==
    ASSUME IInv, TypeOK', NEW prior \in Records, NEW current \in Records,
           ReprocessLink(prior, current)
    PROVE  IInv'
  <1>1. /\ UNCHANGED <<resolutions, audit, lock, req, tx, view>>
        /\ rec' = [rec EXCEPT ![current].link = prior] /\ lock[current] = None
    BY DEF ReprocessLink
  <1>2. /\ \A x \in Records : x # current => rec'[x] = rec[x]
        /\ rec'[current].status = rec[current].status
        /\ rec'[current].revision = rec[current].revision
        /\ rec'[current].snapshot = rec[current].snapshot
        /\ rec'[current].reviewer = rec[current].reviewer
        /\ rec'[current].corrected = rec[current].corrected
        /\ rec'[current].resolved = rec[current].resolved
        /\ rec'[current].waived = rec[current].waived
    BY <1>1 DEF IInv, TypeOK, Record
  <1> QED
    BY <1>1, <1>2, TableStep

\* Reading the queue writes nothing but the reviewer's screen.
LEMMA ReadStep ==
    ASSUME IInv, TypeOK', NEW r \in Reviewers, ReadQueue(r)
    PROVE  IInv'
  <1> USE DEF IInv
  <1>1. UNCHANGED <<rec, resolutions, audit, lock, req, tx>>
    BY DEF ReadQueue
  <1>2. ViewInv'
    <2>1. PICK x \in Records :
            /\ Exists(x) /\ OrgOf(x) = ReviewerOrg[r]
            /\ view' = [view EXCEPT ![r] = [rec |-> x, status |-> rec[x].status,
                                            revision |-> rec[x].revision]]
            /\ UNCHANGED <<rec, resolutions, audit, lock, req, tx>>
      BY DEF ReadQueue
    <2>2. rec[x].status \in Statuses /\ rec[x].revision \in Nat
      BY <2>1 DEF TypeOK, Record
    <2>3. view'[r].rec = x /\ view'[r].status = rec[x].status /\ view'[r].revision = rec[x].revision
      BY <2>1 DEF TypeOK
    <2>4. \A y \in Reviewers : y # r => view'[y] = view[y]
      BY <2>1 DEF TypeOK
    <2> QED
      BY <1>1, <2>1, <2>2, <2>3, <2>4 DEF ViewInv
  <1>3. LockInv' /\ RequestInv' /\ SeenInv' /\ AbsentInv' /\ HistoryInv'
    BY <1>1 DEF LockInv, RequestInv, SeenInv, AbsentInv, HistoryInv, OrgOf
  <1>4. TxInv'
    BY <1>1 DEF TxInv, ResolutionRow, Resolved, AuditEvent
  <1>5. RowInv' /\ AuditInv' /\ AnswerInv' /\ RecordShowsLastResolution'
    BY <1>1 DEF RowInv, ResolutionRow, AuditInv, AuditEvent, AnswerInv, RecordShowsLastResolution
  <1> QED
    BY <1>2, <1>3, <1>4, <1>5

\* A new request asks for a revision its record has reached.
LEMMA SubmitStep ==
    ASSUME IInv, TypeOK', NEW q \in Requests, NEW r \in Reviewers,
           Submit(q, r) \/ SubmitForeign(q, r)
    PROVE  IInv'
  <1> USE DEF IInv
  <1>1. /\ UNCHANGED <<rec, resolutions, audit, lock, tx, view>>
        /\ req[q].pc = "free"
        /\ \A x \in Requests : x # q => req'[x] = req[x]
    BY DEF Submit, SubmitForeign, TypeOK
  <1>2. /\ req'[q].pc = "received" /\ req'[q].reviewer = r
        /\ req'[q].rec \in Records /\ Exists(req'[q].rec)
        /\ req'[q].expected <= rec[req'[q].rec].revision
        /\ \/ req'[q].seen = None /\ OrgOf(req'[q].rec) # ReviewerOrg[r]
           \/ /\ req'[q].seen \in Statuses
              /\ req'[q].expected = rec[req'[q].rec].revision =>
                     req'[q].seen = rec[req'[q].rec].status
    <2>1. CASE Submit(q, r)
      <3>1. /\ req'[q].pc = "received" /\ req'[q].reviewer = r
            /\ req'[q].rec = view[r].rec /\ view[r].rec # None
            /\ req'[q].expected = view[r].revision /\ req'[q].seen = view[r].status
        <4>1. PICK s \in Resolutions \cup {None}, corrected \in Snapshots \cup {None} :
                req' = [req EXCEPT ![q] =
                          [FreeRequest EXCEPT
                             !.pc = "received", !.reviewer = r, !.rec = view[r].rec,
                             !.status = s, !.corrected = corrected,
                             !.expected = view[r].revision, !.seen = view[r].status]]
          BY <2>1 DEF Submit
        <4>2. view[r].rec # None
          BY <2>1 DEF Submit
        <4> QED
          BY <4>1, <4>2 DEF TypeOK, FreeRequest
      <3> QED
        BY <3>1 DEF ViewInv
    <2>2. CASE SubmitForeign(q, r)
      <3>1. PICK x \in Records, s \in Resolutions :
              /\ Exists(x) /\ OrgOf(x) # ReviewerOrg[r]
              /\ req' = [req EXCEPT ![q] =
                           [FreeRequest EXCEPT
                              !.pc = "received", !.reviewer = r, !.rec = x,
                              !.status = s]]
        BY <2>2 DEF SubmitForeign
      <3>2. /\ req'[q].pc = "received" /\ req'[q].reviewer = r
            /\ req'[q].rec = x /\ req'[q].expected = 0 /\ req'[q].seen = None
        BY <3>1 DEF TypeOK, FreeRequest
      <3>3. rec[x].revision \in Nat
        BY DEF TypeOK, Record
      <3> QED
        BY <3>1, <3>2, <3>3
    <2> QED
      BY <2>1, <2>2
  <1>3. \A d \in resolutions : d.id \in Requests /\ d.id # q
    BY <1>1, RowTyped DEF RowInv
  <1>4. LockInv'
    <2>1. \A x \in Records : lock[x] # None => lock[x] \in Requests /\ lock[x] # q
      BY <1>1 DEF LockInv, TypeOK
    <2> QED
      BY <1>1, <1>2, <2>1 DEF LockInv
  <1>5. TxInv'
    <2>1. \A x \in Requests : x # q => /\ Resolved(x)' = Resolved(x)
                                       /\ ResolutionRow(x)' = ResolutionRow(x)
      BY <1>1, ResolvedSame, Zenon
    <2> QED
      BY <1>1, <1>2, <2>1 DEF TxInv, AuditEvent
  <1>6. RequestInv' /\ SeenInv'
    <2> HIDE DEF IInv
    <2>1. RequestInv /\ SeenInv
      BY DEF IInv
    <2> QED
      BY <1>1, <1>2, <2>1 DEF RequestInv, SeenInv, OrgOf
  <1>7. ViewInv' /\ AbsentInv' /\ HistoryInv'
    BY <1>1 DEF ViewInv, AbsentInv, HistoryInv
  <1>8. RowInv'
    BY <1>1, <1>2, <1>3 DEF RowInv, ResolutionRow
  <1>9. AuditInv' /\ AnswerInv' /\ RecordShowsLastResolution'
    BY <1>1, <1>2 DEF AuditInv, AuditEvent, AnswerInv, RecordShowsLastResolution
  <1> QED
    BY <1>4, <1>5, <1>6, <1>7, <1>8, <1>9

\* What a request that moves without writing a table cannot disturb, whether
\* it reads its row back on the way or not.
LEMMA RequestMoves ==
    ASSUME IInv, TypeOK', UNCHANGED <<rec, resolutions, audit, view>>,
           NEW q \in Requests, \A x \in Requests : x # q => req'[x] = req[x],
           req'[q].reviewer = req[q].reviewer, req'[q].rec = req[q].rec,
           req'[q].status = req[q].status, req'[q].corrected = req[q].corrected,
           req'[q].expected = req[q].expected, req'[q].seen = req[q].seen,
           req[q].pc \notin {"free", "saved", "lost"}, req'[q].pc # "free",
           req[q].pc = "committed" => req'[q].pc \in {"saved", "lost"},
           req'[q].pc \in {"committed", "saved"} => req[q].pc = "committed",
           req'[q].pc \in {"checked", "conflict"} \cup InTx =>
               /\ req[q].status \in Resolutions
               /\ OrgOf(req[q].rec) = ReviewerOrg[req[q].reviewer]
    PROVE  /\ RequestInv' /\ SeenInv' /\ ViewInv' /\ RowInv' /\ AbsentInv'
           /\ HistoryInv' /\ AuditInv' /\ RecordShowsLastResolution'
           /\ \A x \in Requests : /\ Resolved(x)' = Resolved(x)
                                  /\ ResolutionRow(x)' = ResolutionRow(x)
  <1> USE DEF IInv
  <1>1. RequestInv' /\ SeenInv'
    BY DEF RequestInv, SeenInv, OrgOf
  <1>2. ViewInv' /\ AbsentInv' /\ HistoryInv'
    BY DEF ViewInv, AbsentInv, HistoryInv
  <1>3. \A x \in Requests : /\ Resolved(x)' = Resolved(x)
                            /\ ResolutionRow(x)' = ResolutionRow(x)
    BY ResolvedSame
  <1>4. RowInv'
    <2>1. \A d \in resolutions : /\ req'[d.id].pc \in {"committed", "saved", "lost"}
                                 /\ d = ResolutionRow(d.id)'
      BY <1>3, RowTyped DEF RowInv
    <2>2. \A x \in Requests : req'[x].pc \in {"committed", "saved"} =>
              ResolutionRow(x)' \in resolutions
      BY <1>3 DEF RowInv
    <2> QED
      BY <2>1, <2>2 DEF RowInv
  <1>5. AuditInv' /\ RecordShowsLastResolution'
    BY DEF AuditInv, AuditEvent, RecordShowsLastResolution
  <1> QED
    BY <1>1, <1>2, <1>3, <1>4, <1>5

\* The steps of a request outside its transaction.
LEMMA QuietStep ==
    ASSUME IInv, TypeOK', NEW q \in Requests, Check(q) \/ Conflict(q) \/ Respond(q)
    PROVE  IInv'
  <1> DEFINE p == req'[q].pc
  <1>1. /\ UNCHANGED <<rec, resolutions, audit, lock, tx, view>>
        /\ req' = [req EXCEPT ![q].pc = p] /\ TypeOK
        /\ \/ req[q].pc = "received" /\ p = "refused"
           \/ req[q].pc = "received" /\ p = "checked" /\ Acceptable(q)
           \/ /\ req[q].pc = "checked" /\ p = "conflict"
              /\ rec[req[q].rec].revision # req[q].expected
           \/ req[q].pc = "committed" /\ p = "saved"
    BY DEF Check, Conflict, Respond, IInv, TypeOK, Request
  <1>2. p \in {"checked", "conflict"} =>
            /\ req[q].status \in Resolutions
            /\ OrgOf(req[q].rec) = ReviewerOrg[req[q].reviewer]
    <2>1. p = "checked" => /\ req[q].status \in Resolutions
                           /\ OrgOf(req[q].rec) = ReviewerOrg[req[q].reviewer]
      BY <1>1 DEF Acceptable, TypeOK, Request
    <2>2. p = "conflict" => req[q].pc = "checked"
      BY <1>1
    <2> QED
      BY <2>1, <2>2 DEF IInv, RequestInv
  <1> HIDE DEF p
  <1>3. /\ req'[q].pc = p /\ p \notin InTx /\ req[q].pc \notin InTx
        /\ \A x \in Requests : x # q => req'[x] = req[x]
        /\ \A x \in Requests : /\ req'[x].rec = req[x].rec
                               /\ req'[x].expected = req[x].expected
                               /\ req'[x].response = req[x].response
    BY <1>1, PcStep
  <1>4. /\ RequestInv' /\ SeenInv' /\ ViewInv' /\ RowInv' /\ AbsentInv'
        /\ HistoryInv' /\ AuditInv' /\ RecordShowsLastResolution'
        /\ \A x \in Requests : /\ Resolved(x)' = Resolved(x)
                               /\ ResolutionRow(x)' = ResolutionRow(x)
    BY <1>1, <1>2, <1>3, PcStep, RequestMoves
  <1>5. LockInv'
    BY <1>1, <1>3 DEF IInv, LockInv, TypeOK
  <1>6. TxInv'
    <2>1. TxInv
      BY DEF IInv
    <2> QED
      BY <1>1, <1>3, <1>4, <2>1 DEF TxInv, AuditEvent
  <1>7. AnswerInv'
    <2>1. p = "conflict" => \E d \in resolutions : /\ d.rec = req[q].rec
                                                   /\ d.revision = req[q].expected + 1
      <3> SUFFICES ASSUME p = "conflict"
                   PROVE  \E d \in resolutions : /\ d.rec = req[q].rec
                                                 /\ d.revision = req[q].expected + 1
        OBVIOUS
      <3>1. /\ req[q].expected \in Nat /\ req[q].rec \in Records
            /\ rec[req[q].rec].revision \in Nat
        BY <1>1, Typed DEF IInv
      <3>2. req[q].expected <= rec[req[q].rec].revision /\ rec[req[q].rec].revision # req[q].expected
        BY <1>1 DEF IInv, RequestInv
      <3>3. req[q].expected + 1 \in 1..rec[req[q].rec].revision
        BY <3>1, <3>2
      <3> QED
        BY <3>1, <3>3 DEF IInv, HistoryInv
    <2>2. AnswerInv
      BY DEF IInv
    <2> QED
      BY <1>1, <1>3, <2>1, <2>2 DEF AnswerInv
  <1> QED
    BY <1>4, <1>5, <1>6, <1>7 DEF IInv

\* The conditional UPDATE takes a free row at the expected revision.
LEMMA UpdateStep ==
    ASSUME IInv, TypeOK', NEW q \in Requests, Update(q)
    PROVE  IInv'
  <1>1. /\ UNCHANGED <<rec, resolutions, audit, view>>
        /\ req' = [req EXCEPT ![q].pc = "updated"] /\ req[q].pc = "checked"
        /\ lock[req[q].rec] = None /\ rec[req[q].rec].revision = req[q].expected
        /\ lock' = [lock EXCEPT ![req[q].rec] = q]
        /\ TypeOK /\ req[q].rec \in Records /\ req[q].status \in Resolutions
        /\ OrgOf(req[q].rec) = ReviewerOrg[req[q].reviewer]
    BY DEF Update, IInv, RequestInv
  <1>2. /\ req'[q].pc = "updated"
        /\ \A x \in Requests : x # q => req'[x] = req[x]
        /\ \A x \in Requests : /\ req'[x].rec = req[x].rec
                               /\ req'[x].expected = req[x].expected
                               /\ req'[x].response = req[x].response
    BY <1>1, PcStep
  <1>3. /\ RequestInv' /\ SeenInv' /\ ViewInv' /\ RowInv' /\ AbsentInv'
        /\ HistoryInv' /\ AuditInv' /\ RecordShowsLastResolution'
        /\ \A x \in Requests : /\ Resolved(x)' = Resolved(x)
                               /\ ResolutionRow(x)' = ResolutionRow(x)
    BY <1>1, <1>2, PcStep, RequestMoves
  <1>4. LockInv'
    <2>1. \A x \in Records : lock[x] # None => lock[x] \in Requests /\ lock[x] # q
      BY <1>1 DEF IInv, LockInv, TypeOK
    <2>2. \A x \in Requests : req[x].pc \in InTx => req[x].rec \in Records
      BY DEF IInv, RequestInv
    <2>3. LockInv
      BY DEF IInv
    <2> QED
      BY <1>1, <1>2, <2>1, <2>2, <2>3, ConstantsAssumption DEF LockInv, TypeOK
  <1>5. TxInv'
    <2>1. /\ \A x \in Requests : x # q => tx'[x] = tx[x]
          /\ tx'[q].update = {Resolved(q)}
      BY DEF Update, IInv, TypeOK, Transaction
    <2>2. TxInv
      BY DEF IInv
    <2> QED
      BY <1>2, <1>3, <2>1, <2>2 DEF TxInv, AuditEvent
  <1>6. AnswerInv'
    BY <1>1, <1>2 DEF IInv, AnswerInv
  <1> QED
    BY <1>3, <1>4, <1>5, <1>6 DEF IInv

\* Flushing the resolution and its audit event only fills the buffer, and the
\* highest row that the transaction then reads back is its own.
LEMMA BufferStep ==
    ASSUME IInv, TypeOK', NEW q \in Requests,
           InsertResolution(q) \/ InsertAudit(q) \/ ReadBack(q)
    PROVE  IInv'
  <1>1. /\ UNCHANGED <<rec, resolutions, audit, lock, view>> /\ TypeOK
        /\ \A x \in Requests : x # q => req'[x] = req[x] /\ tx'[x] = tx[x]
    BY DEF InsertResolution, InsertAudit, ReadBack, IInv, TypeOK
  <1>2. /\ req'[q].reviewer = req[q].reviewer /\ req'[q].rec = req[q].rec
        /\ req'[q].status = req[q].status /\ req'[q].corrected = req[q].corrected
        /\ req'[q].expected = req[q].expected /\ req'[q].seen = req[q].seen
        /\ \/ req[q].pc = "updated" /\ req'[q].pc = "inserted"
           \/ req[q].pc = "inserted" /\ req'[q].pc = "audited"
           \/ req[q].pc = "audited" /\ req'[q].pc = "read_back"
    <2>1. CASE InsertResolution(q)
      BY <1>1, <2>1, PcStep DEF InsertResolution
    <2>2. CASE InsertAudit(q)
      BY <1>1, <2>2, PcStep DEF InsertAudit
    <2>3. CASE ReadBack(q)
      <3>1. PICK d : req' = [req EXCEPT ![q].pc = "read_back", ![q].response = d.id]
        BY <2>3 DEF ReadBack
      <3>2. /\ req'[q].reviewer = req[q].reviewer /\ req'[q].rec = req[q].rec
            /\ req'[q].status = req[q].status /\ req'[q].corrected = req[q].corrected
            /\ req'[q].expected = req[q].expected /\ req'[q].seen = req[q].seen
            /\ req'[q].pc = "read_back"
        BY <1>1, <3>1 DEF TypeOK, Request
      <3>3. req[q].pc = "audited"
        BY <2>3 DEF ReadBack
      <3> QED
        BY <3>2, <3>3
    <2> QED
      BY <2>1, <2>2, <2>3
  <1>3. /\ req[q].rec \in Records /\ req[q].expected \in Nat
        /\ rec[req[q].rec].revision = req[q].expected /\ rec[req[q].rec] \in Record
        /\ req[q].status \in Resolutions
        /\ OrgOf(req[q].rec) = ReviewerOrg[req[q].reviewer]
    BY <1>2, Typed DEF IInv, RequestInv, LockInv
  <1>4. /\ RequestInv' /\ SeenInv' /\ ViewInv' /\ RowInv' /\ AbsentInv'
        /\ HistoryInv' /\ AuditInv' /\ RecordShowsLastResolution'
        /\ \A x \in Requests : /\ Resolved(x)' = Resolved(x)
                               /\ ResolutionRow(x)' = ResolutionRow(x)
    BY <1>1, <1>2, <1>3, RequestMoves
  <1>5. LockInv'
    <2>1. LockInv /\ \A x \in Records : lock[x] # None => lock[x] \in Requests
      BY <1>1 DEF IInv, TypeOK
    <2> QED
      BY <1>1, <1>2, <2>1 DEF LockInv
  <1>6. TxInv'
    <2>0. TxInv
      BY DEF IInv
    <2>1. ASSUME tx'[q].update = {Resolved(q)},
                 req'[q].pc \in Buffered => tx'[q].rows = {ResolutionRow(q)},
                 req'[q].pc \in {"audited", "read_back"} =>
                     tx'[q].events = {AuditEvent(ResolutionRow(q))}
          PROVE  TxInv'
      BY <1>1, <1>4, <2>0, <2>1 DEF TxInv, AuditEvent
    <2>2. CASE InsertResolution(q)
      <3>1. tx'[q].update = tx[q].update /\ tx'[q].rows = {ResolutionRow(q)}
        BY <2>2 DEF InsertResolution, IInv, TypeOK, Transaction
      <3>2. req'[q].pc = "inserted" /\ req[q].pc = "updated"
        BY <1>2, <2>2 DEF InsertResolution
      <3> QED
        BY <2>0, <2>1, <3>1, <3>2 DEF TxInv
    <2>3. CASE InsertAudit(q)
      <3>1. PICK u \in tx[q].update :
              tx' = [tx EXCEPT ![q].events =
                       {[rec |-> req[q].rec, revision |-> u.revision,
                         status |-> u.status]}]
        BY <2>3 DEF InsertAudit
      <3>2. req[q].pc = "inserted" /\ req'[q].pc = "audited"
        BY <1>2, <2>3 DEF InsertAudit
      <3>3. u = Resolved(q)
        BY <2>0, <3>2 DEF TxInv
      <3>4. u.revision = req[q].expected + 1 /\ u.status = req[q].status
        BY <1>3, <3>3, ResolvedColumns
      <3>5. AuditEvent(ResolutionRow(q)) =
              [rec |-> req[q].rec, revision |-> u.revision, status |-> u.status]
        BY <3>4 DEF AuditEvent, ResolutionRow
      <3>6. /\ tx'[q].update = tx[q].update /\ tx'[q].rows = tx[q].rows
            /\ tx'[q].events = {AuditEvent(ResolutionRow(q))}
        BY <3>1, <3>5 DEF IInv, TypeOK, Transaction
      <3> QED
        BY <2>0, <2>1, <3>2, <3>6 DEF TxInv
    <2>4. CASE ReadBack(q)
      <3>1. tx' = tx /\ req[q].pc = "audited"
        BY <2>4 DEF ReadBack
      <3> QED
        BY <2>0, <2>1, <3>1 DEF TxInv
    <2> QED
      BY <2>2, <2>3, <2>4
  <1>7. AnswerInv'
    <2>1. req'[q].pc = "read_back" => req'[q].response = q
      <3> SUFFICES ASSUME ReadBack(q) PROVE req'[q].response = q
        BY <1>1, <1>2 DEF InsertResolution, InsertAudit, TypeOK, Request
      <3> DEFINE row == ResolutionRow(q)
                 rows == RowsOf(req[q].rec) \cup tx[q].rows
      <3>1. PICK d \in rows :
              /\ \A e \in rows : e.revision <= d.revision
              /\ req' = [req EXCEPT ![q].pc = "read_back", ![q].response = d.id]
        BY DEF ReadBack
      <3>2. tx[q].rows = {row} /\ row.id = q /\ row.revision = req[q].expected + 1
        BY DEF ReadBack, IInv, TxInv, ResolutionRow
      <3>3. \A e \in RowsOf(req[q].rec) : e.revision \in Nat /\ e.revision <= req[q].expected
        BY <1>1, <1>3, RowTyped DEF IInv, HistoryInv
      <3> HIDE DEF row
      <3>4. row.revision <= d.revision
        BY <3>1, <3>2
      <3>5. d = row
        BY <1>3, <3>1, <3>2, <3>3, <3>4
      <3> QED
        BY <1>1, <3>1, <3>2, <3>5 DEF TypeOK, Request
    <2>2. AnswerInv
      BY DEF IInv
    <2> QED
      BY <1>1, <1>2, <2>1, <2>2 DEF AnswerInv
  <1> QED
    BY <1>4, <1>5, <1>6, <1>7 DEF IInv

\* Giving a row back frees it for nobody else's transaction.
LEMMA Released ==
    ASSUME NEW q \in Requests, lock' = Release(q)
    PROVE  \A x \in Records : /\ lock[x] = q => lock'[x] = None
                              /\ lock[x] # q => lock'[x] = lock[x]
  BY DEF Release

\* A request that dies rolls its transaction back and gives its row back.
LEMMA FailStep ==
    ASSUME IInv, TypeOK', NEW q \in Requests, Fail(q)
    PROVE  IInv'
  <1>1. /\ UNCHANGED <<rec, resolutions, audit, view>> /\ TypeOK
        /\ req[q].pc \in Serving /\ req' = [req EXCEPT ![q].pc = "lost"]
        /\ \A x \in Requests : x # q => tx'[x] = tx[x]
        /\ lock' = Release(q)
    BY DEF Fail, IInv, TypeOK
  <1>2. /\ req'[q].pc = "lost"
        /\ \A x \in Requests : x # q => req'[x] = req[x]
        /\ \A x \in Requests : /\ req'[x].rec = req[x].rec
                               /\ req'[x].expected = req[x].expected
                               /\ req'[x].response = req[x].response
    BY <1>1, PcStep
  <1>3. /\ RequestInv' /\ SeenInv' /\ ViewInv' /\ RowInv' /\ AbsentInv'
        /\ HistoryInv' /\ AuditInv' /\ RecordShowsLastResolution'
        /\ \A x \in Requests : /\ Resolved(x)' = Resolved(x)
                               /\ ResolutionRow(x)' = ResolutionRow(x)
    BY <1>1, <1>2, PcStep, RequestMoves
  <1>4. LockInv'
    <2>1. /\ \A x \in Records : lock[x] # None => lock[x] \in Requests
          /\ \A x \in Requests : req[x].pc \in InTx => req[x].rec \in Records
          /\ LockInv
      BY DEF IInv, TypeOK, RequestInv
    <2> QED
      BY <1>1, <1>2, <2>1, Released DEF LockInv
  <1>5. TxInv'
    <2>1. TxInv
      BY DEF IInv
    <2> QED
      BY <1>1, <1>2, <1>3, <2>1 DEF TxInv, AuditEvent
  <1>6. AnswerInv'
    BY <1>1, <1>2 DEF IInv, AnswerInv
  <1> QED
    BY <1>3, <1>4, <1>5, <1>6 DEF IInv

\* What a commit does to the tables: the buffered row becomes the record, one
\* resolution and its event are added, and nobody else's row moves.
LEMMA CommitFacts ==
    ASSUME IInv, NEW q \in Requests, Commit(q)
    PROVE  LET x == req[q].rec
           IN  /\ x \in Records /\ Exists(x) /\ req[q].status \in Resolutions
               /\ req[q].expected \in Nat /\ rec[x].revision = req[q].expected
               /\ rec[x] \in Record /\ req[q].pc = "read_back"
               /\ rec' = [rec EXCEPT ![x] = Resolved(q)]
               /\ rec'[x] = Resolved(q)
               /\ \A y \in Records : y # x => rec'[y] = rec[y]
               /\ resolutions' = resolutions \cup {ResolutionRow(q)}
               /\ audit' = audit \cup {AuditEvent(ResolutionRow(q))}
               /\ req' = [req EXCEPT ![q].pc = "committed"]
               /\ \A y \in Requests : y # q => tx'[y] = tx[y]
               /\ lock' = Release(q) /\ view' = view
  <1>1. req[q].pc = "read_back"
    BY DEF Commit
  <1>2. /\ req[q].rec \in Records /\ Exists(req[q].rec) /\ req[q].status \in Resolutions
        /\ req[q].expected \in Nat /\ rec[req[q].rec].revision = req[q].expected
        /\ rec[req[q].rec] \in Record
    BY <1>1, Typed DEF IInv, RequestInv, LockInv
  <1>3. /\ tx[q].update = {Resolved(q)} /\ tx[q].rows = {ResolutionRow(q)}
        /\ tx[q].events = {AuditEvent(ResolutionRow(q))}
    BY <1>1 DEF IInv, TxInv
  <1>4. rec' = [rec EXCEPT ![req[q].rec] = Resolved(q)]
    <2>1. PICK u \in tx[q].update : rec' = [rec EXCEPT ![req[q].rec] = u]
      BY DEF Commit
    <2> QED
      BY <1>3, <2>1
  <1>5. /\ rec'[req[q].rec] = Resolved(q)
        /\ \A y \in Records : y # req[q].rec => rec'[y] = rec[y]
    BY <1>2, <1>4 DEF IInv, TypeOK
  <1>6. /\ resolutions' = resolutions \cup {ResolutionRow(q)}
        /\ audit' = audit \cup {AuditEvent(ResolutionRow(q))}
        /\ req' = [req EXCEPT ![q].pc = "committed"]
        /\ lock' = Release(q) /\ view' = view
    BY <1>3 DEF Commit
  <1>7. \A y \in Requests : y # q => tx'[y] = tx[y]
    BY DEF Commit, IInv, TypeOK
  <1> QED
    BY <1>1, <1>2, <1>4, <1>5, <1>6, <1>7

\* The commit publishes exactly the next revision of a history that nobody
\* else can have extended since the UPDATE.
LEMMA CommitStep ==
    ASSUME IInv, TypeOK', NEW q \in Requests, Commit(q)
    PROVE  IInv'
  <1> DEFINE x == req[q].rec
             n == req[q].expected + 1
             row == ResolutionRow(q)
             new == Resolved(q)
  <1>1. /\ x \in Records /\ Exists(x) /\ req[q].status \in Resolutions
        /\ req[q].expected \in Nat /\ rec[x].revision = req[q].expected
        /\ rec[x] \in Record /\ req[q].pc = "read_back"
        /\ n \in Nat /\ n > 0 /\ n = req[q].expected + 1
    BY CommitFacts
  <1>2. /\ rec'[x] = new /\ \A y \in Records : y # x => rec'[y] = rec[y]
        /\ resolutions' = resolutions \cup {row}
        /\ audit' = audit \cup {AuditEvent(row)} /\ view' = view
        /\ \A y \in Requests : y # q => tx'[y] = tx[y]
    BY CommitFacts
  <1>3. lock' = Release(q) /\ req' = [req EXCEPT ![q].pc = "committed"] /\ TypeOK
    BY CommitFacts DEF IInv
  <1>4. /\ row.id = q /\ row.rec = x /\ row.revision = n /\ row.status = req[q].status
        /\ row.reviewer = req[q].reviewer /\ row.corrected = req[q].corrected
    BY DEF ResolutionRow
  <1>5. /\ new.status = req[q].status /\ new.revision = n
        /\ new.snapshot = rec[x].snapshot /\ new.reviewer = req[q].reviewer
        /\ new.corrected = req[q].corrected
        /\ new.resolved = (req[q].status \notin ATTENTION_STATUSES)
        /\ new.waived = (req[q].status = "waived")
    BY <1>1, ResolvedColumns
  <1>6. \A y \in Requests : /\ req'[y].reviewer = req[y].reviewer
                            /\ req'[y].rec = req[y].rec
                            /\ req'[y].status = req[y].status
                            /\ req'[y].corrected = req[y].corrected
                            /\ req'[y].expected = req[y].expected
                            /\ req'[y].seen = req[y].seen
                            /\ req'[y].response = req[y].response
    BY <1>3, PcStep
  <1>7. req'[q].pc = "committed" /\ \A y \in Requests : y # q => req'[y] = req[y]
    BY <1>3, PcStep
  <1>8. \A d \in resolutions : /\ d.id \in Requests /\ d.id # q
                               /\ d.rec \in Records /\ d.revision \in Nat
                               /\ d.rec = x => d.revision < n
    <2>1. \A d \in resolutions : d.id \in Requests /\ d.rec \in Records /\ d.revision \in Nat
      BY <1>3, RowTyped
    <2>2. \A d \in resolutions : d.id # q
      BY <1>1 DEF IInv, RowInv
    <2> QED
      BY <1>1, <2>1, <2>2 DEF IInv, HistoryInv
  <1>9. \A y \in Records : rec[y].revision \in Nat /\ rec'[y].revision \in Nat
    BY <1>3 DEF TypeOK, Record
  <1>10. \A y \in Requests : req[y].expected \in Nat
    BY <1>3 DEF TypeOK, Request
  <1>11. \A y \in Requests : req[y].pc # "free" =>
           req[y].rec \in Records /\ Exists(req[y].rec) /\ req[y].expected <= rec[req[y].rec].revision
    BY DEF IInv, RequestInv
  <1>12. req[q].status # None
    BY <1>1, ConstantsAssumption
  <1>13. \A y \in Requests : ResolutionRow(y)' = ResolutionRow(y)
    BY <1>6 DEF ResolutionRow
  <1> HIDE DEF x, n, row, new
  <1>14. LockInv'
    <2>1. /\ \A y \in Records : lock[y] # None => lock[y] \in Requests
          /\ LockInv
      BY DEF IInv, TypeOK
    <2>2. lock[x] = q
      BY <1>1, <2>1 DEF LockInv, x
    <2>3. \A y \in Requests : req'[y].pc \in InTx =>
              /\ y # q /\ req'[y] = req[y] /\ req[y].pc \in InTx
              /\ lock[req[y].rec] = y /\ req[y].rec # x /\ req[y].rec \in Records
      BY <1>7, <1>11, <2>1, <2>2 DEF LockInv
    <2>4. \A y \in Requests : req'[y].pc \in InTx =>
              /\ lock'[req'[y].rec] = y
              /\ rec'[req'[y].rec].revision = req'[y].expected
      BY <1>2, <1>3, <2>1, <2>3, Released DEF LockInv
    <2>5. \A y \in Records : lock'[y] # None =>
              req'[lock'[y]].pc \in InTx /\ req'[lock'[y]].rec = y
      BY <1>3, <1>7, <2>1, Released DEF LockInv
    <2> QED
      BY <2>4, <2>5 DEF LockInv
  <1>15. TxInv'
    <2>1. TxInv /\ LockInv
      BY DEF IInv
    <2>2. lock[x] = q
      BY <1>1, <2>1 DEF LockInv, x
    <2>3. ASSUME NEW y \in Requests, req'[y].pc \in InTx
          PROVE  y # q /\ req'[y] = req[y] /\ Resolved(y)' = Resolved(y)
      <3>1. y # q /\ req'[y] = req[y]
        BY <1>7, <2>3
      <3>2. req[y].rec # x /\ req[y].rec \in Records
        BY <1>11, <2>1, <2>2, <2>3, <3>1 DEF LockInv
      <3>3. rec'[req'[y].rec] = rec[req[y].rec]
        BY <1>2, <3>1, <3>2
      <3> QED
        BY <3>1, <3>3, ResolvedSame
    <2> QED
      BY <1>2, <1>7, <1>13, <2>1, <2>3 DEF TxInv, AuditEvent
  <1>16. RequestInv'
    <2>1. \A y \in Records : Exists(y) =>
              /\ rec'[y].status # None /\ rec'[y].snapshot = rec[y].snapshot
      BY <1>2, <1>5, <1>12
    <2>2. \A y \in Records : rec[y].revision <= rec'[y].revision
      BY <1>1, <1>2, <1>5, <1>9
    <2>3. \A y \in Requests : req[y].pc # "free" => req[y].expected <= rec'[req[y].rec].revision
      BY <1>9, <1>10, <1>11, <2>2
    <2>4. RequestInv
      BY DEF IInv
    <2> QED
      BY <1>1, <1>6, <1>7, <2>1, <2>3, <2>4 DEF RequestInv, OrgOf
  <1>17. SeenInv'
    <2>1. SeenInv
      BY DEF IInv
    <2>2. \A y \in Requests : req[y].pc # "free" /\ req[y].rec = x =>
              req[y].expected # rec'[x].revision
      BY <1>1, <1>2, <1>5, <1>10, <1>11
    <2>3. \A y \in Requests : req[y].pc # "free" =>
              rec'[req[y].rec].snapshot = rec[req[y].rec].snapshot
      BY <1>2, <1>5, <1>11
    <2>4. \A y \in Requests : req'[y].pc # "free" => req[y].pc # "free"
      BY <1>1, <1>7
    <2> QED
      BY <1>2, <1>6, <1>11, <2>1, <2>2, <2>3, <2>4 DEF SeenInv, OrgOf
  <1>18. ViewInv'
    <2>1. ViewInv /\ \A r \in Reviewers : view[r].revision \in Nat
      BY DEF IInv, TypeOK, View
    <2> QED
      BY <1>1, <1>2, <1>5, <1>9, <1>12, <2>1 DEF ViewInv
  <1>19. RowInv'
    <2>0. RowInv
      BY DEF IInv
    <2>1. \A d \in resolutions' : /\ req'[d.id].pc \in {"committed", "saved", "lost"}
                                  /\ d = ResolutionRow(d.id)'
      <3>1. \A d \in resolutions : /\ req'[d.id].pc \in {"committed", "saved", "lost"}
                                   /\ d = ResolutionRow(d.id)'
        BY <1>7, <1>8, <1>13, <2>0 DEF RowInv
      <3>2. req'[row.id].pc = "committed" /\ row = ResolutionRow(row.id)'
        BY <1>4, <1>7, <1>13 DEF row
      <3>3. \A d \in resolutions' : d \in resolutions \/ d = row
        BY <1>2
      <3> QED
        BY <3>1, <3>2, <3>3 DEF ResolutionRow
    <2>2. \A y \in Requests : req'[y].pc \in {"committed", "saved"} =>
              ResolutionRow(y)' \in resolutions'
      <3>1. \A y \in Requests : y # q /\ req'[y].pc \in {"committed", "saved"} =>
                ResolutionRow(y)' \in resolutions
        BY <1>7, <1>13, <2>0 DEF RowInv
      <3>2. ResolutionRow(q)' = row
        BY <1>13 DEF row
      <3> QED
        BY <1>2, <3>1, <3>2
    <2> QED
      BY <2>1, <2>2 DEF RowInv
  <1>20. AbsentInv'
    BY <1>1, <1>2, <1>5, <1>12 DEF IInv, AbsentInv
  <1>21. HistoryInv'
    <2>0. HistoryInv
      BY DEF IInv
    <2>1. \A d \in resolutions' : 1 <= d.revision /\ d.revision <= rec'[d.rec].revision
      BY <1>1, <1>2, <1>4, <1>5, <1>8, <1>9, <2>0 DEF HistoryInv
    <2>2. ASSUME NEW y \in Records, NEW m \in 1..rec'[y].revision
          PROVE \E d \in resolutions' : d.rec = y /\ d.revision = m
      <3>1. CASE y = x /\ m = n
        BY <1>2, <1>4, <3>1
      <3>2. CASE ~(y = x /\ m = n)
        <4>1. m \in 1..rec[y].revision
          BY <1>1, <1>2, <1>5, <1>9, <3>2
        <4> QED
          BY <1>2, <2>0, <4>1 DEF HistoryInv
      <3> QED
        BY <3>1, <3>2
    <2>3. \A d, e \in resolutions' : d.rec = e.rec /\ d.revision = e.revision => d = e
      BY <1>1, <1>2, <1>4, <1>8, <2>0 DEF HistoryInv
    <2> QED
      BY <2>1, <2>2, <2>3 DEF HistoryInv
  <1>22. AuditInv'
    BY <1>2 DEF IInv, AuditInv, AuditEvent
  <1>23. AnswerInv'
    <2>1. AnswerInv
      BY DEF IInv
    <2> QED
      BY <1>1, <1>2, <1>6, <1>7, <2>1 DEF AnswerInv
  <1>24. RecordShowsLastResolution'
    <2>1. RecordShowsLastResolution
      BY DEF IInv
    <2>2. ASSUME NEW d \in resolutions, d.revision = rec'[d.rec].revision
          PROVE  d.rec # x /\ rec'[d.rec] = rec[d.rec]
      BY <1>1, <1>2, <1>5, <1>8, <2>2
    <2>3. ASSUME NEW d \in resolutions', d.revision = rec'[d.rec].revision
          PROVE  /\ rec'[d.rec].status = d.status
                 /\ rec'[d.rec].reviewer = d.reviewer
                 /\ rec'[d.rec].corrected = d.corrected
                 /\ rec'[d.rec].resolved <=> d.status \notin ATTENTION_STATUSES
                 /\ rec'[d.rec].waived <=> d.status = "waived"
      <3>1. CASE d = row
        BY <1>2, <1>4, <1>5, <3>1
      <3>2. CASE d \in resolutions
        BY <2>1, <2>2, <2>3, <3>2 DEF RecordShowsLastResolution
      <3> QED
        BY <1>2, <3>1, <3>2
    <2> QED
      BY <2>3 DEF RecordShowsLastResolution
  <1> QED
    BY <1>14, <1>15, <1>16, <1>17, <1>18, <1>19, <1>20, <1>21, <1>22, <1>23, <1>24
       DEF IInv

\* The strengthened invariant is inductive.
LEMMA NextIInv == IInv /\ [Next]_vars => IInv'
  <1> SUFFICES ASSUME IInv, [Next]_vars PROVE IInv'
    OBVIOUS
  <1>1. TypeOK'
    BY TypePreserved
  <1>2. CASE UNCHANGED vars
    <2>1. UNCHANGED <<resolutions, audit, lock, req, tx, view>> /\ rec' = rec
      BY <1>2 DEF vars
    <2> QED
      BY <1>1, <2>1, TableStep
  <1>3. ASSUME NEW q \in Requests, Serve(q) \/ Fail(q)
        PROVE  IInv'
    BY <1>1, <1>3, QuietStep, UpdateStep, BufferStep, CommitStep, FailStep DEF Serve
  <1> QED
    BY <1>1, <1>2, <1>3, ValidateStep, LinkStep, ReadStep, SubmitStep DEF Next

\* Every reachable state of the exception desk satisfies the invariant.
THEOREM Invariance == Spec => []IInv
  BY InitIInv, NextIInv, PTL DEF Spec

\* However many reviewers compete and wherever requests die, resolutions carry
\* the revisions 1..revision of their record, each once, each with its event.
THEOREM HistoryIsSound == Spec => []HistorySound
  <1>1. IInv => HistorySound
    <2> SUFFICES ASSUME IInv PROVE HistoryComplete
      BY DEF IInv, HistorySound
    <2>1. TypeOK /\ HistoryInv /\ AuditInv
      BY DEF IInv
    <2>2. ASSUME NEW x \in Records
          PROVE  /\ {d.revision : d \in RowsOf(x)} = 1..rec[x].revision
                 /\ \A d, e \in RowsOf(x) : d.revision = e.revision => d = e
      <3>1. rec[x].revision \in Nat
        BY <2>1 DEF TypeOK, Record
      <3> QED
        BY <2>1, <3>1, RowTyped DEF HistoryInv
    <2> QED
      BY <2>1, <2>2 DEF HistoryComplete, AuditInv
  <1> QED
    BY <1>1, Invariance, PTL

\* Every column of a reviewed record tells of its last resolution only.
THEOREM RecordsShowTheLastResolution == Spec => []RecordShowsLastResolution
  <1>1. IInv => RecordShowsLastResolution
    BY DEF IInv
  <1> QED
    BY <1>1, Invariance, PTL

\* The answer read back before the commit is the request's own resolution, and
\* a refused request left none.
THEOREM AnswersAreOwn == Spec => []AnswerIsOwnResolution
  <1>1. IInv => AnswerIsOwnResolution
    <2> SUFFICES ASSUME IInv, NEW q \in Requests
                 PROVE  /\ req[q].pc = "saved" =>
                             /\ req[q].response = q
                             /\ \E d \in resolutions :
                                    d.id = q /\ d.revision = req[q].expected + 1
                        /\ req[q].pc \in {"conflict", "refused"} =>
                             \A d \in resolutions : d.id # q
                        /\ req[q].pc = "conflict" =>
                             \E d \in RowsOf(req[q].rec) : d.revision = req[q].expected + 1
      BY DEF AnswerIsOwnResolution
    <2>1. RowInv /\ AnswerInv
      BY DEF IInv
    <2>2. ResolutionRow(q).id = q /\ ResolutionRow(q).revision = req[q].expected + 1
      BY DEF ResolutionRow
    <2>3. req[q].pc = "saved" =>
            req[q].response = q /\ ResolutionRow(q) \in resolutions
      BY <2>1 DEF RowInv, AnswerInv
    <2>4. req[q].pc \in {"conflict", "refused"} => \A d \in resolutions : d.id # q
      BY <2>1 DEF RowInv
    <2>5. req[q].pc = "conflict" =>
            \E d \in RowsOf(req[q].rec) : d.revision = req[q].expected + 1
      BY <2>1 DEF AnswerInv
    <2> QED
      BY <2>2, <2>3, <2>4, <2>5
  <1> QED
    BY <1>1, Invariance, PTL

-----------------------------------------------------------------------------
(* Refinement of RevisionLog *)

\* The mapping, part by part.
StatusMap == [x \in Records |-> rec[x].status]
Verdict(d) == [from |-> req[d.id].seen, to |-> d.status]
LogMap == [x \in Records |->
             [n \in 1..rec[x].revision |-> Verdict(ResolutionAt(x, n))]]
TrailMap == {<<e.rec, e.revision, e.status>> : e \in audit}

\* The n-th entry of the abstract log is made from the n-th resolution.
LEMMA EntryOfRow ==
    ASSUME IInv, NEW d \in resolutions
    PROVE  LogMap[d.rec][d.revision] = Verdict(d)
  <1>1. d.rec \in Records /\ d.revision \in Nat /\ rec[d.rec].revision \in Nat
    BY RowTyped DEF IInv, TypeOK, Record
  <1>2. d.revision \in 1..rec[d.rec].revision
    BY <1>1 DEF IInv, HistoryInv
  <1>3. ResolutionAt(d.rec, d.revision) = d
    BY DEF ResolutionAt, IInv, HistoryInv
  <1> QED
    BY <1>1, <1>2, <1>3 DEF LogMap

\* The same fact about the next state.
LEMMA NextEntryOfRow ==
    ASSUME IInv', NEW d \in resolutions'
    PROVE  LogMap'[d.rec][d.revision] = [from |-> req'[d.id].seen, to |-> d.status]
  <1>1. d.rec \in Records /\ d.revision \in Nat /\ rec'[d.rec].revision \in Nat
    BY DEF IInv, TypeOK, Row, Record
  <1>2. d.revision \in 1..rec'[d.rec].revision
    BY <1>1 DEF IInv, HistoryInv
  <1>3. (CHOOSE e \in {e \in resolutions' : e.rec = d.rec} : e.revision = d.revision) = d
    BY DEF IInv, HistoryInv
  <1> QED
    BY <1>1, <1>2, <1>3 DEF LogMap, ResolutionAt, Verdict

\* Entries once written stay as they are.
LEMMA EntriesStay ==
    ASSUME IInv, IInv', resolutions \subseteq resolutions',
           \A d \in resolutions : req'[d.id].seen = req[d.id].seen,
           NEW x \in Records, NEW n \in 1..rec[x].revision
    PROVE  LogMap'[x][n] = LogMap[x][n]
  <1>1. PICK d \in resolutions : d.rec = x /\ d.revision = n
    BY DEF IInv, HistoryInv
  <1>2. LogMap[x][n] = [from |-> req[d.id].seen, to |-> d.status]
    BY <1>1, EntryOfRow DEF Verdict
  <1>3. LogMap'[x][n] = [from |-> req'[d.id].seen, to |-> d.status]
    BY <1>1, NextEntryOfRow
  <1> QED
    BY <1>1, <1>2, <1>3

\* The log of a record is a function on its revisions.
LEMMA LogShape ==
    /\ LogMap = [x \in Records |-> LogMap[x]]
    /\ LogMap' = [x \in Records |-> LogMap'[x]]
    /\ \A x \in Records : /\ LogMap[x] = [n \in 1..rec[x].revision |-> LogMap[x][n]]
                          /\ LogMap'[x] = [n \in 1..rec'[x].revision |-> LogMap'[x][n]]
  BY DEF LogMap

\* A step that adds no resolution and moves no revision leaves the log alone.
LEMMA LogUnchanged ==
    ASSUME IInv, IInv', UNCHANGED <<resolutions, audit>>,
           \A x \in Records : rec'[x].revision = rec[x].revision,
           \A d \in resolutions : req'[d.id].seen = req[d.id].seen
    PROVE  UNCHANGED <<LogMap, TrailMap>>
  <1>1. \A x \in Records : LogMap'[x] = LogMap[x]
    BY EntriesStay, LogShape
  <1>2. LogMap' = LogMap
    BY <1>1, LogShape
  <1> QED
    BY <1>2 DEF TrailMap

\* A commit is one abstract decision, on the status its author saw.
LEMMA CommitDecides ==
    ASSUME IInv, IInv', NEW q \in Requests, Commit(q)
    PROVE  Log!Next
  <1> DEFINE x == req[q].rec
             m == rec[x].revision
             from == req[q].seen
             to == req[q].status
             row == ResolutionRow(q)
             entry == [from |-> from, to |-> to]
  <1>1. /\ x \in Records /\ Exists(x) /\ to \in Resolutions
        /\ m = req[q].expected /\ m \in Nat /\ rec[x] \in Record
        /\ req[q].pc = "read_back"
    BY CommitFacts
  <1>2. from \in Statuses /\ from = rec[x].status
    <2>1. OrgOf(x) = ReviewerOrg[req[q].reviewer]
      BY <1>1 DEF IInv, RequestInv
    <2> QED
      BY <1>1, <2>1 DEF IInv, SeenInv
  <1>3. /\ rec' = [rec EXCEPT ![x] = Resolved(q)]
        /\ \A y \in Records : y # x => rec'[y] = rec[y]
        /\ rec'[x] = Resolved(q)
        /\ resolutions' = resolutions \cup {row}
        /\ audit' = audit \cup {AuditEvent(row)}
        /\ req' = [req EXCEPT ![q].pc = "committed"]
    BY CommitFacts
  <1>4. /\ rec'[x].status = to /\ rec'[x].revision = m + 1
    BY <1>1, <1>3, ResolvedColumns
  <1>5. row.id = q /\ row.rec = x /\ row.revision = m + 1 /\ row.status = to
    BY <1>1 DEF ResolutionRow
  <1>6. \A y \in Requests : req'[y].seen = req[y].seen
    BY <1>3, PcStep DEF IInv
  <1>7. \A d \in resolutions : req'[d.id].seen = req[d.id].seen
    BY <1>6, RowTyped DEF IInv
  <1> HIDE DEF row
  <1>8. StatusMap' = [StatusMap EXCEPT ![x] = to]
    <2>1. StatusMap' = [y \in Records |-> rec'[y].status]
      BY DEF StatusMap
    <2>2. \A y \in Records : rec'[y].status = IF y = x THEN to ELSE rec[y].status
      BY <1>3, <1>4
    <2> QED
      BY <1>1, <2>1, <2>2 DEF StatusMap
  <1>9. TrailMap' = TrailMap \cup {<<x, m + 1, to>>}
    <2>1. /\ AuditEvent(row).rec = x /\ AuditEvent(row).revision = m + 1
          /\ AuditEvent(row).status = to
      BY <1>5 DEF AuditEvent
    <2> QED
      BY <1>3, <2>1 DEF TrailMap
  <1>10. \A y \in Records : \A n \in 1..rec[y].revision : LogMap'[y][n] = LogMap[y][n]
    BY <1>3, <1>7, EntriesStay
  <1>11. LogMap'[x][m + 1] = entry
    <2>1. row \in resolutions' /\ req'[q].seen = req[q].seen
      BY <1>3, <1>6
    <2>2. LogMap'[row.rec][row.revision] = [from |-> req'[row.id].seen, to |-> row.status]
      BY <2>1, NextEntryOfRow, Zenon
    <2> QED
      BY <1>5, <2>1, <2>2
  <1>12. Len(LogMap[x]) = m /\ LogMap'[x] = Append(LogMap[x], entry)
    <2>1. LogMap[x] \in Seq({LogMap[x][n] : n \in 1..m}) /\ Len(LogMap[x]) = m
      <3> DEFINE s == LogMap[x]
                 X == {s[n] : n \in 1..m}
      <3>1. s = [n \in 1..m |-> s[n]]
        BY <1>1, LogShape
      <3>2. \A n \in 1..m : s[n] \in X
        OBVIOUS
      <3>3. m \in Nat
        BY <1>1
      <3> HIDE DEF s, X, m
      <3>4. s \in [1..m -> X]
        BY <3>1, <3>2
      <3>5. s \in Seq(X) /\ Len(s) = m
        BY <3>3, <3>4
      <3> QED
        BY <3>5 DEF s, X
    <2>2. Append(LogMap[x], entry) =
            [n \in 1..(m + 1) |-> IF n = m + 1 THEN entry ELSE LogMap[x][n]]
      BY <1>1, <2>1
    <2>3. LogMap'[x] = [n \in 1..(m + 1) |-> LogMap'[x][n]]
      BY <1>1, <1>4, LogShape
    <2>4. \A n \in 1..(m + 1) : LogMap'[x][n] = IF n = m + 1 THEN entry ELSE LogMap[x][n]
      BY <1>1, <1>10, <1>11
    <2> QED
      BY <2>1, <2>2, <2>3, <2>4
  <1>13. \A y \in Records : y # x => LogMap'[y] = LogMap[y]
    <2> SUFFICES ASSUME NEW y \in Records, y # x PROVE LogMap'[y] = LogMap[y]
      OBVIOUS
    <2>1. rec'[y].revision = rec[y].revision
      BY <1>3
    <2> QED
      BY <1>10, <2>1, LogShape
  <1>14. LogMap' = [LogMap EXCEPT ![x] = Append(@, entry)]
    BY <1>1, <1>12, <1>13, LogShape
  <1>15. PICK i \in Records, f \in Statuses, t \in Statuses : i = x /\ f = from /\ t = to
    BY <1>1, <1>2, Zenon
  <1>16. Log!Decide(i, f, t)
    BY <1>1, <1>2, <1>8, <1>9, <1>12, <1>14, <1>15
       DEF Log!Decide, StatusMap, LogMap, TrailMap, Verdict
  <1> QED
    BY <1>16 DEF Log!Next

\* The exception desk, with its transactions, locks and failures, implements
\* the abstract revision log that the match review desk implements too.
THEOREM DeskImplementsRevisionLog == Spec => ImplementsRevisionLog
  <1>1. Init => Log!Init
    <2> SUFFICES ASSUME Init PROVE Log!Init
      OBVIOUS
    <2>1. \A x \in Records : rec[x].revision = 0 /\ rec[x].status = None
      BY DEF Init, AbsentRecord
    <2>2. \A x \in Records : LogMap[x] = << >>
      BY <2>1 DEF LogMap
    <2>3. LogMap = [x \in Records |-> << >>]
      BY <2>2, LogShape
    <2>4. StatusMap = [x \in Records |-> None] /\ TrailMap = {}
      BY <2>1 DEF Init, StatusMap, TrailMap
    <2> QED
      BY <2>3, <2>4 DEF Log!Init, StatusMap, LogMap, TrailMap, Verdict
  <1>2. IInv /\ IInv' /\ [Next]_vars => [Log!Next]_(Log!vars)
    <2> SUFFICES ASSUME IInv, IInv', [Next]_vars
                 PROVE  Log!Next \/ UNCHANGED <<StatusMap, LogMap, TrailMap>>
      BY DEF Log!vars, StatusMap, LogMap, TrailMap, Verdict
    <2>1. \A d \in resolutions : d.id \in Requests /\ req[d.id].pc # "free"
      BY RowTyped DEF IInv, RowInv
    <2>2. ASSUME UNCHANGED <<rec, resolutions, audit>>,
                 \A d \in resolutions : req'[d.id].seen = req[d.id].seen
          PROVE  UNCHANGED <<StatusMap, LogMap, TrailMap>>
      BY <2>2, LogUnchanged DEF StatusMap
    <2>3. CASE Validate
      <3>1. PICK S \in (SUBSET Records) \ {{}}, s \in Snapshots :
              /\ \A x \in S : ~Exists(x)
              /\ rec' = [x \in Records |-> IF x \in S THEN NewRecord(s) ELSE rec[x]]
              /\ UNCHANGED <<resolutions, audit, lock, req, tx, view>>
        BY <2>3 DEF Validate
      <3>2. NewRecord(s).revision = 0 /\ NewRecord(s).status = "open"
        BY DEF NewRecord, AbsentRecord
      <3>3. \A x \in Records : rec'[x].revision = rec[x].revision
        BY <3>1, <3>2 DEF IInv, AbsentInv
      <3>4. UNCHANGED <<LogMap, TrailMap>>
        BY <3>1, <3>3, LogUnchanged
      <3> DEFINE st == [x \in S |-> "open"]
      <3>5. st \in [S -> Statuses]
        OBVIOUS
      <3>6. StatusMap' = [x \in Records |-> IF x \in S THEN st[x] ELSE StatusMap[x]]
        BY <3>1, <3>2 DEF StatusMap
      <3>7. \A x \in S : StatusMap[x] = None
        BY <3>1 DEF StatusMap
      <3> HIDE DEF st
      <3>8. Log!Create
        BY <3>4, <3>5, <3>6, <3>7 DEF Log!Create, StatusMap, LogMap, TrailMap, Verdict
      <3> QED
        BY <3>8 DEF Log!Next
    <2>4. ASSUME NEW prior \in Records, NEW current \in Records, ReprocessLink(prior, current)
          PROVE  UNCHANGED <<StatusMap, LogMap, TrailMap>>
      <3>1. UNCHANGED <<resolutions, audit, req>> /\ rec' = [rec EXCEPT ![current].link = prior]
        BY <2>4 DEF ReprocessLink
      <3>2. \A x \in Records : rec'[x].revision = rec[x].revision /\ rec'[x].status = rec[x].status
        BY <3>1 DEF IInv, TypeOK, Record
      <3>3. StatusMap' = StatusMap
        BY <3>2 DEF StatusMap
      <3> QED
        BY <3>1, <3>2, <3>3, LogUnchanged
    <2>5. ASSUME NEW q \in Requests, NEW r \in Reviewers, Submit(q, r) \/ SubmitForeign(q, r)
          PROVE  UNCHANGED <<StatusMap, LogMap, TrailMap>>
      <3>1. /\ UNCHANGED <<rec, resolutions, audit>> /\ req[q].pc = "free"
            /\ \A x \in Requests : x # q => req'[x] = req[x]
        BY <2>5 DEF Submit, SubmitForeign, IInv, TypeOK
      <3> QED
        BY <2>1, <2>2, <3>1
    <2>6. ASSUME NEW q \in Requests, NEW p, UNCHANGED <<rec, resolutions, audit>>,
                 req' = [req EXCEPT ![q].pc = p]
          PROVE  UNCHANGED <<StatusMap, LogMap, TrailMap>>
      BY <2>1, <2>2, <2>6, PcStep DEF IInv
    <2>7. ASSUME NEW q \in Requests,
                 \/ Check(q) \/ Update(q) \/ Conflict(q) \/ InsertResolution(q)
                 \/ InsertAudit(q) \/ Respond(q) \/ Fail(q)
          PROVE  UNCHANGED <<StatusMap, LogMap, TrailMap>>
      <3>1. UNCHANGED <<rec, resolutions, audit>>
        BY <2>7 DEF Check, Update, Conflict, InsertResolution, InsertAudit, Respond, Fail
      <3>2. PICK p : req' = [req EXCEPT ![q].pc = p]
        BY <2>7 DEF Check, Update, Conflict, InsertResolution, InsertAudit, Respond, Fail
      <3> QED
        BY <2>6, <3>1, <3>2
    <2>8. ASSUME NEW q \in Requests, ReadBack(q)
          PROVE  UNCHANGED <<StatusMap, LogMap, TrailMap>>
      <3>1. PICK d : req' = [req EXCEPT ![q].pc = "read_back", ![q].response = d.id]
        BY <2>8 DEF ReadBack
      <3>2. \A x \in Requests : req'[x].seen = req[x].seen
        BY <3>1 DEF IInv, TypeOK, Request
      <3>3. UNCHANGED <<rec, resolutions, audit>>
        BY <2>8 DEF ReadBack
      <3> QED
        BY <2>1, <2>2, <3>2, <3>3
    <2>9. ASSUME NEW r \in Reviewers, ReadQueue(r)
          PROVE  UNCHANGED <<StatusMap, LogMap, TrailMap>>
      BY <2>2, <2>9 DEF ReadQueue
    <2>10. CASE UNCHANGED vars
      BY <2>2, <2>10 DEF vars
    <2> HIDE DEF StatusMap, LogMap, TrailMap
    <2> QED
      BY <2>3, <2>4, <2>5, <2>7, <2>8, <2>9, <2>10, CommitDecides DEF Next, Serve
  <1> QED
    BY <1>1, <1>2, Invariance, PTL DEF Spec, ImplementsRevisionLog, Log!Spec
==============================================================================

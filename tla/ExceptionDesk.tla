---------------------------- MODULE ExceptionDesk ----------------------------
(***************************************************************************)
(* The exception desk: quarantine records committed by validation runs and *)
(* resolved by concurrent requests (validation/service.py, the quarantine  *)
(* handlers of main.py, security/audit.py).  The database is external and  *)
(* modelled as in MatchReview.  Unlike a match decision, a resolution      *)
(* overwrites several columns of its record, may name a corrected          *)
(* snapshot, and answers with a row it reads back before the commit.       *)
(***************************************************************************)
EXTENDS Naturals, FiniteSets

CONSTANTS Records, Reviewers, Orgs, Requests,
          Snapshots,      \* raw snapshots
          SnapshotOrg,    \* the organization of a snapshot's source system
          SnapshotObject, \* source_object_id of a snapshot
          ReviewerOrg,
          Resolutions,    \* the statuses reviewers use
          None

ASSUME ConstantsAssumption ==
    /\ SnapshotOrg \in [Snapshots -> Orgs]
    /\ ReviewerOrg \in [Reviewers -> Orgs]
    /\ Resolutions \subseteq {"open", "acknowledged", "corrected_upstream",
                              "corrected_mapping", "waived", "closed"}
    /\ None \notin Requests \cup Records \cup Snapshots \cup Reviewers
                   \cup Resolutions \cup {"open"}

VARIABLES
    rec,         \* quarantine_records
    resolutions, \* quarantine_resolutions: a set of rows
    audit,       \* audit_events of action quarantine.resolved
    lock,        \* record -> the request whose transaction holds its row
    req,         \* request -> where it is and what it carries
    tx,          \* request -> the uncommitted writes of its transaction
    view         \* reviewer -> the issue on the reviewer's screen

vars == <<rec, resolutions, audit, lock, req, tx, view>>

ATTENTION_STATUSES == {"open", "acknowledged"}
Statuses == Resolutions \cup {"open"}

\* resolved: resolved_at is set; waived: waiver_reason is set;
\* link: supersedes_quarantine_id.  A record with status None does not exist.
Record == [status : Statuses \cup {None}, revision : Nat,
           snapshot : Snapshots \cup {None}, reviewer : Reviewers \cup {None},
           corrected : Snapshots \cup {None}, resolved : BOOLEAN,
           waived : BOOLEAN, link : Records \cup {None}]

Row == [id : Requests, rec : Records, revision : Nat, status : Resolutions,
        reviewer : Reviewers, corrected : Snapshots \cup {None}]

Event == [rec : Records, revision : Nat, status : Resolutions]

InTx == {"updated", "inserted", "audited", "read_back"}
Serving == {"received", "checked", "committed"} \cup InTx
Answered == {"saved", "conflict", "refused", "lost"}

Request == [pc : {"free"} \cup Serving \cup Answered,
            reviewer : Reviewers \cup {None}, rec : Records \cup {None},
            status : Resolutions \cup {None}, corrected : Snapshots \cup {None},
            expected : Nat, seen : Statuses \cup {None},
            response : Requests \cup {None}]

Transaction == [update : SUBSET Record, rows : SUBSET Row, events : SUBSET Event]

View == [rec : Records \cup {None}, status : Statuses \cup {None}, revision : Nat]

TypeOK ==
    /\ rec \in [Records -> Record]
    /\ resolutions \subseteq Row
    /\ audit \subseteq Event
    /\ lock \in [Records -> Requests \cup {None}]
    /\ req \in [Requests -> Request]
    /\ tx \in [Requests -> Transaction]
    /\ view \in [Reviewers -> View]

Exists(x) == rec[x].status # None
OrgOf(x) == SnapshotOrg[rec[x].snapshot]
RowsOf(x) == {d \in resolutions : d.rec = x}

AbsentRecord == [status |-> None, revision |-> 0, snapshot |-> None,
                 reviewer |-> None, corrected |-> None, resolved |-> FALSE,
                 waived |-> FALSE, link |-> None]

FreeRequest == [pc |-> "free", reviewer |-> None, rec |-> None, status |-> None,
                corrected |-> None, expected |-> 0, seen |-> None,
                response |-> None]

EmptyTx == [update |-> {}, rows |-> {}, events |-> {}]

Init ==
    /\ rec = [x \in Records |-> AbsentRecord]
    /\ resolutions = {}
    /\ audit = {}
    /\ lock = [x \in Records |-> None]
    /\ req = [q \in Requests |-> FreeRequest]
    /\ tx = [q \in Requests |-> EmptyTx]
    /\ view = [r \in Reviewers |-> [rec |-> None, status |-> None, revision |-> 0]]

-----------------------------------------------------------------------------
(* ValidationService.validate, reprocess_link and review_queue *)

NewRecord(s) == [AbsentRecord EXCEPT !.status = "open", !.snapshot = s]

\* A validation run of a snapshot commits its issues together, all open.
Validate ==
    \E S \in (SUBSET Records) \ {{}}, s \in Snapshots :
        /\ \A x \in S : ~Exists(x)
        /\ rec' = [x \in Records |-> IF x \in S THEN NewRecord(s) ELSE rec[x]]
        /\ UNCHANGED <<resolutions, audit, lock, req, tx, view>>

\* reprocess_link(prior, current): an UPDATE of one column, with no revision.
ReprocessLink(prior, current) ==
    /\ Exists(prior) /\ Exists(current)
    /\ OrgOf(prior) = OrgOf(current)
    /\ lock[current] = None
    /\ rec' = [rec EXCEPT ![current].link = prior]
    /\ UNCHANGED <<resolutions, audit, lock, req, tx, view>>

\* One statement returns the issue with its status and revision.
ReadQueue(r) ==
    \E x \in Records :
        /\ Exists(x) /\ OrgOf(x) = ReviewerOrg[r]
        /\ view' = [view EXCEPT ![r] = [rec |-> x, status |-> rec[x].status,
                                        revision |-> rec[x].revision]]
        /\ UNCHANGED <<rec, resolutions, audit, lock, req, tx>>

-----------------------------------------------------------------------------
(* POST /api/v1/quarantine/{quarantine_id}/resolve *)

\* Status None stands for a resolution the service refuses on sight: an
\* unknown status or a note of blanks.
Submit(q, r) ==
    /\ req[q].pc = "free"
    /\ view[r].rec # None
    /\ \E s \in Resolutions \cup {None}, corrected \in Snapshots \cup {None} :
           req' = [req EXCEPT ![q] =
                     [FreeRequest EXCEPT
                        !.pc = "received", !.reviewer = r, !.rec = view[r].rec,
                        !.status = s, !.corrected = corrected,
                        !.expected = view[r].revision, !.seen = view[r].status]]
    /\ UNCHANGED <<rec, resolutions, audit, lock, tx, view>>

\* An issue of another organization, which no queue of r ever showed.
SubmitForeign(q, r) ==
    /\ req[q].pc = "free"
    /\ \E x \in Records, s \in Resolutions :
           /\ Exists(x) /\ OrgOf(x) # ReviewerOrg[r]
           /\ req' = [req EXCEPT ![q] =
                        [FreeRequest EXCEPT
                           !.pc = "received", !.reviewer = r, !.rec = x,
                           !.status = s]]
    /\ UNCHANGED <<rec, resolutions, audit, lock, tx, view>>

\* A corrected snapshot is one of the same organization and source object.
Corrects(corrected, x, org) ==
    /\ SnapshotOrg[corrected] = org
    /\ SnapshotObject[corrected] = SnapshotObject[rec[x].snapshot]

Acceptable(q) ==
    LET x == req[q].rec
        org == ReviewerOrg[req[q].reviewer]
    IN  /\ Exists(x) /\ OrgOf(x) = org
        /\ req[q].status # None
        /\ req[q].corrected # None => Corrects(req[q].corrected, x, org)

\* Mutant: the revision is compared with one read by the request itself.
CheckRebasing(q) ==
    /\ req[q].pc = "received"
    /\ req' = IF Acceptable(q)
              THEN [req EXCEPT ![q].pc = "checked",
                               ![q].expected = rec[req[q].rec].revision]
              ELSE [req EXCEPT ![q].pc = "refused"]
    /\ UNCHANGED <<rec, resolutions, audit, lock, tx, view>>

\* get_quarantine and the checks before the UPDATE
Check(q) ==
    /\ req[q].pc = "received"
    /\ req' = [req EXCEPT ![q].pc = IF Acceptable(q) THEN "checked" ELSE "refused"]
    /\ UNCHANGED <<rec, resolutions, audit, lock, tx, view>>

\* Mutant: an issue that is opened again keeps its resolved_at.
ResolvedForGood(q) ==
    [rec[req[q].rec] EXCEPT
        !.status = req[q].status,
        !.reviewer = req[q].reviewer,
        !.waived = (req[q].status = "waived"),
        !.corrected = req[q].corrected,
        !.resolved = (@ \/ req[q].status \notin ATTENTION_STATUSES),
        !.revision = req[q].expected + 1]

\* The record as the UPDATE of request q leaves it.
Resolved(q) ==
    [rec[req[q].rec] EXCEPT
        !.status = req[q].status,
        !.reviewer = req[q].reviewer,
        !.waived = (req[q].status = "waived"),
        !.corrected = req[q].corrected,
        !.resolved = (req[q].status \notin ATTENTION_STATUSES),
        !.revision = req[q].expected + 1]

\* Mutant: no revision in the WHERE clause.
UpdateBlindly(q) ==
    /\ req[q].pc = "checked"
    /\ lock[req[q].rec] = None
    /\ lock' = [lock EXCEPT ![req[q].rec] = q]
    /\ tx' = [tx EXCEPT ![q].update = {Resolved(q)}]
    /\ req' = [req EXCEPT ![q].pc = "updated"]
    /\ UNCHANGED <<rec, resolutions, audit, view>>

\* UPDATE ... WHERE revision = expected RETURNING id, on a free row
Update(q) ==
    /\ req[q].pc = "checked"
    /\ rec[req[q].rec].revision = req[q].expected
    /\ lock[req[q].rec] = None
    /\ lock' = [lock EXCEPT ![req[q].rec] = q]
    /\ tx' = [tx EXCEPT ![q].update = {Resolved(q)}]
    /\ req' = [req EXCEPT ![q].pc = "updated"]
    /\ UNCHANGED <<rec, resolutions, audit, view>>

\* The UPDATE matches no row: rollback, 409 quarantine_conflict.
Conflict(q) ==
    /\ req[q].pc = "checked"
    /\ rec[req[q].rec].revision # req[q].expected
    /\ req' = [req EXCEPT ![q].pc = "conflict"]
    /\ UNCHANGED <<rec, resolutions, audit, lock, tx, view>>

ResolutionRow(q) ==
    [id |-> q, rec |-> req[q].rec, revision |-> req[q].expected + 1,
     status |-> req[q].status, reviewer |-> req[q].reviewer,
     corrected |-> req[q].corrected]

InsertResolution(q) ==
    /\ req[q].pc = "updated"
    /\ req' = [req EXCEPT ![q].pc = "inserted"]
    /\ tx' = [tx EXCEPT ![q].rows = {ResolutionRow(q)}]
    /\ UNCHANGED <<rec, resolutions, audit, lock, view>>

AuditEvent(d) == [rec |-> d.rec, revision |-> d.revision, status |-> d.status]

\* The details come from the expired record, read again inside the transaction.
InsertAudit(q) ==
    /\ req[q].pc = "inserted"
    /\ req' = [req EXCEPT ![q].pc = "audited"]
    /\ \E u \in tx[q].update :
           tx' = [tx EXCEPT ![q].events =
                    {[rec |-> req[q].rec, revision |-> u.revision,
                      status |-> u.status]}]
    /\ UNCHANGED <<rec, resolutions, audit, lock, view>>

\* Mutant: the history oldest first.
ReadBackOldest(q) ==
    /\ req[q].pc = "audited"
    /\ LET rows == RowsOf(req[q].rec) \cup tx[q].rows
       IN  \E d \in rows :
              /\ \A e \in rows : d.revision <= e.revision
              /\ req' = [req EXCEPT ![q].pc = "read_back", ![q].response = d.id]
    /\ UNCHANGED <<rec, resolutions, audit, lock, tx, view>>

\* resolution_history(..., limit=1)[0]: the highest revision, own rows included
ReadBack(q) ==
    /\ req[q].pc = "audited"
    /\ LET rows == RowsOf(req[q].rec) \cup tx[q].rows
       IN  \E d \in rows :
              /\ \A e \in rows : e.revision <= d.revision
              /\ req' = [req EXCEPT ![q].pc = "read_back", ![q].response = d.id]
    /\ UNCHANGED <<rec, resolutions, audit, lock, tx, view>>

Release(q) == [x \in Records |-> IF lock[x] = q THEN None ELSE lock[x]]

Commit(q) ==
    /\ req[q].pc = "read_back"
    /\ \E u \in tx[q].update : rec' = [rec EXCEPT ![req[q].rec] = u]
    /\ resolutions' = resolutions \cup tx[q].rows
    /\ audit' = audit \cup tx[q].events
    /\ lock' = Release(q)
    /\ tx' = [tx EXCEPT ![q] = EmptyTx]
    /\ req' = [req EXCEPT ![q].pc = "committed"]
    /\ UNCHANGED view

Respond(q) ==
    /\ req[q].pc = "committed"
    /\ req' = [req EXCEPT ![q].pc = "saved"]
    /\ UNCHANGED <<rec, resolutions, audit, lock, tx, view>>

\* Mutant: the session is not closed, so the transaction stays open.
FailHoldingRow(q) ==
    /\ req[q].pc \in Serving
    /\ req' = [req EXCEPT ![q].pc = "lost"]
    /\ UNCHANGED <<rec, resolutions, audit, lock, tx, view>>

\* An exception (the audit insert included), a lost connection, a dead worker.
Fail(q) ==
    /\ req[q].pc \in Serving
    /\ lock' = Release(q)
    /\ tx' = [tx EXCEPT ![q] = EmptyTx]
    /\ req' = [req EXCEPT ![q].pc = "lost"]
    /\ UNCHANGED <<rec, resolutions, audit, view>>

-----------------------------------------------------------------------------
Serve(q) ==
    \/ Check(q) \/ Update(q) \/ Conflict(q) \/ InsertResolution(q)
    \/ InsertAudit(q) \/ ReadBack(q) \/ Commit(q) \/ Respond(q)

Next ==
    \/ Validate
    \/ \E prior, current \in Records : ReprocessLink(prior, current)
    \/ \E r \in Reviewers : ReadQueue(r)
    \/ \E q \in Requests, r \in Reviewers : Submit(q, r) \/ SubmitForeign(q, r)
    \/ \E q \in Requests : Serve(q) \/ Fail(q)

Spec == Init /\ [][Next]_vars

\* The worker thread serving a request keeps running (or fails).
FairSpec == Spec /\ \A q \in Requests : WF_vars(Serve(q))

-----------------------------------------------------------------------------
(* Properties *)

\* Resolutions carry the revisions 1..revision of their record, each once, and
\* each has the audit event committed with it; there is no other event.
HistoryComplete ==
    /\ \A x \in Records :
           /\ {d.revision : d \in RowsOf(x)} = 1..rec[x].revision
           /\ \A d, e \in RowsOf(x) : d.revision = e.revision => d = e
    /\ audit = {AuditEvent(d) : d \in resolutions}

\* The history of an issue is sound: typed, complete and audited.
HistorySound == TypeOK /\ HistoryComplete

\* Every column of a reviewed record tells of its last resolution and of that
\* one only: reopening clears resolved_at, leaving "waived" clears the waiver
\* reason, a resolution without a corrected snapshot clears the earlier one.
RecordShowsLastResolution ==
    \A d \in resolutions :
        d.revision = rec[d.rec].revision =>
            /\ rec[d.rec].status = d.status
            /\ rec[d.rec].reviewer = d.reviewer
            /\ rec[d.rec].corrected = d.corrected
            /\ rec[d.rec].resolved <=> d.status \notin ATTENTION_STATUSES
            /\ rec[d.rec].waived <=> d.status = "waived"

\* The answer of a saved request, read back before the commit, is the very
\* resolution that request recorded; 409 and 400 or 404 leave none behind.
AnswerIsOwnResolution ==
    \A q \in Requests :
        /\ req[q].pc = "saved" =>
               /\ req[q].response = q
               /\ \E d \in resolutions : d.id = q /\ d.revision = req[q].expected + 1
        /\ req[q].pc \in {"conflict", "refused"} => \A d \in resolutions : d.id # q
        /\ req[q].pc = "conflict" =>
               \E d \in RowsOf(req[q].rec) : d.revision = req[q].expected + 1

\* The abstract log a state of the desk stands for.
ResolutionAt(x, n) == CHOOSE d \in RowsOf(x) : d.revision = n

Log == INSTANCE RevisionLog WITH
    Items <- Records,
    status <- [x \in Records |-> rec[x].status],
    log <- [x \in Records |->
              [n \in 1..rec[x].revision |->
                 [from |-> req[ResolutionAt(x, n).id].seen,
                  to |-> ResolutionAt(x, n).status]]],
    trail <- {<<e.rec, e.revision, e.status>> : e \in audit}

\* The exception desk implements the abstract revision log: a resolution takes
\* effect in one step, with its audit event, on the status its author saw.
ImplementsRevisionLog == Log!Spec

\* Every request is answered or fails: nobody waits forever for a row.
EveryRequestEnds ==
    \A q \in Requests : req[q].pc = "received" ~> req[q].pc \in Answered
==============================================================================

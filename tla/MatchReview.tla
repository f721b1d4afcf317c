----------------------------- MODULE MatchReview -----------------------------
(***************************************************************************)
(* The match review desk of the API: candidates committed by a matching    *)
(* run, review queues read in three statements, and decisions recorded by  *)
(* concurrent requests, each in a database transaction of its own          *)
(* (matching/service.py, the handlers of main.py and security/audit.py).   *)
(*                                                                         *)
(* The database is external (PostgreSQL, READ COMMITTED): a statement sees *)
(* the rows committed when it runs, an UPDATE holds its row until the      *)
(* transaction ends, and an UPDATE that meets a held row waits for it and  *)
(* evaluates its WHERE clause again on the committed row.  The writes of   *)
(* an open transaction are its own (tx) until Commit publishes them all.   *)
(***************************************************************************)
EXTENDS Naturals, FiniteSets

CONSTANTS Candidates, Reviewers, Orgs,
          Requests,       \* POST .../decisions requests; each is served once
          CandidateOrg,   \* organization_id of a candidate
          ReviewerOrg,    \* the organization a reviewer acts for
          Verdicts,       \* the decisions reviewers use
          CreatedStatuses,\* the statuses a matching run gives
          None

ASSUME ConstantsAssumption ==
    /\ CandidateOrg \in [Candidates -> Orgs]
    /\ ReviewerOrg \in [Reviewers -> Orgs]
    /\ Verdicts \subseteq {"match", "no_match", "defer", "escalate"}
    /\ CreatedStatuses \subseteq
           {"pending", "auto_match", "review", "no_match", "trusted_id_conflict"}
    /\ None \notin Requests \cup Candidates \cup Verdicts \cup CreatedStatuses

VARIABLES
    cand,       \* match_candidates: candidate -> [status, revision]
    decisions,  \* match_decisions: a set of rows
    audit,      \* audit_events of action matching.decision.recorded
    lock,       \* candidate -> the request whose transaction holds its row
    req,        \* request -> where it is and what it carries
    tx,         \* request -> the uncommitted writes of its transaction
    view        \* reviewer -> the queue item on the reviewer's screen

vars == <<cand, decisions, audit, lock, req, tx, view>>

Statuses == Verdicts \cup CreatedStatuses

CandidateRow == [status : Statuses \cup {None}, revision : Nat]

Row == [id : Requests, cand : Candidates, revision : Nat, decision : Verdicts,
        supersedes : Requests \cup {None}]

\* The audit event of a decision names its row and copies its details.
Event == [resource : Requests, cand : Candidates, revision : Nat,
          decision : Verdicts, supersedes : Requests \cup {None}]

InTx == {"updated", "prior", "inserted", "audited"}
Serving == {"received", "checked", "committed"} \cup InTx
Answered == {"saved", "conflict", "not_found", "invalid", "lost"}

Request == [pc : {"free"} \cup Serving \cup Answered,
            reviewer : Reviewers \cup {None}, cand : Candidates \cup {None},
            decision : Verdicts \cup {None}, expected : Nat,
            seen : Statuses \cup {None}, prior : Requests \cup {None}]

\* At most one candidate row updated, one decision and one audit event added.
Transaction == [update : SUBSET CandidateRow, rows : SUBSET Row,
                events : SUBSET Event]

View == [stage : {"none", "candidates", "counts", "shown"},
         cand : Candidates \cup {None}, status : Statuses \cup {None},
         revision : Nat, count : Nat, latest : Nat]

\* latest is the revision of the latest decision shown, 0 when there is none
TypeOK ==
    /\ cand \in [Candidates -> CandidateRow]
    /\ decisions \subseteq Row
    /\ audit \subseteq Event
    /\ lock \in [Candidates -> Requests \cup {None}]
    /\ req \in [Requests -> Request]
    /\ tx \in [Requests -> Transaction]
    /\ view \in [Reviewers -> View]

Exists(c) == cand[c].status # None
RowsOf(c) == {d \in decisions : d.cand = c}

FreeRequest == [pc |-> "free", reviewer |-> None, cand |-> None,
                decision |-> None, expected |-> 0,
                seen |-> None, prior |-> None]

EmptyTx == [update |-> {}, rows |-> {}, events |-> {}]

EmptyView == [stage |-> "none", cand |-> None, status |-> None,
              revision |-> 0, count |-> 0, latest |-> 0]

Init ==
    /\ cand = [c \in Candidates |-> [status |-> None, revision |-> 0]]
    /\ decisions = {}
    /\ audit = {}
    /\ lock = [c \in Candidates |-> None]
    /\ req = [q \in Requests |-> FreeRequest]
    /\ tx = [q \in Requests |-> EmptyTx]
    /\ view = [r \in Reviewers |-> EmptyView]

-----------------------------------------------------------------------------
(* Matching runs *)

\* Mutant: a run that writes over the candidates it finds again.
ExecuteUpserting ==
    \E S \in (SUBSET Candidates) \ {{}}, o \in Orgs :
        /\ \A c \in S : CandidateOrg[c] = o
        /\ \E st \in [S -> CreatedStatuses] :
               cand' = [c \in Candidates |->
                          IF c \in S THEN [status |-> st[c], revision |-> 0]
                                     ELSE cand[c]]
        /\ UNCHANGED <<decisions, audit, lock, req, tx, view>>

\* A run adds its links and conflicts at revision 0 and commits them together.
Execute ==
    \E S \in (SUBSET Candidates) \ {{}}, o \in Orgs :
        /\ \A c \in S : ~Exists(c) /\ CandidateOrg[c] = o
        /\ \E st \in [S -> CreatedStatuses] :
               cand' = [c \in Candidates |->
                          IF c \in S THEN [status |-> st[c], revision |-> 0]
                                     ELSE cand[c]]
        /\ UNCHANGED <<decisions, audit, lock, req, tx, view>>

-----------------------------------------------------------------------------
(* The review queue: three statements, each with a snapshot of its own *)

ReadCandidates(r) ==
    \E c \in Candidates :
        /\ Exists(c) /\ CandidateOrg[c] = ReviewerOrg[r]
        /\ view' = [view EXCEPT ![r] =
                      [stage |-> "candidates", cand |-> c,
                       status |-> cand[c].status,
                       revision |-> cand[c].revision, count |-> 0, latest |-> 0]]
        /\ UNCHANGED <<cand, decisions, audit, lock, req, tx>>

ReadCounts(r) ==
    /\ view[r].stage = "candidates"
    /\ view' = [view EXCEPT ![r].stage = "counts",
                            ![r].count = Cardinality(RowsOf(view[r].cand))]
    /\ UNCHANGED <<cand, decisions, audit, lock, req, tx>>

\* Mutant: the first decision instead of the last.
FirstRevision(c) == IF RowsOf(c) = {} THEN 0 ELSE 1

\* The decision joined on its candidate's revision, if there is one.
LatestRevision(c) ==
    IF \E d \in RowsOf(c) : d.revision = cand[c].revision
    THEN cand[c].revision ELSE 0

ReadLatest(r) ==
    /\ view[r].stage = "counts"
    /\ view' = [view EXCEPT ![r].stage = "shown",
                            ![r].latest = LatestRevision(view[r].cand)]
    /\ UNCHANGED <<cand, decisions, audit, lock, req, tx>>

-----------------------------------------------------------------------------
(* POST /api/v1/matches/{candidate_id}/decisions *)

\* A reviewer decides on the item shown; resending after a lost answer is
\* another request with the same contents.  Decision None stands for one the
\* service refuses: an unknown decision or a reason of blanks.
Submit(q, r) ==
    /\ req[q].pc = "free"
    /\ view[r].stage = "shown"
    /\ \E d \in Verdicts \cup {None} :
           req' = [req EXCEPT ![q] =
                     [pc |-> "received", reviewer |-> r, cand |-> view[r].cand,
                      decision |-> d, expected |-> view[r].revision,
                      seen |-> view[r].status, prior |-> None]]
    /\ UNCHANGED <<cand, decisions, audit, lock, tx, view>>

\* A candidate id of another organization, which no queue of r ever showed.
SubmitForeign(q, r) ==
    /\ req[q].pc = "free"
    /\ \E c \in Candidates, d \in Verdicts :
           /\ CandidateOrg[c] # ReviewerOrg[r]
           /\ req' = [req EXCEPT ![q] =
                        [pc |-> "received", reviewer |-> r, cand |-> c,
                         decision |-> d, expected |-> 0,
                         seen |-> None, prior |-> None]]
    /\ UNCHANGED <<cand, decisions, audit, lock, tx, view>>

\* Mutant: the revision is compared with one read by the request itself.
CheckRebasing(q) ==
    /\ req[q].pc = "received"
    /\ req' = IF Exists(req[q].cand) /\ req[q].decision # None
              THEN [req EXCEPT ![q].pc = "checked",
                               ![q].expected = cand[req[q].cand].revision]
              ELSE [req EXCEPT ![q].pc = "not_found"]
    /\ UNCHANGED <<cand, decisions, audit, lock, tx, view>>

\* session.get and the checks before the UPDATE
Check(q) ==
    /\ req[q].pc = "received"
    /\ LET c == req[q].cand
           found == Exists(c) /\ CandidateOrg[c] = ReviewerOrg[req[q].reviewer]
       IN  req' = [req EXCEPT ![q].pc =
                     CASE ~found -> "not_found"
                       [] found /\ req[q].decision = None -> "invalid"
                       [] OTHER -> "checked"]
    /\ UNCHANGED <<cand, decisions, audit, lock, tx, view>>

\* UPDATE ... WHERE revision = expected RETURNING id, on a free row
Update(q) ==
    /\ req[q].pc = "checked"
    /\ cand[req[q].cand].revision = req[q].expected
    /\ lock[req[q].cand] = None
    /\ CandidateOrg[req[q].cand] = ReviewerOrg[req[q].reviewer]
    /\ lock' = [lock EXCEPT ![req[q].cand] = q]
    /\ tx' = [tx EXCEPT ![q].update =
                {[status |-> req[q].decision, revision |-> req[q].expected + 1]}]
    /\ req' = [req EXCEPT ![q].pc = "updated"]
    /\ UNCHANGED <<cand, decisions, audit, view>>

\* Mutant: a row that is busy is taken for one that has changed.
ConflictOnBusyRow(q) ==
    /\ req[q].pc = "checked"
    /\ \/ cand[req[q].cand].revision # req[q].expected
       \/ lock[req[q].cand] # None
    /\ req' = [req EXCEPT ![q].pc = "conflict"]
    /\ UNCHANGED <<cand, decisions, audit, lock, tx, view>>

\* The UPDATE matches no row: rollback, 409 decision_conflict.
Conflict(q) ==
    /\ req[q].pc = "checked"
    /\ cand[req[q].cand].revision # req[q].expected
    /\ req' = [req EXCEPT ![q].pc = "conflict"]
    /\ UNCHANGED <<cand, decisions, audit, lock, tx, view>>

\* Mutant: the oldest decision instead of the latest.
SelectOldest(q) ==
    /\ req[q].pc = "updated"
    /\ LET rows == RowsOf(req[q].cand)
       IN  \/ /\ rows = {}
              /\ req' = [req EXCEPT ![q].pc = "prior", ![q].prior = None]
           \/ \E d \in rows :
                 /\ \A e \in rows : d.revision <= e.revision
                 /\ req' = [req EXCEPT ![q].pc = "prior", ![q].prior = d.id]
    /\ UNCHANGED <<cand, decisions, audit, lock, tx, view>>

\* SELECT ... ORDER BY revision DESC LIMIT 1
SelectPrior(q) ==
    /\ req[q].pc = "updated"
    /\ LET rows == RowsOf(req[q].cand)
       IN  \/ /\ rows = {}
              /\ req' = [req EXCEPT ![q].pc = "prior", ![q].prior = None]
           \/ \E d \in rows :
                 /\ \A e \in rows : e.revision <= d.revision
                 /\ req' = [req EXCEPT ![q].pc = "prior", ![q].prior = d.id]
    /\ UNCHANGED <<cand, decisions, audit, lock, tx, view>>

DecisionRow(q) ==
    [id |-> q, cand |-> req[q].cand, revision |-> req[q].expected + 1,
     decision |-> req[q].decision, supersedes |-> req[q].prior]

\* flush of the MatchDecision row
InsertDecision(q) ==
    /\ req[q].pc = "prior"
    /\ req' = [req EXCEPT ![q].pc = "inserted"]
    /\ tx' = [tx EXCEPT ![q].rows = {DecisionRow(q)}]
    /\ UNCHANGED <<cand, decisions, audit, lock, view>>

AuditEvent(d) ==
    [resource |-> d.id, cand |-> d.cand, revision |-> d.revision,
     decision |-> d.decision, supersedes |-> d.supersedes]

\* AuditService.record(..., commit=False)
InsertAudit(q) ==
    /\ req[q].pc = "inserted"
    /\ req' = [req EXCEPT ![q].pc = "audited"]
    /\ tx' = [tx EXCEPT ![q].events = {AuditEvent(DecisionRow(q))}]
    /\ UNCHANGED <<cand, decisions, audit, lock, view>>

\* The end of a transaction gives its row back.
Release(q) == [c \in Candidates |-> IF lock[c] = q THEN None ELSE lock[c]]

\* session.commit(): every write of the transaction becomes visible at once.
Commit(q) ==
    /\ req[q].pc = "audited"
    /\ \E u \in tx[q].update : cand' = [cand EXCEPT ![req[q].cand] = u]
    /\ decisions' = decisions \cup tx[q].rows
    /\ audit' = audit \cup tx[q].events
    /\ lock' = Release(q)
    /\ tx' = [tx EXCEPT ![q] = EmptyTx]
    /\ req' = [req EXCEPT ![q].pc = "committed"]
    /\ UNCHANGED view

\* Mutant: the answer is sent before the commit.
RespondEarly(q) ==
    /\ req[q].pc \in {"audited", "committed"}
    /\ req' = [req EXCEPT ![q].pc = "saved"]
    /\ UNCHANGED <<cand, decisions, audit, lock, tx, view>>

Respond(q) ==
    /\ req[q].pc = "committed"
    /\ req' = [req EXCEPT ![q].pc = "saved"]
    /\ UNCHANGED <<cand, decisions, audit, lock, tx, view>>

\* Mutant: the session is not closed, so the transaction stays open.
FailHoldingRow(q) ==
    /\ req[q].pc \in Serving
    /\ req' = [req EXCEPT ![q].pc = "lost"]
    /\ UNCHANGED <<cand, decisions, audit, lock, tx, view>>

\* An exception, a lost connection or a dead worker: the session is closed,
\* which rolls an open transaction back, and the reviewer learns nothing.
Fail(q) ==
    /\ req[q].pc \in Serving
    /\ lock' = Release(q)
    /\ tx' = [tx EXCEPT ![q] = EmptyTx]
    /\ req' = [req EXCEPT ![q].pc = "lost"]
    /\ UNCHANGED <<cand, decisions, audit, view>>

-----------------------------------------------------------------------------
Serve(q) ==
    \/ Check(q) \/ Update(q) \/ Conflict(q) \/ SelectPrior(q)
    \/ InsertDecision(q) \/ InsertAudit(q) \/ Commit(q) \/ Respond(q)

Next ==
    \/ Execute
    \/ \E r \in Reviewers : ReadCandidates(r) \/ ReadCounts(r) \/ ReadLatest(r)
    \/ \E q \in Requests, r \in Reviewers : Submit(q, r) \/ SubmitForeign(q, r)
    \/ \E q \in Requests : Serve(q) \/ Fail(q)

Spec == Init /\ [][Next]_vars

\* The worker thread serving a request keeps running (or fails).
FairSpec == Spec /\ \A q \in Requests : WF_vars(Serve(q))

-----------------------------------------------------------------------------
(* Safety *)

\* The revision of a candidate counts its decisions: they carry exactly the
\* revisions 1..revision, each once.  The UNIQUE constraint on (candidate_id,
\* revision), which the model does not enforce, therefore never fires.
HistoryContiguous ==
    \A c \in Candidates :
        /\ {d.revision : d \in RowsOf(c)} = 1..cand[c].revision
        /\ \A d, e \in RowsOf(c) : d.revision = e.revision => d = e

\* The status a candidate shows is its last decision, and every decision names
\* the one it replaced: supersedes_decision_id walks the history backwards
\* without a gap, although it is read in another statement than the UPDATE.
SupersedesChain ==
    \A d \in decisions :
        /\ d.revision = cand[d.cand].revision => d.decision = cand[d.cand].status
        /\ d.revision = 1 => d.supersedes = None
        /\ d.revision > 1 =>
               \E e \in RowsOf(d.cand) :
                   e.id = d.supersedes /\ e.revision + 1 = d.revision

\* No decision without its audit event and no audit event without its decision,
\* wherever a request fails (main.py commits both in one transaction).
AuditMatchesHistory == audit = {AuditEvent(d) : d \in decisions}

\* The history of a candidate is sound: typed, contiguous, chained to the last
\* decision and audited, whatever requests compete or fail on the way.
HistorySound ==
    TypeOK /\ HistoryContiguous /\ SupersedesChain /\ AuditMatchesHistory

\* What a reviewer is told is so: after 200 the decision is in the history, at
\* the revision after the one shown, and after 409, 404 or 400 it is not.
AnswersAreTrue ==
    \A q \in Requests :
        /\ req[q].pc = "saved" =>
               \E d \in decisions : /\ d.id = q
                                    /\ d.revision = req[q].expected + 1
                                    /\ d.decision = req[q].decision
        /\ req[q].pc \in {"conflict", "not_found", "invalid"} =>
               \A d \in decisions : d.id # q

\* A reviewer is told to refresh only when somebody else's decision did get
\* through: a request that waited for a row whose writer then rolled back is
\* not refused.
ConflictIsJustified ==
    \A q \in Requests :
        req[q].pc = "conflict" =>
            \E d \in RowsOf(req[q].cand) :
                d.id # q /\ d.revision = req[q].expected + 1

\* No answer is false and no refusal is a false alarm.
AnswersSound == AnswersAreTrue /\ ConflictIsJustified

\* A queue item mixes three moments, but only forwards: the count is never
\* behind the revision shown next to it nor ahead of the latest decision.
QueueItemMonotone ==
    \A r \in Reviewers :
        view[r].stage = "shown" =>
            /\ view[r].revision <= view[r].count
            /\ view[r].count <= view[r].latest

\* Decisions and audit events are never changed or removed, and a candidate
\* changes only by gaining the next revision.
AppendStep ==
    /\ decisions \subseteq decisions'
    /\ audit \subseteq audit'
    /\ \A c \in Candidates :
           Exists(c) /\ cand'[c] # cand[c] =>
               cand'[c].revision = cand[c].revision + 1

AppendOnly == [][AppendStep]_vars

\* The abstract log a state of the desk stands for.
DecisionAt(c, n) == CHOOSE d \in RowsOf(c) : d.revision = n

Verdict(d) == [from |-> req[d.id].seen, to |-> d.decision]

StatusMap == [c \in Candidates |-> cand[c].status]
LogMap == [c \in Candidates |->
             [n \in 1..cand[c].revision |-> Verdict(DecisionAt(c, n))]]
TrailMap == {<<e.cand, e.revision, e.decision>> : e \in audit}

Log == INSTANCE RevisionLog WITH
    Items <- Candidates, status <- StatusMap, log <- LogMap, trail <- TrailMap

\* The desk implements the abstract revision log: a decision takes effect in
\* one step, with its audit event, and only on the status its author saw.
ImplementsRevisionLog == Log!Spec

-----------------------------------------------------------------------------
(* Liveness, under FairSpec *)

\* Every request is answered or fails: nobody waits forever for a row.
EveryRequestEnds ==
    \A q \in Requests : req[q].pc = "received" ~> req[q].pc \in Answered

\* Competing reviewers cannot all be refused: while a request for the current
\* revision is being served, the candidate advances unless that request dies.
SomebodyWins ==
    \A q \in Requests, c \in Candidates :
        (/\ req[q].pc = "checked" /\ req[q].cand = c
         /\ cand[c].revision = req[q].expected)
            ~> (cand[c].revision > req[q].expected \/ req[q].pc = "lost")
==============================================================================

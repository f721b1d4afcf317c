---------------------------- MODULE Orchestration ----------------------------
(***************************************************************************)
(* The asset engine (orchestration/engine.py) and its handler run_asset in *)
(* main.py, for one organization and one partition.                        *)
(*                                                                         *)
(* AssetOrchestrator.run calls itself for the dependencies of an asset, in *)
(* their order, before it looks for an earlier run with the same change    *)
(* hash; the hash covers what the dependencies returned.  The recursion is *)
(* a stack of frames.  Several orchestrators, in threads and processes,    *)
(* share the table asset_runs and nothing else.                            *)
(***************************************************************************)
EXTENDS Naturals, Sequences, FiniteSets

CONSTANTS Requests,     \* calls of run from outside
          Assets, Watermarks, Outputs,
          Registered,   \* assets the orchestrator knows
          Dependencies, \* asset -> the sequence of its dependencies
          MaxAttempts,  \* asset -> max_attempts
          Asset, Watermark,  \* request -> its arguments
          Backfills,    \* requests with a backfill_of_run_id
          Hooked,       \* requests whose orchestrator has failure hooks
          Mortal,       \* requests whose worker may die
          Faulty,       \* requests whose statements the database may refuse,
                        \* or perform and not answer
          Compute,      \* asset -> what spec.compute may return
          Safe,         \* output -> what _safe_metadata leaves of it
          None

\* _safe_metadata keeps the allowed keys: what it has left it leaves again.
ASSUME OrchestrationAssumption ==
    /\ IsFiniteSet(Requests) /\ Faulty \subseteq Requests /\ Registered \subseteq Assets
    /\ Dependencies \in [Assets -> Seq(Assets)]
    /\ MaxAttempts \in [Assets -> 1..10]
    /\ Asset \in [Requests -> Assets] /\ Watermark \in [Requests -> Watermarks]
    /\ Compute \in [Assets -> SUBSET Outputs] /\ Safe \in [Outputs -> Outputs]
    /\ \A output \in Outputs : Safe[Safe[output]] = Safe[output]
    /\ None \notin Outputs \cup Requests \cup (Requests \X Nat)

VARIABLES
    runs,   \* request -> its rows of asset_runs, in the order of their insertion
    audit,  \* requests with an orchestration.asset.completed event
    req,    \* request -> where it is
    before  \* history: request -> requests answered when it began

vars == <<runs, audit, req, before>>

\* The material of a change hash stands for the hash.
ChangeHash == [asset : Assets, watermark : Watermarks,
               dependencies : [Assets -> Outputs \cup {None}]]

\* <<q, n>> is the id of the n-th row of request q.
RunId == Requests \X Nat

AssetRun == [hash : ChangeHash,
             status : {"running", "succeeded", "failed", "skipped_unchanged"},
             attempt_number : Nat, ended_at : Nat,
             metadata : Outputs \cup {None},  \* of a success
             prior_run_id : RunId \cup {None}]     \* of a skip

Frame == [asset : Assets, next : Nat \ {0},
          dependencies : [Assets -> Outputs \cup {None}]]

Request == [pc : {"free", "refused", "run", "skip", "attempt", "compute", "hooks",
                  "completed", "failed", "ok", "dead"},
            stack : Seq(Frame), attempt : Nat, prior : RunId \cup {None}]

TypeOK ==
    /\ runs \in [Requests -> Seq(AssetRun)]
    /\ audit \subseteq Requests
    /\ req \in [Requests -> Request]
    /\ before \in [Requests -> SUBSET Requests]

NoDependencies == [a \in Assets |-> None]

Enter(a) == [asset |-> a, next |-> 1, dependencies |-> NoDependencies]

Init ==
    /\ runs = [q \in Requests |-> <<>>]
    /\ audit = {}
    /\ req = [q \in Requests |-> [pc |-> "free", stack |-> <<>>, attempt |-> 0,
                                  prior |-> None]]
    /\ before = [q \in Requests |-> {}]

Current(q) == Head(req[q].stack)

Dependency(q) == Dependencies[Current(q).asset][Current(q).next]

\* Mutant: the last dependency is left out.
HasTwoLeft(q) == Current(q).next < Len(Dependencies[Current(q).asset])

HasDependencyLeft(q) == Current(q).next <= Len(Dependencies[Current(q).asset])

LastRun(q) == Len(runs[q])

Runs == UNION {{<<q, n>> : n \in 1..Len(runs[q])} : q \in Requests}

Row(id) == runs[id[1]][id[2]]

\* Times are compared only between runs with the same hash: how many of them
\* have ended stands for the time.
Now(hash) ==
    Cardinality({id \in Runs : Row(id).hash = hash /\ Row(id).status # "running"})

-----------------------------------------------------------------------------
\* Missing permission, or an asset or a dependency of it that is not known.
Refuse(q) ==
    /\ req[q].pc = "free"
    /\ req' = [req EXCEPT ![q].pc = "refused"]
    /\ UNCHANGED <<runs, audit, before>>

Begin(q) ==
    /\ req[q].pc = "free" /\ Asset[q] \in Registered
    /\ req' = [req EXCEPT ![q].pc = "run", ![q].stack = <<Enter(Asset[q])>>]
    /\ before' = [before EXCEPT ![q] = {p \in Requests : req[p].pc = "ok"}]
    /\ UNCHANGED <<runs, audit>>

\* run calls itself for the next dependency.
RunDependency(q) ==
    /\ req[q].pc = "run" /\ HasDependencyLeft(q) /\ Dependency(q) \in Registered
    /\ req' = [req EXCEPT ![q].stack = <<Enter(Dependency(q))>> \o @]
    /\ UNCHANGED <<runs, audit, before>>

\* asset_not_registered goes through all callers.
DependencyNotRegistered(q) ==
    /\ req[q].pc = "run" /\ HasDependencyLeft(q) /\ Dependency(q) \notin Registered
    /\ req' = [req EXCEPT ![q].pc = "failed"]
    /\ UNCHANGED <<runs, audit, before>>

_change_hash(q) == [asset |-> Current(q).asset, watermark |-> Watermark[q],
                    dependencies |-> Current(q).dependencies]

\* Mutant: a run of any status is a prior one.
PriorsOfAnyStatus(q) == {id \in Runs : Row(id).hash = _change_hash(q)}

Priors(q) ==
    {id \in Runs : Row(id).hash = _change_hash(q) /\ Row(id).status = "succeeded"}

\* order_by(ended_at.desc())
Latest(ids) ==
    {id \in ids : \A other \in ids : Row(other).ended_at <= Row(id).ended_at}

\* A backfill does not skip.
SelectPrior(q) ==
    /\ req[q].pc = "run" /\ ~HasDependencyLeft(q)
    /\ \/ /\ Priors(q) # {} /\ q \notin Backfills
          /\ \E id \in Latest(Priors(q)) :
                 req' = [req EXCEPT ![q].pc = "skip", ![q].prior = id]
       \/ /\ Priors(q) = {} \/ q \in Backfills
          /\ req' = [req EXCEPT ![q].pc = "attempt", ![q].attempt = 1]
    /\ UNCHANGED <<runs, audit, before>>

\* The frame is left; its output goes to the caller's context.
Return(q, output) ==
    LET callers == Tail(req[q].stack)
        caller == [asset |-> Head(callers).asset, next |-> Head(callers).next + 1,
                   dependencies |-> [Head(callers).dependencies EXCEPT
                                         ![Current(q).asset] = output]]
    IN  req' = [req EXCEPT ![q] =
                  [pc |-> IF callers = <<>> THEN "completed" ELSE "run",
                   stack |-> IF callers = <<>> THEN <<>>
                             ELSE <<caller>> \o Tail(callers),
                   attempt |-> 0, prior |-> None]]

SkippedRow(q) ==
    [hash |-> _change_hash(q), status |-> "skipped_unchanged", attempt_number |-> 1,
     ended_at |-> Now(_change_hash(q)), metadata |-> None,
     prior_run_id |-> req[q].prior]

\* What the prior run stored is returned in place of what it returned.
PriorMetadata(q) == Row(req[q].prior).metadata

Skip(q) ==
    /\ req[q].pc = "skip"
    /\ runs' = [runs EXCEPT ![q] = Append(@, SkippedRow(q))]
    /\ Return(q, PriorMetadata(q))
    /\ UNCHANGED <<audit, before>>

StartAttempt(q) ==
    /\ req[q].pc = "attempt"
    /\ runs' = [runs EXCEPT ![q] = Append(@,
                  [hash |-> _change_hash(q), status |-> "running",
                   attempt_number |-> req[q].attempt, ended_at |-> 0,
                   metadata |-> None, prior_run_id |-> None])]
    /\ req' = [req EXCEPT ![q].pc = "compute"]
    /\ UNCHANGED <<audit, before>>

\* compute has returned.  Only allowlisted keys are stored, all are returned.
Succeed(q) ==
    /\ req[q].pc = "compute"
    /\ \E output \in Compute[Current(q).asset] :
           /\ runs' = [runs EXCEPT ![q][LastRun(q)] =
                         [@ EXCEPT !.status = "succeeded", !.ended_at = Now(_change_hash(q)),
                                   !.metadata = Safe[output]]]
           /\ Return(q, output)
    /\ UNCHANGED <<audit, before>>

\* Mutant: a failed attempt is not recorded as such.
AttemptFailsSilently(q) ==
    /\ req[q].pc = "compute"
    /\ req' = [req EXCEPT ![q].pc = "hooks"]
    /\ UNCHANGED <<runs, audit, before>>

AttemptFails(q) ==
    /\ req[q].pc = "compute"
    /\ runs' = [runs EXCEPT ![q][LastRun(q)] =
                  [@ EXCEPT !.status = "failed", !.ended_at = Now(_change_hash(q))]]
    /\ req' = [req EXCEPT ![q].pc = "hooks"]
    /\ UNCHANGED <<audit, before>>

AttemptsLeft(q) == req[q].attempt < MaxAttempts[Current(q).asset]

\* Mutant: nothing is raised after the last attempt.
RetryOrStay(q) ==
    /\ req[q].pc = "hooks" /\ AttemptsLeft(q)
    /\ req' = [req EXCEPT ![q].pc = "attempt", ![q].attempt = @ + 1]
    /\ UNCHANGED <<runs, audit, before>>

\* The hooks are through: the next attempt, or asset_failed, which goes through
\* all callers.
Retry(q) ==
    /\ req[q].pc = "hooks"
    /\ \/ /\ AttemptsLeft(q)
          /\ req' = [req EXCEPT ![q].pc = "attempt", ![q].attempt = @ + 1]
       \/ /\ ~AttemptsLeft(q)
          /\ req' = [req EXCEPT ![q].pc = "failed"]
    /\ UNCHANGED <<runs, audit, before>>

\* A hook raises inside the except block: no further attempt.
HookFails(q) ==
    /\ req[q].pc = "hooks" /\ q \in Hooked
    /\ req' = [req EXCEPT ![q].pc = "failed"]
    /\ UNCHANGED <<runs, audit, before>>

RecordAudit(q) ==
    /\ req[q].pc = "completed"
    /\ audit' = audit \cup {q}
    /\ req' = [req EXCEPT ![q].pc = "ok"]
    /\ UNCHANGED <<runs, before>>

\* A statement is refused, or the commit before it was performed and its answer
\* lost.  Nothing is rolled back or tried again: an exception outside the try
\* block goes through all callers, one of the commit inside it leads to the
\* handler, whose own commit then raises on the same session.  The row of an
\* attempt stays as it was last committed.
DatabaseFails(q) ==
    /\ q \in Faulty
    /\ req[q].pc \in {"run", "skip", "attempt", "compute", "hooks", "completed"}
    /\ req' = [req EXCEPT ![q].pc = "failed"]
    /\ \/ UNCHANGED audit
       \/ req[q].pc = "completed" /\ audit' = audit \cup {q}
    /\ UNCHANGED <<runs, before>>

Die(q) ==
    /\ q \in Mortal /\ req[q].pc \notin {"free", "refused", "failed", "ok", "dead"}
    /\ req' = [req EXCEPT ![q].pc = "dead"]
    /\ UNCHANGED <<runs, audit, before>>

-----------------------------------------------------------------------------
Proceed(q) ==
    \/ RunDependency(q) \/ DependencyNotRegistered(q) \/ SelectPrior(q) \/ Skip(q)
    \/ StartAttempt(q) \/ Succeed(q) \/ AttemptFails(q) \/ Retry(q) \/ HookFails(q)
    \/ RecordAudit(q)

Next == \E q \in Requests : Refuse(q) \/ Begin(q) \/ Proceed(q) \/ DatabaseFails(q) \/ Die(q)

Spec == Init /\ [][Next]_vars

\* The thread that serves a request runs on, and what an asset computes ends.
\* Nobody has to die and no statement has to fail.
FairSpec == Spec /\ \A q \in Requests : WF_vars(Proceed(q))

-----------------------------------------------------------------------------
(* Properties *)

\* A row says "running" only while its orchestrator computes, has died, or could
\* not commit the end of the attempt, and it is then the last of its request:
\* an attempt that fails, a hook that raises and an asset_failed that goes
\* through all callers leave none behind.
NoRunLeftRunning ==
    \A id \in Runs :
        Row(id).status = "running" =>
            /\ \/ req[id[1]].pc \in {"compute", "dead"}
               \/ req[id[1]].pc = "failed" /\ id[1] \in Faulty
            /\ id[2] = LastRun(id[1])

\* Attempts are bounded, each after the first follows the failure of the one
\* before it, and a request whose hooks do not raise, whose assets are known and
\* whose statements are accepted fails only when an asset has used them up.
AttemptsExhausted ==
    /\ \A id \in Runs :
           LET n == Row(id).attempt_number
           IN  /\ n <= MaxAttempts[Row(id).hash.asset]
               /\ n > 1 => LET previous == Row(<<id[1], id[2] - 1>>)
                           IN  /\ previous.status = "failed"
                               /\ previous.hash = Row(id).hash
                               /\ previous.attempt_number = n - 1
    /\ \A q \in Requests \ (Hooked \cup Faulty) :
           (req[q].pc = "failed" /\ ~(HasDependencyLeft(q) /\ Dependency(q) \notin Registered))
               => LET last == Row(<<q, LastRun(q)>>)
                  IN  /\ last.status = "failed"
                      /\ last.attempt_number = MaxAttempts[last.hash.asset]

\* The rows of asset_runs are well typed, none is left running without a reason
\* and each counts an attempt that was due.
RowsSound == TypeOK /\ NoRunLeftRunning /\ AttemptsExhausted

\* What the run with this id returned to its caller, as far as it was stored.
Stored(id) ==
    IF Row(id).status = "skipped_unchanged" THEN Row(Row(id).prior_run_id).metadata
    ELSE Row(id).metadata

\* No asset is run before all its dependencies have been run or skipped for the
\* same request, and its hash covers what they returned.
DependenciesFirst ==
    \A id \in Runs : \A i \in DOMAIN Dependencies[Row(id).hash.asset] :
        LET d == Dependencies[Row(id).hash.asset][i]
        IN  \E n \in 1..(id[2] - 1) :
                /\ Row(<<id[1], n>>).hash.asset = d
                /\ Row(<<id[1], n>>).status \in {"succeeded", "skipped_unchanged"}
                /\ Row(id).hash.dependencies[d] # None
                /\ Safe[Row(id).hash.dependencies[d]] = Stored(<<id[1], n>>)

\* A skip rests on a success for the same asset, watermark and dependencies
\* that had ended, never on a dead, failed or skipped run, and never happens in
\* a backfill.
SkipsAreJustified ==
    \A id \in Runs :
        Row(id).status = "skipped_unchanged" =>
            LET prior == Row(Row(id).prior_run_id)
            IN  /\ prior.status = "succeeded" /\ prior.hash = Row(id).hash
                /\ prior.ended_at < Row(id).ended_at
                /\ id[1] \notin Backfills

\* compute returns the same for the same asset, and all of it is stored.
Repeatable(a) == \E output \in Outputs : Compute[a] = {output}
Lossless(a) == \A output \in Compute[a] : Safe[output] = output

\* A request that began after the same one had been answered computes nothing
\* again, whatever runs next to it, except where a dependency returns more than
\* is stored: its skip then returns less than its run and changes the hash.
UnchangedInputSkipped ==
    (\A a \in Assets : Repeatable(a)) =>
        \A q \in Requests \ Backfills : \A p \in before[q] :
            (Asset[p] = Asset[q] /\ Watermark[p] = Watermark[q]) =>
                \A n \in 1..LastRun(q) :
                    \/ Row(<<q, n>>).status = "skipped_unchanged"
                    \/ \E i \in DOMAIN Dependencies[Row(<<q, n>>).hash.asset] :
                           ~Lossless(Dependencies[Row(<<q, n>>).hash.asset][i])

\* What has changed is computed, and what has not is skipped.
SkipsExact == SkipsAreJustified /\ UnchangedInputSkipped

\* A request that was begun ends: the recursion is over a finite acyclic graph
\* and attempts are bounded.
EveryRunEnds ==
    \A q \in Requests :
        req[q].pc = "run" ~> req[q].pc \in {"ok", "failed", "dead"}
==============================================================================

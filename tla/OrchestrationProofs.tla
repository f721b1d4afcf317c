------------------------ MODULE OrchestrationProofs ------------------------
(***************************************************************************)
(* What the rows of asset_runs say, for any set of requests, assets and    *)
(* dependencies.  Rows that have ended never change (Kept), so the         *)
(* argument is about what a request knows of its own rows and of the rows  *)
(* it skips on: each frame of its recursion has run the dependencies       *)
(* before its next one (FrameInv), a place in an attempt belongs to the    *)
(* last row (PlaceInv), and a request that repeats an answered one meets   *)
(* only assets the other has run (TwinInv).                                *)
(***************************************************************************)
EXTENDS Orchestration, FiniteSetTheorems, SequenceTheorems, TLAPS

Done == {"succeeded", "skipped_unchanged"}

Active == {"run", "skip", "attempt", "compute", "hooks"}

Ids(q) == 1..Len(runs[q])

\* Before its n-th row request q has run or skipped asset d, and deps holds
\* what that returned.
RanBefore(q, n, deps, d) ==
    \E m \in Ids(q) :
        /\ m < n /\ runs[q][m].hash.asset = d /\ runs[q][m].status \in Done
        /\ deps[d] # None /\ Safe[deps[d]] = Stored(<<q, m>>)

Ran(q, deps, d) == RanBefore(q, Len(runs[q]) + 1, deps, d)

\* Request p has run or skipped asset a.
Met(p, a) == \E n \in Ids(p) : runs[p][n].hash.asset = a /\ runs[p][n].status \in Done

\* What a run of d, or a skip of it, may return.
Returned(d) == Compute[d] \cup {Safe[output] : output \in Compute[d]}

\* deps holds outputs of the first k - 1 dependencies of asset a and no other.
Holds(deps, a, k) ==
    \A d \in Assets : deps[d] # None =>
        /\ deps[d] \in Returned(d)
        /\ \E j \in DOMAIN Dependencies[a] : j < k /\ Dependencies[a][j] = d

FrameInv(q, f) ==
    /\ f.next <= Len(Dependencies[f.asset]) + 1
    /\ \A j \in DOMAIN Dependencies[f.asset] :
           j < f.next => Ran(q, f.dependencies, Dependencies[f.asset][j])
    /\ Holds(f.dependencies, f.asset, f.next)

\* The frames of a recursion: each waits for the one above it.
StackInv(q) ==
    req[q].pc \in Active =>
        LET stack == req[q].stack
        IN  /\ stack # <<>> /\ stack[Len(stack)].asset = Asset[q]
            /\ \A k \in 1..Len(stack) : FrameInv(q, stack[k])
            /\ \A k \in 1..Len(stack) - 1 :
                   /\ stack[k + 1].next \in DOMAIN Dependencies[stack[k + 1].asset]
                   /\ Dependencies[stack[k + 1].asset][stack[k + 1].next] = stack[k].asset

\* The last row is the attempt of this number for what q is about to run.
LastIs(q, status, number) ==
    LET last == runs[q][Len(runs[q])]
    IN  /\ Len(runs[q]) > 0
        /\ last.status = status /\ last.hash = _change_hash(q)
        /\ last.attempt_number = number

\* Row <<p, m>> is a success for what q is about to run.
IsPrior(q, p, m) ==
    /\ m \in Ids(p) /\ runs[p][m].status = "succeeded"
    /\ runs[p][m].hash = _change_hash(q)

PlaceInv(q) ==
    LET k == req[q].attempt
        pc == req[q].pc
    IN  /\ pc \in {"free", "refused"} => runs[q] = <<>>
        /\ pc \in {"skip", "attempt", "compute", "hooks"} => ~HasDependencyLeft(q)
        /\ pc = "skip" =>
               /\ q \notin Backfills
               /\ \E p \in Requests : \E m \in Nat : req[q].prior = <<p, m>> /\ IsPrior(q, p, m)
        /\ pc \in {"attempt", "compute", "hooks"} =>
               k >= 1 /\ k <= MaxAttempts[Current(q).asset]
        /\ pc = "attempt" /\ k > 1 => LastIs(q, "failed", k - 1)
        /\ pc = "compute" => LastIs(q, "running", k)
        /\ pc = "hooks" => LastIs(q, "failed", k)
        /\ (/\ pc = "failed" /\ q \notin Hooked \cup Faulty
            /\ ~(HasDependencyLeft(q) /\ Dependency(q) \notin Registered)) =>
                   LastIs(q, "failed", MaxAttempts[Current(q).asset])
        /\ pc \in {"completed", "ok"} => Met(q, Asset[q])

\* q began after its twin p had been answered: p has run each asset q is in,
\* and q computes only what has a dependency that is not stored as a whole.
Twins(p, q) == Asset[p] = Asset[q] /\ Watermark[p] = Watermark[q]

HasLossyDependency(a) == \E i \in DOMAIN Dependencies[a] : ~Lossless(Dependencies[a][i])

TwinInv(q) ==
    \A p \in before[q] :
        /\ req[p].pc = "ok"
        /\ Twins(p, q) /\ req[q].pc \in Active =>
               \A k \in 1..Len(req[q].stack) : Met(p, req[q].stack[k].asset)
        /\ (/\ Twins(p, q) /\ q \notin Backfills /\ \A a \in Assets : Repeatable(a)
            /\ req[q].pc \in {"attempt", "compute", "hooks"}) =>
                   HasLossyDependency(Current(q).asset)

\* What a row says, whatever its request is doing now: what its hash covers,
RowHash(q, n) ==
    LET hash == runs[q][n].hash
    IN  /\ hash.watermark = Watermark[q]
        /\ Holds(hash.dependencies, hash.asset, Len(Dependencies[hash.asset]) + 1)

\* which rows before it ran its dependencies,
RowDependencies(q, n) ==
    LET hash == runs[q][n].hash
    IN  \A j \in DOMAIN Dependencies[hash.asset] :
            RanBefore(q, n, hash.dependencies, Dependencies[hash.asset][j])

\* when it ended,
RowClock(q, n) == runs[q][n].status # "running" => runs[q][n].ended_at < Now(runs[q][n].hash)

\* that it is computed when it says so,
Working(q) == req[q].pc \in {"compute", "dead"} \/ (req[q].pc = "failed" /\ q \in Faulty)

RowPlace(q, n) ==
    runs[q][n].status = "running" => Working(q) /\ n = Len(runs[q])

\* what it stored,
RowOutput(q, n) ==
    runs[q][n].status = "succeeded" =>
        \E output \in Compute[runs[q][n].hash.asset] : runs[q][n].metadata = Safe[output]

\* which failures it follows,
RowAttempt(q, n) ==
    /\ runs[q][n].attempt_number <= MaxAttempts[runs[q][n].hash.asset]
    /\ runs[q][n].attempt_number > 1 =>
           /\ n > 1 /\ runs[q][n - 1].status = "failed"
           /\ runs[q][n - 1].hash = runs[q][n].hash
           /\ runs[q][n - 1].attempt_number = runs[q][n].attempt_number - 1

\* on what success it is skipped,
RowSkip(q, n) ==
    runs[q][n].status = "skipped_unchanged" =>
        /\ q \notin Backfills
        /\ \E p \in Requests : \E m \in Ids(p) :
               /\ runs[q][n].prior_run_id = <<p, m>> /\ runs[p][m].status = "succeeded"
               /\ runs[p][m].hash = runs[q][n].hash
               /\ runs[p][m].ended_at < runs[q][n].ended_at

\* and that it is skipped where a twin was answered before.
RowTwin(q, n) ==
    (/\ q \notin Backfills /\ \A b \in Assets : Repeatable(b)
     /\ \E p \in before[q] : Twins(p, q)) =>
           \/ runs[q][n].status = "skipped_unchanged"
           \/ HasLossyDependency(runs[q][n].hash.asset)

RowInv(q, n) ==
    /\ RowHash(q, n) /\ RowDependencies(q, n) /\ RowClock(q, n) /\ RowPlace(q, n)
    /\ RowOutput(q, n) /\ RowAttempt(q, n) /\ RowSkip(q, n) /\ RowTwin(q, n)

IInv ==
    /\ TypeOK
    /\ \A q \in Requests : StackInv(q) /\ PlaceInv(q) /\ TwinInv(q)
    /\ \A q \in Requests : \A n \in Ids(q) : RowInv(q, n)

-----------------------------------------------------------------------------
USE OrchestrationAssumption DEF Working

\* The parts of a well-typed state.
LEMMA Typed ==
    ASSUME TypeOK, NEW q \in Requests
    PROVE  /\ req[q] \in Request /\ req[q].stack \in Seq(Frame) /\ Len(req[q].stack) \in Nat
           /\ req[q].attempt \in Nat
           /\ runs[q] \in Seq(AssetRun) /\ Len(runs[q]) \in Nat
           /\ \A n \in Ids(q) : n \in Nat /\ runs[q][n] \in AssetRun
           /\ \A k \in 1..Len(req[q].stack) : req[q].stack[k] \in Frame
           /\ before[q] \subseteq Requests
  <1>1. req[q] \in Request /\ runs[q] \in Seq(AssetRun) /\ before[q] \in SUBSET Requests
    BY DEF TypeOK
  <1>2. req[q].stack \in Seq(Frame) /\ req[q].attempt \in Nat
    BY <1>1 DEF Request
  <1> QED
    BY <1>1, <1>2 DEF Ids

\* An id of a row is a request and a number.
LEMMA RunsAre ==
    ASSUME NEW id
    PROVE  id \in Runs <=> \E q \in Requests : \E n \in Ids(q) : id = <<q, n>>
  BY DEF Runs, Ids

Ended(h) == {id \in Runs : Row(id).hash = h /\ Row(id).status # "running"}

\* There are finitely many rows, and the clock of a hash is a number.
LEMMA NowTyped ==
    ASSUME TypeOK, NEW h
    PROVE  IsFiniteSet(Ended(h)) /\ Now(h) = Cardinality(Ended(h)) /\ Now(h) \in Nat
  <1> DEFINE Of(q) == {<<q, n>> : n \in 1..Len(runs[q])}
             T == {Of(q) : q \in Requests}
             F == [q \in Requests |-> Of(q)]
             G(q) == [n \in 1..Len(runs[q]) |-> <<q, n>>]
  <1>1. ASSUME NEW q \in Requests PROVE IsFiniteSet(Of(q))
    <2>1. Len(runs[q]) \in Nat
      BY Typed
    <2>2. IsFiniteSet(1..Len(runs[q]))
      BY <2>1, FS_Interval
    <2>3. G(q) \in Surjection(1..Len(runs[q]), Of(q))
      BY DEF Surjection
    <2> QED
      BY <2>2, <2>3, FS_Surjection
  <1>2. Runs = UNION T
    BY DEF Runs
  <1> HIDE DEF Of
  <1>3. F \in Surjection(Requests, T)
    BY DEF Surjection
  <1>4. IsFiniteSet(T)
    BY <1>3, FS_Surjection
  <1>5. IsFiniteSet(Runs)
    <2>1. \A t \in T : IsFiniteSet(t)
      BY <1>1
    <2> QED
      BY <1>4, <1>2, <2>1, FS_UNION
  <1>6. Ended(h) \in SUBSET Runs /\ Now(h) = Cardinality(Ended(h))
    BY DEF Ended, Now
  <1>7. IsFiniteSet(Ended(h))
    BY <1>5, <1>6, FS_Subset
  <1> QED
    BY <1>6, <1>7, FS_CardinalityType

\* Rows are only added, and a row that has ended stays as it is.
Kept ==
    \A p \in Requests :
        /\ Len(runs[p]) <= Len(runs'[p])
        /\ \A n \in Ids(p) :
               /\ runs'[p][n].hash = runs[p][n].hash
               /\ runs[p][n].status # "running" => runs'[p][n] = runs[p][n]

\* An ended row under the id it had.
LEMMA EndedKept ==
    ASSUME TypeOK, TypeOK', Kept, NEW p \in Requests, NEW n \in Ids(p),
           runs[p][n].status # "running"
    PROVE  n \in Ids(p)' /\ runs'[p][n] = runs[p][n]
  <1>1. Len(runs[p]) \in Nat /\ Len(runs'[p]) \in Nat
    BY DEF TypeOK
  <1> QED
    BY <1>1 DEF Kept, Ids

\* The clock of a hash never goes back, and goes on when a row ends.
LEMMA ClockKept ==
    ASSUME TypeOK, TypeOK', Kept, NEW h
    PROVE  /\ Now(h) \in Nat /\ Now(h)' \in Nat /\ Now(h) <= Now(h)'
           /\ \A q \in Requests : \A n \in Ids(q)' :
                  (/\ runs'[q][n].hash = h /\ runs'[q][n].status # "running"
                   /\ n \in Ids(q) => runs[q][n].status = "running") => Now(h) < Now(h)'
  <1>1. /\ IsFiniteSet(Ended(h)) /\ Now(h) = Cardinality(Ended(h)) /\ Now(h) \in Nat
        /\ IsFiniteSet(Ended(h)') /\ Now(h)' = Cardinality(Ended(h)') /\ Now(h)' \in Nat
    <2>1. IsFiniteSet(Ended(h)) /\ Now(h) = Cardinality(Ended(h)) /\ Now(h) \in Nat
      BY NowTyped
    <2>2. (IsFiniteSet(Ended(h)) /\ Now(h) = Cardinality(Ended(h)) /\ Now(h) \in Nat)'
      BY NowTyped, PTL
    <2> QED
      BY <2>1, <2>2
  <1>2. Ended(h) \subseteq Ended(h)'
    <2> SUFFICES ASSUME NEW id \in Ended(h) PROVE id \in Ended(h)'
      OBVIOUS
    <2>0. PICK p \in Requests : \E n \in Ids(p) : id = <<p, n>>
      BY RunsAre DEF Ended
    <2>1. PICK n \in Ids(p) : id = <<p, n>>
      BY <2>0
    <2>2. runs[p][n].hash = h /\ runs[p][n].status # "running"
      BY <2>1 DEF Ended, Row
    <2>3. n \in Ids(p)' /\ runs'[p][n] = runs[p][n]
      BY <2>2, EndedKept
    <2>4. id \in Runs'
      BY <2>1, <2>3 DEF Runs, Ids
    <2> QED
      BY <2>1, <2>2, <2>3, <2>4 DEF Ended, Row
  <1>3. Now(h) <= Now(h)'
    BY <1>1, <1>2, FS_Subset
  <1>4. ASSUME NEW q \in Requests, NEW n \in Ids(q)',
               runs'[q][n].hash = h, runs'[q][n].status # "running",
               n \in Ids(q) => runs[q][n].status = "running"
        PROVE  Now(h) < Now(h)'
    <2>1. <<q, n>> \notin Ended(h)
      <3> SUFFICES ASSUME <<q, n>> \in Ended(h) PROVE FALSE
        OBVIOUS
      <3>0. PICK p \in Requests : \E m \in Ids(p) : <<q, n>> = <<p, m>>
        BY RunsAre DEF Ended
      <3>1. PICK m \in Ids(p) : <<q, n>> = <<p, m>>
        BY <3>0
      <3> QED
        BY <1>4, <3>1 DEF Ended, Row
    <2>2. <<q, n>> \in Ended(h)'
      BY <1>4 DEF Ended, Row, Runs, Ids
    <2>3. Ended(h) # Ended(h)'
      BY <2>1, <2>2
    <2> QED
      BY <1>1, <1>2, <1>3, <2>3, FS_Subset
  <1> QED
    BY <1>1, <1>3, <1>4

\* What a done run has stored stays stored, under a skip's prior run too.
LEMMA StoredKept ==
    ASSUME IInv, TypeOK', Kept, NEW q \in Requests, NEW n \in Ids(q),
           runs[q][n].status \in Done
    PROVE  /\ n \in Ids(q)' /\ runs'[q][n] = runs[q][n]
           /\ Stored(<<q, n>>)' = Stored(<<q, n>>)
  <1>1. TypeOK /\ RowInv(q, n)
    BY DEF IInv
  <1>2. n \in Ids(q)' /\ runs'[q][n] = runs[q][n]
    BY <1>1, EndedKept DEF Done
  <1>3. CASE runs[q][n].status # "skipped_unchanged"
    BY <1>2, <1>3 DEF Stored, Row
  <1>4. CASE runs[q][n].status = "skipped_unchanged"
    <2>1. PICK p \in Requests : \E m \in Ids(p) :
                 runs[q][n].prior_run_id = <<p, m>> /\ runs[p][m].status = "succeeded"
      BY <1>1, <1>4 DEF RowInv, RowSkip
    <2>2. PICK m \in Ids(p) :
                 runs[q][n].prior_run_id = <<p, m>> /\ runs[p][m].status = "succeeded"
      BY <2>1
    <2>3. runs'[p][m] = runs[p][m]
      BY <1>1, <2>2, EndedKept
    <2>4. Row(<<q, n>>)' = Row(<<q, n>>) /\ Row(<<q, n>>) = runs[q][n]
      BY <1>2 DEF Row
    <2>5. Row(<<p, m>>)' = Row(<<p, m>>)
      BY <2>3 DEF Row
    <2>6. PICK x : x = <<p, m>>
      OBVIOUS
    <2>7. Stored(<<q, n>>) = Row(x).metadata /\ Stored(<<q, n>>)' = Row(x)'.metadata
      BY <1>4, <2>2, <2>4, <2>6 DEF Stored
    <2> QED
      BY <1>2, <2>5, <2>6, <2>7
  <1> QED
    BY <1>2, <1>3, <1>4

\* A dependency that was run stays run.
LEMMA RanBeforeKept ==
    ASSUME IInv, TypeOK', Kept, NEW q \in Requests, NEW n, NEW deps, NEW d,
           RanBefore(q, n, deps, d)
    PROVE  RanBefore(q, n, deps, d)'
  <1>1. PICK m \in Ids(q) :
           /\ m < n /\ runs[q][m].hash.asset = d /\ runs[q][m].status \in Done
           /\ deps[d] # None /\ Safe[deps[d]] = Stored(<<q, m>>)
    BY DEF RanBefore
  <1>2. /\ m \in Ids(q)' /\ runs'[q][m] = runs[q][m]
        /\ Stored(<<q, m>>)' = Stored(<<q, m>>)
    BY <1>1, StoredKept
  <1> QED
    BY <1>1, <1>2 DEF RanBefore

\* What has been run stays run, whatever is added after it.
LEMMA RanKept ==
    ASSUME IInv, TypeOK', Kept, NEW q \in Requests, NEW deps, NEW d, Ran(q, deps, d)
    PROVE  Ran(q, deps, d)'
  <1>1. PICK m \in Ids(q) :
           /\ m < Len(runs[q]) + 1
           /\ runs[q][m].hash.asset = d /\ runs[q][m].status \in Done
           /\ deps[d] # None /\ Safe[deps[d]] = Stored(<<q, m>>)
    BY DEF Ran, RanBefore
  <1>2. /\ m \in Ids(q)' /\ runs'[q][m] = runs[q][m]
        /\ Stored(<<q, m>>)' = Stored(<<q, m>>)
    BY <1>1, StoredKept
  <1>3. m < Len(runs'[q]) + 1
    BY <1>2 DEF Ids, TypeOK
  <1> QED
    BY <1>1, <1>2, <1>3 DEF Ran, RanBefore

\* And a frame keeps what it knows.
LEMMA FrameKept ==
    ASSUME IInv, TypeOK', Kept, NEW q \in Requests, NEW f, FrameInv(q, f)
    PROVE  FrameInv(q, f)'
  <1>1. \A j \in DOMAIN Dependencies[f.asset] :
           j < f.next => Ran(q, f.dependencies, Dependencies[f.asset][j])'
    BY RanKept DEF FrameInv
  <1>2. /\ f.next <= Len(Dependencies[f.asset]) + 1
        /\ Holds(f.dependencies, f.asset, f.next)
    BY DEF FrameInv
  <1>3. Holds(f.dependencies, f.asset, f.next)'
    BY <1>2, Zenon DEF Holds, Returned
  <1> QED
    BY <1>1, <1>2, <1>3 DEF FrameInv

\* The frames of a stack, each of which the old stack had.
LEMMA StackKept ==
    ASSUME IInv, TypeOK', Kept, NEW q \in Requests,
           req[q].pc \in Active, req'[q].stack = req[q].stack
    PROVE  StackInv(q)'
  <1> DEFINE s == req[q].stack
  <1>1. /\ s # <<>> /\ s[Len(s)].asset = Asset[q]
        /\ \A k \in 1..Len(s) - 1 :
               /\ s[k + 1].next \in DOMAIN Dependencies[s[k + 1].asset]
               /\ Dependencies[s[k + 1].asset][s[k + 1].next] = s[k].asset
        /\ \A k \in 1..Len(s) : FrameInv(q, s[k])
    BY DEF IInv, StackInv
  <1>2. PICK t : t = s
    OBVIOUS
  <1>3. ASSUME NEW k \in 1..Len(t) PROVE FrameInv(q, t[k])'
    <2>1. FrameInv(q, t[k])
      BY <1>1, <1>2
    <2> QED
      BY <2>1, FrameKept
  <1>4. req'[q].stack = t
    BY <1>2
  <1> QED
    BY <1>1, <1>2, <1>3, <1>4 DEF StackInv

\* A row that is not touched keeps what it says.
LEMMA RowKept ==
    ASSUME IInv, TypeOK', Kept, NEW q \in Requests, NEW n \in Ids(q), n \in Ids(q)',
           runs'[q][n] = runs[q][n], before'[q] = before[q],
           runs[q][n].status = "running" =>
               Working(q)' /\ Len(runs'[q]) = Len(runs[q])
    PROVE  RowInv(q, n)'
  <1>1. TypeOK /\ RowInv(q, n) /\ runs[q][n] \in AssetRun /\ n \in Nat /\ Len(runs[q]) \in Nat
    BY Typed DEF IInv
  <1>2. RowDependencies(q, n)'
    <2>1. PICK h : h = runs[q][n].hash
      OBVIOUS
    <2>2. \A j \in DOMAIN Dependencies[h.asset] :
              RanBefore(q, n, h.dependencies, Dependencies[h.asset][j])
      BY <1>1, <2>1 DEF RowInv, RowDependencies
    <2>3. \A j \in DOMAIN Dependencies[h.asset] :
              RanBefore(q, n, h.dependencies, Dependencies[h.asset][j])'
      BY <2>2, RanBeforeKept
    <2>4. runs'[q][n].hash = h
      BY <2>1
    <2> QED
      BY <2>3, <2>4 DEF RowDependencies
  <1>3. RowClock(q, n)'
    <2>1. PICK h : h = runs[q][n].hash
      OBVIOUS
    <2>2. Now(h) \in Nat /\ Now(h)' \in Nat /\ Now(h) <= Now(h)'
      BY <1>1, ClockKept
    <2>3. runs[q][n].ended_at \in Nat
      BY <1>1 DEF AssetRun
    <2>4. runs[q][n].status # "running" => runs[q][n].ended_at < Now(h)
      BY <1>1, <2>1 DEF RowInv, RowClock
    <2>5. runs[q][n].status # "running" => runs[q][n].ended_at < Now(h)'
      BY <2>2, <2>3, <2>4
    <2> QED
      BY <2>1, <2>5 DEF RowClock, Now, Runs, Row
  <1>4. RowAttempt(q, n)'
    <2>1. CASE runs[q][n].attempt_number > 1
      <3>1. /\ n > 1 /\ runs[q][n - 1].status = "failed"
        BY <1>1, <2>1 DEF RowInv, RowAttempt
      <3>2. n - 1 \in Ids(q)
        BY <1>1, <3>1 DEF Ids
      <3>3. runs'[q][n - 1] = runs[q][n - 1]
        BY <1>1, <3>1, <3>2, EndedKept
      <3> QED
        BY <1>1, <3>3 DEF RowInv, RowAttempt
    <2>2. CASE ~(runs[q][n].attempt_number > 1)
      BY <1>1, <2>2 DEF RowInv, RowAttempt
    <2> QED
      BY <2>1, <2>2
  <1>5. RowSkip(q, n)'
    <2> SUFFICES ASSUME runs[q][n].status = "skipped_unchanged" PROVE RowSkip(q, n)'
      BY DEF RowSkip
    <2>1. PICK p \in Requests : \E m \in Ids(p) :
               /\ runs[q][n].prior_run_id = <<p, m>> /\ runs[p][m].status = "succeeded"
               /\ runs[p][m].hash = runs[q][n].hash
               /\ runs[p][m].ended_at < runs[q][n].ended_at
      BY <1>1 DEF RowInv, RowSkip
    <2>2. PICK m \in Ids(p) :
               /\ runs[q][n].prior_run_id = <<p, m>> /\ runs[p][m].status = "succeeded"
               /\ runs[p][m].hash = runs[q][n].hash
               /\ runs[p][m].ended_at < runs[q][n].ended_at
      BY <2>1
    <2>3. m \in Ids(p)' /\ runs'[p][m] = runs[p][m]
      BY <1>1, <2>2, EndedKept, Zenon
    <2>4. q \notin Backfills
      BY <1>1 DEF RowInv, RowSkip
    <2> QED
      BY <2>2, <2>3, <2>4 DEF RowSkip
  <1>6. RowHash(q, n)'
    BY <1>1 DEF RowInv, RowHash, Holds, Returned
  <1>7. RowOutput(q, n)' /\ RowPlace(q, n)'
    BY <1>1, Zenon DEF RowInv, RowOutput, RowPlace
  <1>8. RowTwin(q, n)'
    BY <1>1 DEF RowInv, RowTwin, Twins, HasLossyDependency, Repeatable, Lossless
  <1> QED
    BY <1>2, <1>3, <1>4, <1>5, <1>6, <1>7, <1>8 DEF RowInv

\* The place of a request that does nothing, whatever the others add.
LEMMA PlaceKept ==
    ASSUME IInv, TypeOK', Kept, NEW q \in Requests,
           req'[q] = req[q], runs'[q] = runs[q]
    PROVE  PlaceInv(q)'
  <1> DEFINE h == _change_hash(q)
  <1>1. TypeOK /\ PlaceInv(q)
    BY DEF IInv
  <1>2. /\ HasDependencyLeft(q)' = HasDependencyLeft(q) /\ Dependency(q)' = Dependency(q)
        /\ Current(q)' = Current(q) /\ _change_hash(q)' = _change_hash(q)
    BY DEF HasDependencyLeft, Dependency, Current, _change_hash
  <1>3. \A status, number : LastIs(q, status, number) <=> LastIs(q, status, number)'
    BY <1>2 DEF LastIs
  <1>4. req[q].pc = "skip" =>
           \E p \in Requests : \E m \in Nat : req'[q].prior = <<p, m>> /\ IsPrior(q, p, m)'
    <2> SUFFICES ASSUME req[q].pc = "skip"
                 PROVE  \E p \in Requests : \E m \in Nat :
                            req'[q].prior = <<p, m>> /\ IsPrior(q, p, m)'
      OBVIOUS
    <2>1. PICK p \in Requests : \E m \in Nat : req[q].prior = <<p, m>> /\ IsPrior(q, p, m)
      BY <1>1 DEF PlaceInv
    <2>2. PICK m \in Nat : req[q].prior = <<p, m>> /\ IsPrior(q, p, m)
      BY <2>1
    <2>3. m \in Ids(p)' /\ runs'[p][m] = runs[p][m]
      BY <1>1, <2>2, EndedKept DEF IsPrior
    <2>4. IsPrior(q, p, m)'
      BY <1>2, <2>2, <2>3 DEF IsPrior
    <2> QED
      BY <2>2, <2>4
  <1>5. Met(q, Asset[q]) => Met(q, Asset[q])'
    BY DEF Met, Ids
  <1> QED
    BY <1>1, <1>2, <1>3, <1>4, <1>5 DEF PlaceInv

\* An asset that was met stays met.
LEMMA MetKept ==
    ASSUME IInv, TypeOK', Kept, NEW p \in Requests, NEW a, Met(p, a)
    PROVE  Met(p, a)'
  <1>1. PICK n \in Ids(p) : runs[p][n].hash.asset = a /\ runs[p][n].status \in Done
    BY DEF Met
  <1>2. n \in Ids(p)' /\ runs'[p][n] = runs[p][n]
    BY <1>1, EndedKept DEF IInv, Done
  <1> QED
    BY <1>1, <1>2 DEF Met

\* The same for the twins it began after.
LEMMA TwinKept ==
    ASSUME IInv, TypeOK', Kept, NEW q \in Requests,
           req'[q].stack = req[q].stack, req'[q].pc \in Active => req[q].pc \in Active,
           before'[q] = before[q], \A p \in before[q] : req[p].pc = "ok" => req'[p].pc = "ok",
           req'[q].pc \in {"attempt", "compute", "hooks"} =>
               req[q].pc \in {"attempt", "compute", "hooks"}
    PROVE  TwinInv(q)'
  <1>1. TypeOK /\ TwinInv(q) /\ before[q] \subseteq Requests
    BY Typed DEF IInv
  <1>2. Current(q)' = Current(q)
    BY DEF Current
  <1>3. PICK s : s = req[q].stack
    OBVIOUS
  <1>4. ASSUME NEW p \in before[q]
        PROVE  /\ req'[p].pc = "ok"
               /\ Twins(p, q) /\ req'[q].pc \in Active => \A k \in 1..Len(s) : Met(p, s[k].asset)'
    <2>1. req'[p].pc = "ok"
      BY <1>1 DEF TwinInv
    <2>2. ASSUME Twins(p, q), req'[q].pc \in Active, NEW k \in 1..Len(s)
          PROVE  Met(p, s[k].asset)'
      <3>1. Met(p, s[k].asset)
        BY <1>1, <1>3, <2>2 DEF TwinInv
      <3> QED
        BY <1>1, <3>1, MetKept
    <2> QED
      BY <2>1, <2>2
  <1>5. \A p \in before[q] :
            (/\ Twins(p, q) /\ q \notin Backfills /\ \A a \in Assets : Repeatable(a)
             /\ req'[q].pc \in {"attempt", "compute", "hooks"}) =>
                   HasLossyDependency(Current(q).asset)
    BY <1>1 DEF TwinInv
  <1>6. req'[q].stack = s
    BY <1>3
  <1>7. \A p : Twins(p, q)' = Twins(p, q)
    BY DEF Twins
  <1> QED
    BY <1>2, <1>4, <1>5, <1>6, <1>7 DEF TwinInv, HasLossyDependency, Lossless, Repeatable

\* A request that does nothing, whatever the others add.
LEMMA IdleKept ==
    ASSUME IInv, TypeOK', Kept, NEW p \in Requests,
           req'[p] = req[p], runs'[p] = runs[p], before'[p] = before[p],
           \A x \in Requests : req[x].pc = "ok" => req'[x].pc = "ok"
    PROVE  /\ StackInv(p)' /\ PlaceInv(p)' /\ TwinInv(p)'
           /\ \A n \in Ids(p)' : RowInv(p, n)'
  <1>1. StackInv(p)'
    <2>1. CASE req[p].pc \in Active
      BY <2>1, StackKept
    <2>2. CASE req[p].pc \notin Active
      BY <2>2 DEF StackInv, Active
    <2> QED
      BY <2>1, <2>2
  <1>2. PlaceInv(p)'
    BY PlaceKept
  <1>3. TwinInv(p)'
    <2>1. before[p] \subseteq Requests
      BY Typed DEF IInv
    <2>2. \A x \in before[p] : req[x].pc = "ok" => req'[x].pc = "ok"
      BY <2>1
    <2> QED
      BY <2>2, TwinKept
  <1>4. ASSUME NEW n \in Ids(p)' PROVE RowInv(p, n)'
    <2>1. n \in Ids(p) /\ Len(runs'[p]) = Len(runs[p]) /\ runs'[p][n] = runs[p][n]
      BY <1>4 DEF Ids
    <2>2. runs[p][n].status = "running" => Working(p)'
      BY <2>1 DEF IInv, RowInv, RowPlace
    <2> QED
      BY <1>4, <2>1, <2>2, RowKept
  <1> QED
    BY <1>1, <1>2, <1>3, <1>4

\* A step of request q, as far as the others are concerned.
LEMMA StepOf ==
    ASSUME IInv, TypeOK', Kept, NEW q \in Requests, req[q].pc # "ok",
           \A p \in Requests : p # q => /\ req'[p] = req[p] /\ runs'[p] = runs[p]
                                        /\ before'[p] = before[p],
           StackInv(q)', PlaceInv(q)', TwinInv(q)', \A n \in Ids(q)' : RowInv(q, n)'
    PROVE  IInv'
  <1>1. \A x \in Requests : req[x].pc = "ok" => req'[x].pc = "ok"
    OBVIOUS
  <1>2. ASSUME NEW p \in Requests, p # q
        PROVE  /\ StackInv(p)' /\ PlaceInv(p)' /\ TwinInv(p)'
               /\ \A n \in Ids(p)' : RowInv(p, n)'
    <2>1. req'[p] = req[p] /\ runs'[p] = runs[p] /\ before'[p] = before[p]
      BY <1>2
    <2> QED
      BY <1>1, <2>1, IdleKept
  <1> QED
    BY <1>2 DEF IInv

\* A step that leaves the rows and the frames alone.
LEMMA QuietStep ==
    ASSUME IInv, TypeOK', NEW q \in Requests, UNCHANGED <<runs, before>>,
           \A p \in Requests : p # q => req'[p] = req[p],
           req[q].pc # "ok", req'[q].stack = req[q].stack,
           req'[q].pc \in Active => req[q].pc \in Active,
           Working(q) => Working(q)',
           PlaceInv(q)', TwinInv(q)'
    PROVE  IInv'
  <1>1. Kept
    BY DEF Kept, IInv, TypeOK
  <1>2. StackInv(q)'
    <2>1. CASE req'[q].pc \in Active
      BY <1>1, <2>1, StackKept
    <2>2. CASE req'[q].pc \notin Active
      BY <2>2 DEF StackInv, Active
    <2> QED
      BY <2>1, <2>2
  <1>3. ASSUME NEW n \in Ids(q)' PROVE RowInv(q, n)'
    <2>1. n \in Ids(q) /\ runs'[q][n] = runs[q][n] /\ Len(runs'[q]) = Len(runs[q])
      BY <1>3 DEF Ids
    <2>2. runs[q][n].status = "running" => Working(q)'
      BY <2>1 DEF IInv, RowInv, RowPlace
    <2> QED
      BY <1>1, <1>3, <2>1, <2>2, RowKept
  <1> QED
    BY <1>1, <1>2, <1>3, StepOf

\* The frame on top of the stack.
LEMMA CurrentIs ==
    ASSUME IInv, NEW q \in Requests, req[q].pc \in Active
    PROVE  /\ req[q].stack # <<>> /\ Len(req[q].stack) >= 1
           /\ Current(q) = req[q].stack[1] /\ Current(q) \in Frame
           /\ Current(q).asset \in Assets /\ Current(q).next \in Nat \ {0}
           /\ Current(q).dependencies \in [Assets -> Outputs \cup {None}]
           /\ Dependencies[Current(q).asset] \in Seq(Assets)
           /\ Len(Dependencies[Current(q).asset]) \in Nat
           /\ MaxAttempts[Current(q).asset] \in 1..10
           /\ _change_hash(q) \in ChangeHash
           /\ FrameInv(q, Current(q))
  <1>1. TypeOK /\ StackInv(q)
    BY DEF IInv
  <1>2. req[q].stack \in Seq(Frame) /\ req[q].stack # <<>>
    BY <1>1, Typed DEF StackInv
  <1>3. Len(req[q].stack) >= 1 /\ Current(q) = req[q].stack[1] /\ Current(q) \in Frame
    BY <1>2 DEF Current
  <1>4. FrameInv(q, Current(q))
    <2>1. FrameInv(q, req[q].stack[1])
      BY <1>1, <1>2, <1>3 DEF StackInv
    <2> QED
      BY <1>3, <2>1
  <1>5. /\ Current(q).asset \in Assets /\ Current(q).next \in Nat \ {0}
        /\ Current(q).dependencies \in [Assets -> Outputs \cup {None}]
    BY <1>3 DEF Frame
  <1>6. _change_hash(q) \in ChangeHash
    BY <1>5 DEF _change_hash, ChangeHash
  <1>7. /\ Dependencies[Current(q).asset] \in Seq(Assets)
        /\ Len(Dependencies[Current(q).asset]) \in Nat
        /\ MaxAttempts[Current(q).asset] \in 1..10
    BY <1>5
  <1> QED
    BY <1>2, <1>3, <1>4, <1>5, <1>6, <1>7

\* One request has a new record; rows, audit and history stay or are typed.
LEMMA ReqTyped ==
    ASSUME TypeOK, NEW q \in Requests, NEW r \in Request, req' = [req EXCEPT ![q] = r],
           runs' \in [Requests -> Seq(AssetRun)], audit' \subseteq Requests,
           before' \in [Requests -> SUBSET Requests]
    PROVE  TypeOK' /\ req'[q] = r /\ \A p \in Requests : p # q => req'[p] = req[p]
  BY DEF TypeOK

\* The request is refused, its dependency is unknown, a hook raises, the audit
\* event is recorded, a statement fails, the worker dies.
LEMMA LeaveStep ==
    ASSUME IInv, NEW q \in Requests,
           \/ Refuse(q) \/ DependencyNotRegistered(q) \/ HookFails(q) \/ RecordAudit(q)
           \/ DatabaseFails(q) \/ Die(q)
    PROVE  IInv'
  <1>1. TypeOK /\ req[q] \in Request /\ PlaceInv(q)
    BY Typed DEF IInv
  <1>2. PICK pc \in {"refused", "failed", "ok", "dead"} :
           /\ req' = [req EXCEPT ![q].pc = pc]
           /\ pc = "refused" => Refuse(q)
           /\ pc = "failed" => DependencyNotRegistered(q) \/ HookFails(q) \/ DatabaseFails(q)
           /\ pc = "ok" => RecordAudit(q)
           /\ pc = "dead" => Die(q)
    <2>1. CASE Refuse(q)
      BY <2>1 DEF Refuse
    <2>2. CASE DependencyNotRegistered(q)
      BY <2>2 DEF DependencyNotRegistered
    <2>3. CASE HookFails(q)
      BY <2>3 DEF HookFails
    <2>4. CASE RecordAudit(q)
      BY <2>4 DEF RecordAudit
    <2>5. CASE Die(q)
      BY <2>5 DEF Die
    <2>6. CASE DatabaseFails(q)
      BY <2>6 DEF DatabaseFails
    <2> QED
      BY <2>1, <2>2, <2>3, <2>4, <2>5, <2>6
  <1>3. /\ UNCHANGED <<runs, before>> /\ audit' \subseteq Requests
        /\ req[q].pc \notin {"refused", "failed", "ok", "dead"}
        /\ req[q].pc = "compute" => pc = "dead" \/ (pc = "failed" /\ q \in Faulty)
        /\ pc = "refused" => req[q].pc = "free"
        /\ pc = "ok" => req[q].pc = "completed"
        /\ (pc = "failed" /\ q \notin Hooked \cup Faulty) =>
               HasDependencyLeft(q) /\ Dependency(q) \notin Registered
    <2>1. UNCHANGED <<runs, before>> /\ audit' \subseteq Requests
      <3>1. audit' \subseteq audit \cup {q}
        BY DEF Refuse, DependencyNotRegistered, HookFails, RecordAudit, DatabaseFails, Die
      <3>2. UNCHANGED <<runs, before>>
        BY DEF Refuse, DependencyNotRegistered, HookFails, RecordAudit, DatabaseFails, Die
      <3> QED
        BY <1>1, <3>1, <3>2 DEF TypeOK
    <2>2. CASE pc = "refused"
      BY <1>2, <2>1, <2>2 DEF Refuse
    <2>3. CASE pc = "failed"
      <3>1. CASE DependencyNotRegistered(q)
        BY <2>1, <2>3, <3>1 DEF DependencyNotRegistered
      <3>2. CASE HookFails(q)
        BY <2>1, <2>3, <3>2 DEF HookFails
      <3>3. CASE DatabaseFails(q)
        BY <2>1, <2>3, <3>3 DEF DatabaseFails
      <3> QED
        BY <1>2, <2>3, <3>1, <3>2, <3>3
    <2>4. CASE pc = "ok"
      BY <1>2, <2>1, <2>4 DEF RecordAudit
    <2>5. CASE pc = "dead"
      BY <1>2, <2>1, <2>5 DEF Die
    <2> QED
      BY <1>2, <2>2, <2>3, <2>4, <2>5
  <1>4. /\ [req[q] EXCEPT !.pc = pc] \in Request
        /\ [req[q] EXCEPT !.pc = pc].stack = req[q].stack
        /\ [req[q] EXCEPT !.pc = pc].pc = pc
    BY <1>1 DEF Request
  <1>5. /\ TypeOK' /\ req'[q].stack = req[q].stack /\ req'[q].pc = pc
        /\ \A p \in Requests : p # q => req'[p] = req[p]
    <2>1. req' = [req EXCEPT ![q] = [req[q] EXCEPT !.pc = pc]]
      BY <1>1, <1>2 DEF TypeOK
    <2>2. runs' \in [Requests -> Seq(AssetRun)] /\ before' \in [Requests -> SUBSET Requests]
      BY <1>1, <1>3 DEF TypeOK
    <2>3. /\ TypeOK' /\ req'[q] = [req[q] EXCEPT !.pc = pc]
          /\ \A p \in Requests : p # q => req'[p] = req[p]
      BY <1>1, <1>3, <1>4, <2>1, <2>2, ReqTyped
    <2> QED
      BY <1>4, <2>3
  <1>6. Kept
    BY <1>1, <1>3 DEF Kept, TypeOK
  <1>7. PlaceInv(q)'
    <2>1. HasDependencyLeft(q)' = HasDependencyLeft(q) /\ Dependency(q)' = Dependency(q)
      BY <1>5 DEF HasDependencyLeft, Dependency, Current
    <2>2. pc = "refused" => runs'[q] = <<>>
      BY <1>1, <1>3 DEF PlaceInv
    <2>3. pc = "ok" => Met(q, Asset[q])'
      <3>1. Met(q, Asset[q])' <=> Met(q, Asset[q])
        BY <1>3 DEF Met, Ids
      <3> QED
        BY <1>1, <1>3, <3>1 DEF PlaceInv
    <2> QED
      BY <1>3, <1>5, <2>1, <2>2, <2>3 DEF PlaceInv
  <1>8. TwinInv(q)'
    <2>1. \A p \in before[q] : req[p].pc = "ok" => req'[p].pc = "ok"
      BY <1>1, <1>3, <1>5, Typed
    <2>2. req'[q].pc \notin Active /\ before'[q] = before[q]
      BY <1>3, <1>5 DEF Active
    <2> QED
      BY <1>5, <1>6, <2>1, <2>2, TwinKept DEF Active
  <1> QED
    BY <1>3, <1>5, <1>7, <1>8, QuietStep DEF Active

\* A request that repeats an answered one, and whose dependencies are stored
\* as a whole, finds a success for the same hash.
LEMMA TwinFindsPrior ==
    ASSUME IInv, NEW q \in Requests, req[q].pc = "run", ~HasDependencyLeft(q),
           NEW p \in before[q], Twins(p, q), \A a \in Assets : Repeatable(a),
           ~HasLossyDependency(Current(q).asset)
    PROVE  Priors(q) # {}
  <1> DEFINE a == Current(q).asset
             deps == Current(q).dependencies
  <1>1. TypeOK /\ TwinInv(q) /\ p \in Requests
    BY Typed DEF IInv
  <1>2. /\ Len(req[q].stack) >= 1 /\ Current(q) = req[q].stack[1] /\ FrameInv(q, Current(q))
        /\ a \in Assets /\ deps \in [Assets -> Outputs \cup {None}]
        /\ Dependencies[a] \in Seq(Assets) /\ Current(q).next \in Nat
        /\ Len(Dependencies[a]) \in Nat /\ Len(req[q].stack) \in Nat
    BY <1>1, CurrentIs, Typed DEF Active
  <1>3. Met(p, a)
    <2>1. 1 \in 1..Len(req[q].stack)
      BY <1>2
    <2>2. Met(p, req[q].stack[1].asset)
      BY <1>1, <2>1 DEF TwinInv, Active
    <2> QED
      BY <1>2, <2>2
  <1>4. PICK n \in Ids(p) : runs[p][n].hash.asset = a /\ runs[p][n].status \in Done
    BY <1>3 DEF Met
  <1>5. /\ RowHash(p, n) /\ RowDependencies(p, n) /\ RowSkip(p, n)
        /\ runs[p][n] \in AssetRun
    BY <1>1, <1>4, Typed DEF IInv, RowInv
  <1>6. PICK other : other = runs[p][n].hash.dependencies
    OBVIOUS
  <1>7. /\ other \in [Assets -> Outputs \cup {None}]
        /\ runs[p][n].hash = [asset |-> a, watermark |-> Watermark[q], dependencies |-> other]
    <2>1. runs[p][n].hash \in ChangeHash
      BY <1>5 DEF AssetRun
    <2>2. runs[p][n].hash.watermark = Watermark[q]
      BY <1>5, Zenon DEF RowHash, Twins
    <2> QED
      BY <1>4, <1>6, <2>1, <2>2 DEF ChangeHash
  <1>8. /\ Holds(deps, a, Current(q).next) /\ Holds(other, a, Len(Dependencies[a]) + 1)
    BY <1>2, <1>4, <1>5, <1>6 DEF FrameInv, RowHash
  <1>9. \A j \in DOMAIN Dependencies[a] : deps[Dependencies[a][j]] # None /\ other[Dependencies[a][j]] # None
    <2> SUFFICES ASSUME NEW j \in DOMAIN Dependencies[a]
                 PROVE  deps[Dependencies[a][j]] # None /\ other[Dependencies[a][j]] # None
      OBVIOUS
    <2>1. j < Current(q).next
      <3>1. ~(Current(q).next <= Len(Dependencies[a]))
        BY DEF HasDependencyLeft
      <3>2. j \in 1..Len(Dependencies[a])
        <4>1. Dependencies[a] \in Seq(Assets)
          BY <1>2
        <4> HIDE DEF a
        <4> QED
          BY <4>1
      <3> HIDE DEF a
      <3> QED
        BY <1>2, <3>1, <3>2
    <2>2. Ran(q, deps, Dependencies[a][j]) /\ RanBefore(p, n, other, Dependencies[a][j])
      BY <1>2, <1>4, <1>5, <1>6, <2>1 DEF FrameInv, RowDependencies
    <2> QED
      BY <2>2 DEF Ran, RanBefore
  <1>10. \A d \in Assets : deps[d] = other[d]
    <2> SUFFICES ASSUME NEW d \in Assets PROVE deps[d] = other[d]
      OBVIOUS
    <2>1. CASE \E j \in DOMAIN Dependencies[a] : Dependencies[a][j] = d
      <3>1. deps[d] \in Returned(d) /\ other[d] \in Returned(d)
        BY <1>8, <1>9, <2>1 DEF Holds
      <3>2. Lossless(d) /\ Repeatable(d)
        BY <2>1 DEF HasLossyDependency
      <3>3. PICK output : Compute[d] = {output}
        BY <3>2 DEF Repeatable
      <3>4. Returned(d) = {output}
        BY <3>2, <3>3 DEF Returned, Lossless
      <3> QED
        BY <3>1, <3>4
    <2>2. CASE ~\E j \in DOMAIN Dependencies[a] : Dependencies[a][j] = d
      <3>1. deps[d] = None /\ other[d] = None
        BY <1>8, <2>2 DEF Holds
      <3> QED
        BY <3>1
    <2> QED
      BY <2>1, <2>2
  <1>11. runs[p][n].hash = _change_hash(q)
    <2>1. deps = other
      BY <1>2, <1>7, <1>10
    <2> QED
      BY <1>7, <2>1 DEF _change_hash
  <1>12. CASE runs[p][n].status = "succeeded"
    <2>1. <<p, n>> \in Runs
      BY <1>1, <1>4, RunsAre
    <2> QED
      BY <1>11, <1>12, <2>1 DEF Priors, Row
  <1>13. CASE runs[p][n].status = "skipped_unchanged"
    <2>1. PICK o \in Requests : \E m \in Ids(o) :
             runs[o][m].status = "succeeded" /\ runs[o][m].hash = runs[p][n].hash
      BY <1>5, <1>13 DEF RowSkip
    <2>2. PICK m \in Ids(o) :
             runs[o][m].status = "succeeded" /\ runs[o][m].hash = runs[p][n].hash
      BY <2>1
    <2>3. <<o, m>> \in Runs
      BY <2>2, RunsAre
    <2> QED
      BY <1>11, <2>2, <2>3 DEF Priors, Row
  <1> QED
    BY <1>4, <1>12, <1>13 DEF Done

\* The request looks for a success to skip on, and finds one or not.
LEMMA SelectPriorStep == ASSUME IInv, NEW q \in Requests, SelectPrior(q) PROVE IInv'
  <1>1. TypeOK /\ req[q] \in Request /\ req[q].pc = "run" /\ ~HasDependencyLeft(q)
    BY Typed DEF IInv, SelectPrior
  <1>2. UNCHANGED <<runs, audit, before>>
    BY DEF SelectPrior
  <1>3. /\ Current(q).asset \in Assets /\ MaxAttempts[Current(q).asset] \in 1..10
    BY <1>1, CurrentIs DEF Active
  <1>4. Kept
    BY <1>1, <1>2 DEF Kept, TypeOK
  <1>5. runs' \in [Requests -> Seq(AssetRun)] /\ before' \in [Requests -> SUBSET Requests]
        /\ audit' \subseteq Requests
    BY <1>1, <1>2 DEF TypeOK
  <1>6. \A p \in before[q] : p \in Requests /\ p # q /\ req[p].pc = "ok"
    BY <1>1, Typed DEF IInv, TwinInv
  <1>7. ASSUME NEW id \in Latest(Priors(q)), q \notin Backfills,
               req' = [req EXCEPT ![q].pc = "skip", ![q].prior = id]
        PROVE  IInv'
    <2> DEFINE r == [req[q] EXCEPT !.pc = "skip", !.prior = id]
    <2>1. id \in Runs /\ Row(id).hash = _change_hash(q) /\ Row(id).status = "succeeded"
      BY DEF Latest, Priors
    <2>2. PICK p \in Requests : \E m \in Ids(p) : id = <<p, m>>
      BY <2>1, RunsAre
    <2>3. PICK m \in Ids(p) : id = <<p, m>>
      BY <2>2
    <2>4. m \in Nat /\ id \in RunId /\ IsPrior(q, p, m)
      <3>1. m \in Nat
        BY <1>1, <2>3, Typed
      <3> QED
        BY <2>1, <2>3, <3>1 DEF RunId, IsPrior, Row
    <2>5. /\ r \in Request /\ r.pc = "skip" /\ r.stack = req[q].stack /\ r.prior = id
      BY <1>1, <2>4 DEF Request
    <2>6. req' = [req EXCEPT ![q] = r]
      BY <1>1, <1>7 DEF TypeOK
    <2> HIDE DEF r
    <2>7. TypeOK' /\ req'[q] = r /\ \A o \in Requests : o # q => req'[o] = req[o]
      BY <1>1, <1>5, <2>5, <2>6, ReqTyped
    <2>8. /\ HasDependencyLeft(q)' = HasDependencyLeft(q) /\ IsPrior(q, p, m)'
      BY <1>2, <2>4, <2>5, <2>7 DEF HasDependencyLeft, Current, IsPrior, Ids, _change_hash
    <2>9. PlaceInv(q)'
      BY <1>1, <1>7, <2>3, <2>4, <2>5, <2>7, <2>8 DEF PlaceInv
    <2>10. TwinInv(q)'
      BY <1>1, <1>2, <1>4, <1>6, <2>5, <2>7, TwinKept DEF Active
    <2> QED
      BY <1>1, <1>2, <2>5, <2>7, <2>9, <2>10, QuietStep DEF Active
  <1>8. ASSUME Priors(q) = {} \/ q \in Backfills,
               req' = [req EXCEPT ![q].pc = "attempt", ![q].attempt = 1]
        PROVE  IInv'
    <2> DEFINE r == [req[q] EXCEPT !.pc = "attempt", !.attempt = 1]
    <2>1. /\ r \in Request /\ r.pc = "attempt" /\ r.stack = req[q].stack /\ r.attempt = 1
      BY <1>1 DEF Request
    <2>2. req' = [req EXCEPT ![q] = r]
      BY <1>1, <1>8 DEF TypeOK
    <2> HIDE DEF r
    <2>3. TypeOK' /\ req'[q] = r /\ \A o \in Requests : o # q => req'[o] = req[o]
      BY <1>1, <1>5, <2>1, <2>2, ReqTyped
    <2>4. HasDependencyLeft(q)' = HasDependencyLeft(q) /\ Current(q)' = Current(q)
      BY <2>1, <2>3 DEF HasDependencyLeft, Current
    <2>5. PlaceInv(q)'
      BY <1>1, <1>3, <2>1, <2>3, <2>4 DEF PlaceInv
    <2>6. TwinInv(q)'
      <3>1. TwinInv(q)
        BY DEF IInv
      <3>2. PICK s : s = req[q].stack
        OBVIOUS
      <3>3. ASSUME NEW p \in before[q], Twins(p, q) PROVE \A k \in 1..Len(s) : Met(p, s[k].asset)'
        <4>1. \A k \in 1..Len(s) : Met(p, s[k].asset)
          BY <1>1, <3>1, <3>2, <3>3 DEF TwinInv, Active
        <4> QED
          BY <1>4, <1>6, <2>3, <4>1, MetKept
      <3>4. ASSUME NEW p \in before[q], Twins(p, q), q \notin Backfills,
                   \A a \in Assets : Repeatable(a)
            PROVE  HasLossyDependency(Current(q).asset)
        BY <1>1, <1>8, <3>4, TwinFindsPrior
      <3>5. req'[q].stack = s /\ \A p \in before[q] : req'[p].pc = "ok"
        <4>1. req'[q].stack = s
          BY <2>1, <2>3, <3>2
        <4>2. ASSUME NEW p \in before[q] PROVE req'[p].pc = "ok"
          BY <1>6, <2>3, <4>2
        <4> QED
          BY <4>1, <4>2
      <3>6. \A p : Twins(p, q)' = Twins(p, q)
        BY DEF Twins
      <3> QED
        BY <1>2, <2>4, <3>3, <3>4, <3>5, <3>6
        DEF TwinInv, HasLossyDependency, Lossless, Repeatable
    <2> QED
      BY <1>1, <1>2, <2>1, <2>3, <2>5, <2>6, QuietStep DEF Active
  <1> QED
    BY <1>7, <1>8 DEF SelectPrior

\* The next attempt, or none is left.
LEMMA RetryStep == ASSUME IInv, NEW q \in Requests, Retry(q) PROVE IInv'
  <1>1. TypeOK /\ req[q].pc = "hooks" /\ PlaceInv(q)
    BY DEF IInv, Retry
  <1>2. PICK k \in Nat : k = req[q].attempt
    BY <1>1, Typed
  <1>3. PICK max \in Nat : max = MaxAttempts[Current(q).asset]
    <2>1. MaxAttempts[Current(q).asset] \in 1..10
      BY <1>1, CurrentIs DEF Active
    <2> QED
      BY <2>1
  <1>4. LastIs(q, "failed", k) /\ ~HasDependencyLeft(q) /\ k >= 1 /\ k <= max
    BY <1>1, <1>2, <1>3 DEF PlaceInv
  <1>5. PICK r \in Request :
           /\ req' = [req EXCEPT ![q] = r] /\ r.stack = req[q].stack
           /\ \/ k < max /\ r.pc = "attempt" /\ r.attempt = k + 1
              \/ k = max /\ r.pc = "failed"
    <2>1. req[q] \in Request
      BY <1>1, Typed
    <2>2. CASE k < max
      <3> DEFINE r == [req[q] EXCEPT !.pc = "attempt", !.attempt = k + 1]
      <3>1. r \in Request /\ r.stack = req[q].stack /\ r.pc = "attempt" /\ r.attempt = k + 1
        <4>1. k + 1 \in Nat
          OBVIOUS
        <4> QED
          BY <2>1, <4>1 DEF Request
      <3>2. req' = [req EXCEPT ![q] = r]
        <4>1. AttemptsLeft(q)
          BY <1>2, <1>3, <2>2 DEF AttemptsLeft
        <4>2. req' = [req EXCEPT ![q] = [req[q] EXCEPT !.pc = "attempt", !.attempt = req[q].attempt + 1]]
          BY <1>1, <4>1 DEF Retry, TypeOK
        <4> QED
          BY <1>2, <4>2
      <3> HIDE DEF r
      <3> QED
        BY <2>2, <3>1, <3>2
    <2>3. CASE ~(k < max)
      <3> DEFINE r == [req[q] EXCEPT !.pc = "failed"]
      <3>1. r \in Request /\ r.stack = req[q].stack /\ r.pc = "failed"
        BY <2>1 DEF Request
      <3>2. req' = [req EXCEPT ![q] = r]
        BY <1>1, <1>2, <1>3, <2>3 DEF Retry, AttemptsLeft, TypeOK
      <3>3. k = max
        BY <1>4, <2>3
      <3> HIDE DEF r
      <3> QED
        BY <3>1, <3>2, <3>3
    <2> QED
      BY <2>2, <2>3
  <1>6. /\ UNCHANGED <<runs, audit, before>>
        /\ runs' \in [Requests -> Seq(AssetRun)] /\ before' \in [Requests -> SUBSET Requests]
        /\ audit' \subseteq Requests
    BY <1>1 DEF Retry, TypeOK
  <1>7. TypeOK' /\ req'[q] = r /\ \A o \in Requests : o # q => req'[o] = req[o]
    BY <1>1, <1>5, <1>6, ReqTyped
  <1>8. Kept
    BY <1>1, <1>6 DEF Kept, TypeOK
  <1>9. /\ HasDependencyLeft(q)' = HasDependencyLeft(q) /\ Current(q)' = Current(q)
        /\ _change_hash(q)' = _change_hash(q)
    BY <1>5, <1>7 DEF HasDependencyLeft, Current, _change_hash
  <1>10. LastIs(q, "failed", k)'
    BY <1>4, <1>6, <1>9 DEF LastIs
  <1>11. PlaceInv(q)'
    <2>1. CASE r.pc = "attempt"
      <3>1. req'[q].attempt = k + 1 /\ k + 1 - 1 = k /\ k + 1 >= 1 /\ k + 1 <= max
        BY <1>5, <1>7, <2>1
      <3>2. LastIs(q, "failed", req[q].attempt - 1)'
        BY <1>10, <3>1 DEF LastIs
      <3> QED
        BY <1>3, <1>4, <1>7, <1>9, <2>1, <3>1, <3>2 DEF PlaceInv
    <2>2. CASE r.pc = "failed"
      <3>1. LastIs(q, "failed", MaxAttempts[Current(q).asset])'
        BY <1>3, <1>5, <1>9, <1>10, <2>2 DEF LastIs
      <3> QED
        BY <1>7, <2>2, <3>1 DEF PlaceInv
    <2> QED
      BY <1>5, <2>1, <2>2
  <1>12. TwinInv(q)'
    <2>1. \A p \in before[q] : req[p].pc = "ok" => req'[p].pc = "ok"
      BY <1>1, <1>7, Typed
    <2>2. req'[q].stack = req[q].stack /\ before'[q] = before[q]
      BY <1>5, <1>6, <1>7
    <2> QED
      BY <1>1, <1>7, <1>8, <2>1, <2>2, TwinKept DEF Active
  <1>13. req'[q].stack = req[q].stack /\ req'[q].pc \in {"attempt", "failed"}
    BY <1>5, <1>7
  <1> QED
    BY <1>1, <1>6, <1>7, <1>11, <1>12, <1>13, QuietStep DEF Active

\* A frame is put on the stack.
LEMMA Pushed ==
    ASSUME NEW s \in Seq(Frame), NEW f \in Frame
    PROVE  /\ <<f>> \o s \in Seq(Frame) /\ <<f>> \o s # <<>>
           /\ Len(<<f>> \o s) = Len(s) + 1 /\ (<<f>> \o s)[1] = f
           /\ \A k \in 1..Len(s) : (<<f>> \o s)[k + 1] = s[k]
  OBVIOUS

\* A frame just entered has run nothing and holds nothing.
LEMMA EnterIs ==
    ASSUME NEW q, NEW a \in Assets
    PROVE  /\ Enter(a) \in Frame /\ Enter(a).asset = a /\ Enter(a).next = 1
           /\ FrameInv(q, Enter(a)) /\ FrameInv(q, Enter(a))'
  <1>1. /\ Enter(a) \in Frame /\ Enter(a).asset = a /\ Enter(a).next = 1
        /\ Enter(a).dependencies = [b \in Assets |-> None]
    BY DEF Enter, NoDependencies, Frame
  <1>2. Dependencies[a] \in Seq(Assets) /\ Len(Dependencies[a]) \in Nat
        /\ \A j \in DOMAIN Dependencies[a] : ~(j < 1)
    OBVIOUS
  <1>3. Holds(Enter(a).dependencies, a, 1) /\ Holds(Enter(a).dependencies, a, 1)'
    BY <1>1 DEF Holds
  <1>4. FrameInv(q, Enter(a))
    BY <1>1, <1>2, <1>3 DEF FrameInv
  <1>5. FrameInv(q, Enter(a))'
    BY <1>1, <1>2, <1>3 DEF FrameInv
  <1> QED
    BY <1>1, <1>4, <1>5

\* The request begins: it has no rows, and its twins that were answered have
\* run the asset it asks for.
LEMMA BeginStep == ASSUME IInv, NEW q \in Requests, Begin(q) PROVE IInv'
  <1> DEFINE f == Enter(Asset[q])
             r == [req[q] EXCEPT !.pc = "run", !.stack = <<f>>]
  <1>1. TypeOK /\ req[q] \in Request /\ req[q].pc = "free" /\ PlaceInv(q)
    BY Typed DEF IInv, Begin
  <1>2. /\ UNCHANGED <<runs, audit>> /\ runs[q] = <<>>
        /\ before' = [before EXCEPT ![q] = {p \in Requests : req[p].pc = "ok"}]
        /\ req' = [req EXCEPT ![q] = r]
    BY <1>1 DEF Begin, TypeOK, PlaceInv
  <1>3. f \in Frame /\ f.asset = Asset[q] /\ FrameInv(q, f)'
    BY EnterIs
  <1> HIDE DEF f
  <1>4. <<f>> \in Seq(Frame) /\ Len(<<f>>) = 1 /\ <<f>>[1] = f
    BY <1>3
  <1>5. r \in Request /\ r.pc = "run" /\ r.stack = <<f>>
    BY <1>1, <1>4 DEF Request
  <1> HIDE DEF r
  <1>6. /\ runs' \in [Requests -> Seq(AssetRun)] /\ before' \in [Requests -> SUBSET Requests]
        /\ audit' \subseteq Requests
    BY <1>1, <1>2 DEF TypeOK
  <1>7. TypeOK' /\ req'[q] = r /\ \A o \in Requests : o # q => req'[o] = req[o]
    BY <1>1, <1>2, <1>5, <1>6, ReqTyped
  <1>8. Kept /\ \A o \in Requests : o # q => runs'[o] = runs[o] /\ before'[o] = before[o]
    BY <1>1, <1>2 DEF Kept, TypeOK
  <1>9. StackInv(q)'
    <2>1. PICK s : s = <<f>>
      OBVIOUS
    <2>2. req'[q].stack = s
      BY <1>5, <1>7, <2>1
    <2>3. s # <<>> /\ Len(s) = 1 /\ s[1].asset = Asset[q]
      BY <1>3, <1>4, <2>1
    <2>4. FrameInv(q, s[1])'
      BY <1>3, <1>4, <2>1
    <2>5. (\A k \in 1..Len(s) : FrameInv(q, s[k])') /\ \A k \in 1..Len(s) - 1 : FALSE
      BY <2>3, <2>4
    <2> QED
      BY <2>2, <2>3, <2>5 DEF StackInv
  <1>10. PlaceInv(q)'
    BY <1>5, <1>7 DEF PlaceInv
  <1>11. TwinInv(q)'
    <2>1. ASSUME NEW p \in before'[q]
          PROVE  req'[p].pc = "ok" /\ (Twins(p, q) => Met(p, f.asset)')
      <3>1. p \in Requests /\ req[p].pc = "ok" /\ p # q
        BY <1>1, <1>2, <2>1 DEF TypeOK
      <3>2. Met(p, Asset[p])
        BY <3>1 DEF IInv, PlaceInv
      <3>3. Met(p, Asset[p])'
        BY <1>2, <3>2 DEF Met, Ids
      <3>4. Twins(p, q) => f.asset = Asset[p]
        BY <1>3 DEF Twins
      <3> QED
        BY <1>7, <3>1, <3>3, <3>4
    <2>2. PICK s : s = <<f>>
      OBVIOUS
    <2>3. req'[q].stack = s /\ req'[q].pc = "run" /\ \A k \in 1..Len(s) : s[k] = f
      BY <1>4, <1>5, <1>7, <2>2
    <2>4. \A p : Twins(p, q)' = Twins(p, q)
      BY DEF Twins
    <2>5. \A p \in before'[q] : req'[p].pc = "ok" /\ (Twins(p, q) => \A k \in 1..Len(s) : Met(p, s[k].asset)')
      BY <2>1, <2>3
    <2> QED
      BY <2>3, <2>4, <2>5 DEF TwinInv
  <1>12. \A n \in Ids(q)' : RowInv(q, n)'
    BY <1>2 DEF Ids
  <1> QED
    BY <1>1, <1>7, <1>8, <1>9, <1>10, <1>11, <1>12, StepOf

\* What has run an asset has run its dependencies.
LEMMA MetDependency ==
    ASSUME IInv, NEW p \in Requests, NEW a, Met(p, a), NEW j \in DOMAIN Dependencies[a]
    PROVE  Met(p, Dependencies[a][j])
  <1>1. PICK n \in Ids(p) : runs[p][n].hash.asset = a /\ runs[p][n].status \in Done
    BY DEF Met
  <1>2. RowDependencies(p, n)
    BY DEF IInv, RowInv
  <1>3. RanBefore(p, n, runs[p][n].hash.dependencies, Dependencies[a][j])
    BY <1>1, <1>2 DEF RowDependencies
  <1> QED
    BY <1>3 DEF RanBefore, Met

\* run calls itself for the next dependency.
LEMMA RunDependencyStep == ASSUME IInv, NEW q \in Requests, RunDependency(q) PROVE IInv'
  <1>1. TypeOK /\ req[q] \in Request /\ req[q].pc = "run" /\ StackInv(q) /\ TwinInv(q)
    BY Typed DEF IInv, RunDependency
  <1>2. PICK s \in Seq(Frame) : s = req[q].stack
    BY <1>1, Typed
  <1>3. /\ Current(q) = s[1] /\ s[1].asset \in Assets /\ Len(s) >= 1 /\ Len(s) \in Nat
        /\ s[1].next \in Nat \ {0} /\ Dependencies[s[1].asset] \in Seq(Assets)
        /\ Len(Dependencies[s[1].asset]) \in Nat
    BY <1>1, <1>2, CurrentIs DEF Active
  <1>4. s[1].next \in DOMAIN Dependencies[s[1].asset]
    BY <1>3 DEF RunDependency, HasDependencyLeft
  <1>5. PICK d \in Assets : d = Dependencies[s[1].asset][s[1].next]
    BY <1>3, <1>4
  <1>6. PICK f \in Frame : f = Enter(d) /\ f.asset = d /\ FrameInv(q, f)'
    BY EnterIs
  <1>7. PICK t \in Seq(Frame) :
           /\ t = <<f>> \o s /\ t # <<>> /\ Len(t) = Len(s) + 1 /\ t[1] = f
           /\ \A k \in 1..Len(s) : t[k + 1] = s[k]
    <2> DEFINE u == <<f>> \o s
    <2>1. /\ u \in Seq(Frame) /\ u # <<>> /\ Len(u) = Len(s) + 1 /\ u[1] = f
          /\ \A k \in 1..Len(s) : u[k + 1] = s[k]
      BY Pushed
    <2>2. u = <<f>> \o s
      OBVIOUS
    <2> HIDE DEF u
    <2> QED
      BY <2>1, <2>2
  <1>8. /\ UNCHANGED <<runs, audit, before>> /\ req' = [req EXCEPT ![q].stack = t]
    <2>1. Dependency(q) = d
      BY <1>3, <1>5 DEF Dependency
    <2> QED
      BY <1>1, <1>2, <1>6, <1>7, <2>1 DEF RunDependency, TypeOK
  <1>9. PICK r \in Request : /\ r = [req[q] EXCEPT !.stack = t] /\ r.pc = "run" /\ r.stack = t
    <2>1. /\ [req[q] EXCEPT !.stack = t] \in Request
          /\ [req[q] EXCEPT !.stack = t].pc = "run" /\ [req[q] EXCEPT !.stack = t].stack = t
      BY <1>1 DEF Request
    <2> QED
      BY <2>1, Zenon
  <1>10. req' = [req EXCEPT ![q] = r]
    BY <1>1, <1>8, <1>9 DEF TypeOK
  <1>11. /\ runs' \in [Requests -> Seq(AssetRun)] /\ before' \in [Requests -> SUBSET Requests]
         /\ audit' \subseteq Requests
    BY <1>1, <1>8 DEF TypeOK
  <1>12. TypeOK' /\ req'[q] = r /\ \A o \in Requests : o # q => req'[o] = req[o]
    BY <1>1, <1>10, <1>11, ReqTyped
  <1>13. Kept
    BY <1>1, <1>8 DEF Kept, TypeOK
  <1>14. \A k \in 1..Len(t) : k = 1 \/ (k - 1 \in 1..Len(s) /\ t[k] = s[k - 1])
    <2> SUFFICES ASSUME NEW k \in 1..Len(t), k # 1
                 PROVE  k - 1 \in 1..Len(s) /\ t[k] = s[k - 1]
      OBVIOUS
    <2>1. k - 1 \in 1..Len(s) /\ (k - 1) + 1 = k
      BY <1>3, <1>7
    <2> QED
      BY <1>7, <2>1
  <1>15. StackInv(q)'
    <2>1. \A k \in 1..Len(s) : FrameInv(q, s[k])
      BY <1>1, <1>2 DEF StackInv, Active
    <2>2. \A k \in 1..Len(s) : FrameInv(q, s[k])'
      BY <1>12, <1>13, <2>1, FrameKept
    <2>3. \A k \in 1..Len(t) : FrameInv(q, t[k])'
      BY <1>6, <1>7, <1>14, <2>2
    <2>4. t[Len(t)].asset = Asset[q]
      <3>1. s[Len(s)].asset = Asset[q]
        BY <1>1, <1>2 DEF StackInv, Active
      <3>2. t[Len(s) + 1] = s[Len(s)]
        BY <1>3, <1>7
      <3> QED
        BY <1>7, <3>1, <3>2
    <2>5. ASSUME NEW k \in 1..Len(t) - 1
          PROVE  /\ t[k + 1].next \in DOMAIN Dependencies[t[k + 1].asset]
                 /\ Dependencies[t[k + 1].asset][t[k + 1].next] = t[k].asset
      <3>1. k \in 1..Len(s) /\ t[k + 1] = s[k]
        <4>1. Len(s) \in Nat /\ Len(t) = Len(s) + 1
          BY <1>3, <1>7
        <4>2. k \in 1..Len(s)
          BY <4>1
        <4> QED
          BY <1>7, <4>2
      <3>2. CASE k = 1
        <4>1. t[1] = t[k]
          BY <3>2
        <4> QED
          BY <1>4, <1>5, <1>6, <1>7, <3>1, <3>2, <4>1
      <3>3. CASE k # 1
        <4>1. k - 1 \in 1..Len(s) - 1 /\ (k - 1) + 1 = k /\ t[k] = s[k - 1]
          BY <1>3, <1>7, <1>14, <3>1, <3>3
        <4>2. \A i \in 1..Len(s) - 1 :
                 /\ s[i + 1].next \in DOMAIN Dependencies[s[i + 1].asset]
                 /\ Dependencies[s[i + 1].asset][s[i + 1].next] = s[i].asset
          BY <1>1, <1>2 DEF StackInv, Active
        <4>3. /\ s[k].next \in DOMAIN Dependencies[s[k].asset]
              /\ Dependencies[s[k].asset][s[k].next] = s[k - 1].asset
          BY <4>1, <4>2
        <4> QED
          BY <3>1, <4>1, <4>3
      <3> QED
        BY <3>2, <3>3
    <2>6. req'[q].stack = t
      BY <1>9, <1>12
    <2> QED
      BY <1>7, <2>3, <2>4, <2>5, <2>6 DEF StackInv
  <1>16. PlaceInv(q)'
    BY <1>9, <1>12 DEF PlaceInv
  <1>17. TwinInv(q)'
    <2>1. ASSUME NEW p \in before[q], Twins(p, q), NEW k \in 1..Len(t) PROVE Met(p, t[k].asset)'
      <3>1. p \in Requests /\ \A i \in 1..Len(s) : Met(p, s[i].asset)
        BY <1>1, <1>2, <2>1, Typed DEF TwinInv, Active
      <3>2. Met(p, d)
        <4>1. Met(p, s[1].asset)
          BY <1>3, <3>1
        <4> QED
          BY <1>4, <1>5, <3>1, <4>1, MetDependency
      <3>3. Met(p, t[k].asset)
        <4>1. CASE k = 1
          BY <1>6, <1>7, <3>2, <4>1
        <4>2. CASE k # 1
          BY <1>14, <3>1, <4>2
        <4> QED
          BY <4>1, <4>2
      <3> QED
        BY <1>12, <1>13, <3>1, <3>3, MetKept
    <2>2. \A p \in before[q] : req'[p].pc = "ok"
      <3>1. before[q] \subseteq Requests /\ \A p \in before[q] : req[p].pc = "ok"
        BY <1>1, Typed DEF TwinInv
      <3>2. \A p \in before[q] : p # q /\ p \in Requests
        BY <1>1, <3>1
      <3>3. \A p \in before[q] : req'[p] = req[p]
        BY <1>12, <3>2
      <3> QED
        BY <3>1, <3>3
    <2>3. \A p : Twins(p, q)' = Twins(p, q)
      BY DEF Twins
    <2>4. req'[q].stack = t /\ req'[q].pc = "run" /\ before'[q] = before[q]
      BY <1>8, <1>9, <1>12
    <2> QED
      BY <2>1, <2>2, <2>3, <2>4 DEF TwinInv
  <1>18. ASSUME NEW n \in Ids(q)' PROVE RowInv(q, n)'
    <2>1. n \in Ids(q) /\ runs'[q][n] = runs[q][n] /\ before'[q] = before[q]
      BY <1>8, <1>18 DEF Ids
    <2>2. runs[q][n].status # "running"
      BY <1>1, <2>1 DEF IInv, RowInv, RowPlace
    <2> QED
      BY <1>12, <1>13, <1>18, <2>1, <2>2, RowKept
  <1>19. \A o \in Requests : o # q => runs'[o] = runs[o] /\ before'[o] = before[o]
    BY <1>8
  <1> QED
    BY <1>1, <1>12, <1>13, <1>15, <1>16, <1>17, <1>18, <1>19, StepOf

\* A row is added.
LEMMA Appended ==
    ASSUME TypeOK, NEW q \in Requests, NEW row \in AssetRun,
           runs' = [runs EXCEPT ![q] = Append(@, row)]
    PROVE  /\ runs' \in [Requests -> Seq(AssetRun)] /\ Kept
           /\ Len(runs[q]) \in Nat /\ Len(runs'[q]) = Len(runs[q]) + 1
           /\ runs'[q][Len(runs[q]) + 1] = row
           /\ \A n \in Ids(q) : runs'[q][n] = runs[q][n]
           /\ \A n \in Ids(q)' : n \in Ids(q) \/ n = Len(runs[q]) + 1
           /\ \A p \in Requests : p # q => runs'[p] = runs[p]
  <1>1. runs[q] \in Seq(AssetRun) /\ runs \in [Requests -> Seq(AssetRun)]
    BY DEF TypeOK
  <1>2. PICK s \in Seq(AssetRun) : s = runs[q]
    BY <1>1
  <1>3. /\ Append(s, row) \in Seq(AssetRun) /\ Len(s) \in Nat
        /\ Len(Append(s, row)) = Len(s) + 1 /\ Append(s, row)[Len(s) + 1] = row
        /\ \A n \in 1..Len(s) : Append(s, row)[n] = s[n]
    OBVIOUS
  <1>4. runs'[q] = Append(s, row) /\ \A p \in Requests : p # q => runs'[p] = runs[p]
    BY <1>1, <1>2
  <1>5. runs' \in [Requests -> Seq(AssetRun)]
    BY <1>1, <1>2, <1>3
  <1>6. \A n \in Ids(q) : runs'[q][n] = runs[q][n]
    BY <1>2, <1>3, <1>4 DEF Ids
  <1>7. Kept
    <2> SUFFICES ASSUME NEW p \in Requests
                 PROVE  /\ Len(runs[p]) <= Len(runs'[p])
                        /\ \A n \in Ids(p) : runs'[p][n] = runs[p][n]
      BY DEF Kept
    <2>1. CASE p = q
      <3>1. Len(runs[q]) <= Len(runs'[q])
        BY <1>2, <1>3, <1>4
      <3> QED
        BY <1>6, <2>1, <3>1
    <2>2. CASE p # q
      <3>1. Len(runs[p]) \in Nat /\ runs'[p] = runs[p]
        BY <1>1, <1>4, <2>2
      <3>2. Len(runs[p]) <= Len(runs'[p])
        <4>1. PICK k \in Nat : k = Len(runs[p])
          BY <3>1
        <4>2. Len(runs'[p]) = k
          BY <3>1, <4>1
        <4> QED
          BY <4>1, <4>2
      <3> QED
        BY <3>1, <3>2
    <2> QED
      BY <2>1, <2>2
  <1> QED
    BY <1>2, <1>3, <1>4, <1>5, <1>6, <1>7 DEF Ids

\* The last row, which is running, is replaced.
LEMMA Replaced ==
    ASSUME TypeOK, NEW q \in Requests, NEW row \in AssetRun, Len(runs[q]) > 0,
           runs[q][Len(runs[q])].status = "running", row.hash = runs[q][Len(runs[q])].hash,
           runs' = [runs EXCEPT ![q][Len(runs[q])] = row]
    PROVE  /\ runs' \in [Requests -> Seq(AssetRun)] /\ Kept
           /\ Len(runs[q]) \in Ids(q) /\ Len(runs'[q]) = Len(runs[q]) /\ Ids(q)' = Ids(q)
           /\ runs'[q][Len(runs[q])] = row
           /\ \A n \in Ids(q) : n # Len(runs[q]) => runs'[q][n] = runs[q][n]
           /\ \A p \in Requests : p # q => runs'[p] = runs[p]
  <1>1. runs \in [Requests -> Seq(AssetRun)]
    BY DEF TypeOK
  <1>2. PICK s \in Seq(AssetRun) : s = runs[q]
    BY <1>1
  <1>3. PICK t \in Seq(AssetRun) :
           /\ t = [s EXCEPT ![Len(s)] = row] /\ Len(t) = Len(s) /\ t[Len(s)] = row
           /\ \A n \in 1..Len(s) : n # Len(s) => t[n] = s[n]
    <2> DEFINE u == [s EXCEPT ![Len(s)] = row]
    <2>1. Len(s) \in 1..Len(s)
      BY <1>2
    <2>2. /\ u \in Seq(AssetRun) /\ Len(u) = Len(s) /\ u[Len(s)] = row
          /\ \A n \in 1..Len(s) : n # Len(s) => u[n] = s[n]
      BY <2>1
    <2>3. u = [s EXCEPT ![Len(s)] = row]
      OBVIOUS
    <2> HIDE DEF u
    <2> QED
      BY <2>2, <2>3
  <1>4. runs' = [runs EXCEPT ![q] = t]
    BY <1>1, <1>2, <1>3
  <1>5. runs'[q] = t /\ \A p \in Requests : p # q => runs'[p] = runs[p]
    BY <1>1, <1>4
  <1>6. runs' \in [Requests -> Seq(AssetRun)]
    BY <1>1, <1>4
  <1>7. \A n \in Ids(q) : n # Len(runs[q]) => runs'[q][n] = runs[q][n]
    BY <1>2, <1>3, <1>5 DEF Ids
  <1>8. Len(runs[q]) \in Ids(q) /\ Ids(q)' = Ids(q) /\ Len(runs'[q]) = Len(runs[q])
        /\ runs'[q][Len(runs[q])] = row
    BY <1>2, <1>3, <1>5 DEF Ids
  <1>9. Kept
    <2> SUFFICES ASSUME NEW p \in Requests
                 PROVE  /\ Len(runs[p]) <= Len(runs'[p])
                        /\ \A n \in Ids(p) :
                               /\ runs'[p][n].hash = runs[p][n].hash
                               /\ runs[p][n].status # "running" => runs'[p][n] = runs[p][n]
      BY DEF Kept
    <2>1. CASE p = q
      BY <1>2, <1>7, <1>8, <2>1
    <2>2. CASE p # q
      <3>1. Len(runs[p]) \in Nat /\ runs'[p] = runs[p]
        BY <1>1, <1>5, <2>2
      <3> QED
        BY <3>1
    <2> QED
      BY <2>1, <2>2
  <1> QED
    BY <1>5, <1>6, <1>7, <1>8, <1>9

\* A new row covers dependencies that were run before it.
LEMMA NewRow ==
    ASSUME IInv, TypeOK', Kept, NEW q \in Requests, req[q].pc \in {"skip", "attempt"},
           NEW n, n = Len(runs[q]) + 1, runs'[q][n].hash = _change_hash(q)
    PROVE  RowHash(q, n)' /\ RowDependencies(q, n)'
  <1>1. PlaceInv(q)
    BY DEF IInv
  <1>2. PICK f : f = Current(q)
    OBVIOUS
  <1>3. /\ f.asset \in Assets /\ f.next \in Nat /\ Dependencies[f.asset] \in Seq(Assets)
        /\ Len(Dependencies[f.asset]) \in Nat
        /\ FrameInv(q, f)
    BY <1>2, CurrentIs DEF Active
  <1>4. f.next = Len(Dependencies[f.asset]) + 1
    <2>1. f.next > Len(Dependencies[f.asset]) /\ f.next <= Len(Dependencies[f.asset]) + 1
      BY <1>1, <1>2, <1>3 DEF PlaceInv, HasDependencyLeft, FrameInv
    <2> QED
      BY <1>3, <2>1
  <1>5. PICK h : h = _change_hash(q)
    OBVIOUS
  <1>6. h.asset = f.asset /\ h.watermark = Watermark[q] /\ h.dependencies = f.dependencies
    BY <1>2, <1>5 DEF _change_hash
  <1>7. runs'[q][n].hash = h
    BY <1>5
  <1>8. \A j \in DOMAIN Dependencies[h.asset] :
            RanBefore(q, n, h.dependencies, Dependencies[h.asset][j])'
    <2> SUFFICES ASSUME NEW j \in DOMAIN Dependencies[h.asset]
                 PROVE  RanBefore(q, n, h.dependencies, Dependencies[h.asset][j])'
      OBVIOUS
    <2>1. j < f.next
      BY <1>3, <1>4, <1>6
    <2>2. Ran(q, f.dependencies, Dependencies[f.asset][j])
      BY <1>3, <1>6, <2>1 DEF FrameInv
    <2>3. RanBefore(q, n, h.dependencies, Dependencies[h.asset][j])
      BY <1>6, <2>2 DEF Ran
    <2> QED
      BY <2>3, RanBeforeKept
  <1>9. RowDependencies(q, n)'
    BY <1>7, <1>8 DEF RowDependencies
  <1>10. Holds(h.dependencies, h.asset, Len(Dependencies[h.asset]) + 1)
    BY <1>3, <1>4, <1>6 DEF FrameInv
  <1>11. RowHash(q, n)'
    BY <1>6, <1>7, <1>10, ZenonT(60) DEF RowHash, Holds, Returned
  <1> QED
    BY <1>9, <1>11

\* A place in the code is not in a row: the twins a request began after are
\* answered and do nothing.
LEMMA TwinsAnswered ==
    ASSUME IInv, NEW q \in Requests, req[q].pc # "ok",
           \A o \in Requests : o # q => req'[o] = req[o]
    PROVE  \A p \in before[q] : p \in Requests /\ p # q /\ req[p].pc = "ok" /\ req'[p].pc = "ok"
  <1>1. before[q] \subseteq Requests /\ \A p \in before[q] : req[p].pc = "ok"
    BY Typed DEF IInv, TwinInv
  <1>2. \A p \in before[q] : p \in Requests /\ p # q
    BY <1>1
  <1>3. \A p \in before[q] : req'[p] = req[p]
    BY <1>2
  <1> QED
    BY <1>1, <1>2, <1>3

\* An attempt begins, with a row of its own.
LEMMA StartAttemptStep == ASSUME IInv, NEW q \in Requests, StartAttempt(q) PROVE IInv'
  <1>1. TypeOK /\ req[q] \in Request /\ req[q].pc = "attempt" /\ PlaceInv(q) /\ TwinInv(q)
    BY Typed DEF IInv, StartAttempt
  <1>2. PICK k \in Nat : k = req[q].attempt
    BY <1>1, Typed
  <1>3. PICK h \in ChangeHash : h = _change_hash(q)
    BY <1>1, CurrentIs DEF Active
  <1>4. PICK row \in AssetRun :
           /\ runs' = [runs EXCEPT ![q] = Append(@, row)] /\ row.hash = h
           /\ row.status = "running" /\ row.attempt_number = k
    <2> DEFINE x == [hash |-> h, status |-> "running", attempt_number |-> k, ended_at |-> 0,
                     metadata |-> None, prior_run_id |-> None]
    <2>1. x \in AssetRun /\ x.hash = h /\ x.status = "running" /\ x.attempt_number = k
      BY DEF AssetRun
    <2>2. runs' = [runs EXCEPT ![q] = Append(@, x)]
      BY <1>2, <1>3 DEF StartAttempt
    <2> HIDE DEF x
    <2> QED
      BY <2>1, <2>2
  <1>5. PICK n \in Nat : n = Len(runs[q]) + 1
    <2>1. Len(runs[q]) \in Nat
      BY <1>1, Typed
    <2> QED
      BY <2>1
  <1>6. /\ runs' \in [Requests -> Seq(AssetRun)] /\ Kept /\ Len(runs'[q]) = n /\ runs'[q][n] = row
        /\ \A m \in Ids(q) : runs'[q][m] = runs[q][m]
        /\ \A m \in Ids(q)' : m \in Ids(q) \/ m = n
        /\ \A p \in Requests : p # q => runs'[p] = runs[p]
    BY <1>1, <1>4, <1>5, Appended, ZenonT(60)
  <1>7. PICK r \in Request :
           req' = [req EXCEPT ![q] = r] /\ r.pc = "compute" /\ r.stack = req[q].stack /\ r.attempt = k
    <2> DEFINE x == [req[q] EXCEPT !.pc = "compute"]
    <2>1. x \in Request /\ x.pc = "compute" /\ x.stack = req[q].stack /\ x.attempt = k
      BY <1>1, <1>2 DEF Request
    <2>2. req' = [req EXCEPT ![q] = x]
      BY <1>1 DEF StartAttempt, TypeOK
    <2> HIDE DEF x
    <2> QED
      BY <2>1, <2>2
  <1>8. before' = before /\ before' \in [Requests -> SUBSET Requests] /\ audit' \subseteq Requests
    BY <1>1 DEF StartAttempt, TypeOK
  <1>9. TypeOK' /\ req'[q] = r /\ \A o \in Requests : o # q => req'[o] = req[o]
    BY <1>1, <1>6, <1>7, <1>8, ReqTyped
  <1>10. StackInv(q)'
    BY <1>1, <1>6, <1>7, <1>9, StackKept DEF Active
  <1>11. /\ HasDependencyLeft(q)' = HasDependencyLeft(q) /\ Current(q)' = Current(q)
         /\ _change_hash(q)' = h
    BY <1>3, <1>7, <1>9 DEF HasDependencyLeft, Current, _change_hash
  <1>12. ~HasDependencyLeft(q) /\ k >= 1 /\ k <= MaxAttempts[Current(q).asset]
    BY <1>1, <1>2 DEF PlaceInv
  <1>13. PlaceInv(q)'
    <2>1. LastIs(q, "running", req[q].attempt)'
      BY <1>4, <1>5, <1>6, <1>7, <1>9, <1>11, Typed DEF LastIs
    <2> QED
      BY <1>7, <1>9, <1>11, <1>12, <2>1 DEF PlaceInv
  <1>14. TwinInv(q)'
    <2>1. \A p \in before[q] : req[p].pc = "ok" => req'[p].pc = "ok"
      BY <1>1, <1>9, TwinsAnswered
    <2>2. req'[q].stack = req[q].stack /\ before'[q] = before[q]
      BY <1>7, <1>8, <1>9
    <2> QED
      BY <1>1, <1>6, <1>9, <2>1, <2>2, TwinKept DEF Active
  <1>15. ASSUME NEW m \in Ids(q) PROVE RowInv(q, m)'
    <2>1. runs[q][m].status # "running"
      BY <1>1, <1>15 DEF IInv, RowInv, RowPlace
    <2>2. m \in Ids(q)' /\ runs'[q][m] = runs[q][m]
      BY <1>1, <1>6, <1>9, <1>15, <2>1, EndedKept
    <2>3. before'[q] = before[q]
      BY <1>8
    <2> QED
      BY <1>6, <1>9, <1>15, <2>1, <2>2, <2>3, RowKept
  <1>16. RowInv(q, n)'
    <2>1. RowHash(q, n)' /\ RowDependencies(q, n)'
      BY <1>1, <1>3, <1>4, <1>5, <1>6, <1>9, NewRow
    <2>2. RowClock(q, n)' /\ RowOutput(q, n)' /\ RowSkip(q, n)'
      BY <1>4, <1>6 DEF RowClock, RowOutput, RowSkip
    <2>3. RowPlace(q, n)'
      BY <1>6, <1>7, <1>9 DEF RowPlace
    <2>4. h.asset = Current(q).asset
      BY <1>3 DEF _change_hash
    <2>5. RowAttempt(q, n)'
      <3>1. CASE k > 1
        <4>1. LastIs(q, "failed", k - 1)
          BY <1>1, <1>2, <3>1 DEF PlaceInv
        <4>2. /\ Len(runs[q]) > 0 /\ runs[q][Len(runs[q])].status = "failed"
              /\ runs[q][Len(runs[q])].hash = h
              /\ runs[q][Len(runs[q])].attempt_number = k - 1
          BY <1>3, <4>1 DEF LastIs
        <4>3. Len(runs[q]) \in Ids(q) /\ n - 1 = Len(runs[q]) /\ n > 1
          BY <1>1, <1>5, <4>2, Typed DEF Ids
        <4>4. runs'[q][n - 1] = runs[q][Len(runs[q])]
          BY <1>6, <4>3
        <4> QED
          BY <1>4, <1>6, <1>12, <2>4, <4>2, <4>3, <4>4 DEF RowAttempt
      <3>2. CASE ~(k > 1)
        BY <1>4, <1>6, <1>12, <2>4, <3>2 DEF RowAttempt
      <3> QED
        BY <3>1, <3>2
    <2>6. RowTwin(q, n)'
      <3>1. (/\ q \notin Backfills /\ \A b \in Assets : Repeatable(b)
             /\ \E p \in before[q] : Twins(p, q)) => HasLossyDependency(h.asset)
        BY <1>1, <2>4 DEF TwinInv
      <3> QED
        BY <1>4, <1>6, <1>8, <3>1
        DEF RowTwin, Twins, HasLossyDependency, Repeatable, Lossless
    <2> QED
      BY <2>1, <2>2, <2>3, <2>5, <2>6 DEF RowInv
  <1>17. \A m \in Ids(q)' : RowInv(q, m)'
    BY <1>6, <1>15, <1>16
  <1>18. \A o \in Requests : o # q => req'[o] = req[o] /\ runs'[o] = runs[o] /\ before'[o] = before[o]
    BY <1>6, <1>8, <1>9
  <1> QED
    BY <1>1, <1>6, <1>9, <1>10, <1>13, <1>14, <1>17, <1>18, StepOf

\* A row that ended before the clock of its hash went on.
LEMMA ClockOf ==
    ASSUME NEW q, NEW n, NEW h, NEW t, runs'[q][n].hash = h, runs'[q][n].ended_at = t,
           t < Now(h)'
    PROVE  RowClock(q, n)'
  BY DEF RowClock, Now, Runs, Row

\* The attempt that was computed ends, well or not.
LEMMA LastRowEnds ==
    ASSUME IInv, TypeOK', Kept, NEW q \in Requests, req[q].pc = "compute",
           NEW n \in Ids(q), n = Len(runs[q]), n \in Ids(q)', before'[q] = before[q],
           NEW row \in AssetRun, runs'[q][n] = row, row.hash = runs[q][n].hash,
           row.attempt_number = runs[q][n].attempt_number, row.ended_at = Now(row.hash),
           row.status \in {"succeeded", "failed"},
           row.status = "succeeded" => \E o \in Compute[row.hash.asset] : row.metadata = Safe[o]
    PROVE  RowInv(q, n)'
  <1>1. TypeOK /\ RowInv(q, n) /\ PlaceInv(q) /\ n \in Nat
    BY Typed DEF IInv
  <1>2. runs[q][n].status = "running"
    BY <1>1 DEF PlaceInv, LastIs
  <1>3. PICK h : h = row.hash
    OBVIOUS
  <1>4. runs'[q][n].hash = h /\ runs[q][n].hash = h
    BY <1>3
  <1>5. RowHash(q, n)'
    BY <1>1, <1>4 DEF RowInv, RowHash, Holds, Returned
  <1>6. RowDependencies(q, n)'
    <2>1. \A j \in DOMAIN Dependencies[h.asset] :
              RanBefore(q, n, h.dependencies, Dependencies[h.asset][j])
      BY <1>1, <1>4 DEF RowInv, RowDependencies
    <2>2. \A j \in DOMAIN Dependencies[h.asset] :
              RanBefore(q, n, h.dependencies, Dependencies[h.asset][j])'
      BY <2>1, RanBeforeKept
    <2> QED
      BY <1>4, <2>2 DEF RowDependencies
  <1>7. RowClock(q, n)'
    <2>1. Now(h) < Now(h)'
      BY <1>1, <1>2, <1>4, ClockKept
    <2>2. row.ended_at < Now(h)'
      BY <1>3, <2>1
    <2> QED
      BY <1>4, <2>2, ClockOf
  <1>8. RowPlace(q, n)' /\ RowSkip(q, n)'
    BY DEF RowPlace, RowSkip
  <1>9. RowOutput(q, n)'
    BY DEF RowOutput
  <1>10. RowAttempt(q, n)'
    <2>1. CASE row.attempt_number > 1
      <3>1. n > 1 /\ runs[q][n - 1].status = "failed"
        BY <1>1, <2>1 DEF RowInv, RowAttempt
      <3>2. n - 1 \in Ids(q)
        BY <1>1, <3>1 DEF Ids
      <3>3. runs'[q][n - 1] = runs[q][n - 1]
        BY <1>1, <3>1, <3>2, EndedKept, ZenonT(60)
      <3> QED
        BY <1>1, <1>4, <3>3 DEF RowInv, RowAttempt
    <2>2. CASE ~(row.attempt_number > 1)
      BY <1>1, <1>4, <2>2 DEF RowInv, RowAttempt
    <2> QED
      BY <2>1, <2>2
  <1>11. RowTwin(q, n)'
    BY <1>1, <1>2, <1>4 DEF RowInv, RowTwin, Twins, HasLossyDependency, Repeatable, Lossless
  <1> QED
    BY <1>5, <1>6, <1>7, <1>8, <1>9, <1>10, <1>11 DEF RowInv

\* The attempt fails, and its row says so before anything else happens.
LEMMA AttemptFailsStep == ASSUME IInv, NEW q \in Requests, AttemptFails(q) PROVE IInv'
  <1>1. TypeOK /\ req[q] \in Request /\ req[q].pc = "compute" /\ PlaceInv(q)
    BY Typed DEF IInv, AttemptFails
  <1>2. PICK k \in Nat : k = req[q].attempt
    BY <1>1, Typed
  <1>3. PICK h \in ChangeHash : h = _change_hash(q)
    BY <1>1, CurrentIs DEF Active
  <1>4. PICK n \in Nat : n = Len(runs[q])
    BY <1>1, Typed
  <1>5. /\ n > 0 /\ n \in Ids(q) /\ runs[q][n] \in AssetRun
        /\ runs[q][n].status = "running" /\ runs[q][n].hash = h
        /\ runs[q][n].attempt_number = k
    <2>1. LastIs(q, "running", k)
      BY <1>1, <1>2 DEF PlaceInv
    <2>2. n > 0 /\ n \in Ids(q)
      BY <1>4, <2>1 DEF LastIs, Ids
    <2> QED
      BY <1>1, <1>3, <1>4, <2>1, <2>2, Typed DEF LastIs
  <1>6. Now(h) \in Nat
    BY <1>1, NowTyped
  <1>7. PICK row \in AssetRun :
           /\ runs' = [runs EXCEPT ![q][Len(runs[q])] = row] /\ row.hash = h /\ row.status = "failed"
           /\ row.attempt_number = k /\ row.ended_at = Now(h)
    <2> DEFINE x == [runs[q][n] EXCEPT !.status = "failed", !.ended_at = Now(h)]
    <2>1. /\ x \in AssetRun /\ x.hash = h /\ x.status = "failed" /\ x.attempt_number = k
          /\ x.ended_at = Now(h)
      BY <1>5, <1>6 DEF AssetRun
    <2>2. runs' = [runs EXCEPT ![q][Len(runs[q])] = x]
      BY <1>1, <1>3, <1>4 DEF AttemptFails, LastRun, TypeOK
    <2> HIDE DEF x
    <2> QED
      BY <2>1, <2>2
  <1>8. /\ runs' \in [Requests -> Seq(AssetRun)] /\ Kept /\ Len(runs'[q]) = n /\ runs'[q][n] = row
        /\ Ids(q)' = Ids(q) /\ \A m \in Ids(q) : m # n => runs'[q][m] = runs[q][m]
        /\ \A p \in Requests : p # q => runs'[p] = runs[p]
    <2>1. /\ Len(runs[q]) > 0 /\ runs[q][Len(runs[q])].status = "running"
          /\ row.hash = runs[q][Len(runs[q])].hash
      BY <1>4, <1>5, <1>7
    <2>2. runs' = [runs EXCEPT ![q][Len(runs[q])] = row]
      BY <1>7
    <2> QED
      BY <1>1, <1>4, <2>1, <2>2, Replaced, ZenonT(60)
  <1>9. PICK r \in Request :
           req' = [req EXCEPT ![q] = r] /\ r.pc = "hooks" /\ r.stack = req[q].stack /\ r.attempt = k
    <2> DEFINE x == [req[q] EXCEPT !.pc = "hooks"]
    <2>1. x \in Request /\ x.pc = "hooks" /\ x.stack = req[q].stack /\ x.attempt = k
      BY <1>1, <1>2 DEF Request
    <2>2. req' = [req EXCEPT ![q] = x]
      BY <1>1 DEF AttemptFails, TypeOK
    <2> HIDE DEF x
    <2> QED
      BY <2>1, <2>2
  <1>10. before' = before /\ before' \in [Requests -> SUBSET Requests] /\ audit' \subseteq Requests
    BY <1>1 DEF AttemptFails, TypeOK
  <1>11. TypeOK' /\ req'[q] = r /\ \A o \in Requests : o # q => req'[o] = req[o]
    BY <1>1, <1>8, <1>9, <1>10, ReqTyped
  <1>12. StackInv(q)'
    BY <1>1, <1>8, <1>9, <1>11, StackKept DEF Active
  <1>13. /\ HasDependencyLeft(q)' = HasDependencyLeft(q) /\ Current(q)' = Current(q)
         /\ _change_hash(q)' = h
    BY <1>3, <1>9, <1>11 DEF HasDependencyLeft, Current, _change_hash
  <1>14. PlaceInv(q)'
    <2>1. LastIs(q, "failed", req[q].attempt)'
      BY <1>5, <1>7, <1>8, <1>9, <1>11, <1>13 DEF LastIs
    <2>2. ~HasDependencyLeft(q) /\ k >= 1 /\ k <= MaxAttempts[Current(q).asset]
      BY <1>1, <1>2 DEF PlaceInv
    <2> QED
      BY <1>9, <1>11, <1>13, <2>1, <2>2 DEF PlaceInv
  <1>15. TwinInv(q)'
    <2>1. \A p \in before[q] : req[p].pc = "ok" => req'[p].pc = "ok"
      BY <1>1, <1>11, TwinsAnswered
    <2>2. req'[q].stack = req[q].stack /\ before'[q] = before[q]
      BY <1>9, <1>10, <1>11
    <2> QED
      BY <1>1, <1>8, <1>11, <2>1, <2>2, TwinKept DEF Active
  <1>16. before'[q] = before[q]
    BY <1>10
  <1>17. ASSUME NEW m \in Ids(q), m # n PROVE RowInv(q, m)'
    <2>1. runs[q][m].status # "running"
      BY <1>4, <1>17 DEF IInv, RowInv, RowPlace
    <2>2. m \in Ids(q)' /\ runs'[q][m] = runs[q][m]
      BY <1>8, <1>17
    <2> QED
      BY <1>8, <1>11, <1>16, <1>17, <2>1, <2>2, RowKept
  <1>18. RowInv(q, n)'
    <2>1. n \in Ids(q)' /\ row.hash = runs[q][n].hash /\ row.ended_at = Now(row.hash)
          /\ row.attempt_number = runs[q][n].attempt_number
      BY <1>5, <1>7, <1>8
    <2>2. row.status \in {"succeeded", "failed"} /\ row.status # "succeeded"
      BY <1>7
    <2> QED
      BY <1>1, <1>4, <1>5, <1>8, <1>11, <1>16, <2>1, <2>2, LastRowEnds
  <1>19. \A m \in Ids(q)' : RowInv(q, m)'
    BY <1>8, <1>17, <1>18
  <1>20. \A o \in Requests : o # q => req'[o] = req[o] /\ runs'[o] = runs[o] /\ before'[o] = before[o]
    BY <1>8, <1>10, <1>11
  <1> QED
    BY <1>1, <1>8, <1>11, <1>12, <1>14, <1>15, <1>19, <1>20, StepOf

\* A stack has one frame or more.
LEMMA OneOrMore == \A k \in Nat : /\ k > 1 => k # 1
                                  /\ k >= 1 => k = 1 \/ k > 1
  OBVIOUS

\* The top frame is left and the one below it replaced.
LEMMA Popped ==
    ASSUME NEW s \in Seq(Frame), s # <<>>
    PROVE  /\ Tail(s) = <<>> <=> Len(s) = 1
           /\ Len(s) > 1 => Head(Tail(s)) = s[2] /\ s[2] \in Frame
           /\ \A c \in Frame : Len(s) > 1 =>
                  /\ <<c>> \o Tail(Tail(s)) \in Seq(Frame)
                  /\ Len(<<c>> \o Tail(Tail(s))) = Len(s) - 1
                  /\ (<<c>> \o Tail(Tail(s)))[1] = c
                  /\ \A k \in 2..Len(s) - 1 : (<<c>> \o Tail(Tail(s)))[k] = s[k + 1]
  <1>1. PICK t \in Seq(Frame) : t = Tail(s)
    BY HeadTailProperties
  <1>2. /\ Len(t) = Len(s) - 1 /\ Len(s) \in Nat /\ Len(t) \in Nat
        /\ \A k \in 1..Len(t) : t[k] = s[k + 1]
    <2>1. Len(s) \in Nat /\ Len(t) \in Nat
      OBVIOUS
    <2> QED
      BY <1>1, <2>1, HeadTailProperties
  <1>3. t = <<>> <=> Len(t) = 0
    BY EmptySeq
  <1>4. t = <<>> <=> Len(s) = 1
    BY <1>2, <1>3
  <1>5. ASSUME Len(s) > 1 PROVE Head(t) = s[2] /\ s[2] \in Frame
    <2>1. t # <<>> /\ 1 \in 1..Len(t) /\ 1 + 1 = 2 /\ 2 \in 1..Len(s)
      BY <1>2, <1>4, <1>5
    <2>2. t[1] = s[2] /\ s[2] \in Frame
      BY <1>2, <2>1
    <2> QED
      BY <2>1, <2>2
  <1>6. ASSUME NEW c \in Frame, Len(s) > 1
        PROVE  /\ <<c>> \o Tail(t) \in Seq(Frame) /\ Len(<<c>> \o Tail(t)) = Len(s) - 1
               /\ (<<c>> \o Tail(t))[1] = c
               /\ \A k \in 2..Len(s) - 1 : (<<c>> \o Tail(t))[k] = s[k + 1]
    <2>1. t # <<>>
      <3>1. Len(s) # 1
        BY <1>2, <1>6, OneOrMore, Zenon
      <3> QED
        BY <1>4, <3>1
    <2>2. PICK u \in Seq(Frame) : u = Tail(t)
      BY <2>1, HeadTailProperties
    <2>3. Len(u) = Len(t) - 1 /\ Len(u) \in Nat /\ \A k \in 1..Len(u) : u[k] = t[k + 1]
      <3>1. Len(u) \in Nat
        OBVIOUS
      <3> QED
        BY <2>1, <2>2, <3>1, HeadTailProperties
    <2>4. PICK v : v = <<c>> \o u
      OBVIOUS
    <2>5. /\ v \in Seq(Frame) /\ Len(v) = Len(u) + 1 /\ v[1] = c
          /\ \A k \in 1..Len(u) : v[k + 1] = u[k]
      BY <2>4, Pushed
    <2>6. ASSUME NEW k \in 2..Len(s) - 1 PROVE v[k] = s[k + 1]
      <3>1. k - 1 \in 1..Len(u) /\ (k - 1) + 1 = k /\ k \in 1..Len(t)
        BY <1>2, <2>3
      <3>2. v[(k - 1) + 1] = u[k - 1] /\ u[k - 1] = t[(k - 1) + 1] /\ t[k] = s[k + 1]
        BY <1>2, <2>3, <2>5, <3>1
      <3> QED
        BY <3>1, <3>2
    <2>7. Len(v) = Len(s) - 1
      BY <1>2, <2>3, <2>5
    <2> QED
      BY <2>2, <2>4, <2>5, <2>6, <2>7
  <1> QED
    BY <1>1, <1>4, <1>5, <1>6, ZenonT(60)

\* The caller's frame, with the output of the dependency it waited for, has
\* those before its next one.
LEMMA CallerStep ==
    ASSUME IInv, TypeOK', Kept, NEW q \in Requests, NEW g \in Frame, FrameInv(q, g),
           NEW a \in Assets, g.next \in DOMAIN Dependencies[g.asset],
           Dependencies[g.asset][g.next] = a,
           NEW new \in [Assets -> Outputs \cup {None}], new[a] \in Returned(a),
           Ran(q, new, a)', \A d \in Assets : d # a => new[d] = g.dependencies[d],
           NEW c \in Frame, c.asset = g.asset, c.next = g.next + 1, c.dependencies = new
    PROVE  FrameInv(q, c)'
  <1>3. g.asset \in Assets /\ g.next \in Nat \ {0}
    BY DEF Frame
  <1>2. PICK deps \in [Assets -> Outputs \cup {None}] : deps = g.dependencies
    BY DEF Frame
  <1>6. \A d \in Assets : d # a => new[d] = deps[d]
    BY <1>2
  <1>7. Dependencies[g.asset] \in Seq(Assets) /\ Len(Dependencies[g.asset]) \in Nat
    BY <1>3
  <1>8. c.next <= Len(Dependencies[c.asset]) + 1
    BY <1>3, <1>7
  <1>10. ASSUME NEW j \in DOMAIN Dependencies[g.asset], j < g.next + 1
         PROVE  Ran(q, new, Dependencies[g.asset][j])'
    <2>1. PICK d \in Assets : d = Dependencies[g.asset][j]
      BY <1>7
    <2>2. CASE d = a
      BY <2>1, <2>2
    <2>3. CASE d # a
      <3>1. j < g.next
        BY <1>3, <1>7, <1>10, <2>1, <2>3
      <3>2. Ran(q, deps, d)
        BY <1>2, <2>1, <3>1 DEF FrameInv
      <3>3. Ran(q, deps, d)'
        BY <3>2, RanKept
      <3>4. new[d] = deps[d]
        BY <1>6, <2>3
      <3>5. Ran(q, new, d)'
        BY <3>3, <3>4 DEF Ran, RanBefore
      <3> QED
        BY <2>1, <3>5
    <2> QED
      BY <2>2, <2>3
  <1>11. Holds(new, g.asset, g.next + 1)
    <2> SUFFICES ASSUME NEW d \in Assets, new[d] # None
                 PROVE  /\ new[d] \in Returned(d)
                        /\ \E j \in DOMAIN Dependencies[g.asset] :
                               j < g.next + 1 /\ Dependencies[g.asset][j] = d
      BY DEF Holds
    <2>1. CASE d = a
      BY <1>3, <1>6, <2>1
    <2>2. CASE d # a
      <3>1. deps[d] # None /\ new[d] = deps[d]
        BY <1>6, <2>2
      <3>2. /\ deps[d] \in Returned(d)
            /\ \E j \in DOMAIN Dependencies[g.asset] : j < g.next /\ Dependencies[g.asset][j] = d
        BY <1>2, <3>1 DEF FrameInv, Holds
      <3> QED
        BY <1>3, <1>7, <3>1, <3>2
    <2> QED
      BY <2>1, <2>2
  <1>12. Holds(new, g.asset, g.next + 1)'
    BY <1>11 DEF Holds, Returned
  <1> QED
    BY <1>8, <1>10, <1>12 DEF FrameInv

\* A frame returns: its caller goes on, or the request is completed.
LEMMA ReturnStep ==
    ASSUME IInv, Kept, runs' \in [Requests -> Seq(AssetRun)], audit' \subseteq Requests,
           before' = before, NEW q \in Requests, req[q].pc \in {"skip", "compute"},
           NEW output \in Outputs, output \in Returned(Current(q).asset), Return(q, output),
           NEW n \in Ids(q)', runs'[q][n].hash.asset = Current(q).asset,
           runs'[q][n].status \in Done, Safe[output] = Stored(<<q, n>>)'
    PROVE  /\ TypeOK' /\ StackInv(q)' /\ PlaceInv(q)' /\ TwinInv(q)'
           /\ \A o \in Requests : o # q => req'[o] = req[o]
  <1>1. TypeOK /\ StackInv(q) /\ TwinInv(q) /\ before' \in [Requests -> SUBSET Requests]
    BY DEF IInv, TypeOK
  <1>2. PICK s \in Seq(Frame) : s = req[q].stack
    BY <1>1, Typed
  <1>3. PICK a \in Assets : a = Current(q).asset
    BY CurrentIs DEF Active
  <1>4. /\ s # <<>> /\ Len(s) >= 1 /\ Len(s) \in Nat /\ Current(q) = s[1] /\ s[1].asset = a
        /\ s[Len(s)].asset = Asset[q]
        /\ \A k \in 1..Len(s) : FrameInv(q, s[k])
        /\ \A k \in 1..Len(s) - 1 :
               /\ s[k + 1].next \in DOMAIN Dependencies[s[k + 1].asset]
               /\ Dependencies[s[k + 1].asset][s[k + 1].next] = s[k].asset
    <2>1. Len(s) >= 1 /\ Current(q) = s[1]
      BY <1>2, CurrentIs DEF Active
    <2>2. Len(s) \in Nat /\ s[1].asset = a
      BY <1>3, <2>1
    <2>3. req[q].pc \in Active
      BY DEF Active
    <2> QED
      BY <1>1, <1>2, <2>1, <2>2, <2>3 DEF StackInv
  <1>5. \A p \in before[q] : p \in Requests /\ req'[p].pc = "ok" /\ p # q
    <2>1. before[q] \subseteq Requests /\ \A p \in before[q] : req[p].pc = "ok"
      BY <1>1, Typed DEF TwinInv
    <2>2. \A o \in Requests : o # q => req'[o] = req[o]
      BY <1>1 DEF Return, TypeOK
    <2>3. \A p \in before[q] : p \in Requests /\ p # q
      BY <2>1
    <2> QED
      BY <2>2, <2>3, TwinsAnswered
  <1>6. \A p : Twins(p, q)' = Twins(p, q)
    BY DEF Twins
  <1>7. CASE Len(s) = 1
    <2>1. PICK r \in Request : r = [pc |-> "completed", stack |-> <<>>, attempt |-> 0, prior |-> None]
      <3>1. <<>> \in Seq(Frame)
        OBVIOUS
      <3>2. [pc |-> "completed", stack |-> <<>>, attempt |-> 0, prior |-> None] \in Request
        BY <3>1 DEF Request
      <3> QED
        BY <3>2
    <2>2. req' = [req EXCEPT ![q] = r]
      <3>1. Tail(req[q].stack) = <<>>
        BY <1>2, <1>4, <1>7, Popped
      <3> QED
        BY <2>1, <3>1 DEF Return
    <2>3. r.pc = "completed"
      BY <2>1
    <2>4. TypeOK' /\ req'[q] = r /\ \A o \in Requests : o # q => req'[o] = req[o]
      BY <1>1, <2>2, ReqTyped
    <2>5. a = Asset[q]
      BY <1>4, <1>7
    <2>6. Met(q, Asset[q])'
      BY <1>3, <2>5 DEF Met
    <2>7. StackInv(q)' /\ PlaceInv(q)'
      BY <2>3, <2>4, <2>6 DEF StackInv, PlaceInv, Active
    <2>8. TwinInv(q)'
      BY <1>5, <2>3, <2>4 DEF TwinInv, Active
    <2> QED
      BY <2>4, <2>7, <2>8
  <1>8. CASE Len(s) > 1
    <2>0. /\ s[2] \in Frame /\ Tail(s) # <<>> /\ Head(Tail(s)) = s[2]
          /\ \A c \in Frame :
                 /\ <<c>> \o Tail(Tail(s)) \in Seq(Frame)
                 /\ Len(<<c>> \o Tail(Tail(s))) = Len(s) - 1
                 /\ (<<c>> \o Tail(Tail(s)))[1] = c
                 /\ \A k \in 2..Len(s) - 1 : (<<c>> \o Tail(Tail(s)))[k] = s[k + 1]
      <3>1. Len(s) # 1
        BY <1>4, <1>8, OneOrMore, Zenon
      <3>2. s # <<>>
        BY <1>4
      <3> QED
        BY <1>8, <3>1, <3>2, Popped, Zenon
    <2>1. PICK g \in Frame : g = s[2]
      BY <2>0
    <2>2. /\ g.next \in DOMAIN Dependencies[g.asset] /\ Dependencies[g.asset][g.next] = a
          /\ FrameInv(q, g)
      <3>1. 1 \in 1..Len(s) - 1 /\ 1 + 1 = 2 /\ 2 \in 1..Len(s)
        BY <1>4, <1>8
      <3> QED
        BY <1>4, <2>1, <3>1
    <2>3. PICK deps, new \in [Assets -> Outputs \cup {None}] :
              deps = g.dependencies /\ new = [deps EXCEPT ![a] = output]
      <3>1. g.dependencies \in [Assets -> Outputs \cup {None}]
        BY DEF Frame
      <3>2. [g.dependencies EXCEPT ![a] = output] \in [Assets -> Outputs \cup {None}]
        BY <3>1
      <3> QED
        BY <3>1, <3>2
    <2>31. g.asset \in Assets /\ g.next + 1 \in Nat \ {0}
      BY DEF Frame
    <2>32. PICK c \in Frame :
              /\ c = [asset |-> g.asset, next |-> g.next + 1, dependencies |-> new]
              /\ c.asset = g.asset /\ c.next = g.next + 1 /\ c.dependencies = new
      <3>1. PICK next \in Nat \ {0} : next = g.next + 1
        BY <2>31
      <3>2. g.asset \in Assets /\ new \in [Assets -> Outputs \cup {None}]
        BY <2>31
      <3>3. \E c \in Frame :
              /\ c = [asset |-> g.asset, next |-> next, dependencies |-> new]
              /\ c.asset = g.asset /\ c.next = next /\ c.dependencies = new
        <4>1. PICK c \in Frame : c = [asset |-> g.asset, next |-> next, dependencies |-> new]
          BY <3>2 DEF Frame
        <4>2. c.asset = g.asset /\ c.next = next /\ c.dependencies = new
          BY <4>1
        <4> QED
          BY <4>1, <4>2, Zenon
      <3> QED
        BY <3>1, <3>3, Zenon
    <2>4. PICK t : t = <<c>> \o Tail(Tail(s))
      OBVIOUS
    <2>5. PICK r : r = [pc |-> "run", stack |-> t, attempt |-> 0, prior |-> None]
      OBVIOUS
    <2>6. req' = [req EXCEPT ![q] = r]
      <3>1. Tail(s) # <<>> /\ Head(Tail(s)) = g
        BY <2>0, <2>1
      <3>2. Current(q).asset = a /\ req[q].stack = s
        BY <1>2, <1>3
      <3> QED
        BY <2>3, <2>32, <2>4, <2>5, <3>1, <3>2 DEF Return
    <2>7. /\ new[a] = output /\ \A d \in Assets : d # a => new[d] = g.dependencies[d]
          /\ c.asset = g.asset /\ c.next = g.next + 1 /\ c.dependencies = new
      BY <2>3, <2>32
    <2>8. /\ t \in Seq(Frame) /\ Len(t) = Len(s) - 1 /\ t[1] = c
          /\ \A k \in 2..Len(s) - 1 : t[k] = s[k + 1]
      <3>1. /\ <<c>> \o Tail(Tail(s)) \in Seq(Frame)
            /\ Len(<<c>> \o Tail(Tail(s))) = Len(s) - 1
            /\ (<<c>> \o Tail(Tail(s)))[1] = c
            /\ \A k \in 2..Len(s) - 1 : (<<c>> \o Tail(Tail(s)))[k] = s[k + 1]
        BY <2>0
      <3> QED
        BY <2>4, <3>1, Zenon
    <2>9. r \in Request /\ r.pc = "run" /\ r.stack = t
      BY <2>5, <2>8 DEF Request
    <2>10. TypeOK' /\ req'[q] = r /\ \A o \in Requests : o # q => req'[o] = req[o]
      BY <1>1, <2>6, <2>9, ReqTyped
    <2>11. c.asset = g.asset /\ FrameInv(q, c)'
      <3>1. runs'[q][n].hash.asset = a /\ new[a] \in Returned(a) /\ TypeOK' /\ new[a] # None
        BY <1>3, <2>7, <2>10
      <3>2. Ran(q, new, a)'
        <4>1. n < Len(runs'[q]) + 1
          BY <3>1 DEF Ids, TypeOK
        <4> QED
          BY <2>7, <3>1, <4>1 DEF Ran, RanBefore
      <3>3. FrameInv(q, c)'
        BY <2>2, <2>7, <3>1, <3>2, CallerStep, ZenonT(60)
      <3> QED
        BY <2>7, <3>3
    <2>12. ASSUME NEW k \in 1..Len(t)
           PROVE  /\ k + 1 \in 1..Len(s) /\ t[k].asset = s[k + 1].asset
                  /\ k # 1 => t[k] = s[k + 1]
                  /\ FrameInv(q, t[k])'
      <3>1. k + 1 \in 1..Len(s)
        BY <1>4, <2>8
      <3>2. CASE k = 1
        BY <2>1, <2>8, <2>11, <3>1, <3>2
      <3>3. CASE k # 1
        <4>1. k \in 2..Len(s) - 1
          BY <1>4, <2>8, <3>3
        <4>2. t[k] = s[k + 1]
          BY <2>8, <4>1
        <4>3. FrameInv(q, t[k])
          BY <1>4, <3>1, <4>2
        <4>4. FrameInv(q, t[k])'
          BY <2>10, <4>3, FrameKept
        <4> QED
          BY <3>1, <4>2, <4>4
      <3> QED
        BY <3>2, <3>3
    <2>13. StackInv(q)'
      <3>1. Len(t) \in 1..Len(t) /\ Len(t) + 1 = Len(s) /\ t # <<>>
        BY <1>4, <1>8, <2>8
      <3>2. t[Len(t)].asset = Asset[q]
        BY <1>4, <2>12, <3>1
      <3>3. ASSUME NEW k \in 1..Len(t) - 1
            PROVE  /\ t[k + 1].next \in DOMAIN Dependencies[t[k + 1].asset]
                   /\ Dependencies[t[k + 1].asset][t[k + 1].next] = t[k].asset
        <4>1. k \in 1..Len(t) /\ k + 1 \in 1..Len(t) /\ k + 1 # 1 /\ k + 1 \in 1..Len(s) - 1
          BY <1>4, <2>8
        <4>2. t[k + 1] = s[(k + 1) + 1] /\ t[k].asset = s[k + 1].asset
          BY <2>12, <4>1
        <4> QED
          BY <1>4, <4>1, <4>2
      <3>4. req'[q].stack = t
        BY <2>9, <2>10
      <3> QED
        BY <2>12, <3>1, <3>2, <3>3, <3>4 DEF StackInv
    <2>14. PlaceInv(q)'
      BY <2>9, <2>10 DEF PlaceInv
    <2>15. TwinInv(q)'
      <3>1. ASSUME NEW p \in before[q], Twins(p, q), NEW k \in 1..Len(t) PROVE Met(p, t[k].asset)'
        <4>1. \A i \in 1..Len(s) : Met(p, s[i].asset)
          BY <1>1, <1>2, <3>1 DEF TwinInv, Active
        <4>2. Met(p, t[k].asset)
          BY <2>12, <4>1
        <4> QED
          BY <1>5, <2>10, <4>2, MetKept
      <3>2. req'[q].stack = t /\ req'[q].pc = "run"
        BY <2>9, <2>10
      <3> QED
        BY <1>5, <1>6, <3>1, <3>2 DEF TwinInv
    <2> QED
      BY <2>10, <2>13, <2>14, <2>15
  <1>9. Len(s) = 1 \/ Len(s) > 1
    BY <1>4, OneOrMore, Zenon
  <1> QED
    BY <1>7, <1>8, <1>9

\* compute has returned: the row says so, and the frame returns.
LEMMA SucceedStep == ASSUME IInv, NEW q \in Requests, Succeed(q) PROVE IInv'
  <1>1. TypeOK /\ req[q].pc = "compute" /\ PlaceInv(q) /\ UNCHANGED <<audit, before>>
    BY DEF IInv, Succeed
  <1>2. PICK a \in Assets : a = Current(q).asset
    BY <1>1, CurrentIs DEF Active
  <1>3. PICK h \in ChangeHash : h = _change_hash(q)
    BY <1>1, CurrentIs DEF Active
  <1>4. PICK n \in Nat : n = Len(runs[q])
    BY <1>1, Typed
  <1>5. /\ n > 0 /\ n \in Ids(q) /\ runs[q][n] \in AssetRun
        /\ runs[q][n].status = "running" /\ runs[q][n].hash = h /\ h.asset = a
    <2>1. LastIs(q, "running", req[q].attempt)
      BY <1>1 DEF PlaceInv
    <2>2. n > 0 /\ n \in Ids(q)
      BY <1>4, <2>1 DEF LastIs, Ids
    <2>3. h.asset = a
      BY <1>2, <1>3 DEF _change_hash
    <2> QED
      BY <1>1, <1>3, <1>4, <2>1, <2>2, <2>3, Typed DEF LastIs
  <1>6. Now(h) \in Nat
    BY <1>1, NowTyped
  <1>7. PICK output \in Compute[Current(q).asset] :
           /\ runs' = [runs EXCEPT ![q][LastRun(q)] =
                         [@ EXCEPT !.status = "succeeded", !.ended_at = Now(_change_hash(q)),
                                   !.metadata = Safe[output]]]
           /\ Return(q, output)
    BY DEF Succeed
  <1>8. output \in Compute[a] /\ output \in Outputs /\ Safe[output] \in Outputs
        /\ output \in Returned(Current(q).asset)
    BY <1>2, <1>7 DEF Returned
  <1>9. PICK row \in AssetRun :
           /\ runs' = [runs EXCEPT ![q][Len(runs[q])] = row] /\ row.hash = h
           /\ row.status = "succeeded" /\ row.attempt_number = runs[q][n].attempt_number
           /\ row.ended_at = Now(h) /\ row.metadata = Safe[output]
    <2> DEFINE x == [runs[q][n] EXCEPT !.status = "succeeded", !.ended_at = Now(h),
                                       !.metadata = Safe[output]]
    <2>1. /\ x \in AssetRun /\ x.hash = h /\ x.status = "succeeded"
          /\ x.attempt_number = runs[q][n].attempt_number
          /\ x.ended_at = Now(h) /\ x.metadata = Safe[output]
      BY <1>5, <1>6, <1>8 DEF AssetRun
    <2>2. runs' = [runs EXCEPT ![q][Len(runs[q])] = x]
      BY <1>1, <1>3, <1>4, <1>7 DEF LastRun, TypeOK
    <2> HIDE DEF x
    <2> QED
      BY <2>1, <2>2
  <1>10. /\ runs' \in [Requests -> Seq(AssetRun)] /\ Kept /\ Len(runs'[q]) = n /\ runs'[q][n] = row
         /\ Ids(q)' = Ids(q) /\ \A m \in Ids(q) : m # n => runs'[q][m] = runs[q][m]
         /\ \A p \in Requests : p # q => runs'[p] = runs[p]
    <2>1. /\ Len(runs[q]) > 0 /\ runs[q][Len(runs[q])].status = "running"
          /\ row.hash = runs[q][Len(runs[q])].hash
          /\ runs' = [runs EXCEPT ![q][Len(runs[q])] = row]
      BY <1>4, <1>5, <1>9
    <2>2. /\ runs' \in [Requests -> Seq(AssetRun)] /\ Kept
          /\ Len(runs'[q]) = Len(runs[q]) /\ runs'[q][Len(runs[q])] = row
          /\ Ids(q)' = Ids(q) /\ \A m \in Ids(q) : m # Len(runs[q]) => runs'[q][m] = runs[q][m]
          /\ \A p \in Requests : p # q => runs'[p] = runs[p]
      BY <1>1, <2>1, Replaced, Zenon
    <2> QED
      BY <1>4, <2>2, Zenon
  <1>11. /\ TypeOK' /\ StackInv(q)' /\ PlaceInv(q)' /\ TwinInv(q)'
         /\ \A o \in Requests : o # q => req'[o] = req[o]
    <2>1. /\ audit' \subseteq Requests /\ before' = before /\ n \in Ids(q)'
          /\ req[q].pc \in {"skip", "compute"}
      BY <1>1, <1>5, <1>10 DEF TypeOK
    <2>2. runs'[q][n].hash.asset = Current(q).asset /\ runs'[q][n].status \in Done
      BY <1>2, <1>5, <1>9, <1>10 DEF Done
    <2>3. Safe[output] = Stored(<<q, n>>)'
      BY <1>9, <1>10 DEF Stored, Row
    <2> QED
      BY <1>7, <1>8, <1>10, <2>1, <2>2, <2>3, ReturnStep
  <1>12. before'[q] = before[q]
    BY <1>1
  <1>13. ASSUME NEW m \in Ids(q), m # n PROVE RowInv(q, m)'
    <2>1. runs[q][m].status # "running"
      BY <1>4, <1>13 DEF IInv, RowInv, RowPlace
    <2>2. m \in Ids(q)' /\ runs'[q][m] = runs[q][m]
      BY <1>10, <1>13
    <2> QED
      BY <1>10, <1>11, <1>12, <1>13, <2>1, <2>2, RowKept
  <1>14. RowInv(q, n)'
    <2>1. n \in Ids(q)' /\ row.hash = runs[q][n].hash /\ row.ended_at = Now(row.hash)
          /\ row.attempt_number = runs[q][n].attempt_number
      BY <1>5, <1>9, <1>10
    <2>2. row.status \in {"succeeded", "failed"}
          /\ \E o \in Compute[row.hash.asset] : row.metadata = Safe[o]
      BY <1>5, <1>8, <1>9
    <2> QED
      BY <1>1, <1>4, <1>5, <1>10, <1>11, <1>12, <2>1, <2>2, LastRowEnds
  <1>15. \A m \in Ids(q)' : RowInv(q, m)'
    BY <1>10, <1>13, <1>14
  <1>16. \A o \in Requests : o # q => req'[o] = req[o] /\ runs'[o] = runs[o] /\ before'[o] = before[o]
    BY <1>1, <1>10, <1>11
  <1> QED
    BY <1>1, <1>10, <1>11, <1>15, <1>16, StepOf

\* Nothing has changed since the prior run: a row of its own says so, and the
\* frame returns what that run stored.
LEMMA SkipStep == ASSUME IInv, NEW q \in Requests, Skip(q) PROVE IInv'
  <1>1. TypeOK /\ req[q].pc = "skip" /\ PlaceInv(q) /\ UNCHANGED <<audit, before>>
    BY DEF IInv, Skip
  <1>2. PICK a \in Assets : a = Current(q).asset
    BY <1>1, CurrentIs DEF Active
  <1>3. PICK h \in ChangeHash : h = _change_hash(q) /\ h.asset = a
    BY <1>1, <1>2, CurrentIs DEF Active, _change_hash
  <1>4. PICK p \in Requests : \E m \in Nat : req[q].prior = <<p, m>> /\ IsPrior(q, p, m)
    BY <1>1 DEF PlaceInv
  <1>5. PICK m \in Nat : req[q].prior = <<p, m>> /\ IsPrior(q, p, m)
    BY <1>4
  <1>6. /\ m \in Ids(p) /\ runs[p][m].status = "succeeded" /\ runs[p][m].hash = h
        /\ q \notin Backfills
    BY <1>1, <1>3, <1>5 DEF IsPrior, PlaceInv
  <1>7. PICK output \in Outputs : output = runs[p][m].metadata /\ Safe[output] = output
                                  /\ output \in Returned(Current(q).asset)
    <2>1. PICK o \in Compute[a] : runs[p][m].metadata = Safe[o]
      BY <1>3, <1>6 DEF IInv, RowInv, RowOutput
    <2>2. o \in Outputs
      BY <1>2, <2>1
    <2> QED
      BY <1>2, <2>1, <2>2 DEF Returned
  <1>8. Now(h) \in Nat /\ runs[p][m].ended_at < Now(h)
    <2>1. runs[p][m].ended_at < Now(runs[p][m].hash)
      BY <1>6 DEF IInv, RowInv, RowClock
    <2> QED
      BY <1>1, <1>6, <2>1, NowTyped
  <1>9. PICK row \in AssetRun :
           /\ runs' = [runs EXCEPT ![q] = Append(@, row)] /\ row.hash = h
           /\ row.status = "skipped_unchanged" /\ row.attempt_number = 1
           /\ row.ended_at = Now(h) /\ row.prior_run_id = <<p, m>>
    <2> DEFINE x == [hash |-> h, status |-> "skipped_unchanged", attempt_number |-> 1,
                     ended_at |-> Now(h), metadata |-> None, prior_run_id |-> <<p, m>>]
    <2>1. <<p, m>> \in RunId
      BY DEF RunId
    <2>2. /\ x \in AssetRun /\ x.hash = h /\ x.status = "skipped_unchanged"
          /\ x.attempt_number = 1 /\ x.ended_at = Now(h) /\ x.prior_run_id = <<p, m>>
      BY <1>8, <2>1 DEF AssetRun
    <2>3. runs' = [runs EXCEPT ![q] = Append(@, x)]
      BY <1>3, <1>5 DEF Skip, SkippedRow
    <2> HIDE DEF x
    <2> QED
      BY <2>2, <2>3
  <1>10. PICK n \in Nat : n = Len(runs[q]) + 1
    <2>1. Len(runs[q]) \in Nat
      BY <1>1, Typed
    <2> QED
      BY <2>1
  <1>11. /\ runs' \in [Requests -> Seq(AssetRun)] /\ Kept /\ Len(runs'[q]) = n /\ runs'[q][n] = row
         /\ \A i \in Ids(q) : runs'[q][i] = runs[q][i]
         /\ \A i \in Ids(q)' : i \in Ids(q) \/ i = n
         /\ \A o \in Requests : o # q => runs'[o] = runs[o]
    BY <1>1, <1>9, <1>10, Appended
  <1>12. m \in Ids(p)' /\ runs'[p][m] = runs[p][m]
    <2>1. \A o \in Requests : Len(runs[o]) \in Nat /\ Len(runs'[o]) \in Nat
      BY <1>1, <1>11 DEF TypeOK
    <2> QED
      <3>1. Len(runs[p]) <= Len(runs'[p]) /\ runs'[p][m] = runs[p][m]
        BY <1>6, <1>11 DEF Kept
      <3>2. Len(runs[p]) \in Nat /\ Len(runs'[p]) \in Nat /\ m \in 1..Len(runs[p])
        BY <1>6, <2>1 DEF Ids
      <3> QED
        BY <3>1, <3>2 DEF Ids
  <1>13. n \in Ids(q)' /\ n \notin Ids(q)
    BY <1>1, <1>10, <1>11, Typed DEF Ids
  <1>14. /\ TypeOK' /\ StackInv(q)' /\ PlaceInv(q)' /\ TwinInv(q)'
         /\ \A o \in Requests : o # q => req'[o] = req[o]
    <2>1. /\ audit' \subseteq Requests /\ before' = before
          /\ req[q].pc \in {"skip", "compute"}
      BY <1>1 DEF TypeOK
    <2>2. runs'[q][n].hash.asset = Current(q).asset /\ runs'[q][n].status \in Done
      BY <1>2, <1>3, <1>9, <1>11 DEF Done
    <2>3. Safe[output] = Stored(<<q, n>>)'
      <3>1. Stored(<<q, n>>)' = Row(row.prior_run_id)'.metadata
        BY <1>9, <1>11 DEF Stored, Row
      <3>2. Row(<<p, m>>)' = runs[p][m]
        BY <1>12 DEF Row
      <3>3. Row(row.prior_run_id)' = Row(<<p, m>>)'
        BY <1>9 DEF Row
      <3> QED
        BY <1>7, <3>1, <3>2, <3>3
    <2>4. Return(q, output)
      BY <1>5, <1>7 DEF Skip, PriorMetadata, Row
    <2> QED
      BY <1>7, <1>11, <1>13, <2>1, <2>2, <2>3, <2>4, ReturnStep, ZenonT(90)
  <1>15. before'[q] = before[q]
    BY <1>1
  <1>16. ASSUME NEW i \in Ids(q) PROVE RowInv(q, i)'
    <2>1. runs[q][i].status # "running"
      BY <1>1, <1>16 DEF IInv, RowInv, RowPlace
    <2>2. i \in Ids(q)' /\ runs'[q][i] = runs[q][i]
      BY <1>1, <1>11, <1>14, <1>16, <2>1, EndedKept
    <2> QED
      BY <1>11, <1>14, <1>15, <1>16, <2>1, <2>2, RowKept
  <1>17. RowInv(q, n)'
    <2>1. RowHash(q, n)' /\ RowDependencies(q, n)'
      BY <1>1, <1>3, <1>9, <1>10, <1>11, <1>14, NewRow
    <2>2. RowOutput(q, n)' /\ RowPlace(q, n)' /\ RowTwin(q, n)'
      BY <1>9, <1>11 DEF RowOutput, RowPlace, RowTwin
    <2>3. RowAttempt(q, n)'
      <3>1. 1 <= MaxAttempts[a]
        <4>1. MaxAttempts[a] \in 1..10
          OBVIOUS
        <4> QED
          BY <4>1
      <3> QED
        BY <1>3, <1>9, <1>11, <3>1 DEF RowAttempt
    <2>4. RowClock(q, n)'
      <3>1. Now(h) < Now(h)'
        BY <1>1, <1>9, <1>11, <1>13, <1>14, ClockKept
      <3> QED
        BY <1>9, <1>11, <3>1, ClockOf
    <2>5. RowSkip(q, n)'
      <3>1. /\ m \in Ids(p)' /\ runs'[q][n].prior_run_id = <<p, m>>
            /\ runs'[p][m].status = "succeeded" /\ runs'[p][m].hash = runs'[q][n].hash
            /\ runs'[p][m].ended_at < runs'[q][n].ended_at
        BY <1>6, <1>8, <1>9, <1>11, <1>12, ZenonT(60)
      <3> QED
        BY <1>6, <3>1 DEF RowSkip
    <2> QED
      BY <2>1, <2>2, <2>3, <2>4, <2>5 DEF RowInv
  <1>18. \A i \in Ids(q)' : RowInv(q, i)'
    BY <1>11, <1>16, <1>17
  <1>19. \A o \in Requests : o # q => req'[o] = req[o] /\ runs'[o] = runs[o] /\ before'[o] = before[o]
    BY <1>1, <1>11, <1>14
  <1> QED
    BY <1>1, <1>11, <1>14, <1>18, <1>19, StepOf

\* Nobody has run anything.
LEMMA InitIInv == Init => IInv
  <1> SUFFICES ASSUME Init PROVE IInv
    OBVIOUS
  <1>1. PICK r \in Request :
           /\ r = [pc |-> "free", stack |-> <<>>, attempt |-> 0, prior |-> None]
           /\ r.pc = "free"
    <2>1. <<>> \in Seq(Frame)
      OBVIOUS
    <2>2. PICK r \in Request : r = [pc |-> "free", stack |-> <<>>, attempt |-> 0, prior |-> None]
      BY <2>1 DEF Request
    <2> QED
      BY <2>2
  <1>2. /\ runs = [q \in Requests |-> <<>>] /\ audit = {} /\ req = [q \in Requests |-> r]
        /\ before = [q \in Requests |-> {}]
    BY <1>1 DEF Init
  <1>3. TypeOK
    BY <1>2 DEF TypeOK
  <1>4. ASSUME NEW q \in Requests
        PROVE  runs[q] = <<>> /\ req[q].pc = "free" /\ before[q] = {} /\ Ids(q) = {}
    BY <1>1, <1>2 DEF Ids
  <1>5. ASSUME NEW q \in Requests PROVE StackInv(q) /\ PlaceInv(q) /\ TwinInv(q)
    BY <1>4 DEF StackInv, PlaceInv, TwinInv, Active
  <1>6. \A q \in Requests : \A n \in Ids(q) : RowInv(q, n)
    BY <1>4
  <1> QED
    BY <1>3, <1>5, <1>6 DEF IInv

\* Every step, of whatever request, keeps the invariant.
LEMMA NextIInv == IInv /\ [Next]_vars => IInv'
  <1> SUFFICES ASSUME IInv, [Next]_vars PROVE IInv'
    OBVIOUS
  <1>1. ASSUME NEW q \in Requests, Refuse(q) \/ Begin(q) \/ Proceed(q) \/ DatabaseFails(q)
                                     \/ Die(q)
        PROVE  IInv'
    <2>1. CASE \/ Refuse(q) \/ DependencyNotRegistered(q) \/ HookFails(q) \/ RecordAudit(q)
               \/ DatabaseFails(q) \/ Die(q)
      BY <2>1, LeaveStep
    <2>2. CASE Begin(q)
      BY <2>2, BeginStep
    <2>3. CASE RunDependency(q)
      BY <2>3, RunDependencyStep
    <2>4. CASE SelectPrior(q)
      BY <2>4, SelectPriorStep
    <2>5. CASE Skip(q)
      BY <2>5, SkipStep
    <2>6. CASE StartAttempt(q)
      BY <2>6, StartAttemptStep
    <2>7. CASE Succeed(q)
      BY <2>7, SucceedStep
    <2>8. CASE AttemptFails(q)
      BY <2>8, AttemptFailsStep
    <2>9. CASE Retry(q)
      BY <2>9, RetryStep
    <2> QED
      BY <1>1, <2>1, <2>2, <2>3, <2>4, <2>5, <2>6, <2>7, <2>8, <2>9 DEF Proceed
  <1>2. CASE UNCHANGED vars
    <2>1. TypeOK'
      BY <1>2 DEF IInv, TypeOK, vars
    <2>2. Kept
      BY <1>2 DEF Kept, IInv, TypeOK, vars
    <2>3. ASSUME NEW q \in Requests
          PROVE  /\ StackInv(q)' /\ PlaceInv(q)' /\ TwinInv(q)'
                 /\ \A n \in Ids(q)' : RowInv(q, n)'
      <3>1. /\ req'[q] = req[q] /\ runs'[q] = runs[q] /\ before'[q] = before[q]
            /\ \A x \in Requests : req[x].pc = "ok" => req'[x].pc = "ok"
        BY <1>2 DEF vars
      <3> QED
        BY <2>1, <2>2, <3>1, IdleKept
    <2> QED
      BY <2>1, <2>3 DEF IInv
  <1> QED
    BY <1>1, <1>2 DEF Next

\* The inductive invariant holds in every reachable state, for any requests,
\* assets, dependencies and numbers of attempts.
THEOREM Invariance == Spec => []IInv
  BY InitIInv, NextIInv, PTL DEF Spec

\* asset_runs never shows an attempt as running that nobody computes, unless a
\* dead worker or a refused commit left it as the last row of its request
\* (engine.py, whose handler commits on the session that failed); attempts are numbered without a gap, each after the failure of
\* the one before it, and asset_failed comes only after the last of them.
THEOREM RowsAreSound == Spec => []RowsSound
  <1>1. IInv => RowsSound
    <2> SUFFICES ASSUME IInv PROVE RowsSound
      OBVIOUS
    <2>1. NoRunLeftRunning
      <3> SUFFICES ASSUME NEW id \in Runs, Row(id).status = "running"
                   PROVE  Working(id[1]) /\ id[2] = LastRun(id[1])
        BY DEF NoRunLeftRunning
      <3>1. PICK q \in Requests : \E n \in Ids(q) : id = <<q, n>>
        BY RunsAre
      <3>2. PICK n \in Ids(q) : id = <<q, n>>
        BY <3>1
      <3>3. RowPlace(q, n) /\ runs[q][n].status = "running" /\ id[1] = q /\ id[2] = n
        BY <3>2 DEF IInv, RowInv, Row
      <3> QED
        BY <3>3 DEF RowPlace, LastRun
    <2>2. ASSUME NEW id \in Runs
          PROVE  LET n == Row(id).attempt_number
                 IN  /\ n <= MaxAttempts[Row(id).hash.asset]
                     /\ n > 1 => LET previous == Row(<<id[1], id[2] - 1>>)
                                 IN  /\ previous.status = "failed"
                                     /\ previous.hash = Row(id).hash
                                     /\ previous.attempt_number = n - 1
      <3>1. PICK q \in Requests : \E n \in Ids(q) : id = <<q, n>>
        BY <2>2, RunsAre
      <3>2. PICK n \in Ids(q) : id = <<q, n>>
        BY <3>1
      <3>3. RowAttempt(q, n) /\ Row(id) = runs[q][n] /\ id[1] = q /\ id[2] = n
        BY <3>2 DEF IInv, RowInv, Row
      <3>4. Row(<<id[1], id[2] - 1>>) = runs[q][n - 1]
        BY <3>3 DEF Row
      <3> QED
        BY <3>3, <3>4 DEF RowAttempt
    <2>3. ASSUME NEW q \in Requests \ (Hooked \cup Faulty), req[q].pc = "failed",
                 ~(HasDependencyLeft(q) /\ Dependency(q) \notin Registered)
          PROVE  LET last == Row(<<q, LastRun(q)>>)
                 IN  /\ last.status = "failed"
                     /\ last.attempt_number = MaxAttempts[last.hash.asset]
      <3>1. LastIs(q, "failed", MaxAttempts[Current(q).asset])
        BY <2>3 DEF IInv, PlaceInv
      <3>2. _change_hash(q).asset = Current(q).asset /\ Row(<<q, LastRun(q)>>) = runs[q][Len(runs[q])]
        BY DEF _change_hash, Row, LastRun
      <3> QED
        BY <3>1, <3>2 DEF LastIs
    <2>4. AttemptsExhausted
      BY <2>2, <2>3 DEF AttemptsExhausted
    <2> QED
      BY <2>1, <2>4 DEF RowsSound, IInv
  <1> QED
    BY <1>1, Invariance, PTL

\* Whatever runs next to it, a request has run or skipped every dependency of
\* an asset before the asset, and the hash of the asset covers what they
\* returned.
THEOREM DependenciesComeFirst == Spec => []DependenciesFirst
  <1>1. IInv => DependenciesFirst
    <2> SUFFICES ASSUME IInv, NEW id \in Runs, NEW i \in DOMAIN Dependencies[Row(id).hash.asset]
                 PROVE  LET d == Dependencies[Row(id).hash.asset][i]
                        IN  \E n \in 1..(id[2] - 1) :
                                /\ Row(<<id[1], n>>).hash.asset = d
                                /\ Row(<<id[1], n>>).status \in {"succeeded", "skipped_unchanged"}
                                /\ Row(id).hash.dependencies[d] # None
                                /\ Safe[Row(id).hash.dependencies[d]] = Stored(<<id[1], n>>)
      BY DEF DependenciesFirst
    <2>1. PICK q \in Requests : \E n \in Ids(q) : id = <<q, n>>
      BY RunsAre
    <2>2. PICK n \in Ids(q) : id = <<q, n>>
      BY <2>1
    <2>3. /\ RowDependencies(q, n) /\ Row(id) = runs[q][n] /\ id[1] = q /\ id[2] = n
          /\ n \in Nat /\ Len(runs[q]) \in Nat
      BY <2>2, Typed DEF IInv, RowInv, Row
    <2>4. PICK h : h = runs[q][n].hash
      OBVIOUS
    <2>5. PICK d : d = Dependencies[h.asset][i]
      OBVIOUS
    <2>6. RanBefore(q, n, h.dependencies, d)
      BY <2>3, <2>4, <2>5 DEF RowDependencies
    <2>7. PICK m \in Ids(q) :
             /\ m < n /\ runs[q][m].hash.asset = d /\ runs[q][m].status \in Done
             /\ h.dependencies[d] # None /\ Safe[h.dependencies[d]] = Stored(<<q, m>>)
      BY <2>6 DEF RanBefore
    <2>8. m \in 1..(id[2] - 1) /\ Row(<<id[1], m>>) = runs[q][m] /\ <<id[1], m>> = <<q, m>>
      BY <2>3, <2>7 DEF Ids, Row
    <2> QED
      BY <2>3, <2>4, <2>5, <2>7, <2>8, ZenonT(60) DEF Done
  <1> QED
    BY <1>1, Invariance, PTL

\* A skip rests on an ended success for the same asset, watermark and
\* dependencies and never happens in a backfill; and a request that began after
\* its like was answered computes only what a lossy dependency makes it compute.
THEOREM SkipsAreExact == Spec => []SkipsExact
  <1>1. IInv => SkipsExact
    <2> SUFFICES ASSUME IInv PROVE SkipsExact
      OBVIOUS
    <2>1. SkipsAreJustified
      <3> SUFFICES ASSUME NEW id \in Runs, Row(id).status = "skipped_unchanged"
                   PROVE  LET prior == Row(Row(id).prior_run_id)
                          IN  /\ prior.status = "succeeded" /\ prior.hash = Row(id).hash
                              /\ prior.ended_at < Row(id).ended_at
                              /\ id[1] \notin Backfills
        BY DEF SkipsAreJustified
      <3>1. PICK q \in Requests : \E n \in Ids(q) : id = <<q, n>>
        BY RunsAre
      <3>2. PICK n \in Ids(q) : id = <<q, n>>
        BY <3>1
      <3>3. RowSkip(q, n) /\ Row(id) = runs[q][n] /\ id[1] = q
        BY <3>2 DEF IInv, RowInv, Row
      <3>4. PICK p \in Requests : \E m \in Ids(p) :
               /\ runs[q][n].prior_run_id = <<p, m>> /\ runs[p][m].status = "succeeded"
               /\ runs[p][m].hash = runs[q][n].hash
               /\ runs[p][m].ended_at < runs[q][n].ended_at
        BY <3>3 DEF RowSkip
      <3>5. PICK m \in Ids(p) :
               /\ runs[q][n].prior_run_id = <<p, m>> /\ runs[p][m].status = "succeeded"
               /\ runs[p][m].hash = runs[q][n].hash
               /\ runs[p][m].ended_at < runs[q][n].ended_at
        BY <3>4
      <3>6. Row(Row(id).prior_run_id) = runs[p][m]
        BY <3>3, <3>5 DEF Row
      <3> QED
        BY <3>3, <3>5, <3>6 DEF RowSkip
    <2>2. UnchangedInputSkipped
      <3> SUFFICES ASSUME \A a \in Assets : Repeatable(a), NEW q \in Requests \ Backfills,
                          NEW p \in before[q], Twins(p, q), NEW n \in 1..LastRun(q)
                   PROVE  \/ Row(<<q, n>>).status = "skipped_unchanged"
                          \/ HasLossyDependency(Row(<<q, n>>).hash.asset)
        BY DEF UnchangedInputSkipped, Twins, HasLossyDependency
      <3>1. n \in Ids(q) /\ Row(<<q, n>>) = runs[q][n]
        BY DEF Ids, LastRun, Row
      <3>2. RowTwin(q, n)
        BY <3>1 DEF IInv, RowInv
      <3> QED
        BY <3>1, <3>2 DEF RowTwin
    <2> QED
      BY <2>1, <2>2 DEF SkipsExact
  <1> QED
    BY <1>1, Invariance, PTL

============================================================================

# TLA+ specifications of EduWork DataBridge

EduWork DataBridge is a modular monolith (Python, FastAPI, SQLAlchemy, PostgreSQL
in deployment and SQLite in development, a React reviewer UI). It extracts data
from sources into an immutable raw store, profiles, maps and validates it, puts
failed records into quarantine, matches identities, has people review both, and
publishes marts and exports. This directory specifies the parts of it that are
hard to test and checks them with TLC and TLAPS.

## 1. Inventory

`P` stands for `src/packages/eduwork_databridge/eduwork_databridge`.

| Component | State | Operations | Hard because | Correct when |
|---|---|---|---|---|
| Match review desk (`P/matching/service.py`, handlers in `P/main.py`) | `match_candidates`, `match_decisions` | matching run, queue, decision | reviewers compete; a decision is five statements and a commit; answers get lost | history complete and in order, nobody's decision lost or applied to a status its author did not see |
| Exception desk (`P/validation/service.py`) | `quarantine_records`, `quarantine_resolutions` | validation run, queue, resolution, reprocess link | as above, and a resolution overwrites columns of the record | as above, and the record tells of its last resolution only |
| Audit trail (`P/security/audit.py`) | `audit_events` | record, inside or outside the caller's transaction | partial failure | an event for each change and none without one |
| Sessions (`P/db/session.py`) | one session per request | begin, commit, rollback on close | worker death, row locks | writes of a request visible together or never |
| Ingestion (`P/ingestion`) | `ingestion_runs`, `raw_snapshots`, payload and manifest files | extract, resume | files and rows are written one after the other; interleaving at awaits | a run left running is explained, every snapshot has its file, content is stored once |
| Connectors (`P/connectors`; the incremental query is part of `Ingestion`) | retry counters, cursors | request, page, incremental query | retries, page limit, ties at the row limit | retries bounded, no row skipped |
| Profiling, mapping, validation engines | none | pure functions | boundary cases | agree with a reference definition |
| Matchers (`P/matching/deterministic.py`, `probabilistic.py`) | union-find forest | match | order of rules, transitive conflicts | clusters never join conflicting trusted identifiers; what is reported stays true |
| Marts, exports, retention (`P/marts`, `P/publishing`) | files, `*_snapshots` rows | build, publish, apply retention | files shared between rows, unlink before commit | a row or answer has its file until its bytes have expired, and a dictionary that describes them; what has expired goes away |
| Lineage (`P/lineage`) | nodes and edges | get or create, trace | concurrent creation | a trace ends and is complete |
| Orchestration (`P/orchestration/engine.py`) | `asset_runs` | run with dependencies | skip decisions on hashes, retries | unchanged inputs skipped, attempts bounded |
| Rate limiter (`P/security/middleware.py`) | a window per identity | dispatch | window boundary | never more than the limit in a window |
| Reviewer UI (`src/apps/reviewer-ui/src`) | draft, selection, query cache | edit, save, refresh, leave | answers arrive after the user moved on | no draft silently lost, no save from a stale screen |
| Migrations (`src/migrations`) | the schema, its version stamp, the review history | upgrade, downgrade, interruption | 0001 to 0004 overlap; SQLite commits statement by statement | the head is what the models declare, no history is lost |
| Seed, scripts, configuration schemas | - | - | - | - |

Components interact through calls inside one process and through the database;
the desks additionally interact with reviewers over HTTP, where a request or an
answer can be lost and a request sent again.

## 2. Modules

- `RevisionLog`: what both desks promise, with no sessions, locks or
  transactions. An item has a status, an append-only log of verdicts and an
  audit trail; a verdict takes effect in one step, and only on the status its
  author was looking at.
- `MatchReview`: the match review desk. `cand`, `decisions` and `audit` are the
  tables as committed; `tx[q]` holds the uncommitted writes of request `q`,
  `lock[c]` the request whose transaction holds the row of `c`, `view[r]` the
  queue item on reviewer `r`'s screen, `req[q]` the position and contents of a
  request. One action per statement of `record_match_decision` and
  `record_decision`: `Check`, `Update` or `Conflict`, `SelectPrior`,
  `InsertDecision`, `InsertAudit`, `Commit`, `Respond`; `Fail` ends a request
  anywhere. `Execute` is a matching run, `ReadCandidates`, `ReadCounts` and
  `ReadLatest` the three statements of the queue.
- `ExceptionDesk`: the exception desk in the same style, with the columns a
  resolution overwrites, corrected snapshots, the answer read back before the
  commit (`ReadBack`) and `ReprocessLink`.
- `Ingestion`: `IngestionService.extract` and `RawSnapshotStore.store`. `runs`
  and `snapshots` are tables, `payloads` and `manifests` the files of the raw
  store, `rows` the source table. The handler is a coroutine, so `loop[p]` is the
  request process `p` is running and requests of one process interleave only
  where the code awaits the connector (`Build`, then `Extract` or
  `ExtractFails`). `StorePayload`, `StoreManifest`, `SelectSnapshot`, `Flush`,
  `Succeed`, `Close`, `RecordAudit` follow each other and `Crash` comes between
  any two. `Faulty` names the requests for which the database may fail
  (`DatabaseFails`): it refuses a statement, which leaves the session unusable
  for the commit of the exception handler (`StatementFails`) or, with SQLite
  and a SELECT, does not (`LookupFails`); or it performs a commit whose answer
  is lost (`CommitUnanswered`, `AuditUnanswered`).
  A batch is the set of its rows, which stands for its bytes and their checksum;
  `Value` gives the rows their incremental values, which may be equal, and
  `Unread` and `Batches` are the query of the PostgreSQL connector.
- `Publishing`: marts, exports and retention. The handlers run in threads and
  interleave everywhere. A build stores its file, then its row; a publication
  stores its file, its dictionary, then definition, row and lineage in one
  transaction; a retention saves the policy, selects, unlinks file by file and
  commits. A file that exists is kept, a dictionary is written again. `Mortal`
  names the requests that may die on the way, `Rendered` the digest a mart has in a version of the export.
- `Lineage`: the graph. A request is the sequence of its lookups
  (`RecordMapping` with any number of fields, `RecordMart`, `RecordExport`), each
  `FindNode` or `FindEdge` in one transaction; `Record` is what these sequences
  have in common. `Trace` is the walk. `Workers` bounds how many requests are
  served at once.
- `Orchestration`: the asset engine. `runs[q]` are the rows of `asset_runs` that
  request `q` has inserted, in their order; `req[q].stack` is the recursion of
  `AssetOrchestrator.run`, one frame per asset with what its dependencies have
  returned so far. `RunDependency` calls, `Return` leaves a frame; `SelectPrior`,
  `Skip`, `StartAttempt`, `Succeed`, `AttemptFails`, `Retry` and `HookFails` are
  the statements between two commits. `Faulty` names the requests for which the
  database may refuse a statement or lose the answer of a commit
  (`DatabaseFails`): outside the try block of an attempt the exception goes
  through all callers; inside it the handler commits on a session that needs a
  rollback, which raises again, so the row stays `running`. The material of a change hash stands for
  the hash, `Compute` for what assets return and `Safe` for what the allowlist
  leaves of it. `ended_at` is compared only between runs with one hash and
  counts those that have ended.
- `Schema`: the tables, once as the frozen baseline migration creates them, once
  as the application's models declare them; of columns and keys only those that
  later migrations add or drop (a part). A table with its indexes is one
  statement, and the order of the baseline's tables is that of the code.
- `Migrations` (`MigrationSpec`): `alembic upgrade` and `downgrade` between any
  two versions, one action per statement (`RunStatement`, and `Stamp` for the
  version at the end of a migration), with `Crash` between any two. `job.plan` is
  the list of statements of the migration that runs, made when it begins
  (`NextMigration`) since 0002 to 0004 look at what is there first, and
  `job.done` says how many have been run; a statement that a migration skips is
  `Nothing` in the list. `db` is the schema, the stamp and the rows a migration
  rewrites; `saved` is what is durable; `torn` the migrations that were
  interrupted on SQLite. PostgreSQL has
  one transaction per command; with SQLite each statement is durable by itself
  until the first one of a migration that writes rows, the rest comes with the
  stamp. A batch operation on SQLite makes a table `_alembic_tmp_...` and puts it
  in the place of the old one. `Decide` and `Resolve` are the application between
  two commands. What alembic and the databases do is external.
- `ReviewerUI`: a browser in front of either desk: query cache, selection, form
  with its draft and save, draft guard, window focus, session queries. `Render`
  says what mounting another form does to a draft, `Leave` what the guard asks,
  `Visit` and `Refetched` what the query cache fetches. As in TanStack Query 5,
  an invalidation replaces a fetch on its way only when the view has a page
  already; the first fetch of a view is joined, and its page may have been read
  before an own save that is answered meanwhile (`FirstPageRead`). Pages and saves are
  handled, answered, lost and delayed in any order (`ReadPage`, `PageArrives`,
  `PageFails`, `Handle`, `Answer`, `Unanswered`), and other reviewers save.
- `UnionFind`: the forest both matchers use, with path compression.
- `Matching`: both matchers, one action per iteration of their loops: `OpenRule`,
  `OpenGroup`, `TrustedPair`, `CompositePair` and `ReturnClusters` of the exact
  one, `GenerateCandidates`, `ScorePair` and `ReturnCandidates` of the scored one.
  A rule is the function from records to their keys; a score is the range the
  thresholds put it in. The pairs of a group are visited in the order `First`
  gives; the order of groups (that of the records) and of equal scores is left
  open.
- `MatchingProofs`, `ExceptionDeskProofs`, `IngestionProofs`, `LineageProofs`,
  `PublishingProofs`, `OrchestrationProofs`, `ReviewerUIProofs` and
  `MigrationsProofs`: the theorems about the module each is named after, those of
  `MatchReview` in `MatchingProofs` (section 4).
- `MC*`: instances for TLC.

`Publishing` and `Lineage` meet in `record_mart` and `record_export`:
`Publishing` keeps of the graph only which export was derived from which mart,
`Lineage` has the graph and nothing of files or rows. `ReviewerUI` meets the
desks in `Handle`, which is the whole of a save as `RevisionLog` promises it: a
verdict takes effect in one step on the revision it was written for.

PostgreSQL (READ COMMITTED) is external and appears only as the code uses it: a
statement sees what is committed when it runs; an UPDATE of a held row waits and
evaluates its WHERE clause again on the committed row, which is why `Update`
requires a free row with the expected revision and `Conflict` only a committed
row with another one; the end of a transaction gives its rows back. The UNIQUE
constraints on (candidate, revision) and (issue, revision) are deliberately not
enforced: that they never fire is part of what is checked.

Operators with a comment that starts with "Mutant" are wrong variants of the
definition after them. They are not used by any specification; each shows that
a property notices that bug.

## 3. Runs

| Run | Instance | What it shows |
|---|---|---|
| `match_review` | 1 candidate, a reviewer of each of two organizations, 3 requests, fair | history, audit trail, answers, queue, the refinement of `RevisionLog`; every request ends, of competing ones somebody wins |
| `exception_desk` | 1 issue, a reviewer of each of two organizations, 2 requests, 3 snapshots, fair | history, audit trail, columns, answers, refinement; every request ends |
| `ingestion` | 1 object, 3 rows of which two share a value, in batches of 2, 2 requests of the API and 1 of the demo script for which the database may fail | content recorded once and files behind rows, resuming skips nothing but the rest of a tie, success is true, a run left running is explained, no circular wait |
| `ingestion_race` | 1 object, 1 row, a request of each process | violation: the run of the loser stays running |
| `publishing` | 2 builds, any 2 of 3 publications (two of them share version and bytes), 2 retentions, 3 moments; builds and retentions die | marts have files, rows and answers are traceable and what was asked for, files stay until bytes expire and dictionaries describe them, only expired rows go |
| `retention_shared` | 2 versions with the same bytes, fair | violation: retention gets stuck |
| `lineage` | a mapping of 2 fields, 2 builds of one mart, an export, all at once | records whole, traces complete |
| `orchestration` | a chain of 3 assets, 2 equal requests, a backfill that dies, whose hooks raise and whose statements are refused, fair | rows end unless that is the reason, attempts bounded, dependencies first, skips justified and made; every request ends |
| `migrations` | both databases, any sequence of commands and interruptions, 2 decisions, 2 resolutions | schema as declared, no dangling reference, failures explained, history numbered and kept |
| `reviewer_ui` | both desks, 2 records, 2 revisions, 2 drafts, 3 moves, 1 save of somebody else | saves belong to the revision they were written for, once; a form reports a conflict only when there is one; the own save is shown |
| `unsaved_draft` | the exception desk, otherwise as `reviewer_ui` | violation: the window gets the focus and a draft is gone |
| `matching` | 4 records; 2 trusted and 1 composite rule, or 1 and 2; 2 blocking rules, 4 candidates | clusters are the components of the links, trusted identities are not bridged, outcomes and impacts stand |

Several properties are conjunctions: `HistorySound`, `AnswersSound`,
`SnapshotsSound`, `RowsSound`, `RecordsSound` and `SkipsExact`
name the parts that are stated and explained above them in the module; `TypeOK`
is a part of the first of each module.

Bounds.

- Desks: items never share a row, a lock or a history, so one item shows what
  several would. Three decisions are the least for which the predecessor of a
  decision is not simply the first one; two competitors and one that comes
  later show waiting, refusal and resubmission after a lost answer. The two
  requests in flight at once may come from one reviewer and carry a fresh and a
  stale screen; who sent them makes no difference to the code, except for the
  organization.
- Ingestion: three rows in batches of two give a full, a partial and an empty
  batch; three requests give a run, one that resumes it and a competitor. Two
  rows share their value, so that `max_rows` can cut between them and one can be
  inserted after the other was read. The database fails for one of the three
  requests only, so that `RunningIsExplained` says something of the others in
  its company.
- Publishing: `ExportDays` is 1 and time runs to 2 or 3, so that a row can be
  young, exactly at the cutoff, and expired. Two builds, publications and
  retentions are the least that can meet at each lookup. `FewPublished` admits
  any two of three publications (`MaxPublished`): two of one version, which share
  file, dictionary and definition, or two of different versions with bytes of
  their own, so that a publication can be given the wrong definition. Versions
  that share bytes are the instance of `retention_shared`, and are included in
  what is proved. `BuildsFirst` lets publications begin when no build is at work:
  all they see of a build is that the mart is there, and it stays. That a
  publication dies is not needed for safety, since one that takes no further
  step leaves the same behind; that a retention dies is, since retention can be
  applied again.
- Lineage: four requests over seven names contain every pair of operations that
  share a name.
- Orchestration: three assets are the least for which a dependent of a
  recomputed asset must still be skipped; the first asset returns more than is
  stored, the others do not. Of two equal requests one can run next to or after
  the other. The backfill shares the first asset with both, and is the one that
  dies, whose hook raises, whose statements are refused, and that meets an
  unknown dependency.
- Migrations: two decisions can have equal times and either order of ids, which
  is all their numbering looks at; a second resolution is the first that is not
  imported. Commands are unbounded.
- Reviewer UI: two records are the least for which the next one takes the place
  of one that leaves the list, two revisions the least for a stale save, three
  moves enough to leave a view, come back and refresh.
- Matching: four records are the least for two clusters of two to meet; two
  values per trusted rule can conflict, the values of the two trusted rules are
  disjoint; the limit of candidates is below the number of pairs, so that it is
  exceeded.

Deadlock is checked for `migrations` only. Elsewhere the sets of requests (or
the bounds on drafts and moves) are finite and a matcher returns, so the systems
may stop.

Fairness.

- Desks: weak fairness of each request's own steps: the thread that serves a
  request keeps running, or fails. Reviewers owe nobody anything, matching runs
  need not happen, and nothing is assumed of `Fail`. A row lock is held only by
  a request in its transaction, so weak fairness of all requests is enough for
  a waiting one.
- Orchestration: weak fairness of each request's steps, which includes that what
  an asset computes ends. Nothing is assumed of `DatabaseFails` or `Die`. The
  graph of assets is acyclic, as the one in
  `run_asset` is; `register` does not check it.
- Retention: weak fairness of the steps of a retention that was begun, and
  strong fairness of beginning one that is not a dry run. The latter is an
  assumption on operators: the code has no scheduler for retention. Without it
  nothing expires, with it the violation in `retention_shared` is the code's.
  Only that run uses it: `ExpiredGoAway` holds only where no file is shared and
  no retention dies, which the code does not ensure, so no passing run claims it.

## 4. Proofs

Every invariant and every action property that a passing run checks is a
theorem of the specification, for every value of the constants that satisfies
the assumption named in its module, except those that speak of fairness (see the
end of this section); `TrustedNeverBridged` and `OutcomesStand`
need a further hypothesis, which their theorems state. The theorems are of the
form `Spec => []Property`; each proof finds an inductive invariant, shows that
`Init` implies it and that each action preserves it, one step per action. The inductive
invariants were checked with TLC on the instances of section 3 before they were
proved.

The second half of `MatchingProofs` proves, for any sets of candidates, reviewers,
organizations and requests (no finiteness is assumed, only
`ConstantsAssumption`), `HistorySound` and `AnswersSound` with each of their
parts (type correctness, contiguous history, chain of predecessors, complete
audit trail, answers that hold, justified conflicts), the action property
`AppendOnly`, and that `MatchReview` implements `RevisionLog`.

The inductive invariant `IInv` adds to the properties what makes them hold from
one step to the next:

- `LockInv`: a request inside its transaction holds the row of its candidate;
- `TxInv`: the buffered writes are the ones its position in the handler implies;
- `PriorInv`: after `SelectPrior`, the prior decision is the one of the expected
  revision. It needs the lock, since the SELECT is another statement than the
  UPDATE;
- `RequestInv`, `ViewInv`: no request and no screen is ahead of its candidate;
- `RowInv`, `AbsentInv`, `HistoryInv`: recorded decisions belong to finished
  requests, absent candidates have none, revisions are 1..n without repetition.

For the refinement `SeenInv` says that a screen or request that carries the
current revision carries the current status too. `Commit` is then the only step
that is not a stutter of the abstract log, apart from `Execute`.

`QueueItemMonotone` needs a counting argument: with the revisions 1..n present
once each, the number of decisions is the revision, so the count that the second
statement of the queue reads lies between the revision the first one read and
the one the third will find (`QueueInv`).

`ExceptionDeskProofs` proves, for any records, snapshots, reviewers and
requests, `HistorySound`, `RecordShowsLastResolution`, `AnswerIsOwnResolution`
and that `ExceptionDesk` implements `RevisionLog`. The invariants are those of
the match desk, with two differences: the buffered row repeats columns that the
UPDATE does not set, so `TxInv` says that it is what the record would become,
which needs the row lock; and `AnswerInv` says that the row read back before the
commit is the request's own, which needs that nobody else can have its revision.

`IngestionProofs` proves, for any requests, processes, objects, batch size and
rows with any ascending incremental values, all properties of the run
`ingestion`, with any of the requests in `Faulty`. Its inductive invariant adds

- `LoopInv`: between two awaits a request has the event loop of its process for
  itself, and a loop that is taken is taken by such a request;
- `RunInv`, `FileInv`: what the run row says, and which files exist, at each
  point of the handler: files come before the row;
- `BatchInv`: a batch has a row for every value between the cursor it was read
  from and the one it leads to. `ResumeSkipsNothing` rests on it: a later
  insertion can only add to a value that is already there;
- `InsertInv`: content that was not found and is there at the flush was inserted
  by another process. This is why `RunningIsExplained` may name the second
  process as the only cause of the failure that `ingestion_race` shows;
- `FlushInv`: an insert that was flushed and not committed is the only one of
  its content, which no row has. With it the commit keeps the content of an
  object recorded once, also when its answer is lost.

`RunningIsExplained` is about the requests outside `Faulty`: for a request whose
statements may be refused, the code records nothing that tells a refused one from
a run at work. That the failure of one request leaves no run of another running
is what the theorem says.

`PublishingProofs` proves, for any sets of builds, publications and retentions,
any of which may die, for any rendering and any export period (only
`PublishingAssumption`), the properties of the run `publishing`: `RowsSound`
with its parts (type correctness, `MartsBacked`, `ExportsTraceable`,
`AnswersSound`), `ExportsHeld` and the action property `OnlyExpiredRemoved`.
Any number of publications may share their bytes. Its inductive invariant adds

- `BuildInv`: a build that is about to insert a row has stored its file, no step
  removes one, and a build that goes on from there has its row;
- `PublishInv`: from `ReadMart` on the mart has a row; the definition a
  publication found or will insert has its own version, and a snapshot it will
  insert has that definition and the digest of its bytes. This is what survives
  the unprotected lookups: another publication may insert the same definition
  in between, but never change one;
- `SweepInv`: what a retention has selected or unlinked had expired, and the
  clock only goes on. `CommitRetention` then deletes expired rows only;
- `HInv`: the row a publication works on is what was asked for and is new or
  traceable (`ChoiceInv`); its file is there once stored, unless an export with
  the same bytes has outlived its time, and its dictionary once written
  (`HeldInv`); the same holds of each row (`RowInv`), which is the one its
  publication made (`Made`). A file can be unlinked for one row while another
  with its bytes is young, but only by a retention that selected a made row that
  has expired: this is what `Outlived` records.

`ExportsHeld` is the most that is true of files and dictionaries. A young row
loses its file when an older one with its bytes expires; and the dictionary may
name another mart or version with the same bytes (section 5).

`LineageProofs` proves `RecordsSound` and `TraceComplete` for any requests over
a finite set of names, with failures at any lookup. The module assumes of a
request that it is a `Record`; the lemmas `MappingIsRecord`, `MartIsRecord` and
`ExportIsRecord` prove that the three operations of the code produce records, so
the assumption is not one on the code (the mapping engine
refuses two rules for one target, `P/mapping/engine.py:62`). `TraceCloses` shows that as
many passes over the edges as there are nodes reach a closed set, whatever the
graph: a pass that adds nothing changes nothing any more, and there cannot be
more passes that add a node than there are nodes.

`OrchestrationProofs` proves `RowsSound`, `DependenciesFirst` and `SkipsExact`
for any finite set of requests over any assets and dependencies; the graph of
dependencies need not even be acyclic for safety. It assumes that what the
allowlist leaves of an output it leaves again (`Safe` is idempotent, as
filtering by key is). Its inductive invariant has, besides the types,

- `StackInv`: each frame of the recursion has run or skipped the dependencies
  before its next one and holds what they returned;
- `PlaceInv`: a position inside an attempt belongs to the last row;
- `TwinInv`: a request that began after an equal one was answered meets only
  assets that the other has run, and computes one only where a dependency
  returns more than is stored of it;
- `RowInv`: what each row says of its dependencies, attempt and skip, and that
  it is running only while its request is `Working`: it computes, is dead, or has
  failed and is in `Faulty`. A row that has ended never changes, so this is kept
  by every step of others.

`ReviewerUIProofs` proves `SavedWhereWritten`, `SavedOnce`,
`ConflictIsStale` and `OwnSaveShown` for any records, revisions, drafts and
moves. The argument is about keys and numbers:

- `FormInv`: a draft is in the form of the record and revision it was begun for,
  as the form is keyed by them, so a save carries the home of its draft
  (`SaveInv`);
- `DraftInv`: draft numbers are unique, and one that was recorded has moved its
  record on, so sending it again is a conflict;
- `CInv`: no page, shown or on its way, is ahead of the API (`PageInv`); a save
  that is still attached to the form is about the record and revision on the
  screen, and one that was refused expected less than the API has (`AttachInv`).
  So the conflict a form reports is one of its own record, and the refresh it
  asks for can bring a later revision;
- `OwnInv`: every page that is read after a save was confirmed has it, however
  pages overtake each other. `own` is set when the answer of a save finds its
  view, unless it finds the view's first page read and on its way: that page is
  joined by the refresh and may show the record as it was before.

The first half of `MatchingProofs` proves all properties of the run `matching`, for any finite
set of records, rules, keys, blocking rules and scores:
`ClustersAreComponents` and `ImpactStands` without further assumptions,
`TrustedNeverBridged` and `OutcomesStand` under `DistinctRules`, which says that
the values of different trusted rules differ. The code needs it:
`cluster_trusted_values` (`P/matching/deterministic.py:135`) puts the keys of
all trusted rules into one set without the rule they came from, so two rules
whose values coincide would count as one identifier. With a single trusted rule,
as in `configs/demo/matching/person_v1.yml`, it holds trivially. The invariants:

- `Core`: `parent` is a forest, so that every record has a root, however long
  its chain (`Shape`); the groups and pairs still to visit are those of the open
  rule (`KeyInv`); sizes and identifiers are current for roots, and only for them
  (`RootInv`). Lemmas show that path compression keeps the partition and that a
  union glues two of its classes together;
- `ClusterInv`: links are inside clusters, and the links connect each cluster;
- `ReviewInv`: once a pair is left for review no pair is merged any more, so the
  impact stored with it stays that of the clusters;
- `BridgeInv`: within a cluster, the records that have identifiers are connected
  by shared ones alone;
- `DecisionInv`: the clusters of a reported conflict conflict under every later
  merge (`VetoInv`), and the pairs of each rule opened so far are together,
  reported or still to be visited (`DoneInv`).

`MigrationsProofs` proves (`MigrationTyping`, `SchemaKept`, `ReferencesKept`,
`HistoryKept`, `NumbersKept`, `FailureKept`) typing and all five properties of
the run `migrations` for any set of decisions and
times and any number of resolutions (`IdsAssumption`), whatever sequence of
commands, application writes and interruptions led there. The tables and the
lists of statements are the code's, not parameters: `SchemaAssumption` collects
the closed facts about them that the proofs use (names differ, a table refers to
earlier ones only, only later tables of the same migration refer to one of 0003
or 0004), which TLC evaluates. `MigrationIInv` consists of

- `SavedInv`: what is durable is the database itself outside a transaction;
- `TablesInv`: parts belong to tables that exist, and a command that ends above
  the base leaves tables;
- `SchemaInv`: unless a migration was interrupted, the schema between two
  migrations lies between two bounds for its version (on PostgreSQL and SQLite
  they differ, and 0001 to 0004 overlap); within a migration, the rest of its
  statements can be run (`Feasible`) and leads to the bounds of the version it is
  going to (`LeadsTo`). `PlanStart` collects that each plan has this property when
  it begins, for each migration and direction;
- `EarlyInv` and `BaseInv`: the table of resolutions is there only at 0006, and
  the way down to the base can be run to its end whatever was interrupted, which
  with the order of the baseline gives `RefsInv`, that no reference dangles;
- `NormalInv` and `SurvivalInv`: a revision or note is set only where its column
  exists, every decision in the database is durable, and what an interruption
  takes from the resolutions was imported from the note, which is still there;
- `DistinctInv`, `DecisionInv` and `ResolutionInv`: ids differ, and at each
  position in the statements of 0005 and 0006 which of the revisions are already
  those the application expects. The window function of 0005 is `Rank`, the number of
  rows that do not come later; the lemmas about it show from finite cardinalities
  that ranks are a numbering from one without gaps in the order of the rows;
- `QuietInv` and `TornInv`: on SQLite 0002 to 0004 find everything there and
  change nothing, so only 0001, 0005 and 0006 are ever left half done. With them
  `FailureInv` says that a statement fails only in 0006, which refuses to lose
  history, or after an interruption.

Induction over data is beyond the prover, since no backend can instantiate a
theorem about an arbitrary predicate. What a chain of parents or a number of
passes leads to is proved here from the least element of a set of naturals
(`LeastNat`): if the claim failed for some length, it would fail for a least
one, which the definition of the recursion at that length contradicts.

Only model-checked:

- liveness (`EveryRequestEnds`, `SomebodyWins`, `EveryRunEnds`): fairness is
  beyond the prover.

## 5. Findings

With a run that shows it:

- Two processes that store the same new content: the loser's INSERT violates
  `uq_snapshot_content`, and the handler for it commits on a session that needs
  a rollback first, so the run stays `running` (`P/ingestion/service.py:204`,
  `ingestion_race`). `RunningIsExplained` shows that, as long as the database
  refuses nothing else, this needs a second process.
- Exports with the same bytes share one file, which retention unlinks for the
  first and misses for the second; the transaction is rolled back and all later
  retentions fail at the missing file (`P/publishing/retention.py:89`,
  `retention_shared`).
- `docs/guides/exception-desk.md:21` says that window focus cannot silently
  replace an edited record. The queue is not refetched on focus, but the queries
  of organizations and actor are, and when one of these fails the queue is no
  longer rendered: the form goes with its draft
  (`src/apps/reviewer-ui/src/ExceptionDesk.tsx:213`, `unsaved_draft`).

Seen while modelling, without a run of their own:

- `docs/evidence/processing-matching-completion.md:24` calls reprocessing links
  immutable; `reprocess_link` (`P/validation/service.py:388`) overwrites a link
  that is already set.
- Builds of one mart in two threads insert its lineage node twice, and an export
  is linked to one of the two (`P/lineage/service.py:35`); `TraceComplete` says
  what a trace still finds.
- Rows that share the incremental value at which `max_rows` cuts are never
  extracted (`P/connectors/postgresql.py:101`); an empty batch resets the cursor,
  so the next resumed run begins again at the first row.
- A migration 0001, 0005 or 0006 that is interrupted on SQLite leaves tables or
  columns its repetition stumbles over (`FailureExplained`); 0002 to 0004 look
  first.
- The exception desk loses a draft without its confirmation when a refresh or
  the revalidation of a view, asked for before the reviewer began to write,
  arrives with another revision; a form mounted anew while a save is pending is
  not guarded. The identity desk has no guard at all and
  refetches on focus. The draft is lost, never misfiled (`SavedWhereWritten`).
- The identity desk may show a record as it was before an own save, until the
  next fetch: the reviewer saves, goes to a view that was never loaded, whose
  page the API reads before it handles the save; the refresh after the answer
  joins that fetch (`src/apps/reviewer-ui/src/ReviewDesk.tsx`, `FirstPageRead`).
  A save from that page is refused as a conflict.
- A database error inside the try blocks of `P/ingestion/service.py:126` and
  `P/orchestration/engine.py:173` leads to a handler that commits without a
  rollback: the run, or the row of the attempt, stays `running` although its
  process lives. With SQLite a failing read of the snapshot after the commit
  (`LookupFails`) records a run as failed whose snapshot is there.
- The outcome of the exact matcher depends on the order of the records: with
  records a, b of one composite key, c (trusted id 1) sharing a second key with a
  and d (trusted id 2) sharing another value of it with b, the cluster {a, b} gets
  c or d, whichever's group comes first (`P/matching/deterministic.py:146`). Two
  trusted rules whose normalized values coincide count as sharing an identifier,
  as the rule is not part of the value (`:135`).
- `ProbabilisticMatchService._model` reuses the row of a model version, so a later
  run with other estimated parameters refers to the parameters of the first
  (`P/matching/probabilistic_service.py:45`), although
  `docs/guides/probabilistic-matching.md:5` says that estimates are persisted.
- `build_connector` is called between the commit of a run row and the try block
  that ends it (`P/ingestion/service.py:125`): a source that cannot be built
  leaves its run `running` (`BuildFails`).
- A worker that dies between unlink and commit leaves retention stuck in the
  same way as shared files do, and retention of an old version removes the file
  of a young one with the same bytes (the second disjunct of `ExportsHeld`).
- The dictionary of an export is named by its digest and overwritten by another
  version or mart with the same bytes (`Described` says only that what it names
  has these bytes), although ADR 0012 says that each export preserves it;
  retention leaves it behind.
- `docs/guides/validation-and-quarantine.md:7` says that blocking failures
  prevent later publication; neither `build_mart` nor `publish_export` looks at
  validation results.
- A skip returns `prior.metadata_json`, a run the whole output
  (`P/orchestration/engine.py:150`). `docs/guides/orchestration-and-telemetry.md:5`
  promises unchanged-input skipping and that dependency results are passed on;
  with an asset that returns more than the allowlisted keys its dependents are
  given less, and computed again, the second time. `SkipsExact` says so and holds only with this exception. The assets of the API return
  allowlisted keys only.
- Two matching runs of one new rule set both insert it; the second fails and its
  run is lost (`P/matching/service.py:67`). The completion event of a matching or
  validation run is committed after the run: a failure in between leaves results
  nobody audited (`P/main.py:781`, `:531`). These and the points above and below
  that no run shows are hazards without a property.
- `expires_at` of an answer counts from the answer and by the export's own
  `retention_days`, retention from `published_at` by the policy.

## 6. Not modelled, and the plan

Not modelled, and why:

- Profiling, mapping and validation engines, similarity and probability
  arithmetic, parameter estimation and evaluation metrics: pure numeric and
  string functions of one call, whose interest is in the data a model abstracts.
- REST paging and retries, file parsing, URL checks, rate limiter and other
  middleware: sequential code without interleaving state; unit tests reach it.
- Permissions and token decoding: stateless checks before a handler. The
  organization checks are part of the handlers that are modelled.
- Completion events that other handlers than the desks and ingestion write after
  their own commit: they can be missing, and nothing reads them.
- Configuration and API schemas, synthetic data, seed, scripts, telemetry,
  Dagster definitions: declarations and tooling.
- SQLite's locking under the API, offline SQL of migrations, the static preview
  and the history list of the UI, page numbers of the queue.

Theorems left: none of a safety property that a passing run checks. Liveness
would need a prover for fairness.

----------------------------- MODULE Migrations -----------------------------
(* The schema migrations 0001 to 0006: what an upgrade or a downgrade of the *)
(* database does statement by statement, what an interruption leaves behind, *)
(* and what becomes of the review history the application wrote in between.  *)
(*                                                                           *)
(* PostgreSQL runs a whole command in one transaction (env.py). On SQLite    *)
(* the driver opens a transaction only when a statement writes rows: what a  *)
(* migration does before that is durable at once, the rest with its stamp.   *)
(* The data is one match candidate with its decisions and one quarantine     *)
(* record with its note and its resolutions.                                 *)
EXTENDS Integers, Sequences, FiniteSets, Schema

CONSTANTS
    Dialects,   \* the databases considered: "sqlite", "postgresql"
    Ids,        \* the order of the UUIDs of decisions
    Times,      \* the values of decided_at
    MaxResolutions

ASSUME IdsAssumption ==
    /\ Dialects \subseteq {"sqlite", "postgresql"}
    /\ Ids \subseteq Nat /\ Times \subseteq Nat /\ MaxResolutions \in Nat

VARIABLES
    dialect,
    db,       \* the version stamp, the schema and the rows
    job,      \* the command being run: its target, the statements of the migration
              \* it is at and how many of them are done
    saved,    \* what is durable: a rollback or a restart returns to it
    torn,     \* the migrations interrupted half way, on SQLite
    failure   \* the last command that failed, and why

migrationVars == <<dialect, db, job, saved, torn, failure>>

Head6 == 6
NoJob == [pc |-> "idle", target |-> 0, plan |-> <<>>, done |-> 0, open |-> FALSE, began |-> FALSE]
NoFailure == [migration |-> 0, up |-> FALSE, refused |-> FALSE, afterTorn |-> {}]

EmptyDb == [version |-> 0, tables |-> {}, parts |-> {}, decisions |-> {}, candidate |-> 0,
            note |-> "none", record |-> 0, resolutions |-> {}]

Names(d) == {t.name : t \in d.tables}

----------------------------------------------------------------------------
(* Statements: tables and parts added and dropped, and what is done to the   *)
(* rows.                                                                     *)

Nothing == [add |-> {}, drop |-> {}, gain |-> {}, lose |-> {}, rows |-> "unchanged"]

CreateTable(t, parts) == [Nothing EXCEPT !.add = {t}, !.gain = parts]
DropTable(name) == [Nothing EXCEPT !.drop = {name}]
Add(parts) == [Nothing EXCEPT !.gain = parts]
Drop(parts) == [Nothing EXCEPT !.lose = parts]
Execute(rows) == [Nothing EXCEPT !.rows = rows]

(* A batch operation: SQLite copies the table into a temporary one, which    *)
(* takes its place; PostgreSQL alters it.                                    *)
Temporary == [raw_snapshots |-> "_alembic_tmp_raw_snapshots",
              match_candidates |-> "_alembic_tmp_match_candidates",
              match_decisions |-> "_alembic_tmp_match_decisions",
              quarantine_records |-> "_alembic_tmp_quarantine_records"]

Batch(table, gain, lose) ==
    LET altered == [Nothing EXCEPT !.gain = gain, !.lose = lose]
    IN  IF dialect = "sqlite"
        THEN <<CreateTable(Table(Temporary[table], {}), {}),
               [altered EXCEPT !.drop = {Temporary[table]}, !.rows = "copied"]>>
        ELSE <<altered>>

(* An "if not there" or "if there" that does not hold is a statement too: it *)
(* does nothing.                                                             *)
AddMissing(parts) ==
    [i \in DOMAIN parts |-> IF parts[i] \in db.parts THEN Nothing ELSE Add({parts[i]})]
DropEach(parts) == [i \in DOMAIN parts |-> Drop({parts[i]})]
DropTables(names) == [i \in DOMAIN names |-> DropTable(names[i])]
DropPresent(names) ==
    [i \in DOMAIN names |-> IF names[i] \in Names(db) THEN DropTable(names[i]) ELSE Nothing]

(* ROW_NUMBER() OVER (ORDER BY decided_at, id).                              *)
Rank(d, decisions) ==
    Cardinality({e \in decisions : e.at < d.at \/ (e.at = d.at /\ e.id <= d.id)})

Imported(note) == IF note = "text" THEN {[revision |-> 1, imported |-> TRUE]} ELSE {}

(* The rows after an UPDATE or INSERT of a migration.                        *)
Rows(d, rows) ==
    CASE rows = "rank_decisions" ->
           [d EXCEPT !.decisions = {[e EXCEPT !.revision = Rank(e, d.decisions)] : e \in d.decisions}]
      [] rows = "count_decisions" -> [d EXCEPT !.candidate = Cardinality(d.decisions)]
      [] rows = "import_note" -> [d EXCEPT !.resolutions = Imported(d.note)]
      [] rows = "revise_records" -> [d EXCEPT !.record = IF d.resolutions = {} THEN d.record ELSE 1]
      [] OTHER -> d

(* A column or table that is gone takes its values with it; one that is      *)
(* added starts from its default.                                            *)
Kept(d) ==
    [d EXCEPT
        !.decisions = IF "match_decisions" \notin Names(d) THEN {}
                      ELSE IF DecisionRevision \in d.parts THEN @
                      ELSE {[e EXCEPT !.revision = 0] : e \in @},
        !.candidate = IF CandidateRevision \in d.parts THEN @ ELSE 0,
        !.note = IF NoteColumn \in d.parts THEN @ ELSE "none",
        !.record = IF RecordRevision \in d.parts THEN @ ELSE 0,
        !.resolutions = IF "quarantine_resolutions" \in Names(d) THEN @ ELSE {}]

Effect(d, s) ==
    Kept(Rows([d EXCEPT
                 !.tables = {t \in @ : t.name \notin s.drop} \cup s.add,
                 !.parts = {p \in @ : p[1] \notin s.drop /\ p \notin s.lose} \cup s.gain],
              s.rows))

(* What the check and the unique key of match_decisions ask for.             *)
Numbered(decisions) ==
    /\ \A d \in decisions : d.revision > 0
    /\ \A d, e \in decisions : d.revision = e.revision => d = e

(* The statement is accepted by the database; the guard of 0006 reads the    *)
(* table it protects.                                                        *)
Accepted(d, s) ==
    LET names == Names(d) \cup {t.name : t \in s.add} IN
    /\ \A t \in s.add : t.name \notin Names(d) /\ t.refs \subseteq Names(d)
    /\ s.drop \subseteq Names(d)
    /\ dialect = "postgresql" =>
         \A t \in d.tables : t.name \notin s.drop => t.refs \cap s.drop = {}
    /\ \A p \in s.gain : p[1] \in names /\ p \notin d.parts
    /\ s.lose \subseteq d.parts
    /\ DecisionKeys \subseteq s.gain => Numbered(d.decisions)
    /\ s.rows = "keep_history" => "quarantine_resolutions" \in Names(d)

(* 0006, downgrade: refused when resolutions were recorded since.            *)
Refused(d, s) == s.rows = "keep_history" /\ \E r \in d.resolutions : ~r.imported

----------------------------------------------------------------------------
(* The migrations: the statements each plans, from what it inspects.         *)

CreateBaseline ==
    [i \in DOMAIN Baseline |->
        CreateTable(Baseline[i], {p \in BaselineParts : p[1] = Baseline[i].name})]

(* Mutant: the list follows the creation.                                    *)
DropBaselineForward == DropPresent(Reverse(DropOrder))

DropBaseline == DropPresent(DropOrder)

(* Mutant: the unique key is left to the baseline.                           *)
AddRunColumnsOnly ==
    AddMissing(RunColumns) \o (IF dialect = "sqlite" THEN <<>> ELSE AddMissing(<<RunKey>>))

AddRunMetadata ==
    IF dialect = "postgresql" THEN AddMissing(RunParts)
    ELSE AddMissing(RunColumns)
         \o (IF ContentKey \in db.parts THEN <<>> ELSE Batch("raw_snapshots", {ContentKey}, {}))

DropRunMetadata ==
    IF dialect = "sqlite" THEN <<>> ELSE DropEach(Reverse(RunParts))

NewTables3 == <<"profile_comparisons", "lookup_tables", "mapping_executions", "mapping_errors",
                "match_evaluations">>

NewTables4 == <<"probabilistic_models", "probabilistic_runs", "data_mart_snapshots", "asset_runs",
                "retention_policies">>

(* Mutant: the tables are created without a look at the database.            *)
CreateAll(names) == [i \in DOMAIN names |-> CreateTable(ModelNamed(names[i]), {})]

CreateMissing(names) ==
    [i \in DOMAIN names |-> IF names[i] \in Names(db) THEN Nothing
                            ELSE CreateTable(ModelNamed(names[i]), {})]

AddProcessing ==
    CreateMissing(NewTables3)
    \o AddMissing(IF dialect = "sqlite" THEN OutcomeColumns ELSE OutcomeParts)

DropProcessing ==
    IF dialect = "sqlite" THEN <<>>
    ELSE DropEach(Reverse(OutcomeParts)) \o DropTables(Reverse(NewTables3))

AddOperations == CreateMissing(NewTables4)

DropOperations == IF dialect = "sqlite" THEN <<>> ELSE DropTables(Reverse(NewTables4))

(* Mutant: the candidates keep the default revision.                         *)
AddDecisionRevisionsOnly ==
    <<Add({CandidateRevision}), Add({DecisionRevision}), Execute("rank_decisions")>>
    \o Batch("match_candidates", CandidateKeys, {})
    \o Batch("match_decisions", DecisionKeys, {})

AddReviewRevisions ==
    <<Add({CandidateRevision}), Add({DecisionRevision}),
      Execute("rank_decisions"), Execute("count_decisions")>>
    \o Batch("match_candidates", CandidateKeys, {})
    \o Batch("match_decisions", DecisionKeys, {})

DropReviewRevisions ==
    Batch("match_decisions", {}, DecisionKeys \cup {DecisionRevision})
    \o Batch("match_candidates", {}, CandidateKeys \cup {CandidateRevision})

AddResolutions ==
    Batch("quarantine_records", {RecordRevision} \cup RecordKeys, {})
    \o <<CreateTable(OwnedAnd("quarantine_resolutions", {"quarantine_records", "raw_snapshots"}), {}),
         Execute("import_note"), Execute("revise_records")>>

(* Mutant: the downgrade does not look at the history.                       *)
DropResolutionsUnguarded ==
    <<DropTable("quarantine_resolutions")>>
    \o Batch("quarantine_records", {}, RecordKeys \cup {RecordRevision})

DropResolutions ==
    <<Execute("keep_history"), DropTable("quarantine_resolutions")>>
    \o Batch("quarantine_records", {}, RecordKeys \cup {RecordRevision})

(* What the migrations rely on of the tables: the baseline creates each once *)
(* and after those it refers to; the lists of 0003 and 0004 are in such an   *)
(* order too, and only their own tables refer to them; what later migrations *)
(* alter is among the others; a copy has the name of no table.               *)
Created == {Baseline[i].name : i \in DOMAIN Baseline}

ASSUME SchemaAssumption ==
    /\ Baseline \in Seq([name : STRING, refs : SUBSET STRING])
    /\ \A i, j \in DOMAIN Baseline : Baseline[i].name = Baseline[j].name => i = j
    /\ \A i \in DOMAIN Baseline : Baseline[i].refs \subseteq {Baseline[j].name : j \in 1..(i - 1)}
    /\ Models = Range(Baseline) \cup
           {OwnedAnd("quarantine_resolutions", {"quarantine_records", "raw_snapshots"})}
    /\ {"organizations", "quarantine_records", "raw_snapshots"} \subseteq Created
    /\ "quarantine_resolutions" \notin Created
    /\ \A table \in DOMAIN Temporary : Temporary[table] \notin Created \cup {"quarantine_resolutions"}
    /\ IsInjective(NewTables3 \o NewTables4)
    /\ \A names \in {NewTables3, NewTables4} :
           /\ Range(names) \subseteq Created
           /\ \A t \in Range(Baseline) : \A i \in DOMAIN names :
                  names[i] \in t.refs => \E j \in (i + 1)..Len(names) : t.name = names[j]
    /\ IsInjective(RunParts \o OutcomeParts)
    /\ \A p \in ModelParts : p[1] \in Created \ Range(NewTables3 \o NewTables4)

Upgrade(n) ==
    CASE n = 1 -> CreateBaseline [] n = 2 -> AddRunMetadata [] n = 3 -> AddProcessing
      [] n = 4 -> AddOperations [] n = 5 -> AddReviewRevisions [] n = 6 -> AddResolutions

Downgrade(n) ==
    CASE n = 1 -> DropBaseline [] n = 2 -> DropRunMetadata [] n = 3 -> DropProcessing
      [] n = 4 -> DropOperations [] n = 5 -> DropReviewRevisions [] n = 6 -> DropResolutions

----------------------------------------------------------------------------
(* A command: alembic upgrade or downgrade to a target.                      *)

MigrationInit ==
    /\ dialect \in Dialects
    /\ db = EmptyDb
    /\ job = NoJob
    /\ saved = EmptyDb
    /\ torn = {}
    /\ failure = NoFailure

(* The migration the command is at: the next one up or the last one applied. *)
Up == job.target > db.version
Current == IF Up THEN db.version + 1 ELSE db.version

BeginCommand(target) ==
    /\ job.pc = "idle"
    /\ target # db.version
    /\ job' = [NoJob EXCEPT !.pc = "between", !.target = target]
    /\ failure' = NoFailure
    /\ UNCHANGED <<dialect, db, saved, torn>>

(* The next migration's function inspects the database and plans its         *)
(* statements.                                                               *)
NextMigration ==
    /\ job.pc = "between"
    /\ job.target # db.version
    /\ job' = [job EXCEPT !.pc = "running",
                          !.plan = IF Up THEN Upgrade(Current) ELSE Downgrade(Current)]
    /\ UNCHANGED <<dialect, db, saved, torn, failure>>

Statement == job.plan[job.done + 1]

RunStatement ==
    /\ job.pc = "running" /\ job.done < Len(job.plan)
    /\ Accepted(db, Statement)
    /\ ~Refused(db, Statement)
    /\ db' = Effect(db, Statement)
    /\ LET open == job.open \/ Statement.rows \notin {"unchanged", "keep_history"}
       IN  /\ saved' = IF dialect = "sqlite" /\ ~open THEN db' ELSE saved
           /\ job' = [job EXCEPT !.done = @ + 1, !.open = open,
                                 !.began = @ \/ saved' # saved]
    /\ UNCHANGED <<dialect, torn, failure>>

(* The version stamp ends the migration, and on SQLite commits it.           *)
Stamp ==
    /\ job.pc = "running" /\ job.done = Len(job.plan)
    /\ db' = [db EXCEPT !.version = IF Up THEN Current ELSE Current - 1]
    /\ saved' = IF dialect = "sqlite" THEN db' ELSE saved
    /\ job' = [NoJob EXCEPT !.pc = "between", !.target = job.target]
    /\ UNCHANGED <<dialect, torn, failure>>

FinishCommand ==
    /\ job.pc = "between"
    /\ job.target = db.version
    /\ job' = NoJob
    /\ saved' = db
    /\ torn' = IF db.tables = {} THEN {} ELSE torn
    /\ UNCHANGED <<dialect, db, failure>>

(* The command ends before its last statement and what is durable remains.   *)
Abandon ==
    /\ db' = saved
    /\ torn' = IF job.began THEN torn \cup {Current} ELSE torn
    /\ job' = NoJob
    /\ UNCHANGED <<dialect, saved>>

StatementFails ==
    /\ job.pc = "running" /\ job.done < Len(job.plan)
    /\ ~Accepted(db, Statement) \/ Refused(db, Statement)
    /\ failure' = [migration |-> Current, up |-> Up, refused |-> Accepted(db, Statement),
                   afterTorn |-> torn]
    /\ Abandon

(* The process running the command dies.                                     *)
Crash ==
    /\ job.pc # "idle"
    /\ UNCHANGED failure
    /\ Abandon

----------------------------------------------------------------------------
(* The application between commands: the release that fits the version. The  *)
(* releases before 0005 and 0006 kept no revisions (external: only the       *)
(* current one is in the repository).                                        *)

InUse == job.pc = "idle" /\ torn = {} /\ db.version > 0

LastTime == {d.at : d \in db.decisions}

Decide(id, at) ==
    /\ InUse
    /\ id \notin {d.id : d \in db.decisions}
    /\ \A t \in LastTime : t <= at
    /\ LET numbered == db.version >= 5
           revision == IF numbered THEN db.candidate + 1 ELSE 0
       IN  db' = [db EXCEPT !.decisions = @ \cup {[id |-> id, at |-> at, revision |-> revision]},
                            !.candidate = revision]
    /\ saved' = db'
    /\ UNCHANGED <<dialect, job, torn, failure>>

(* The note is stripped and may not be empty; the older release wrote what   *)
(* it was given.                                                             *)
Resolve(note) ==
    /\ InUse
    /\ NoteColumn \in db.parts
    /\ db.version = Head6 => note = "text" /\ db.record < MaxResolutions
    /\ db' = IF db.version = Head6
             THEN [db EXCEPT !.note = note, !.record = @ + 1,
                             !.resolutions = @ \cup {[revision |-> db.record + 1, imported |-> FALSE]}]
             ELSE [db EXCEPT !.note = note]
    /\ saved' = db'
    /\ UNCHANGED <<dialect, job, torn, failure>>

MigrationNext ==
    \/ \E target \in 0..Head6 : BeginCommand(target)
    \/ NextMigration
    \/ RunStatement
    \/ Stamp
    \/ FinishCommand
    \/ StatementFails
    \/ Crash
    \/ \E id \in Ids, at \in Times : Decide(id, at)
    \/ \E note \in {"blank", "text"} : Resolve(note)

MigrationSpec == MigrationInit /\ [][MigrationNext]_migrationVars

----------------------------------------------------------------------------
(* Properties.                                                               *)

(* What a command leaves is what its version stands for: the head is exactly *)
(* the schema the models declare, whatever upgrades and downgrades led to it *)
(* on either database (0001's docstring: fresh databases and upgrades take   *)
(* the same path), and the base is an empty database.                        *)
SchemaMatchesVersion ==
    (job.pc = "idle" /\ torn = {}) =>
        /\ db.version = Head6 => db.tables = Models /\ db.parts = ModelParts
        /\ db.version = 0 => db.tables = {} /\ db.parts = {}

(* Every table a foreign key refers to exists, after every statement of      *)
(* every migration and after an interruption: nothing is created before what *)
(* it refers to, nothing dropped before what refers to it (SQLite would not  *)
(* object).                                                                  *)
ReferencesHold == \A t \in db.tables : t.refs \subseteq Names(db)

(* A migration fails only where 0006 refuses to discard resolutions, or on   *)
(* SQLite after 0001, 0005 or 0006 was interrupted: 0002 to 0004 check what  *)
(* is there and can simply be repeated, a rollback leaves nothing, and the   *)
(* way down from 0004 never fails (downgrade-to-base remains supported).     *)
FailureExplained ==
    /\ torn # {} => torn \cap {1, 5, 6} # {}
    /\ failure # NoFailure =>
         \/ failure.refused /\ failure.migration = 6
         \/ failure.afterTorn # {} /\ (~failure.up => failure.migration \in {5, 6})

(* From 0005 on the decisions of the candidate are numbered 1 up to its      *)
(* revision in the order of their times; from 0006 on the resolutions of the *)
(* record likewise, only the first may be imported, and a record without any *)
(* has no note that was left out.                                            *)
HistoryNumbered ==
    (job.pc = "idle" /\ torn = {}) =>
        /\ db.version >= 5 =>
             /\ {d.revision : d \in db.decisions} = 1..db.candidate
             /\ Cardinality(db.decisions) = db.candidate
             /\ \A d, e \in db.decisions : d.revision < e.revision => d.at <= e.at
        /\ db.version = 6 =>
             /\ {r.revision : r \in db.resolutions} = 1..db.record
             /\ Cardinality(db.resolutions) = db.record
             /\ \A r \in db.resolutions : r.imported => r.revision = 1
             /\ db.record = 0 => db.note # "text"

(* No command loses review history: a decision goes only with the table      *)
(* itself (down to the base), a resolution recorded since 0006 never, and an *)
(* imported one only while its text is still on the record.                  *)
HistorySurvives ==
    [][ /\ "match_decisions" \in Names(db') =>
             {d.id : d \in db.decisions} \subseteq {d.id : d \in db'.decisions}
        /\ \A r \in db.resolutions \ db'.resolutions : r.imported /\ db'.note = "text"
      ]_db
=============================================================================

-------------------------- MODULE MigrationsProofs --------------------------
(***************************************************************************)
(* Whatever upgrades, downgrades and interruptions a database has been     *)
(* through, what its version promises is there.  The argument: every plan, *)
(* in whatever state of the schema its migration may start from, can be    *)
(* run to its end, and leads to the schema of the next version (Start,     *)
(* PlanStart); what is durable is such a state too unless a migration was  *)
(* interrupted (SchemaInv), and what an interruption leaves holds no half  *)
(* of the history (SurvivalInv).                                           *)
(***************************************************************************)
EXTENDS Migrations, FiniteSetTheorems, SequenceTheorems, TLAPS

-----------------------------------------------------------------------------
Temps == {Table(Temporary[table], {}) : table \in DOMAIN Temporary}
Known == Models \cup Temps

RowChanges == {"unchanged", "copied", "rank_decisions", "count_decisions", "import_note",
               "revise_records", "keep_history"}

StatementType == [add : SUBSET Known, drop : SUBSET {t.name : t \in Known}, gain : SUBSET ModelParts,
                  lose : SUBSET ModelParts, rows : RowChanges]

DecisionType == [id : Ids, at : Times, revision : Nat]

DbType == [version : 0..Head6, tables : SUBSET Known, parts : SUBSET ModelParts,
           decisions : SUBSET DecisionType, candidate : Nat, note : {"none", "blank", "text"},
           record : Nat, resolutions : SUBSET [revision : Nat, imported : BOOLEAN]]

JobType == [pc : {"idle", "between", "running"}, target : 0..Head6, plan : Seq(StatementType),
            done : Nat, open : BOOLEAN, began : BOOLEAN]

\* Nothing is left of what a missing table or column held.
Normal(d) ==
    /\ "match_decisions" \notin Names(d) => d.decisions = {}
    /\ DecisionRevision \notin d.parts => \A e \in d.decisions : e.revision = 0
    /\ CandidateRevision \notin d.parts => d.candidate = 0
    /\ NoteColumn \notin d.parts => d.note = "none"
    /\ RecordRevision \notin d.parts => d.record = 0
    /\ "quarantine_resolutions" \notin Names(d) => d.resolutions = {}

WellTyped(d) == d \in DbType /\ IsFiniteSet(d.decisions)

\* Between two migrations nothing is left of the last one.
Stopped(j) == j = [pc |-> j.pc, target |-> j.target, plan |-> <<>>, done |-> 0,
                   open |-> FALSE, began |-> FALSE]

-----------------------------------------------------------------------------

\* The tables in use: their references are to the baseline's, and a name is
\* the name of one table.
KnownFacts ==
    /\ \A t \in Known : t = [name |-> t.name, refs |-> t.refs] /\ t.refs \subseteq Created
    /\ \A t, u \in Known : t.name = u.name => t = u
    /\ \A i \in DOMAIN Baseline : Baseline[i] \in Known /\ Baseline[i].name \in Created
    /\ \A t \in Temps : t.name \notin Created \cup {"quarantine_resolutions"} /\ t.refs = {}
    /\ \A t \in Models : t.name \in Created \/ t.name = "quarantine_resolutions"
    /\ \A t \in Models : t.name # "quarantine_resolutions" => t \in Range(Baseline)

LEMMA TablesKnown == KnownFacts
  <1> USE SchemaAssumption
  <1> DEFINE Q == OwnedAnd("quarantine_resolutions", {"quarantine_records", "raw_snapshots"})
             IsTable(t) == t = [name |-> t.name, refs |-> t.refs] /\ t.refs \subseteq Created
  <1>1. Q = [name |-> "quarantine_resolutions",
             refs |-> {"organizations", "quarantine_records", "raw_snapshots"}]
    BY DEF OwnedAnd, Table
  <1>2. Models = Range(Baseline) \cup {Q}
    BY Zenon
  <1>3. /\ Baseline \in Seq([name : STRING, refs : SUBSET STRING])
        /\ "quarantine_resolutions" \notin Created
    BY Zenon
  <1>4. IsTable(Q) /\ Q.name = "quarantine_resolutions"
    <2>1. {"organizations", "quarantine_records", "raw_snapshots"} \subseteq Created
      BY Zenon
    <2> QED
      BY <1>1, <2>1
  <1> HIDE DEF Q
  <1>5. \A t \in Range(Baseline) : \E i \in DOMAIN Baseline : t = Baseline[i]
    BY DEF Range
  <1>6. ASSUME NEW i \in DOMAIN Baseline
        PROVE  /\ Baseline[i] \in Range(Baseline) /\ Baseline[i].name \in Created
               /\ IsTable(Baseline[i])
    <2>1. DOMAIN Baseline = 1..Len(Baseline) /\ Len(Baseline) \in Nat
      BY <1>3, LenProperties, Zenon
    <2>2. Baseline[i] \in [name : STRING, refs : SUBSET STRING]
      BY <1>3, <2>1, ElementOfSeq, Zenon
    <2>3. Baseline[i] \in Range(Baseline) /\ Baseline[i].name \in Created
      BY Zenon DEF Range, Created
    <2>4. 1..(i - 1) \subseteq DOMAIN Baseline
      BY <2>1
    <2>5. {Baseline[j].name : j \in 1..(i - 1)} \subseteq Created
      BY <2>4, ZenonT(60) DEF Created
    <2>6. Baseline[i].refs \subseteq {Baseline[j].name : j \in 1..(i - 1)}
      BY Zenon
    <2> QED
      BY <2>2, <2>3, <2>5, <2>6
  <1>7. \A t \in Range(Baseline) : t.name \in Created /\ IsTable(t)
    BY <1>5, <1>6
  <1>8. \A t, u \in Range(Baseline) : t.name = u.name => t = u
    <2>1. \A i, j \in DOMAIN Baseline : Baseline[i].name = Baseline[j].name => i = j
      BY Zenon
    <2> QED
      BY <1>5, <2>1
  <1>9. ASSUME NEW t \in Temps
        PROVE  /\ t.name \notin Created \cup {"quarantine_resolutions"}
               /\ t.refs = {} /\ IsTable(t) /\ t = Table(t.name, {})
    <2>1. \A table \in DOMAIN Temporary : Temporary[table] \notin Created \cup {"quarantine_resolutions"}
      BY Zenon
    <2>2. PICK table \in DOMAIN Temporary : t = [name |-> Temporary[table], refs |-> {}]
      BY DEF Temps, Table
    <2>3. t.name = Temporary[table] /\ t.refs = {} /\ t = [name |-> t.name, refs |-> {}]
      BY <2>2
    <2> QED
      BY <2>1, <2>3 DEF Table
  <1>10. \A t, u \in Temps : t.name = u.name => t = u
    BY <1>9
  <1>11. ASSUME NEW t \in Models
         PROVE  /\ IsTable(t)
                /\ \/ t \in Range(Baseline) /\ t.name \in Created
                   \/ t = Q /\ t.name = "quarantine_resolutions"
    <2>1. CASE t \in Range(Baseline)
      BY <1>7, <2>1
    <2>2. CASE t = Q
      BY <1>4, <2>2
    <2> QED
      BY <1>2, <2>1, <2>2
  <1>12. \A t, u \in Models : t.name = u.name => t = u
    BY <1>3, <1>8, <1>11
  <1>13. \A t \in Models, u \in Temps : t.name # u.name
    BY <1>9, <1>11
  <1>14. \A t, u \in Known : t.name = u.name => t = u
    BY <1>10, <1>12, <1>13 DEF Known
  <1>15. \A t \in Known : IsTable(t)
    BY <1>9, <1>11 DEF Known
  <1>16. \A i \in DOMAIN Baseline : Baseline[i] \in Known
    BY <1>2, <1>6 DEF Known
  <1> QED
    BY <1>3, <1>6, <1>9, <1>11, <1>14, <1>15, <1>16 DEF KnownFacts

-----------------------------------------------------------------------------
(* What a statement does, column by column.                                *)

Ranked(d, rows) ==
    IF rows = "rank_decisions"
    THEN {[e EXCEPT !.revision = Rank(e, d.decisions)] : e \in d.decisions} ELSE d.decisions

Unnumbered(decisions) == {[e EXCEPT !.revision = 0] : e \in decisions}

Counted(d, rows) == IF rows = "count_decisions" THEN Cardinality(d.decisions) ELSE d.candidate

Revised(d, rows) == IF rows = "revise_records" /\ d.resolutions # {} THEN 1 ELSE d.record

Resolved6(d, rows) == IF rows = "import_note" THEN Imported(d.note) ELSE d.resolutions

Columns(d, e, rows) ==
    /\ e.decisions = IF "match_decisions" \notin Names(e) THEN {}
                     ELSE IF DecisionRevision \in e.parts THEN Ranked(d, rows)
                     ELSE Unnumbered(Ranked(d, rows))
    /\ e.candidate = IF CandidateRevision \in e.parts THEN Counted(d, rows) ELSE 0
    /\ e.note = IF NoteColumn \in e.parts THEN d.note ELSE "none"
    /\ e.record = IF RecordRevision \in e.parts THEN Revised(d, rows) ELSE 0
    /\ e.resolutions = IF "quarantine_resolutions" \in Names(e) THEN Resolved6(d, rows) ELSE {}

EffectFacts(d, s, e) ==
    /\ e.version = d.version
    /\ e.tables = {t \in d.tables : t.name \notin s.drop} \cup s.add
    /\ e.parts = {p \in d.parts : p[1] \notin s.drop /\ p \notin s.lose} \cup s.gain
    /\ Columns(d, e, s.rows)

Fields(d) == d = [version |-> d.version, tables |-> d.tables, parts |-> d.parts,
                  decisions |-> d.decisions, candidate |-> d.candidate, note |-> d.note,
                  record |-> d.record, resolutions |-> d.resolutions]

LEMMA EffectIs ==
  ASSUME NEW d, Fields(d), NEW s
  PROVE  EffectFacts(d, s, Effect(d, s)) /\ Fields(Effect(d, s))
  <1> DEFINE tables == {t \in d.tables : t.name \notin s.drop} \cup s.add
             parts == {p \in d.parts : p[1] \notin s.drop /\ p \notin s.lose} \cup s.gain
             altered == [d EXCEPT !.tables = tables, !.parts = parts]
             rows == Rows(altered, s.rows)
             e == Effect(d, s)
  <1> HIDE DEF tables, parts, e
  <1>1. altered = [version |-> d.version, tables |-> tables, parts |-> parts,
                   decisions |-> d.decisions, candidate |-> d.candidate, note |-> d.note,
                   record |-> d.record, resolutions |-> d.resolutions]
    <2>1. altered \in [version : {d.version}, tables : {tables}, parts : {parts},
                       decisions : {d.decisions}, candidate : {d.candidate}, note : {d.note},
                       record : {d.record}, resolutions : {d.resolutions}]
      BY DEF Fields
    <2> HIDE DEF altered
    <2> QED
      BY <2>1
  <1>2. e = Kept(rows)
    BY Zenon DEF Effect, e, tables, parts
  <1> HIDE DEF altered
  <1>3. rows = [version |-> d.version, tables |-> tables, parts |-> parts,
                decisions |-> Ranked(d, s.rows), candidate |-> Counted(d, s.rows),
                note |-> d.note, record |-> Revised(d, s.rows),
                resolutions |-> Resolved6(d, s.rows)]
    <2>1. CASE s.rows = "rank_decisions"
      BY <1>1, <2>1 DEF Rows, Ranked, Counted, Revised, Resolved6
    <2>2. CASE s.rows = "count_decisions"
      BY <1>1, <2>2 DEF Rows, Ranked, Counted, Revised, Resolved6
    <2>3. CASE s.rows = "import_note"
      BY <1>1, <2>3 DEF Rows, Ranked, Counted, Revised, Resolved6
    <2>4. CASE s.rows = "revise_records"
      BY <1>1, <2>4 DEF Rows, Ranked, Counted, Revised, Resolved6
    <2>5. CASE s.rows \notin {"rank_decisions", "count_decisions", "import_note", "revise_records"}
      BY <1>1, <2>5 DEF Rows, Ranked, Counted, Revised, Resolved6
    <2> QED
      BY <2>1, <2>2, <2>3, <2>4, <2>5
  <1> HIDE DEF rows
  <1>4. Fields(e) /\ e.version = d.version /\ e.tables = tables /\ e.parts = parts
    BY <1>2, <1>3 DEF Kept, Fields
  <1>5. Names(e) = Names(rows) /\ e.parts = rows.parts
    BY <1>3, <1>4 DEF Names
  <1>6. Columns(d, e, s.rows)
    <2>1. e.decisions = IF "match_decisions" \notin Names(rows) THEN {}
                        ELSE IF DecisionRevision \in rows.parts THEN Ranked(d, s.rows)
                        ELSE Unnumbered(Ranked(d, s.rows))
      BY <1>2, <1>3 DEF Kept, Unnumbered
    <2>2. /\ e.candidate = IF CandidateRevision \in rows.parts THEN Counted(d, s.rows) ELSE 0
          /\ e.note = IF NoteColumn \in rows.parts THEN d.note ELSE "none"
          /\ e.record = IF RecordRevision \in rows.parts THEN Revised(d, s.rows) ELSE 0
          /\ e.resolutions = IF "quarantine_resolutions" \in Names(rows)
                             THEN Resolved6(d, s.rows) ELSE {}
      BY <1>2, <1>3 DEF Kept
    <2> QED
      BY <1>5, <2>1, <2>2 DEF Columns
  <1> QED
    BY <1>4, <1>6 DEF EffectFacts, tables, parts, e

\* The decisions after a renumbering are the same decisions.
SameDecisions(old, new) ==
    /\ new \subseteq DecisionType /\ IsFiniteSet(new)
    /\ \A e \in new : \E o \in old : o.id = e.id /\ o.at = e.at
    /\ \A o \in old : \E e \in new : o.id = e.id /\ o.at = e.at

LEMMA RankIsNat ==
  ASSUME NEW decisions, IsFiniteSet(decisions), NEW e
  PROVE  Rank(e, decisions) \in Nat
  <1>1. {x \in decisions : x.at < e.at \/ (x.at = e.at /\ x.id <= e.id)} \subseteq decisions
    OBVIOUS
  <1> QED
    BY <1>1, FS_Subset, FS_CardinalityType DEF Rank

LEMMA RankedSame ==
  ASSUME NEW d, d.decisions \subseteq DecisionType, IsFiniteSet(d.decisions), NEW rows
  PROVE  SameDecisions(d.decisions, Ranked(d, rows))
  <1> DEFINE S == d.decisions
             R == {[e EXCEPT !.revision = Rank(e, S)] : e \in S}
             f == [e \in S |-> [e EXCEPT !.revision = Rank(e, S)]]
  <1>1. f \in Surjection(S, R)
    BY Zenon DEF Surjection
  <1>2. IsFiniteSet(R)
    BY <1>1, FS_Surjection
  <1>3. \A e \in S : Rank(e, S) \in Nat
    BY RankIsNat
  <1>4. \A e \in S : /\ [e EXCEPT !.revision = Rank(e, S)] \in DecisionType
                     /\ [e EXCEPT !.revision = Rank(e, S)].id = e.id
                     /\ [e EXCEPT !.revision = Rank(e, S)].at = e.at
    BY <1>3 DEF DecisionType
  <1>5. SameDecisions(S, R)
    BY <1>2, <1>4 DEF SameDecisions
  <1>6. SameDecisions(S, S)
    BY DEF SameDecisions
  <1> QED
    BY <1>5, <1>6 DEF Ranked

LEMMA UnnumberedSame ==
  ASSUME NEW S, S \subseteq DecisionType, IsFiniteSet(S)
  PROVE  SameDecisions(S, Unnumbered(S)) /\ \A e \in Unnumbered(S) : e.revision = 0
  <1> DEFINE f == [e \in S |-> [e EXCEPT !.revision = 0]]
  <1>1. f \in Surjection(S, Unnumbered(S))
    BY Zenon DEF Surjection, Unnumbered
  <1>2. IsFiniteSet(Unnumbered(S))
    BY <1>1, FS_Surjection
  <1>3. \A e \in S : /\ [e EXCEPT !.revision = 0] \in DecisionType
                     /\ [e EXCEPT !.revision = 0].id = e.id
                     /\ [e EXCEPT !.revision = 0].at = e.at
                     /\ [e EXCEPT !.revision = 0].revision = 0
    BY DEF DecisionType
  <1> QED
    BY <1>2, <1>3 DEF SameDecisions, Unnumbered

LEMMA SameSame ==
  ASSUME NEW R, NEW S, NEW T, SameDecisions(R, S), SameDecisions(S, T)
  PROVE  SameDecisions(R, T)
  BY DEF SameDecisions

LEMMA EffectTyped ==
  ASSUME NEW d, WellTyped(d), NEW s \in StatementType
  PROVE  /\ WellTyped(Effect(d, s)) /\ Normal(Effect(d, s)) /\ EffectFacts(d, s, Effect(d, s))
         /\ "match_decisions" \in Names(Effect(d, s)) =>
                SameDecisions(d.decisions, Effect(d, s).decisions)
  <1> DEFINE e == Effect(d, s)
  <1>1. Fields(d) /\ d.decisions \subseteq DecisionType /\ IsFiniteSet(d.decisions)
    BY DEF WellTyped, DbType, Fields
  <1>2. EffectFacts(d, s, e) /\ Fields(e)
    BY <1>1, EffectIs
  <1> HIDE DEF e
  <1>3. SameDecisions(d.decisions, Ranked(d, s.rows))
    BY <1>1, RankedSame
  <1>4. /\ SameDecisions(d.decisions, Unnumbered(Ranked(d, s.rows)))
        /\ \A x \in Unnumbered(Ranked(d, s.rows)) : x.revision = 0
    <2>1. Ranked(d, s.rows) \subseteq DecisionType /\ IsFiniteSet(Ranked(d, s.rows))
      BY <1>3 DEF SameDecisions
    <2> QED
      BY <1>3, <2>1, UnnumberedSame, SameSame
  <1>5. /\ IF "match_decisions" \in Names(e) THEN SameDecisions(d.decisions, e.decisions)
           ELSE e.decisions = {}
        /\ DecisionRevision \notin e.parts => \A x \in e.decisions : x.revision = 0
    BY <1>2, <1>3, <1>4 DEF EffectFacts, Columns
  <1>6. e.decisions \subseteq DecisionType /\ IsFiniteSet(e.decisions)
    BY <1>5, FS_EmptySet DEF SameDecisions
  <1>7. Normal(e)
    BY <1>2, <1>5 DEF EffectFacts, Columns, Normal
  <1>8. Cardinality(d.decisions) \in Nat
    BY <1>1, FS_CardinalityType
  <1>9. /\ Counted(d, s.rows) \in Nat /\ Revised(d, s.rows) \in Nat
        /\ Resolved6(d, s.rows) \subseteq [revision : Nat, imported : BOOLEAN]
    <2>1. Imported(d.note) \subseteq [revision : Nat, imported : BOOLEAN]
      <3>1. [revision |-> 1, imported |-> TRUE] \in [revision : Nat, imported : BOOLEAN]
        OBVIOUS
      <3> QED
        BY <3>1, Zenon DEF Imported
    <2>2. /\ d.candidate \in Nat /\ d.record \in Nat
          /\ d.resolutions \subseteq [revision : Nat, imported : BOOLEAN]
      BY DEF WellTyped, DbType
    <2> QED
      BY <1>8, <2>1, <2>2, Zenon DEF Counted, Revised, Resolved6
  <1>10. /\ e.candidate \in Nat /\ e.record \in Nat /\ e.note \in {"none", "blank", "text"}
         /\ e.resolutions \subseteq [revision : Nat, imported : BOOLEAN]
    BY <1>2, <1>9 DEF EffectFacts, Columns, WellTyped, DbType
  <1>11. e.version \in 0..Head6 /\ e.tables \subseteq Known /\ e.parts \subseteq ModelParts
    BY <1>2 DEF EffectFacts, WellTyped, DbType, StatementType
  <1>12. e \in DbType
    BY <1>2, <1>6, <1>10, <1>11 DEF Fields, DbType
  <1> QED
    BY <1>2, <1>5, <1>6, <1>7, <1>12 DEF WellTyped, e

-----------------------------------------------------------------------------
(* What each migration plans.                                              *)

DecisionParts == {DecisionRevision} \cup DecisionKeys
CandidateParts == {CandidateRevision} \cup CandidateKeys
RecordParts == {RecordRevision} \cup RecordKeys

\* The columns and keys a migration is about.
PartsAt(n) == CASE n \in 1..4 -> BaselineParts
                [] n = 5 -> DecisionParts \cup CandidateParts
                [] n = 6 -> RecordParts

\* Only the base is left with tables that have columns of the migrations,
\* on SQLite with any table but the one of 0006; only 0006 creates that.
Shape(dia, up, n, s) ==
    /\ up => s.lose = {} /\ s.gain \subseteq PartsAt(n)
    /\ ~up => s.gain = {} /\ s.lose \subseteq PartsAt(n)
    /\ up \/ n # 1 => \A p \in ModelParts : p[1] \notin s.drop
    /\ (up \/ n # 1) /\ dia = "sqlite" => s.drop \cap Created = {}
    /\ ~up \/ n # 6 => \A t \in s.add : t.name # "quarantine_resolutions"
    /\ n \notin {5, 6} => s.rows \in {"unchanged", "copied"}
    /\ s.add = {} \/ s.drop = {}

PlanType(dia, up, n) == {s \in StatementType : Shape(dia, up, n, s)}

\* A batch at the given place of a plan.
BatchAt(dia, plan, i, table, gain, lose) ==
    IF dia = "sqlite"
    THEN /\ plan[i] = CreateTable(Table(Temporary[table], {}), {})
         /\ plan[i + 1] = [Nothing EXCEPT !.gain = gain, !.lose = lose,
                                          !.drop = {Temporary[table]}, !.rows = "copied"]
    ELSE plan[i] = [Nothing EXCEPT !.gain = gain, !.lose = lose]

BatchLen(dia) == IF dia = "sqlite" THEN 2 ELSE 1

Plan5Up(dia, plan) ==
    /\ Len(plan) = 4 + 2 * BatchLen(dia)
    /\ plan[1] = Add({CandidateRevision}) /\ plan[2] = Add({DecisionRevision})
    /\ plan[3] = Execute("rank_decisions") /\ plan[4] = Execute("count_decisions")
    /\ BatchAt(dia, plan, 5, "match_candidates", CandidateKeys, {})
    /\ BatchAt(dia, plan, 5 + BatchLen(dia), "match_decisions", DecisionKeys, {})

Plan5Down(dia, plan) ==
    /\ Len(plan) = 2 * BatchLen(dia)
    /\ BatchAt(dia, plan, 1, "match_decisions", {}, DecisionKeys \cup {DecisionRevision})
    /\ BatchAt(dia, plan, 1 + BatchLen(dia), "match_candidates", {},
               CandidateKeys \cup {CandidateRevision})

Plan6Up(dia, plan) ==
    /\ Len(plan) = BatchLen(dia) + 3
    /\ BatchAt(dia, plan, 1, "quarantine_records", {RecordRevision} \cup RecordKeys, {})
    /\ plan[BatchLen(dia) + 1] =
           CreateTable(OwnedAnd("quarantine_resolutions", {"quarantine_records", "raw_snapshots"}), {})
    /\ plan[BatchLen(dia) + 2] = Execute("import_note")
    /\ plan[BatchLen(dia) + 3] = Execute("revise_records")

Plan6Down(dia, plan) ==
    /\ Len(plan) = 2 + BatchLen(dia)
    /\ plan[1] = Execute("keep_history") /\ plan[2] = DropTable("quarantine_resolutions")
    /\ BatchAt(dia, plan, 3, "quarantine_records", {}, RecordKeys \cup {RecordRevision})

Planned(dia, up, n, plan) ==
    /\ plan \in Seq(PlanType(dia, up, n))
    /\ n = 5 => IF up THEN Plan5Up(dia, plan) ELSE Plan5Down(dia, plan)
    /\ n = 6 => IF up THEN Plan6Up(dia, plan) ELSE Plan6Down(dia, plan)

LEMMA PlanIs ==
  ASSUME NEW S, NEW n \in Nat, NEW plan \in [1..n -> S]
  PROVE  plan \in Seq(S) /\ Len(plan) = n
  BY SeqDef

LEMMA ConcatIs ==
  ASSUME NEW S, NEW p \in Seq(S), NEW q \in Seq(S)
  PROVE  /\ p \o q \in Seq(S) /\ Len(p \o q) = Len(p) + Len(q)
         /\ \A i \in 1..Len(p) : (p \o q)[i] = p[i]
         /\ \A i \in 1..Len(q) : (p \o q)[Len(p) + i] = q[i]
  BY ConcatProperties, LenProperties

\* Which parts belong together, and to which table.
PartFacts ==
    /\ \A n \in 1..Head6 : PartsAt(n) \subseteq ModelParts
    /\ ModelParts = BaselineParts \cup DecisionParts \cup CandidateParts \cup RecordParts
    /\ \A p \in DecisionParts : p[1] = "match_decisions"
    /\ \A p \in CandidateParts : p[1] = "match_candidates"
    /\ \A p \in RecordParts : p[1] = "quarantine_records"
    /\ ContentKey[1] = "raw_snapshots" /\ ContentKey \in BaselineParts
    /\ NoteColumn[1] = "quarantine_records" /\ NoteColumn \in BaselineParts
    /\ BaselineParts \cap (DecisionParts \cup CandidateParts \cup RecordParts) = {}
    /\ DecisionParts \cap CandidateParts = {} /\ RecordParts \cap (DecisionParts \cup CandidateParts) = {}
    /\ DecisionRevision \notin DecisionKeys /\ CandidateRevision \notin CandidateKeys
    /\ RecordRevision \notin RecordKeys /\ DecisionKeys # {}
    /\ RunParts \in Seq(BaselineParts) /\ OutcomeParts \in Seq(BaselineParts)
    /\ \A p \in Range(RunParts) : p[1] \in {"ingestion_runs", "raw_snapshots"}
    /\ \A p \in Range(OutcomeParts) : p[1] = "quarantine_records"
    /\ Len(RunParts) = 6 /\ Len(OutcomeParts) = 7 /\ RunParts[6] = ContentKey
    /\ RunColumns \in Seq(BaselineParts) /\ OutcomeColumns \in Seq(BaselineParts)
    /\ Len(RunColumns) = 4 /\ Len(OutcomeColumns) = 5

LEMMA PartsAre == PartFacts
  <1> DEFINE R1 == <<"ingestion_runs", "resume_from_run_id">>
             R2 == <<"ingestion_runs", "attempt_number">>
             R3 == <<"ingestion_runs", "failure_code">>
             R4 == <<"ingestion_runs", "failure_summary">>
             O1 == <<"quarantine_records", "waiver_reason">>
             O2 == <<"quarantine_records", "resolution_note">>
             O3 == <<"quarantine_records", "resolved_at">>
             O4 == <<"quarantine_records", "supersedes_quarantine_id">>
             O5 == <<"quarantine_records", "corrected_snapshot_id">>
             O6 == <<"quarantine_records", "fk_supersedes_quarantine_id">>
             O7 == <<"quarantine_records", "fk_corrected_snapshot_id">>
  <1>1. RunColumns = <<R1, R2, R3, R4>>
    BY DEF RunColumns, PartsOf
  <1>2. OutcomeColumns = <<O1, O2, O3, O4, O5>>
    BY DEF OutcomeColumns, PartsOf
  <1>3. OutcomeKeys = <<O6, O7>>
    BY DEF OutcomeKeys, PartsOf
  <1> DEFINE R == <<R1, R2, R3, R4, RunKey, ContentKey>>
             O == <<O1, O2, O3, O4, O5, O6, O7>>
             Run == {R1, R2, R3, R4, RunKey, ContentKey}
             Outcome == {O1, O2, O3, O4, O5, O6, O7}
  <1> HIDE DEF R1, R2, R3, R4, O1, O2, O3, O4, O5, O6, O7
  <1>4. RunParts = R /\ R \in Seq(Run)
    <2> DEFINE c == <<R1, R2, R3, R4>>
               k == <<RunKey, ContentKey>>
    <2>1. c \in Seq(Run) /\ Len(c) = 4 /\ k \in Seq(Run) /\ Len(k) = 2 /\ R \in Seq(Run) /\ Len(R) = 6
      OBVIOUS
    <2>2. c \o k \in Seq(Run) /\ Len(c \o k) = 6
          /\ \A i \in 1..6 : (c \o k)[i] = IF i <= 4 THEN c[i] ELSE k[i - 4]
      BY <2>1, ConcatProperties
    <2>3. \A i \in 1..6 : (c \o k)[i] = R[i]
      BY <2>2
    <2>4. c \o k = R
      BY <2>1, <2>2, <2>3, SeqEqual
    <2> QED
      BY <1>1, <2>1, <2>4, Zenon DEF RunParts
  <1>5. OutcomeParts = O /\ O \in Seq(Outcome)
    <2> DEFINE c == <<O1, O2, O3, O4, O5>>
               k == <<O6, O7>>
    <2>1. c \in Seq(Outcome) /\ Len(c) = 5 /\ k \in Seq(Outcome) /\ Len(k) = 2
          /\ O \in Seq(Outcome) /\ Len(O) = 7
      OBVIOUS
    <2>2. c \o k \in Seq(Outcome) /\ Len(c \o k) = 7
          /\ \A i \in 1..7 : (c \o k)[i] = IF i <= 5 THEN c[i] ELSE k[i - 5]
      BY <2>1, ConcatProperties
    <2>3. \A i \in 1..7 : (c \o k)[i] = O[i]
      BY <2>2
    <2>4. c \o k = O
      BY <2>1, <2>2, <2>3, SeqEqual
    <2> QED
      BY <1>2, <1>3, <2>1, <2>4, Zenon DEF OutcomeParts
  <1>6. Range(R) = Run /\ Range(O) = Outcome
    BY DEF Range
  <1>7. BaselineParts = Run \cup Outcome
    BY <1>4, <1>5, <1>6, Zenon DEF BaselineParts
  <1>8. /\ DecisionKeys = {<<"match_decisions", "ck_match_decision_revision">>,
                           <<"match_decisions", "uq_match_decision_revision">>}
        /\ CandidateKeys = {<<"match_candidates", "ck_match_candidate_revision">>,
                            <<"match_candidates", "ix_match_queue">>}
        /\ RecordKeys = {<<"quarantine_records", "ck_quarantine_revision">>,
                         <<"quarantine_records", "ix_quarantine_queue">>}
    BY DEF DecisionKeys, CandidateKeys, RecordKeys, PartsOf, Range
  <1>9. ModelParts = BaselineParts \cup DecisionParts \cup CandidateParts \cup RecordParts
    BY DEF ModelParts, DecisionParts, CandidateParts, RecordParts
  <1>10. /\ \A p \in DecisionParts : p[1] = "match_decisions"
         /\ \A p \in CandidateParts : p[1] = "match_candidates"
         /\ \A p \in RecordParts : p[1] = "quarantine_records"
    BY <1>8 DEF DecisionParts, CandidateParts, RecordParts, DecisionRevision, CandidateRevision,
                RecordRevision
  <1>11. /\ \A p \in Run : p[1] \in {"ingestion_runs", "raw_snapshots"}
         /\ \A p \in Outcome : p[1] = "quarantine_records"
    BY DEF R1, R2, R3, R4, O1, O2, O3, O4, O5, O6, O7, RunKey, ContentKey
  <1>12. Outcome \cap RecordParts = {}
    BY <1>8 DEF RecordParts, RecordRevision, O1, O2, O3, O4, O5, O6, O7
  <1>13. BaselineParts \cap (DecisionParts \cup CandidateParts \cup RecordParts) = {}
    BY <1>7, <1>10, <1>11, <1>12
  <1>14. /\ DecisionParts \cap CandidateParts = {}
         /\ RecordParts \cap (DecisionParts \cup CandidateParts) = {}
    BY <1>10
  <1>15. /\ DecisionRevision \notin DecisionKeys /\ CandidateRevision \notin CandidateKeys
         /\ RecordRevision \notin RecordKeys /\ DecisionKeys # {}
    BY <1>8 DEF DecisionRevision, CandidateRevision, RecordRevision
  <1>16. /\ ContentKey[1] = "raw_snapshots" /\ ContentKey \in BaselineParts
         /\ NoteColumn[1] = "quarantine_records" /\ NoteColumn \in BaselineParts
    BY <1>7 DEF ContentKey, NoteColumn, O2
  <1>17. \A n \in 1..Head6 : PartsAt(n) \subseteq ModelParts
    BY <1>9 DEF PartsAt, Head6
  <1>18. /\ RunParts \in Seq(BaselineParts) /\ OutcomeParts \in Seq(BaselineParts)
         /\ Len(RunParts) = 6 /\ Len(OutcomeParts) = 7 /\ RunParts[6] = ContentKey
    BY <1>4, <1>5, <1>7
  <1>19. /\ RunColumns \in Seq(BaselineParts) /\ Len(RunColumns) = 4
         /\ OutcomeColumns \in Seq(BaselineParts) /\ Len(OutcomeColumns) = 5
    BY <1>1, <1>2, <1>7
  <1> QED
    BY <1>4, <1>5, <1>6, <1>9, <1>10, <1>11, <1>13, <1>14, <1>15, <1>16, <1>17, <1>18, <1>19
    DEF PartFacts

\* The tables and the parts that migrations are about are among the created.
LEMMA PartTables ==
  /\ \A p \in ModelParts : p[1] \in Created
  /\ \A p \in ModelParts : p[1] \notin Range(NewTables3 \o NewTables4)
  BY SchemaAssumption, Zenon

LEMMA StatementsTyped ==
  ASSUME NEW dia, NEW up \in BOOLEAN, NEW n \in 1..Head6
  PROVE  /\ Nothing \in PlanType(dia, up, n)
         /\ \A P \in SUBSET PartsAt(n) : up => Add(P) \in PlanType(dia, up, n)
         /\ \A P \in SUBSET PartsAt(n) : ~up => Drop(P) \in PlanType(dia, up, n)
         /\ \A r \in RowChanges : n \in {5, 6} => Execute(r) \in PlanType(dia, up, n)
         /\ \A t \in Models : \A P \in SUBSET PartsAt(n) :
                up /\ (t.name # "quarantine_resolutions" \/ n = 6) =>
                    CreateTable(t, P) \in PlanType(dia, up, n)
         /\ \A t \in Known : ~up /\ n = 1 => DropTable(t.name) \in PlanType(dia, up, n)
         /\ \A t \in Known : ~up /\ t.name \in Range(NewTables3 \o NewTables4) /\ dia # "sqlite" =>
                DropTable(t.name) \in PlanType(dia, up, n)
         /\ \A t \in Known : ~up /\ t.name \notin Created => DropTable(t.name) \in PlanType(dia, up, n)
  <1>1. PartsAt(n) \subseteq ModelParts
    BY PartsAre DEF PartFacts
  <1>2. Nothing \in PlanType(dia, up, n)
    BY DEF PlanType, Shape, StatementType, Nothing, RowChanges
  <1>3. \A P \in SUBSET PartsAt(n) : up => Add(P) \in PlanType(dia, up, n)
    BY <1>1 DEF PlanType, Shape, StatementType, Nothing, RowChanges, Add
  <1>4. \A P \in SUBSET PartsAt(n) : ~up => Drop(P) \in PlanType(dia, up, n)
    BY <1>1 DEF PlanType, Shape, StatementType, Nothing, RowChanges, Drop
  <1>5. \A r \in RowChanges : n \in {5, 6} => Execute(r) \in PlanType(dia, up, n)
    BY DEF PlanType, Shape, StatementType, Nothing, RowChanges, Execute
  <1>6. \A t \in Models : \A P \in SUBSET PartsAt(n) :
            up /\ (t.name # "quarantine_resolutions" \/ n = 6) =>
                CreateTable(t, P) \in PlanType(dia, up, n)
    BY <1>1 DEF PlanType, Shape, StatementType, Nothing, RowChanges, CreateTable, Known
  <1>7. ASSUME NEW t \in Known, ~up,
               \/ n = 1
               \/ t.name \in Range(NewTables3 \o NewTables4) /\ dia # "sqlite"
               \/ t.name \notin Created
        PROVE  DropTable(t.name) \in PlanType(dia, up, n)
    <2> DEFINE name == t.name
               s == DropTable(name)
    <2>1. s = [add |-> {}, drop |-> {name}, gain |-> {}, lose |-> {}, rows |-> "unchanged"]
      BY DEF Nothing, DropTable
    <2>2. name \in {u.name : u \in Known}
      OBVIOUS
    <2>3. n = 1 \/ \A p \in ModelParts : p[1] # name
      BY <1>7, PartTables
    <2> HIDE DEF name, s
    <2>4. s \in StatementType
      BY <2>1, <2>2 DEF StatementType, RowChanges
    <2>5. n = 1 \/ dia # "sqlite" \/ name \notin Created
      BY <1>7 DEF name
    <2>6. Shape(dia, up, n, s)
      BY <1>7, <2>1, <2>3, <2>5 DEF Shape
    <2> QED
      BY <2>4, <2>6 DEF PlanType, s, name
  <1> QED
    BY <1>2, <1>3, <1>4, <1>5, <1>6, <1>7

LEMMA BatchTyped ==
  ASSUME dialect \in Dialects, NEW table \in DOMAIN Temporary, NEW up \in BOOLEAN,
         NEW n \in 1..Head6, NEW gain \in SUBSET PartsAt(n), NEW lose \in SUBSET PartsAt(n),
         IF up THEN lose = {} ELSE gain = {}
  PROVE  /\ Batch(table, gain, lose) \in Seq(PlanType(dialect, up, n))
         /\ Len(Batch(table, gain, lose)) = BatchLen(dialect)
         /\ BatchAt(dialect, Batch(table, gain, lose), 1, table, gain, lose)
  <1> DEFINE t == Table(Temporary[table], {})
             copy == CreateTable(t, {})
             swap == [Nothing EXCEPT !.gain = gain, !.lose = lose,
                                     !.drop = {Temporary[table]}, !.rows = "copied"]
             alter == [Nothing EXCEPT !.gain = gain, !.lose = lose]
  <1>1. t \in Temps /\ t.name = Temporary[table]
    BY DEF Temps, Table
  <1>2. /\ t \in Known /\ Temporary[table] \in {u.name : u \in Known}
        /\ Temporary[table] \notin Created /\ t.name # "quarantine_resolutions"
    BY <1>1, TablesKnown DEF Known, KnownFacts
  <1>3. PartsAt(n) \subseteq ModelParts
    BY PartsAre DEF PartFacts
  <1>4. /\ copy = [add |-> {t}, drop |-> {}, gain |-> {}, lose |-> {}, rows |-> "unchanged"]
        /\ swap = [add |-> {}, drop |-> {Temporary[table]}, gain |-> gain, lose |-> lose,
                   rows |-> "copied"]
        /\ alter = [add |-> {}, drop |-> {}, gain |-> gain, lose |-> lose, rows |-> "unchanged"]
    <2> HIDE DEF t
    <2>1. copy \in [add : {{t}}, drop : {{}}, gain : {{}}, lose : {{}}, rows : {"unchanged"}]
      BY DEF CreateTable, Nothing
    <2>2. swap \in [add : {{}}, drop : {{Temporary[table]}}, gain : {gain}, lose : {lose},
                    rows : {"copied"}]
      BY DEF Nothing
    <2>3. alter \in [add : {{}}, drop : {{}}, gain : {gain}, lose : {lose}, rows : {"unchanged"}]
      BY DEF Nothing
    <2> HIDE DEF copy, swap, alter
    <2> QED
      BY <2>1, <2>2, <2>3
  <1> HIDE DEF t, copy, swap, alter
  <1>5. copy \in StatementType /\ swap \in StatementType /\ alter \in StatementType
    BY <1>2, <1>3, <1>4 DEF StatementType, RowChanges
  <1>6. /\ Shape(dialect, up, n, copy) /\ Shape(dialect, up, n, alter)
    BY <1>2, <1>4 DEF Shape
  <1>7. Shape(dialect, up, n, swap)
    BY <1>2, <1>4, PartTables DEF Shape
  <1>8. Batch(table, gain, lose) = IF dialect = "sqlite" THEN <<copy, swap>> ELSE <<alter>>
    BY DEF Batch, t, copy, swap, alter
  <1>9. /\ copy \in PlanType(dialect, up, n) /\ swap \in PlanType(dialect, up, n)
        /\ alter \in PlanType(dialect, up, n)
    BY <1>5, <1>6, <1>7 DEF PlanType
  <1>10. CASE dialect = "sqlite"
    BY <1>8, <1>9, <1>10 DEF BatchAt, BatchLen, copy, swap, t
  <1>11. CASE dialect # "sqlite"
    BY <1>8, <1>9, <1>11 DEF BatchAt, BatchLen, alter
  <1> QED
    BY <1>10, <1>11

NewNames == Range(NewTables3) \cup Range(NewTables4)

NewTableFacts ==
    /\ DOMAIN NewTables3 = 1..5 /\ Len(NewTables3) = 5
    /\ DOMAIN NewTables4 = 1..5 /\ Len(NewTables4) = 5
    /\ Range(NewTables3 \o NewTables4) = NewNames /\ NewNames \subseteq Created
    /\ \A i, j \in 1..5 : NewTables3[i] = NewTables3[j] => i = j
    /\ \A i, j \in 1..5 : NewTables4[i] = NewTables4[j] => i = j
    /\ Range(NewTables3) \cap Range(NewTables4) = {}
    /\ \A i \in 1..5 : NewTables3[i] \in Range(NewTables3) /\ NewTables4[i] \in Range(NewTables4)

LEMMA NewTablesConcat ==
  ASSUME NEW S, NewTables3 \in Seq(S), NewTables4 \in Seq(S),
         Len(NewTables3) = 5, Len(NewTables4) = 5
  PROVE  /\ NewTables3 \o NewTables4 \in Seq(S) /\ Len(NewTables3 \o NewTables4) = 10
         /\ \A i \in 1..5 : (NewTables3 \o NewTables4)[i] = NewTables3[i]
         /\ \A i \in 1..5 : (NewTables3 \o NewTables4)[5 + i] = NewTables4[i]
  <1>1. /\ NewTables3 \o NewTables4 \in Seq(S)
        /\ Len(NewTables3 \o NewTables4) = Len(NewTables3) + Len(NewTables4)
        /\ \A i \in 1..Len(NewTables3) + Len(NewTables4) : (NewTables3 \o NewTables4)[i] =
               IF i <= Len(NewTables3) THEN NewTables3[i] ELSE NewTables4[i - Len(NewTables3)]
    BY ConcatProperties, Zenon
  <1>2. \A i \in 1..10 : (NewTables3 \o NewTables4)[i] =
               IF i <= 5 THEN NewTables3[i] ELSE NewTables4[i - 5]
    BY <1>1
  <1>3. \A i \in 1..5 : i \in 1..10 /\ i <= 5 /\ 5 + i \in 1..10 /\ ~(5 + i <= 5) /\ 5 + i - 5 = i
    OBVIOUS
  <1> QED
    BY <1>1, <1>2, <1>3

LEMMA NewTablesAre == NewTableFacts
  <1> DEFINE both == NewTables3 \o NewTables4
             S == Range(NewTables3) \cup Range(NewTables4)
  <1>1. /\ DOMAIN NewTables3 = 1..5 /\ Len(NewTables3) = 5 /\ NewTables3 \in Seq(S)
        /\ DOMAIN NewTables4 = 1..5 /\ Len(NewTables4) = 5 /\ NewTables4 \in Seq(S)
    <2>1. DOMAIN NewTables3 = 1..5 /\ DOMAIN NewTables4 = 1..5
      BY DEF NewTables3, NewTables4
    <2>3. NewTables3 = [i \in 1..5 |-> NewTables3[i]] /\ NewTables4 = [i \in 1..5 |-> NewTables4[i]]
      BY DEF NewTables3, NewTables4
    <2>4. NewTables3 \in [1..5 -> S] /\ NewTables4 \in [1..5 -> S]
      BY <2>1, <2>3, Zenon DEF Range
    <2>5. NewTables3 \in Seq(S) /\ NewTables4 \in Seq(S)
      BY <2>4, PlanIs
    <2>2. Len(NewTables3) = 5 /\ Len(NewTables4) = 5
      BY DEF NewTables3, NewTables4
    <2> QED
      BY <2>1, <2>2, <2>5
  <1>2. /\ Range(NewTables3) \subseteq Created /\ Range(NewTables4) \subseteq Created
        /\ IsInjective(both)
    BY SchemaAssumption, Zenon
  <1>3. /\ both \in Seq(S) /\ Len(both) = 10
        /\ \A i \in 1..5 : both[i] = NewTables3[i]
        /\ \A i \in 1..5 : both[5 + i] = NewTables4[i]
    BY <1>1, NewTablesConcat, Zenon
  <1> HIDE DEF both
  <1>4. DOMAIN both = 1..10
    BY <1>3
  <1>5. \A i, j \in 1..10 : both[i] = both[j] => i = j
    BY <1>2, <1>4 DEF IsInjective
  <1>6. \A i \in 1..5 : NewTables3[i] \in Range(NewTables3) /\ NewTables4[i] \in Range(NewTables4)
    BY <1>1 DEF Range
  <1>7. /\ \A i, j \in 1..5 : NewTables3[i] = NewTables3[j] => i = j
        /\ \A i, j \in 1..5 : NewTables4[i] = NewTables4[j] => i = j
        /\ \A i, j \in 1..5 : NewTables3[i] # NewTables4[j]
    BY <1>3, <1>5
  <1>8. /\ \A x \in Range(NewTables3) : \E i \in 1..5 : x = NewTables3[i]
        /\ \A x \in Range(NewTables4) : \E i \in 1..5 : x = NewTables4[i]
        /\ \A x \in Range(both) : \E i \in 1..10 : x = both[i]
        /\ \A i \in 1..10 : both[i] \in Range(both)
    BY <1>1, <1>4 DEF Range
  <1>9. Range(NewTables3) \cap Range(NewTables4) = {}
    BY <1>7, <1>8
  <1>10. Range(both) = S
    <2>1. \A i \in 1..10 : i \in 1..5 \/ \E k \in 1..5 : i = 5 + k
      OBVIOUS
    <2>2. \A i \in 1..10 : both[i] \in S
      BY <1>3, <1>6, <2>1
    <2>3. \A i \in 1..5 : i \in 1..10 /\ 5 + i \in 1..10
      OBVIOUS
    <2>4. S \subseteq Range(both)
      BY <1>3, <1>8, <2>3
    <2> QED
      BY <1>8, <2>2, <2>4
  <1> QED
    BY <1>1, <1>2, <1>6, <1>7, <1>9, <1>10 DEF NewTableFacts, NewNames, both

LEMMA ModelIs ==
  ASSUME NEW name \in Created
  PROVE  /\ ModelNamed(name) \in Range(Baseline) /\ ModelNamed(name) \in Models
         /\ ModelNamed(name).name = name /\ name # "quarantine_resolutions"
  <1>1. PICK i \in DOMAIN Baseline : name = Baseline[i].name
    BY DEF Created
  <1>2. Baseline[i] \in Range(Baseline) /\ Range(Baseline) \subseteq Models
    BY SchemaAssumption, Zenon DEF Range
  <1>3. ModelNamed(name) \in Models /\ ModelNamed(name).name = name
    BY <1>1, <1>2, Zenon DEF ModelNamed
  <1>4. name # "quarantine_resolutions"
    BY SchemaAssumption, Zenon
  <1> QED
    BY <1>3, <1>4, TablesKnown DEF KnownFacts

\* The building blocks of 0002 to 0004.
LEMMA AddMissingTyped ==
  ASSUME NEW n \in 1..4, NEW parts \in Seq(BaselineParts), NEW dia
  PROVE  /\ AddMissing(parts) \in Seq(PlanType(dia, TRUE, n)) /\ Len(AddMissing(parts)) = Len(parts)
         /\ \A i \in 1..Len(parts) : parts[i] \in BaselineParts
                /\ AddMissing(parts)[i] = IF parts[i] \in db.parts THEN Nothing ELSE Add({parts[i]})
  <1>1. DOMAIN parts = 1..Len(parts) /\ Len(parts) \in Nat
        /\ \A i \in 1..Len(parts) : parts[i] \in BaselineParts
    OBVIOUS
  <1>2. n \in 1..Head6 /\ PartsAt(n) = BaselineParts
    BY DEF PartsAt, Head6
  <1>3. Nothing \in PlanType(dia, TRUE, n)
        /\ \A P \in SUBSET BaselineParts : Add(P) \in PlanType(dia, TRUE, n)
    BY <1>2, StatementsTyped
  <1>4. AddMissing(parts) \in [1..Len(parts) -> PlanType(dia, TRUE, n)]
    BY <1>1, <1>3 DEF AddMissing
  <1> QED
    BY <1>1, <1>4, PlanIs DEF AddMissing

LEMMA DropEachTyped ==
  ASSUME NEW n \in 1..4, NEW parts \in Seq(BaselineParts), NEW dia
  PROVE  /\ DropEach(Reverse(parts)) \in Seq(PlanType(dia, FALSE, n))
         /\ Len(DropEach(Reverse(parts))) = Len(parts)
         /\ \A i \in 1..Len(parts) : /\ Len(parts) - i + 1 \in 1..Len(parts)
                                     /\ parts[i] \in BaselineParts
                                     /\ DropEach(Reverse(parts))[i] = Drop({parts[Len(parts) - i + 1]})
  <1>1. /\ DOMAIN Reverse(parts) = 1..Len(parts) /\ Len(parts) \in Nat
        /\ \A i \in 1..Len(parts) : parts[i] \in BaselineParts
        /\ \A i \in 1..Len(parts) : Reverse(parts)[i] = parts[Len(parts) - i + 1]
    BY DEF Reverse
  <1>2. n \in 1..Head6 /\ PartsAt(n) = BaselineParts
    BY DEF PartsAt, Head6
  <1>3. \A P \in SUBSET BaselineParts : Drop(P) \in PlanType(dia, FALSE, n)
    BY <1>2, StatementsTyped
  <1>4. \A i \in 1..Len(parts) : Len(parts) - i + 1 \in 1..Len(parts)
    BY <1>1
  <1>5. \A i \in 1..Len(parts) : DropEach(Reverse(parts))[i] = Drop({parts[Len(parts) - i + 1]})
    BY <1>1 DEF DropEach
  <1>6. DropEach(Reverse(parts)) \in [1..Len(parts) -> PlanType(dia, FALSE, n)]
    BY <1>1, <1>3, <1>4, <1>5 DEF DropEach
  <1> QED
    BY <1>1, <1>4, <1>5, <1>6, PlanIs

LEMMA CreateMissingTyped ==
  ASSUME NEW n \in 1..4, NEW names \in {NewTables3, NewTables4}, NEW dia
  PROVE  /\ CreateMissing(names) \in Seq(PlanType(dia, TRUE, n)) /\ Len(CreateMissing(names)) = 5
         /\ \A i \in 1..5 : names[i] \in Created
                /\ CreateMissing(names)[i] = IF names[i] \in Names(db) THEN Nothing
                                             ELSE CreateTable(ModelNamed(names[i]), {})
  <1>1. DOMAIN names = 1..5 /\ \A i \in 1..5 : names[i] \in Created
    BY NewTablesAre DEF NewTableFacts, NewNames
  <1>2. n \in 1..Head6
    BY DEF Head6
  <1>3. Nothing \in PlanType(dia, TRUE, n)
        /\ \A t \in Models : t.name # "quarantine_resolutions" =>
               CreateTable(t, {}) \in PlanType(dia, TRUE, n)
    BY <1>2, StatementsTyped
  <1>4. \A i \in 1..5 : CreateTable(ModelNamed(names[i]), {}) \in PlanType(dia, TRUE, n)
    BY <1>1, <1>3, ModelIs
  <1>5. CreateMissing(names) \in [1..5 -> PlanType(dia, TRUE, n)]
    BY <1>1, <1>3, <1>4 DEF CreateMissing
  <1>6. CreateMissing(names) \in Seq(PlanType(dia, TRUE, n)) /\ Len(CreateMissing(names)) = 5
    BY <1>5, PlanIs, ZenonT(60)
  <1> QED
    BY <1>1, <1>6 DEF CreateMissing

LEMMA DropTablesTyped ==
  ASSUME NEW n \in 1..4, NEW names \in {NewTables3, NewTables4}, NEW dia, dia # "sqlite"
  PROVE  /\ DropTables(Reverse(names)) \in Seq(PlanType(dia, FALSE, n))
         /\ Len(DropTables(Reverse(names))) = 5
         /\ \A i \in 1..5 : names[i] \in Created
                            /\ DropTables(Reverse(names))[i] = DropTable(names[6 - i])
  <1>1. Len(names) = 5 /\ \A i \in 1..5 : names[i] \in Created /\ names[i] \in NewNames
    BY NewTablesAre DEF NewTableFacts, NewNames
  <1>2. DOMAIN Reverse(names) = 1..5 /\ \A i \in 1..5 : Reverse(names)[i] = names[6 - i]
    BY <1>1 DEF Reverse
  <1>3. n \in 1..Head6
    BY DEF Head6
  <1>4. \A i \in 1..5 : DropTable(names[i]) \in PlanType(dia, FALSE, n)
    <2> SUFFICES ASSUME NEW i \in 1..5 PROVE DropTable(names[i]) \in PlanType(dia, FALSE, n)
      OBVIOUS
    <2> DEFINE t == ModelNamed(names[i])
    <2>1. t \in Known /\ t.name = names[i]
      BY <1>1, ModelIs DEF Known
    <2>2. t.name \in Range(NewTables3 \o NewTables4)
      BY <1>1, <2>1, NewTablesAre DEF NewTableFacts
    <2>3. DropTable(t.name) \in PlanType(dia, FALSE, n)
      BY <1>3, <2>1, <2>2, StatementsTyped
    <2> QED
      BY <2>1, <2>3
  <1>5. \A i \in 1..5 : 6 - i \in 1..5 /\ DropTables(Reverse(names))[i] = DropTable(names[6 - i])
    BY <1>2 DEF DropTables
  <1>6. DropTables(Reverse(names)) \in [1..5 -> PlanType(dia, FALSE, n)]
    BY <1>2, <1>4, <1>5 DEF DropTables
  <1>7. DropTables(Reverse(names)) \in Seq(PlanType(dia, FALSE, n))
        /\ Len(DropTables(Reverse(names))) = 5
    BY <1>6, PlanIs, ZenonT(60)
  <1> QED
    BY <1>1, <1>5, <1>7

\* A batch keeps its place when statements are put before or after it.
LEMMA BatchAfter ==
  ASSUME NEW S, NEW dia, NEW p \in Seq(S), NEW q \in Seq(S), NEW table, NEW gain, NEW lose,
         Len(q) = BatchLen(dia), BatchAt(dia, q, 1, table, gain, lose)
  PROVE  BatchAt(dia, p \o q, Len(p) + 1, table, gain, lose)
  <1>1. \A i \in 1..Len(p) + Len(q) : (p \o q)[i] = IF i <= Len(p) THEN p[i] ELSE q[i - Len(p)]
    BY ConcatProperties, Zenon
  <1>2. Len(p) \in Nat
    OBVIOUS
  <1>3. CASE dia = "sqlite"
    <2>1. Len(q) = 2
      BY <1>3 DEF BatchLen
    <2>2. (p \o q)[Len(p) + 1] = q[1] /\ (p \o q)[Len(p) + 1 + 1] = q[1 + 1]
      <3>1. /\ Len(p) + 1 \in 1..Len(p) + Len(q) /\ ~(Len(p) + 1 <= Len(p)) /\ Len(p) + 1 - Len(p) = 1
            /\ Len(p) + 1 + 1 \in 1..Len(p) + Len(q) /\ ~(Len(p) + 1 + 1 <= Len(p))
            /\ Len(p) + 1 + 1 - Len(p) = 1 + 1
        BY <1>2, <2>1
      <3>2. (p \o q)[Len(p) + 1] = q[Len(p) + 1 - Len(p)]
        BY <1>1, <3>1
      <3>3. (p \o q)[Len(p) + 1 + 1] = q[Len(p) + 1 + 1 - Len(p)]
        BY <1>1, <3>1
      <3> QED
        BY <3>1, <3>2, <3>3
    <2> QED
      BY <1>3, <2>2 DEF BatchAt
  <1>4. CASE dia # "sqlite"
    <2>1. (p \o q)[Len(p) + 1] = q[1]
      BY <1>1, <1>4 DEF BatchLen
    <2> QED
      BY <1>4, <2>1 DEF BatchAt
  <1> QED
    BY <1>3, <1>4

LEMMA BatchBefore ==
  ASSUME NEW S, NEW dia, NEW p \in Seq(S), NEW q \in Seq(S), NEW table, NEW gain, NEW lose,
         NEW i \in Nat \ {0}, i + BatchLen(dia) - 1 <= Len(p), BatchAt(dia, p, i, table, gain, lose)
  PROVE  BatchAt(dia, p \o q, i, table, gain, lose)
  <1>1. \A k \in 1..Len(p) + Len(q) : (p \o q)[k] = IF k <= Len(p) THEN p[k] ELSE q[k - Len(p)]
    BY ConcatProperties, Zenon
  <1>2. (p \o q)[i] = p[i] /\ (dia = "sqlite" => (p \o q)[i + 1] = p[i + 1])
    BY <1>1 DEF BatchLen
  <1> QED
    BY <1>2 DEF BatchAt

LEMMA PlanBaseline ==
  /\ CreateBaseline \in Seq(PlanType(dialect, TRUE, 1))
  /\ DropBaseline \in Seq(PlanType(dialect, FALSE, 1))
  /\ Len(CreateBaseline) = Len(Baseline) /\ Len(DropBaseline) = Len(Baseline)
  /\ DOMAIN Baseline = 1..Len(Baseline) /\ Len(Baseline) \in Nat
  /\ \A i \in 1..Len(Baseline) : CreateBaseline[i] =
         CreateTable(Baseline[i], {p \in BaselineParts : p[1] = Baseline[i].name})
  /\ \A i \in 1..Len(Baseline) :
         /\ Len(Baseline) - i + 1 \in 1..Len(Baseline)
         /\ DropBaseline[i] = IF Baseline[Len(Baseline) - i + 1].name \in Names(db)
                              THEN DropTable(Baseline[Len(Baseline) - i + 1].name) ELSE Nothing
  <1> DEFINE n == Len(Baseline)
  <1>1. Baseline \in Seq([name : STRING, refs : SUBSET STRING])
    BY SchemaAssumption, Zenon
  <1>2. DOMAIN Baseline = 1..n /\ n \in Nat
    BY <1>1
  <1>3. \A i \in 1..n : n - i + 1 \in 1..n
    BY <1>2
  <1> HIDE DEF n
  <1>4. 1 \in 1..Head6 /\ PartsAt(1) = BaselineParts
    BY DEF Head6, PartsAt
  <1>5. \A i \in 1..n : /\ Baseline[i] \in Models /\ Baseline[i] \in Known
                        /\ Baseline[i].name # "quarantine_resolutions"
    <2>1. Range(Baseline) \subseteq Models /\ "quarantine_resolutions" \notin Created
      BY SchemaAssumption, Zenon
    <2>2. \A i \in 1..n : Baseline[i] \in Range(Baseline) /\ Baseline[i].name \in Created
      BY <1>2 DEF Range, Created
    <2> QED
      BY <2>1, <2>2 DEF Known
  <1>6. \A i \in 1..n : CreateTable(Baseline[i], {p \in BaselineParts : p[1] = Baseline[i].name})
                            \in PlanType(dialect, TRUE, 1)
    <2> SUFFICES ASSUME NEW i \in 1..n
                 PROVE  CreateTable(Baseline[i], {p \in BaselineParts : p[1] = Baseline[i].name})
                            \in PlanType(dialect, TRUE, 1)
      OBVIOUS
    <2> DEFINE P == {p \in BaselineParts : p[1] = Baseline[i].name}
    <2>1. P \in SUBSET PartsAt(1)
      BY <1>4
    <2> HIDE DEF P
    <2>2. CreateTable(Baseline[i], P) \in PlanType(dialect, TRUE, 1)
      BY <1>4, <1>5, <2>1, StatementsTyped
    <2> QED
      BY <2>2 DEF P
  <1>7. CreateBaseline \in [1..n -> PlanType(dialect, TRUE, 1)]
    BY <1>2, <1>6 DEF CreateBaseline
  <1>8. CreateBaseline \in Seq(PlanType(dialect, TRUE, 1)) /\ Len(CreateBaseline) = n
    BY <1>2, <1>7, PlanIs
  <1>9. \A i \in 1..n : CreateBaseline[i] =
            CreateTable(Baseline[i], {p \in BaselineParts : p[1] = Baseline[i].name})
    BY <1>2 DEF CreateBaseline
  <1>10. DOMAIN DropOrder = 1..n /\ \A i \in 1..n : DropOrder[i] = Baseline[n - i + 1].name
    <2> DEFINE names == [i \in 1..n |-> Baseline[i].name]
    <2>1. DropOrder = Reverse(names)
      BY <1>2 DEF DropOrder
    <2>2. Len(names) = n
      BY <1>2
    <2> HIDE DEF names
    <2>3. Reverse(names) = [i \in 1..n |-> names[n - i + 1]]
      BY <2>2 DEF Reverse
    <2> QED
      BY <1>3, <2>1, <2>3 DEF names
  <1>11. \A i \in 1..n : DropBaseline[i] =
             IF Baseline[n - i + 1].name \in Names(db)
             THEN DropTable(Baseline[n - i + 1].name) ELSE Nothing
    BY <1>10 DEF DropBaseline, DropPresent
  <1>12. /\ Nothing \in PlanType(dialect, FALSE, 1)
         /\ \A i \in 1..n : DropTable(Baseline[i].name) \in PlanType(dialect, FALSE, 1)
    BY <1>4, <1>5, StatementsTyped
  <1>13. DropBaseline \in [1..n -> PlanType(dialect, FALSE, 1)]
    BY <1>3, <1>10, <1>11, <1>12 DEF DropBaseline, DropPresent
  <1>14. DropBaseline \in Seq(PlanType(dialect, FALSE, 1)) /\ Len(DropBaseline) = n
    BY <1>2, <1>13, PlanIs
  <1> QED
    BY <1>2, <1>3, <1>8, <1>9, <1>11, <1>14 DEF n

LEMMA ConcatTyped ==
  ASSUME NEW S, NEW p \in Seq(S), NEW q \in Seq(S)
  PROVE  p \o q \in Seq(S)
  OBVIOUS

LEMMA ConcatFirst ==
  ASSUME NEW S, NEW p \in Seq(S), NEW q \in Seq(S)
  PROVE  /\ p \o q \in Seq(S) /\ Len(p \o q) = Len(p) + Len(q)
         /\ \A i \in 1..Len(p) : (p \o q)[i] = p[i]
  BY ConcatIs

LEMMA NoPlan == ASSUME NEW S PROVE <<>> \in Seq(S)
  OBVIOUS

LEMMA BatchesTyped ==
  ASSUME dialect \in Dialects
  PROVE  /\ Batch("raw_snapshots", {ContentKey}, {}) \in Seq(PlanType(dialect, TRUE, 2))
         /\ Len(Batch("raw_snapshots", {ContentKey}, {})) = BatchLen(dialect)
         /\ BatchAt(dialect, Batch("raw_snapshots", {ContentKey}, {}), 1, "raw_snapshots",
                    {ContentKey}, {})
         /\ \A up \in BOOLEAN : \A gain, lose \in SUBSET PartsAt(5) :
                (IF up THEN lose = {} ELSE gain = {}) =>
                \A table \in {"match_candidates", "match_decisions"} :
                    /\ Batch(table, gain, lose) \in Seq(PlanType(dialect, up, 5))
                    /\ Len(Batch(table, gain, lose)) = BatchLen(dialect)
                    /\ BatchAt(dialect, Batch(table, gain, lose), 1, table, gain, lose)
         /\ \A up \in BOOLEAN : \A gain, lose \in SUBSET PartsAt(6) :
                (IF up THEN lose = {} ELSE gain = {}) =>
                    /\ Batch("quarantine_records", gain, lose) \in Seq(PlanType(dialect, up, 6))
                    /\ Len(Batch("quarantine_records", gain, lose)) = BatchLen(dialect)
                    /\ BatchAt(dialect, Batch("quarantine_records", gain, lose), 1,
                               "quarantine_records", gain, lose)
  <1>1. DOMAIN Temporary = {"raw_snapshots", "match_candidates", "match_decisions",
                            "quarantine_records"}
    BY DEF Temporary
  <1>2. 2 \in 1..Head6 /\ 5 \in 1..Head6 /\ 6 \in 1..Head6 /\ PartsAt(2) = BaselineParts
    BY DEF Head6, PartsAt
  <1>3. {ContentKey} \in SUBSET PartsAt(2) /\ {} \in SUBSET PartsAt(2)
    BY <1>2, PartsAre DEF PartFacts
  <1>4. /\ Batch("raw_snapshots", {ContentKey}, {}) \in Seq(PlanType(dialect, TRUE, 2))
        /\ Len(Batch("raw_snapshots", {ContentKey}, {})) = BatchLen(dialect)
        /\ BatchAt(dialect, Batch("raw_snapshots", {ContentKey}, {}), 1, "raw_snapshots",
                   {ContentKey}, {})
    BY <1>1, <1>2, <1>3, BatchTyped
  <1>5. ASSUME NEW up \in BOOLEAN, NEW gain \in SUBSET PartsAt(5), NEW lose \in SUBSET PartsAt(5),
               IF up THEN lose = {} ELSE gain = {},
               NEW table \in {"match_candidates", "match_decisions"}
        PROVE  /\ Batch(table, gain, lose) \in Seq(PlanType(dialect, up, 5))
               /\ Len(Batch(table, gain, lose)) = BatchLen(dialect)
               /\ BatchAt(dialect, Batch(table, gain, lose), 1, table, gain, lose)
    BY <1>1, <1>2, <1>5, BatchTyped
  <1>6. ASSUME NEW up \in BOOLEAN, NEW gain \in SUBSET PartsAt(6), NEW lose \in SUBSET PartsAt(6),
               IF up THEN lose = {} ELSE gain = {}
        PROVE  /\ Batch("quarantine_records", gain, lose) \in Seq(PlanType(dialect, up, 6))
               /\ Len(Batch("quarantine_records", gain, lose)) = BatchLen(dialect)
               /\ BatchAt(dialect, Batch("quarantine_records", gain, lose), 1,
                          "quarantine_records", gain, lose)
    BY <1>1, <1>2, <1>6, BatchTyped
  <1> QED
    BY <1>4, <1>5, <1>6

\* 0002 to 0004.
LEMMA PlansTyped ==
  ASSUME dialect \in Dialects
  PROVE  /\ AddRunMetadata \in Seq(PlanType(dialect, TRUE, 2))
         /\ DropRunMetadata \in Seq(PlanType(dialect, FALSE, 2))
         /\ AddProcessing \in Seq(PlanType(dialect, TRUE, 3))
         /\ DropProcessing \in Seq(PlanType(dialect, FALSE, 3))
         /\ AddOperations \in Seq(PlanType(dialect, TRUE, 4))
         /\ DropOperations \in Seq(PlanType(dialect, FALSE, 4))
  <1>0. 2 \in 1..4 /\ 3 \in 1..4 /\ 4 \in 1..4
    OBVIOUS
  <1>1. /\ RunParts \in Seq(BaselineParts) /\ RunColumns \in Seq(BaselineParts)
        /\ OutcomeParts \in Seq(BaselineParts) /\ OutcomeColumns \in Seq(BaselineParts)
    BY PartsAre DEF PartFacts
  <1>2. AddRunMetadata \in Seq(PlanType(dialect, TRUE, 2))
    <2>1. /\ AddMissing(RunParts) \in Seq(PlanType(dialect, TRUE, 2))
          /\ AddMissing(RunColumns) \in Seq(PlanType(dialect, TRUE, 2))
      BY <1>0, <1>1, AddMissingTyped, Zenon
    <2>2. Batch("raw_snapshots", {ContentKey}, {}) \in Seq(PlanType(dialect, TRUE, 2))
      BY BatchesTyped
    <2>3. <<>> \in Seq(PlanType(dialect, TRUE, 2))
      BY NoPlan
    <2> QED
      BY <2>1, <2>2, <2>3, ConcatTyped DEF AddRunMetadata
  <1>3. DropRunMetadata \in Seq(PlanType(dialect, FALSE, 2))
    <2>1. DropEach(Reverse(RunParts)) \in Seq(PlanType(dialect, FALSE, 2))
      BY <1>0, <1>1, DropEachTyped, Zenon
    <2> QED
      BY <2>1, NoPlan DEF DropRunMetadata
  <1>4. AddProcessing \in Seq(PlanType(dialect, TRUE, 3))
    <2>1. /\ AddMissing(OutcomeParts) \in Seq(PlanType(dialect, TRUE, 3))
          /\ AddMissing(OutcomeColumns) \in Seq(PlanType(dialect, TRUE, 3))
      BY <1>0, <1>1, AddMissingTyped, Zenon
    <2>2. CreateMissing(NewTables3) \in Seq(PlanType(dialect, TRUE, 3))
      BY <1>0, CreateMissingTyped, Zenon
    <2> QED
      BY <2>1, <2>2, ConcatTyped DEF AddProcessing
  <1>5. DropProcessing \in Seq(PlanType(dialect, FALSE, 3))
    <2>1. CASE dialect = "sqlite"
      BY <2>1, NoPlan DEF DropProcessing
    <2>2. CASE dialect # "sqlite"
      <3>1. DropEach(Reverse(OutcomeParts)) \in Seq(PlanType(dialect, FALSE, 3))
        BY <1>0, <1>1, DropEachTyped, Zenon
      <3>2. DropTables(Reverse(NewTables3)) \in Seq(PlanType(dialect, FALSE, 3))
        BY <1>0, <2>2, DropTablesTyped, Zenon
      <3> QED
        BY <2>2, <3>1, <3>2, ConcatTyped DEF DropProcessing
    <2> QED
      BY <2>1, <2>2
  <1>6. AddOperations \in Seq(PlanType(dialect, TRUE, 4))
    BY <1>0, CreateMissingTyped, Zenon DEF AddOperations
  <1>7. DropOperations \in Seq(PlanType(dialect, FALSE, 4))
    <2>1. CASE dialect = "sqlite"
      BY <2>1, NoPlan DEF DropOperations
    <2>2. CASE dialect # "sqlite"
      <3>2. DropTables(Reverse(NewTables4)) \in Seq(PlanType(dialect, FALSE, 4))
        BY <1>0, <2>2, DropTablesTyped, Zenon
      <3> QED
        BY <2>2, <3>2 DEF DropOperations
    <2> QED
      BY <2>1, <2>2
  <1> QED
    BY <1>2, <1>3, <1>4, <1>5, <1>6, <1>7

\* 0005.
LEMMA ReviewPlansTyped ==
  ASSUME dialect \in Dialects
  PROVE  Planned(dialect, TRUE, 5, AddReviewRevisions) /\ Planned(dialect, FALSE, 5, DropReviewRevisions)
  <1> DEFINE TU == PlanType(dialect, TRUE, 5)
             TD == PlanType(dialect, FALSE, 5)
             first == <<Add({CandidateRevision}), Add({DecisionRevision}),
                        Execute("rank_decisions"), Execute("count_decisions")>>
             cands == Batch("match_candidates", CandidateKeys, {})
             decs == Batch("match_decisions", DecisionKeys, {})
             lessDecs == Batch("match_decisions", {}, DecisionKeys \cup {DecisionRevision})
             lessCands == Batch("match_candidates", {}, CandidateKeys \cup {CandidateRevision})
  <1>1. 5 \in 1..Head6 /\ PartsAt(5) = DecisionParts \cup CandidateParts
    BY DEF Head6, PartsAt
  <1>2. /\ Add({CandidateRevision}) \in TU /\ Add({DecisionRevision}) \in TU
        /\ Execute("rank_decisions") \in TU /\ Execute("count_decisions") \in TU
    <2>1. {CandidateRevision} \in SUBSET PartsAt(5) /\ {DecisionRevision} \in SUBSET PartsAt(5)
      BY <1>1 DEF DecisionParts, CandidateParts
    <2>2. "rank_decisions" \in RowChanges /\ "count_decisions" \in RowChanges /\ 5 \in {5, 6}
      BY DEF RowChanges
    <2> QED
      BY <1>1, <2>1, <2>2, StatementsTyped
  <1>3. /\ cands \in Seq(TU) /\ decs \in Seq(TU)
        /\ Len(cands) = BatchLen(dialect) /\ Len(decs) = BatchLen(dialect)
        /\ BatchAt(dialect, cands, 1, "match_candidates", CandidateKeys, {})
        /\ BatchAt(dialect, decs, 1, "match_decisions", DecisionKeys, {})
    <2>1. CandidateKeys \in SUBSET PartsAt(5) /\ DecisionKeys \in SUBSET PartsAt(5)
          /\ {} \in SUBSET PartsAt(5)
      BY <1>1 DEF DecisionParts, CandidateParts
    <2> QED
      BY <2>1, BatchesTyped
  <1>4. /\ lessCands \in Seq(TD) /\ lessDecs \in Seq(TD)
        /\ Len(lessCands) = BatchLen(dialect) /\ Len(lessDecs) = BatchLen(dialect)
        /\ BatchAt(dialect, lessCands, 1, "match_candidates", {}, CandidateKeys \cup {CandidateRevision})
        /\ BatchAt(dialect, lessDecs, 1, "match_decisions", {}, DecisionKeys \cup {DecisionRevision})
    <2>1. /\ CandidateKeys \cup {CandidateRevision} \in SUBSET PartsAt(5)
          /\ DecisionKeys \cup {DecisionRevision} \in SUBSET PartsAt(5)
          /\ {} \in SUBSET PartsAt(5)
      BY <1>1 DEF DecisionParts, CandidateParts
    <2> QED
      BY <2>1, BatchesTyped
  <1>5. first \in Seq(TU) /\ Len(first) = 4
        /\ first[1] = Add({CandidateRevision}) /\ first[2] = Add({DecisionRevision})
        /\ first[3] = Execute("rank_decisions") /\ first[4] = Execute("count_decisions")
    <2> DEFINE a1 == Add({CandidateRevision})
               a2 == Add({DecisionRevision})
               a3 == Execute("rank_decisions")
               a4 == Execute("count_decisions")
    <2> HIDE DEF TU, a1, a2, a3, a4
    <2>1. a1 \in TU /\ a2 \in TU /\ a3 \in TU /\ a4 \in TU
      BY <1>2 DEF a1, a2, a3, a4
    <2>2. <<a1, a2, a3, a4>> \in Seq(TU) /\ Len(<<a1, a2, a3, a4>>) = 4
      BY <2>1
    <2> QED
      BY <2>2 DEF a1, a2, a3, a4
  <1>6. /\ AddReviewRevisions = (first \o cands) \o decs
        /\ DropReviewRevisions = lessDecs \o lessCands
    BY DEF AddReviewRevisions, DropReviewRevisions
  <1>7. BatchLen(dialect) \in {1, 2}
    BY DEF BatchLen
  <1> HIDE DEF TU, TD, first, cands, decs, lessDecs, lessCands
  <1>8. Plan5Up(dialect, AddReviewRevisions) /\ AddReviewRevisions \in Seq(TU)
    <2>1. /\ first \o cands \in Seq(TU) /\ Len(first \o cands) = 4 + BatchLen(dialect)
          /\ \A i \in 1..4 : (first \o cands)[i] = first[i]
      <3>1. /\ first \o cands \in Seq(TU) /\ Len(first \o cands) = Len(first) + Len(cands)
            /\ \A i \in 1..Len(first) : (first \o cands)[i] = first[i]
        BY <1>3, <1>5, ConcatFirst, Zenon
      <3> QED
        BY <1>3, <1>5, <3>1
    <2>2. /\ (first \o cands) \o decs \in Seq(TU)
          /\ Len((first \o cands) \o decs) = 4 + 2 * BatchLen(dialect)
          /\ \A i \in 1..4 : ((first \o cands) \o decs)[i] = first[i]
      <3>1. /\ (first \o cands) \o decs \in Seq(TU)
            /\ Len((first \o cands) \o decs) = Len(first \o cands) + Len(decs)
            /\ \A i \in 1..Len(first \o cands) : ((first \o cands) \o decs)[i] = (first \o cands)[i]
        BY <1>3, <2>1, ConcatFirst, Zenon
      <3>2. \A i \in 1..4 : i \in 1..Len(first \o cands)
        BY <1>7, <2>1
      <3>3. Len((first \o cands) \o decs) = 4 + 2 * BatchLen(dialect)
        BY <1>3, <1>7, <2>1, <3>1
      <3> QED
        BY <2>1, <3>1, <3>2, <3>3
    <2>3. BatchAt(dialect, first \o cands, 5, "match_candidates", CandidateKeys, {})
      <3>1. BatchAt(dialect, first \o cands, Len(first) + 1, "match_candidates", CandidateKeys, {})
        BY <1>3, <1>5, BatchAfter
      <3>0. Len(first) = 4
        BY <1>5, Zenon
      <3>2. Len(first) + 1 = 5
        BY <3>0
      <3> QED
        BY <3>1, <3>2, Zenon
    <2>4. BatchAt(dialect, (first \o cands) \o decs, 5, "match_candidates", CandidateKeys, {})
      <3>1. 5 \in Nat \ {0} /\ 5 + BatchLen(dialect) - 1 <= Len(first \o cands)
        BY <1>7, <2>1
      <3> QED
        BY <1>3, <2>1, <2>3, <3>1, BatchBefore
    <2>5. BatchAt(dialect, (first \o cands) \o decs, 5 + BatchLen(dialect), "match_decisions",
                  DecisionKeys, {})
      <3>1. BatchAt(dialect, (first \o cands) \o decs, Len(first \o cands) + 1, "match_decisions",
                    DecisionKeys, {})
        BY <1>3, <2>1, BatchAfter
      <3>2. Len(first \o cands) + 1 = 5 + BatchLen(dialect)
        BY <1>7, <2>1
      <3> QED
        BY <3>1, <3>2
    <2> QED
      <3>1. 1 \in 1..4 /\ 2 \in 1..4 /\ 3 \in 1..4 /\ 4 \in 1..4
        OBVIOUS
      <3> QED
        BY <1>5, <1>6, <2>2, <2>4, <2>5, <3>1, Zenon DEF Plan5Up
  <1>9. Plan5Down(dialect, DropReviewRevisions) /\ DropReviewRevisions \in Seq(TD)
    <2>1. lessDecs \o lessCands \in Seq(TD) /\ Len(lessDecs \o lessCands) = 2 * BatchLen(dialect)
      BY <1>4, <1>7, ConcatIs
    <2>2. BatchAt(dialect, lessDecs \o lessCands, 1, "match_decisions", {},
                  DecisionKeys \cup {DecisionRevision})
      <3>1. 1 \in Nat \ {0} /\ 1 + BatchLen(dialect) - 1 <= Len(lessDecs)
        BY <1>4, <1>7
      <3> QED
        BY <1>4, <3>1, BatchBefore
    <2>3. BatchAt(dialect, lessDecs \o lessCands, 1 + BatchLen(dialect), "match_candidates", {},
                  CandidateKeys \cup {CandidateRevision})
      <3>1. BatchAt(dialect, lessDecs \o lessCands, Len(lessDecs) + 1, "match_candidates", {},
                    CandidateKeys \cup {CandidateRevision})
        BY <1>4, BatchAfter
      <3>2. Len(lessDecs) + 1 = 1 + BatchLen(dialect)
        BY <1>4, <1>7
      <3> QED
        BY <3>1, <3>2
    <2> QED
      BY <1>6, <2>1, <2>2, <2>3 DEF Plan5Down
  <1> QED
    <2>1. 5 # 6
      OBVIOUS
    <2> QED
      BY <1>8, <1>9, <2>1, Zenon DEF Planned, TU, TD

\* 0006.
LEMMA ResolutionPlansTyped ==
  ASSUME dialect \in Dialects
  PROVE  Planned(dialect, TRUE, 6, AddResolutions) /\ Planned(dialect, FALSE, 6, DropResolutions)
  <1> DEFINE TU == PlanType(dialect, TRUE, 6)
             TD == PlanType(dialect, FALSE, 6)
             Q == OwnedAnd("quarantine_resolutions", {"quarantine_records", "raw_snapshots"})
             a1 == CreateTable(Q, {})
             a2 == Execute("import_note")
             a3 == Execute("revise_records")
             d1 == Execute("keep_history")
             d2 == DropTable("quarantine_resolutions")
             last == <<a1, a2, a3>>
             first == <<d1, d2>>
             more == Batch("quarantine_records", {RecordRevision} \cup RecordKeys, {})
             less == Batch("quarantine_records", {}, RecordKeys \cup {RecordRevision})
  <1>1. 6 \in 1..Head6 /\ PartsAt(6) = RecordParts /\ 6 \in {5, 6}
    BY DEF Head6, PartsAt
  <1>2. Q \in Models /\ Q \in Known /\ Q.name = "quarantine_resolutions" /\ Q.name \notin Created
    <2>1. Q \in Models /\ "quarantine_resolutions" \notin Created
      BY SchemaAssumption, Zenon
    <2>2. Q.name = "quarantine_resolutions"
      BY DEF OwnedAnd, Table
    <2> QED
      BY <2>1, <2>2 DEF Known
  <1> HIDE DEF Q
  <1>3. a1 \in TU /\ a2 \in TU /\ a3 \in TU /\ d1 \in TD /\ d2 \in TD
    <2>1. {} \in SUBSET PartsAt(6) /\ "import_note" \in RowChanges
          /\ "revise_records" \in RowChanges /\ "keep_history" \in RowChanges
      BY DEF RowChanges
    <2>2. a1 \in TU
      BY <1>1, <1>2, <2>1, StatementsTyped
    <2>3. a2 \in TU /\ a3 \in TU /\ d1 \in TD
      BY <1>1, <2>1, StatementsTyped
    <2>4. DropTable(Q.name) \in TD
      BY <1>1, <1>2, StatementsTyped
    <2> QED
      BY <1>2, <2>2, <2>3, <2>4
  <1>4. /\ more \in Seq(TU) /\ Len(more) = BatchLen(dialect)
        /\ BatchAt(dialect, more, 1, "quarantine_records", {RecordRevision} \cup RecordKeys, {})
        /\ less \in Seq(TD) /\ Len(less) = BatchLen(dialect)
        /\ BatchAt(dialect, less, 1, "quarantine_records", {}, RecordKeys \cup {RecordRevision})
    <2>1. /\ {RecordRevision} \cup RecordKeys \in SUBSET PartsAt(6)
          /\ RecordKeys \cup {RecordRevision} \in SUBSET PartsAt(6)
          /\ {} \in SUBSET PartsAt(6)
      BY <1>1 DEF RecordParts
    <2> QED
      BY <2>1, BatchesTyped
  <1>5. AddResolutions = more \o last /\ DropResolutions = first \o less
    BY DEF AddResolutions, DropResolutions, Q
  <1>6. BatchLen(dialect) \in {1, 2}
    BY DEF BatchLen
  <1> HIDE DEF TU, TD, a1, a2, a3, d1, d2
  <1>7. last \in Seq(TU) /\ Len(last) = 3 /\ last[1] = a1 /\ last[2] = a2 /\ last[3] = a3
    BY <1>3
  <1>8. first \in Seq(TD) /\ Len(first) = 2 /\ first[1] = d1 /\ first[2] = d2
    BY <1>3
  <1> HIDE DEF first, last, more, less
  <1>9. Plan6Up(dialect, AddResolutions) /\ AddResolutions \in Seq(TU)
    <2>1. /\ more \o last \in Seq(TU) /\ Len(more \o last) = Len(more) + Len(last)
          /\ \A i \in 1..Len(last) : (more \o last)[Len(more) + i] = last[i]
      <3>1. more \in Seq(TU) /\ last \in Seq(TU)
        BY <1>4, <1>7, Zenon
      <3> QED
        BY <3>1, ConcatIs
    <2>2. BatchAt(dialect, more \o last, 1, "quarantine_records", {RecordRevision} \cup RecordKeys, {})
      <3>1. 1 \in Nat \ {0} /\ 1 + BatchLen(dialect) - 1 <= Len(more)
        BY <1>4, <1>6
      <3> QED
        BY <1>4, <1>7, <3>1, BatchBefore
    <2>3. /\ (more \o last)[BatchLen(dialect) + 1] = a1
          /\ (more \o last)[BatchLen(dialect) + 2] = a2
          /\ (more \o last)[BatchLen(dialect) + 3] = a3
          /\ Len(more \o last) = BatchLen(dialect) + 3
      <3>1. 1 \in 1..Len(last) /\ 2 \in 1..Len(last) /\ 3 \in 1..Len(last)
            /\ Len(more) = BatchLen(dialect)
        BY <1>4, <1>7
      <3>2. /\ (more \o last)[Len(more) + 1] = a1 /\ (more \o last)[Len(more) + 2] = a2
            /\ (more \o last)[Len(more) + 3] = a3
        BY <1>7, <2>1, <3>1, Zenon
      <3>3. Len(last) = 3
        BY <1>7, Zenon
      <3> QED
        BY <2>1, <3>1, <3>2, <3>3
    <2> QED
      BY <1>5, <2>1, <2>2, <2>3, Zenon DEF Plan6Up, a1, a2, a3, Q
  <1>10. Plan6Down(dialect, DropResolutions) /\ DropResolutions \in Seq(TD)
    <2>1. /\ first \o less \in Seq(TD) /\ Len(first \o less) = Len(first) + Len(less)
          /\ \A i \in 1..Len(first) : (first \o less)[i] = first[i]
      BY <1>4, <1>8, ConcatFirst, Zenon
    <2>2. BatchAt(dialect, first \o less, 3, "quarantine_records", {}, RecordKeys \cup {RecordRevision})
      <3>1. BatchAt(dialect, first \o less, Len(first) + 1, "quarantine_records", {},
                    RecordKeys \cup {RecordRevision})
        BY <1>4, <1>8, BatchAfter
      <3>2. Len(first) + 1 = 3
        BY <1>8
      <3> QED
        BY <3>1, <3>2, Zenon
    <2>3. (first \o less)[1] = d1 /\ (first \o less)[2] = d2
      BY <1>8, <2>1
    <2>4. Len(first \o less) = 2 + BatchLen(dialect)
      BY <1>4, <1>6, <1>8, <2>1
    <2> QED
      BY <1>5, <2>1, <2>2, <2>3, <2>4, Zenon DEF Plan6Down, d1, d2
  <1> QED
    <2>1. 5 # 6
      OBVIOUS
    <2> QED
      BY <1>9, <1>10, <2>1, Zenon DEF Planned, TU, TD

\* Every plan is one of its migration.
LEMMA Planning ==
  ASSUME dialect \in Dialects, NEW n \in 1..Head6
  PROVE  Planned(dialect, TRUE, n, Upgrade(n)) /\ Planned(dialect, FALSE, n, Downgrade(n))
  <1>1. n \in {1, 2, 3, 4, 5, 6}
    BY DEF Head6
  <1>2. CASE n = 1
    <2>1. Upgrade(1) = CreateBaseline /\ Downgrade(1) = DropBaseline
      BY DEF Upgrade, Downgrade
    <2>2. 1 # 5 /\ 1 # 6
      OBVIOUS
    <2> QED
      BY <1>2, <2>1, <2>2, PlanBaseline, Zenon DEF Planned
  <1>3. CASE n = 2
    <2>1. Upgrade(2) = AddRunMetadata /\ Downgrade(2) = DropRunMetadata
      BY DEF Upgrade, Downgrade
    <2>2. 2 # 5 /\ 2 # 6
      OBVIOUS
    <2> QED
      BY <1>3, <2>1, <2>2, PlansTyped, Zenon DEF Planned
  <1>4. CASE n = 3
    <2>1. Upgrade(3) = AddProcessing /\ Downgrade(3) = DropProcessing
      BY DEF Upgrade, Downgrade
    <2>2. 3 # 5 /\ 3 # 6
      OBVIOUS
    <2> QED
      BY <1>4, <2>1, <2>2, PlansTyped, Zenon DEF Planned
  <1>5. CASE n = 4
    <2>1. Upgrade(4) = AddOperations /\ Downgrade(4) = DropOperations
      BY DEF Upgrade, Downgrade
    <2>2. 4 # 5 /\ 4 # 6
      OBVIOUS
    <2> QED
      BY <1>5, <2>1, <2>2, PlansTyped, Zenon DEF Planned
  <1>6. CASE n = 5
    <2>1. Upgrade(5) = AddReviewRevisions /\ Downgrade(5) = DropReviewRevisions
      BY DEF Upgrade, Downgrade
    <2> QED
      BY <1>6, <2>1, ReviewPlansTyped, Zenon
  <1>7. CASE n = 6
    <2>1. Upgrade(6) = AddResolutions /\ Downgrade(6) = DropResolutions
      BY DEF Upgrade, Downgrade
    <2> QED
      BY <1>7, <2>1, ResolutionPlansTyped, Zenon
  <1> QED
    BY <1>1, <1>2, <1>3, <1>4, <1>5, <1>6, <1>7

-----------------------------------------------------------------------------
(* Types.                                                                  *)

JobInv ==
    /\ job \in JobType
    /\ job.pc = "running" => /\ job.target # db.version /\ job.done <= Len(job.plan)
                             /\ Planned(dialect, Up, Current, job.plan)
    /\ job.pc # "running" => Stopped(job)

MigrationTypeOK ==
    /\ dialect \in Dialects
    /\ WellTyped(db) /\ WellTyped(saved)
    /\ JobInv
    /\ torn \subseteq 1..Head6

LEMMA PlannedTyped ==
  ASSUME NEW dia, NEW up, NEW n, NEW plan, Planned(dia, up, n, plan)
  PROVE  /\ plan \in Seq(StatementType) /\ Len(plan) \in Nat /\ DOMAIN plan = 1..Len(plan)
         /\ \A i \in 1..Len(plan) : plan[i] \in StatementType /\ Shape(dia, up, n, plan[i])
  BY DEF Planned, PlanType

\* The statement that is next is one of the plan.
LEMMA StatementIs ==
  ASSUME MigrationTypeOK, job.pc = "running", job.done < Len(job.plan)
  PROVE  /\ job.done \in Nat /\ job.done + 1 \in 1..Len(job.plan) /\ Len(job.plan) \in Nat
         /\ Statement \in StatementType /\ Shape(dialect, Up, Current, Statement)
  <1>1. job.done \in Nat /\ Planned(dialect, Up, Current, job.plan)
    BY DEF MigrationTypeOK, JobInv, JobType
  <1>2. Len(job.plan) \in Nat
    BY <1>1, PlannedTyped
  <1>3. job.done + 1 \in 1..Len(job.plan)
    BY <1>1, <1>2
  <1> QED
    BY <1>1, <1>2, <1>3, PlannedTyped DEF Statement

LEMMA CurrentIs ==
  ASSUME MigrationTypeOK, job.target # db.version
  PROVE  /\ Current \in 1..Head6 /\ Up \in BOOLEAN
         /\ IF Up THEN Current = db.version + 1 ELSE Current = db.version
  <1>1. job.target \in 0..Head6 /\ db.version \in 0..Head6
    BY DEF MigrationTypeOK, JobInv, JobType, WellTyped, DbType
  <1>2. Up \in BOOLEAN
    BY <1>1 DEF Up
  <1> QED
    BY <1>1, <1>2 DEF Up, Current, Head6

LEMMA MigrationInitTypes == MigrationInit => MigrationTypeOK
  <1> SUFFICES ASSUME MigrationInit PROVE MigrationTypeOK
    OBVIOUS
  <1> USE DEF MigrationInit
  <1>1. EmptyDb \in DbType /\ EmptyDb.decisions = {}
    BY DEF EmptyDb, DbType, Head6
  <1>2. IsFiniteSet(EmptyDb.decisions)
    BY <1>1, FS_EmptySet
  <1>3. WellTyped(db) /\ WellTyped(saved)
    BY <1>1, <1>2 DEF WellTyped
  <1>4. <<>> \in Seq(StatementType)
    BY NoPlan
  <1>5. NoJob \in JobType /\ Stopped(NoJob) /\ NoJob.pc = "idle"
    BY <1>4 DEF NoJob, JobType, Stopped, Head6
  <1>6. JobInv
    BY <1>5 DEF JobInv
  <1> QED
    BY <1>3, <1>6 DEF MigrationTypeOK

LEMMA StampedTyped ==
  ASSUME NEW d, WellTyped(d), NEW v \in 0..Head6
  PROVE  WellTyped([d EXCEPT !.version = v])
  <1> DEFINE e == [d EXCEPT !.version = v]
  <1>1. /\ e \in DbType /\ e.tables = d.tables /\ e.parts = d.parts /\ e.decisions = d.decisions
        /\ e.candidate = d.candidate /\ e.note = d.note /\ e.record = d.record
        /\ e.resolutions = d.resolutions
    BY DEF WellTyped, DbType
  <1> QED
    BY <1>1 DEF WellTyped

LEMMA RunTypes ==
  ASSUME MigrationTypeOK, RunStatement
  PROVE  MigrationTypeOK'
  <1>0. /\ job.pc = "running" /\ job.done < Len(job.plan)
        /\ db' = Effect(db, Statement) /\ (saved' = db' \/ saved' = saved)
        /\ UNCHANGED <<dialect, torn>>
    BY DEF RunStatement
  <1>1. /\ Statement \in StatementType /\ job.done \in Nat /\ job.done + 1 <= Len(job.plan)
    BY <1>0, StatementIs
  <1>2. WellTyped(db')
    BY <1>0, <1>1, EffectTyped DEF MigrationTypeOK
  <1>3. db'.version = db.version
    BY <1>0, <1>1, EffectTyped DEF MigrationTypeOK, EffectFacts
  <1>4. WellTyped(saved')
    BY <1>0, <1>2 DEF MigrationTypeOK
  <1>5. job \in JobType /\ job.pc = "running"
    BY <1>0 DEF MigrationTypeOK, JobInv
  <1>6. /\ job' \in JobType /\ job'.pc = "running" /\ job'.target = job.target
        /\ job'.plan = job.plan /\ job'.done = job.done + 1
    <2>1. PICK open, began \in BOOLEAN :
              job' = [job EXCEPT !.done = @ + 1, !.open = open, !.began = began]
      BY <1>5 DEF RunStatement, JobType
    <2>2. job.done + 1 \in Nat
      BY <1>1
    <2> QED
      BY <1>5, <2>1, <2>2 DEF JobType
  <1>7. Planned(dialect, Up, Current, job.plan) /\ job.target # db.version
    BY <1>5 DEF MigrationTypeOK, JobInv
  <1>8. Planned(dialect, Up, Current, job.plan)'
    BY <1>0, <1>3, <1>6, <1>7 DEF Up, Current
  <1>9. JobInv'
    BY <1>1, <1>3, <1>6, <1>7, <1>8 DEF JobInv
  <1> QED
    BY <1>0, <1>2, <1>4, <1>9 DEF MigrationTypeOK

LEMMA StampTypes ==
  ASSUME MigrationTypeOK, Stamp
  PROVE  MigrationTypeOK'
  <1> USE DEF Stamp
  <1>1. Current \in 1..Head6 /\ job.target \in 0..Head6
    BY CurrentIs DEF MigrationTypeOK, JobInv, JobType
  <1>2. PICK v \in 0..Head6 : db' = [db EXCEPT !.version = v]
    BY <1>1 DEF Head6
  <1>3. WellTyped(db')
    BY <1>2, StampedTyped DEF MigrationTypeOK
  <1>4. job' = [pc |-> "between", target |-> job.target, plan |-> <<>>, done |-> 0,
                open |-> FALSE, began |-> FALSE]
    <2>1. job' \in [pc : {"between"}, target : {job.target}, plan : {<<>>}, done : {0},
                    open : {FALSE}, began : {FALSE}]
      BY DEF NoJob
    <2> QED
      BY <2>1
  <1>5. job' \in JobType
    <2>1. <<>> \in Seq(StatementType)
      BY NoPlan
    <2>2. [pc |-> "between", target |-> job.target, plan |-> <<>>, done |-> 0,
           open |-> FALSE, began |-> FALSE] \in JobType
      BY <1>1, <2>1 DEF JobType
    <2> QED
      BY <1>4, <2>2
  <1>6. JobInv'
    BY <1>4, <1>5 DEF JobInv, Stopped
  <1> QED
    BY <1>3, <1>6 DEF MigrationTypeOK

LEMMA IdleTypes ==
  ASSUME MigrationTypeOK, job' = NoJob, WellTyped(db'), WellTyped(saved'), UNCHANGED dialect,
         torn' \subseteq 1..Head6
  PROVE  MigrationTypeOK'
  <1>1. NoJob \in JobType /\ Stopped(NoJob) /\ NoJob.pc = "idle"
    BY NoPlan DEF NoJob, JobType, Stopped, Head6
  <1>2. JobInv'
    BY <1>1 DEF JobInv
  <1> QED
    BY <1>2 DEF MigrationTypeOK

LEMMA MigrationTypes == MigrationTypeOK /\ [MigrationNext]_migrationVars => MigrationTypeOK'
  <1> SUFFICES ASSUME MigrationTypeOK, [MigrationNext]_migrationVars PROVE MigrationTypeOK'
    OBVIOUS
  <1>0. job \in JobType
    BY DEF MigrationTypeOK, JobInv
  <1>1. ASSUME NEW target \in 0..Head6, BeginCommand(target) PROVE MigrationTypeOK'
    <2> USE <1>1 DEF BeginCommand
    <2>1. job' = [pc |-> "between", target |-> target, plan |-> <<>>, done |-> 0,
                  open |-> FALSE, began |-> FALSE]
      <3>1. job' \in [pc : {"between"}, target : {target}, plan : {<<>>}, done : {0},
                      open : {FALSE}, began : {FALSE}]
        BY DEF NoJob
      <3> QED
        BY <3>1
    <2>2. job' \in JobType
      <3>1. <<>> \in Seq(StatementType)
        BY NoPlan
      <3>2. [pc |-> "between", target |-> target, plan |-> <<>>, done |-> 0,
             open |-> FALSE, began |-> FALSE] \in JobType
        BY <3>1 DEF JobType
      <3> QED
        BY <2>1, <3>2
    <2>3. JobInv'
      BY <2>1, <2>2 DEF JobInv, Stopped
    <2> QED
      BY <2>3 DEF MigrationTypeOK
  <1>2. ASSUME NextMigration PROVE MigrationTypeOK'
    <2> USE <1>2 DEF NextMigration
    <2>1. Current \in 1..Head6
      BY CurrentIs
    <2> DEFINE plan == IF Up THEN Upgrade(Current) ELSE Downgrade(Current)
    <2>2. Planned(dialect, Up, Current, plan)
      <3>1. dialect \in Dialects
        BY DEF MigrationTypeOK
      <3>2. Planned(dialect, TRUE, Current, Upgrade(Current))
            /\ Planned(dialect, FALSE, Current, Downgrade(Current))
        BY <2>1, <3>1, Planning
      <3>3. Up \in BOOLEAN
        BY CurrentIs
      <3> QED
        BY <3>2, <3>3
    <2>3. plan \in Seq(StatementType) /\ Len(plan) \in Nat
      BY <2>2, PlannedTyped
    <2>4. job' = [job EXCEPT !.pc = "running", !.plan = plan]
      OBVIOUS
    <2> HIDE DEF plan
    <2>5. job.done = 0
      BY DEF MigrationTypeOK, JobInv, Stopped
    <2>6. /\ job' \in JobType /\ job'.pc = "running" /\ job'.target = job.target
          /\ job'.plan = plan /\ job'.done = 0
      BY <1>0, <2>3, <2>4, <2>5 DEF JobType
    <2>7. Planned(dialect, Up, Current, job.plan)'
      BY <2>2, <2>6 DEF Up, Current
    <2>8. JobInv'
      BY <2>3, <2>6, <2>7 DEF JobInv
    <2> QED
      BY <2>8 DEF MigrationTypeOK
  <1>3. ASSUME RunStatement PROVE MigrationTypeOK'
    BY <1>3, RunTypes
  <1>4. ASSUME Stamp PROVE MigrationTypeOK'
    BY <1>4, StampTypes
  <1>5. ASSUME FinishCommand PROVE MigrationTypeOK'
    BY <1>5, IdleTypes DEF FinishCommand, MigrationTypeOK
  <1>6. ASSUME Abandon, job.pc # "idle" PROVE MigrationTypeOK'
    <2>1. job.began => Current \in 1..Head6
      <3>1. job.pc # "running" => ~job.began
        BY DEF MigrationTypeOK, JobInv, Stopped
      <3>2. job.pc = "running" => job.target # db.version
        BY DEF MigrationTypeOK, JobInv
      <3> QED
        BY <3>1, <3>2, CurrentIs
    <2> QED
      BY <1>6, <2>1, IdleTypes DEF Abandon, MigrationTypeOK
  <1>7. ASSUME NEW id \in Ids, NEW at \in Times, Decide(id, at) PROVE MigrationTypeOK'
    <2> DEFINE revision == IF db.version >= 5 THEN db.candidate + 1 ELSE 0
               new == [id |-> id, at |-> at, revision |-> revision]
    <2>1. /\ db' = [db EXCEPT !.decisions = @ \cup {new}, !.candidate = revision]
          /\ saved' = db' /\ UNCHANGED <<dialect, job, torn>>
          /\ job.pc # "running"
      BY <1>7 DEF Decide, InUse
    <2>2. revision \in Nat
      BY DEF MigrationTypeOK, WellTyped, DbType
    <2> HIDE DEF revision
    <2>3. new \in DecisionType
      BY <2>2 DEF DecisionType
    <2> HIDE DEF new
    <2>4. IsFiniteSet(db.decisions \cup {new})
      BY FS_AddElement DEF MigrationTypeOK, WellTyped
    <2>5. db' \in DbType /\ db'.decisions = db.decisions \cup {new}
      BY <2>1, <2>2, <2>3 DEF MigrationTypeOK, WellTyped, DbType
    <2> QED
      BY <2>1, <2>4, <2>5 DEF MigrationTypeOK, WellTyped, JobInv
  <1>8. ASSUME NEW note \in {"blank", "text"}, Resolve(note) PROVE MigrationTypeOK'
    <2> DEFINE new == [revision |-> db.record + 1, imported |-> FALSE]
    <2>1. /\ \/ db' = [db EXCEPT !.note = note, !.record = @ + 1, !.resolutions = @ \cup {new}]
             \/ db' = [db EXCEPT !.note = note]
          /\ saved' = db' /\ UNCHANGED <<dialect, job, torn>>
          /\ job.pc # "running"
      BY <1>8 DEF Resolve, InUse
    <2>2. new \in [revision : Nat, imported : BOOLEAN] /\ db.record + 1 \in Nat
      BY DEF MigrationTypeOK, WellTyped, DbType
    <2> HIDE DEF new
    <2>3. db' \in DbType /\ db'.decisions = db.decisions
      <3>1. db \in DbType
        BY DEF MigrationTypeOK, WellTyped
      <3>2. CASE db' = [db EXCEPT !.note = note, !.record = @ + 1, !.resolutions = @ \cup {new}]
        BY <2>2, <3>1, <3>2 DEF DbType
      <3>3. CASE db' = [db EXCEPT !.note = note]
        BY <3>1, <3>3 DEF DbType
      <3> QED
        BY <2>1, <3>2, <3>3
    <2> QED
      BY <2>1, <2>3 DEF MigrationTypeOK, WellTyped, JobInv
  <1>9. ASSUME UNCHANGED migrationVars PROVE MigrationTypeOK'
    BY <1>9 DEF migrationVars, MigrationTypeOK, JobInv, Up, Current
  <1> QED
    BY <1>1, <1>2, <1>3, <1>4, <1>5, <1>6, <1>7, <1>8, <1>9
    DEF MigrationNext, StatementFails, Crash

-----------------------------------------------------------------------------
(* What the steps of a migration do to the job, the database and what is   *)
(* durable of it.                                                          *)

Running == /\ job.pc = "running" /\ job.done < Len(job.plan) /\ job.done \in Nat
           /\ job.done + 1 \in 1..Len(job.plan) /\ Len(job.plan) \in Nat
           /\ Statement = job.plan[job.done + 1]
           /\ Statement \in StatementType /\ Shape(dialect, Up, Current, Statement)
           /\ Planned(dialect, Up, Current, job.plan)

Ran == /\ job'.pc = "running" /\ job'.target = job.target /\ job'.plan = job.plan
       /\ job'.done = job.done + 1
       /\ Up' = Up /\ Current' = Current /\ dialect' = dialect /\ torn' = torn
       /\ Accepted(db, Statement) /\ ~Refused(db, Statement)
       /\ db' = Effect(db, Statement) /\ EffectFacts(db, Statement, db')
       /\ WellTyped(db') /\ Normal(db')
       /\ job'.open <=> job.open \/ Statement.rows \notin {"unchanged", "keep_history"}
       /\ saved' = IF dialect = "sqlite" /\ ~job'.open THEN db' ELSE saved
       /\ job'.began <=> job.began \/ saved' # saved

LEMMA RunIs ==
  ASSUME MigrationTypeOK, RunStatement
  PROVE  Running /\ Ran
  <1>0. /\ job.pc = "running" /\ job.done < Len(job.plan)
        /\ Accepted(db, Statement) /\ ~Refused(db, Statement)
        /\ db' = Effect(db, Statement) /\ UNCHANGED <<dialect, torn>>
    BY Zenon DEF RunStatement
  <1>1. /\ Statement \in StatementType /\ job.done \in Nat /\ job.done + 1 \in 1..Len(job.plan)
        /\ Len(job.plan) \in Nat /\ Shape(dialect, Up, Current, Statement)
    BY <1>0, StatementIs, Zenon
  <1>2. job \in JobType /\ Planned(dialect, Up, Current, job.plan)
    BY <1>0, Zenon DEF MigrationTypeOK, JobInv
  <1>3. Running
    BY <1>0, <1>1, <1>2, Zenon DEF Running, Statement
  <1>4. EffectFacts(db, Statement, db') /\ WellTyped(db') /\ Normal(db')
    BY <1>0, <1>1, EffectTyped DEF MigrationTypeOK
  <1>5. db'.version = db.version
    BY <1>4, Zenon DEF EffectFacts
  <1> DEFINE open == job.open \/ Statement.rows \notin {"unchanged", "keep_history"}
             began == job.began \/ saved' # saved
  <1>6. /\ saved' = IF dialect = "sqlite" /\ ~open THEN db' ELSE saved
        /\ job' = [job EXCEPT !.done = @ + 1, !.open = open, !.began = began]
    BY Zenon DEF RunStatement
  <1> HIDE DEF open, began
  <1>7. /\ job'.pc = "running" /\ job'.target = job.target /\ job'.plan = job.plan
        /\ job'.done = job.done + 1 /\ job'.open = open /\ job'.began = began
    BY <1>0, <1>2, <1>6 DEF JobType
  <1>8. Up' = Up /\ Current' = Current
    BY <1>5, <1>7 DEF Up, Current
  <1> QED
    BY <1>0, <1>3, <1>4, <1>6, <1>7, <1>8, Zenon DEF Ran, open, began

Stamped == /\ job.pc = "running" /\ job.done = Len(job.plan) /\ Len(job.plan) \in Nat
           /\ Current \in 1..Head6 /\ Up \in BOOLEAN
           /\ Current = IF Up THEN db.version + 1 ELSE db.version
           /\ Planned(dialect, Up, Current, job.plan)
           /\ db'.version = (IF Up THEN Current ELSE Current - 1)
           /\ db'.tables = db.tables /\ db'.parts = db.parts /\ Names(db') = Names(db)
           /\ db'.decisions = db.decisions /\ db'.candidate = db.candidate
           /\ db'.note = db.note /\ db'.record = db.record /\ db'.resolutions = db.resolutions
           /\ saved' = (IF dialect = "sqlite" THEN db' ELSE saved)
           /\ job'.pc = "between" /\ job'.target = job.target /\ ~job'.open /\ ~job'.began
           /\ dialect' = dialect /\ torn' = torn

LEMMA StampIs ==
  ASSUME MigrationTypeOK, Stamp
  PROVE  Stamped
  <1>1. /\ job.pc = "running" /\ job.done = Len(job.plan)
        /\ db' = [db EXCEPT !.version = IF Up THEN Current ELSE Current - 1]
        /\ saved' = (IF dialect = "sqlite" THEN db' ELSE saved)
        /\ dialect' = dialect /\ torn' = torn
    BY Zenon DEF Stamp
  <1>2. job.target # db.version /\ Planned(dialect, Up, Current, job.plan)
    BY <1>1, Zenon DEF MigrationTypeOK, JobInv
  <1>3. /\ Current \in 1..Head6 /\ Up \in BOOLEAN
        /\ Current = IF Up THEN db.version + 1 ELSE db.version
    BY <1>2, CurrentIs
  <1>4. db \in DbType
    BY DEF MigrationTypeOK, WellTyped
  <1>5. /\ db'.version = (IF Up THEN Current ELSE Current - 1)
        /\ db'.tables = db.tables /\ db'.parts = db.parts
        /\ db'.decisions = db.decisions /\ db'.candidate = db.candidate
        /\ db'.note = db.note /\ db'.record = db.record /\ db'.resolutions = db.resolutions
    BY <1>1, <1>4 DEF DbType
  <1>6. Names(db') = Names(db)
    BY <1>5 DEF Names
  <1>7. job'.pc = "between" /\ job'.target = job.target /\ ~job'.open /\ ~job'.began
    BY DEF Stamp, NoJob
  <1>8. Len(job.plan) \in Nat
    BY <1>2, PlannedTyped
  <1> QED
    BY <1>1, <1>2, <1>3, <1>5, <1>6, <1>7, <1>8, Zenon DEF Stamped

\* The plan, made from the database as it is.
Begun == /\ job.pc = "between" /\ job.target # db.version
         /\ Current \in 1..Head6 /\ Up \in BOOLEAN
         /\ Current = IF Up THEN db.version + 1 ELSE db.version
         /\ job'.pc = "running" /\ job'.target = job.target /\ job'.done = 0
         /\ ~job'.open /\ ~job'.began /\ ~job.open /\ ~job.began
         /\ job'.plan = (IF Up THEN Upgrade(Current) ELSE Downgrade(Current))
         /\ Planned(dialect, Up, Current, job'.plan)
         /\ Len(job'.plan) \in Nat /\ DOMAIN job'.plan = 1..Len(job'.plan)
         /\ Up' = Up /\ Current' = Current
         /\ UNCHANGED <<dialect, db, saved, torn>>

LEMMA PlanBegun ==
  ASSUME MigrationTypeOK, NextMigration
  PROVE  Begun
  <1> DEFINE plan == IF Up THEN Upgrade(Current) ELSE Downgrade(Current)
  <1>1. /\ job.pc = "between" /\ job.target # db.version
        /\ job' = [job EXCEPT !.pc = "running", !.plan = plan]
        /\ UNCHANGED <<dialect, db, saved, torn>>
    BY Zenon DEF NextMigration
  <1>2. /\ Current \in 1..Head6 /\ Up \in BOOLEAN
        /\ Current = IF Up THEN db.version + 1 ELSE db.version
    BY <1>1, CurrentIs
  <1>3. job \in JobType /\ Stopped(job)
    BY <1>1 DEF MigrationTypeOK, JobInv
  <1>4. job.done = 0 /\ job.open = FALSE /\ job.began = FALSE
    BY <1>3 DEF Stopped
  <1> HIDE DEF plan
  <1>5. /\ job'.pc = "running" /\ job'.target = job.target /\ job'.done = job.done
        /\ job'.open = job.open /\ job'.began = job.began /\ job'.plan = plan
    BY <1>1, <1>3 DEF JobType
  <1>6. Planned(dialect, Up, Current, plan)
    <2>1. dialect \in Dialects
      BY DEF MigrationTypeOK
    <2>2. Planned(dialect, TRUE, Current, Upgrade(Current))
          /\ Planned(dialect, FALSE, Current, Downgrade(Current))
      BY <1>2, <2>1, Planning
    <2> QED
      BY <1>2, <2>2 DEF plan
  <1>7. Len(plan) \in Nat /\ DOMAIN plan = 1..Len(plan)
    BY <1>6, PlannedTyped
  <1>8. Up' = Up /\ Current' = Current
    BY <1>1, <1>5 DEF Up, Current
  <1> QED
    BY <1>1, <1>2, <1>4, <1>5, <1>6, <1>7, <1>8, Zenon DEF Begun, plan

\* What is durable is the database itself, except within a transaction; only
\* SQLite has migrations that are half done.
SavedInv ==
    /\ job.pc = "idle" => saved = db
    /\ dialect = "sqlite" /\ ~job.open => saved = db
    /\ dialect # "sqlite" => ~job.began /\ torn = {}

LEMMA SavedStep ==
  MigrationTypeOK /\ SavedInv /\ [MigrationNext]_migrationVars => SavedInv'
  <1> SUFFICES ASSUME MigrationTypeOK, SavedInv, [MigrationNext]_migrationVars PROVE SavedInv'
    OBVIOUS
  <1>0. job \in JobType /\ (job.pc # "running" => ~job.open /\ ~job.began)
    BY DEF MigrationTypeOK, JobInv, Stopped
  <1>1. ASSUME NEW target \in 0..Head6, BeginCommand(target) PROVE SavedInv'
    BY <1>0, <1>1 DEF BeginCommand, SavedInv, NoJob
  <1>2. ASSUME NextMigration PROVE SavedInv'
    BY <1>2, PlanBegun DEF Begun, SavedInv
  <1>3. ASSUME RunStatement PROVE SavedInv'
    BY <1>3, RunIs DEF Running, Ran, SavedInv
  <1>4. ASSUME Stamp PROVE SavedInv'
    BY <1>4, StampIs DEF Stamped, SavedInv
  <1>5. ASSUME FinishCommand PROVE SavedInv'
    BY <1>5 DEF FinishCommand, SavedInv, NoJob
  <1>6. ASSUME Abandon PROVE SavedInv'
    BY <1>6 DEF Abandon, SavedInv, NoJob
  <1>7. ASSUME NEW id \in Ids, NEW at \in Times, Decide(id, at) PROVE SavedInv'
    BY <1>7 DEF Decide, SavedInv
  <1>8. ASSUME NEW note \in {"blank", "text"}, Resolve(note) PROVE SavedInv'
    BY <1>8 DEF Resolve, SavedInv
  <1>9. ASSUME UNCHANGED migrationVars PROVE SavedInv'
    BY <1>9 DEF migrationVars, SavedInv
  <1> QED
    BY <1>1, <1>2, <1>3, <1>4, <1>5, <1>6, <1>7, <1>8, <1>9
    DEF MigrationNext, StatementFails, Crash

-----------------------------------------------------------------------------
(* Columns and keys belong to tables that exist, and no command ends above *)
(* the base with an empty database: so what is forgotten of interrupted    *)
(* migrations there is forgotten at the base.                              *)

Held(d) == /\ \A p \in d.parts : p[1] \in Names(d)
           /\ d.version >= 2 => "raw_snapshots" \in Names(d)

TablesInv ==
    /\ Held(db) /\ Held(saved)
    /\ job.pc = "running" /\ Up /\ Current = 1 =>
           /\ job.plan = CreateBaseline
           /\ \A k \in 1..job.done : Baseline[k] \in db.tables
    /\ job.pc = "running" /\ Up /\ Current = 2 =>
           \/ ContentKey \in db.parts
           \/ \E k \in (job.done + 1)..Len(job.plan) : ContentKey \in job.plan[k].gain
    /\ job.pc = "between" /\ job.target = db.version /\ db.version >= 1 => db.tables # {}

LEMMA StepHeld ==
  ASSUME NEW d, NEW e, NEW s \in StatementType, NEW up, NEW n, NEW dia, Held(d),
         Accepted(d, s), EffectFacts(d, s, e), Shape(dia, up, n, s), d.parts \subseteq ModelParts,
         up \/ n # 1 \/ d.version = 1
  PROVE  Held(e)
  <1>1. /\ e.version = d.version
        /\ e.tables = {t \in d.tables : t.name \notin s.drop} \cup s.add
        /\ e.parts = {p \in d.parts : p[1] \notin s.drop /\ p \notin s.lose} \cup s.gain
    BY DEF EffectFacts
  <1>2. \A p \in s.gain : p \in ModelParts /\ (p[1] \in Names(d) \/ \E t \in s.add : t.name = p[1])
    BY DEF Accepted, StatementType
  <1>3. \A x : x \in Names(d) /\ x \notin s.drop => x \in Names(e)
    BY <1>1 DEF Names
  <1>4. \A t \in s.add : t.name \in Names(e)
    BY <1>1 DEF Names
  <1>5. \A p \in s.gain : p[1] \notin s.drop
    BY <1>2 DEF Shape
  <1>6. \A p \in e.parts : p[1] \in Names(e)
    BY <1>1, <1>2, <1>3, <1>4, <1>5 DEF Held
  <1>7. e.version >= 2 => "raw_snapshots" \in Names(e)
    <2>1. up \/ n # 1 => "raw_snapshots" \notin s.drop
      BY PartsAre DEF Shape, PartFacts
    <2> QED
      BY <1>1, <1>3, <2>1 DEF Held
  <1> QED
    BY <1>6, <1>7 DEF Held

\* 0002 creates the unique key of the snapshots or finds it.
LEMMA ContentPlanned ==
  ASSUME dialect \in Dialects, ContentKey \notin db.parts
  PROVE  /\ Len(AddRunMetadata) \in Nat
         /\ \E k \in 1..Len(AddRunMetadata) : ContentKey \in AddRunMetadata[k].gain
  <1>1. /\ RunParts \in Seq(BaselineParts) /\ RunColumns \in Seq(BaselineParts)
        /\ Len(RunParts) = 6 /\ Len(RunColumns) = 4 /\ 2 \in 1..4
    BY PartsAre DEF PartFacts
  <1>2. CASE dialect = "postgresql"
    <2>1. AddRunMetadata = AddMissing(RunParts)
      BY <1>2 DEF AddRunMetadata
    <2>2. /\ Len(AddMissing(RunParts)) = 6
          /\ \A i \in 1..6 : AddMissing(RunParts)[i] =
                 IF RunParts[i] \in db.parts THEN Nothing ELSE Add({RunParts[i]})
      BY <1>1, AddMissingTyped
    <2>3. RunParts[6] = ContentKey
      BY PartsAre DEF PartFacts
    <2>4. AddMissing(RunParts)[6] = Add({ContentKey}) /\ 6 \in 1..6
      BY <2>2, <2>3
    <2> QED
      BY <2>1, <2>2, <2>4 DEF Add, Nothing
  <1>3. CASE dialect # "postgresql"
    <2> DEFINE p == AddMissing(RunColumns)
               q == Batch("raw_snapshots", {ContentKey}, {})
               S == PlanType(dialect, TRUE, 2)
    <2>1. dialect = "sqlite" /\ AddRunMetadata = p \o q
      BY <1>3, IdsAssumption DEF AddRunMetadata
    <2>2. p \in Seq(S) /\ Len(p) = 4
      BY <1>1, AddMissingTyped
    <2>3. q \in Seq(S) /\ Len(q) = 2
          /\ q[2] = [Nothing EXCEPT !.gain = {ContentKey}, !.lose = {},
                                    !.drop = {Temporary["raw_snapshots"]}, !.rows = "copied"]
      <3>1. q \in Seq(S) /\ Len(q) = 2
            /\ BatchAt("sqlite", q, 1, "raw_snapshots", {ContentKey}, {})
        BY <2>1, BatchesTyped DEF BatchLen
      <3> HIDE DEF q, S
      <3>2. q[1 + 1] = [Nothing EXCEPT !.gain = {ContentKey}, !.lose = {},
                                       !.drop = {Temporary["raw_snapshots"]}, !.rows = "copied"]
        BY <3>1, Zenon DEF BatchAt
      <3> QED
        BY <3>1, <3>2
    <2>4. q[2].gain = {ContentKey}
      BY <2>3 DEF Nothing
    <2> HIDE DEF p, q, S
    <2>5. /\ Len(p \o q) = Len(p) + Len(q)
          /\ \A i \in 1..Len(p) + Len(q) : (p \o q)[i] = IF i <= Len(p) THEN p[i] ELSE q[i - Len(p)]
      <3>1. p \in Seq(S) /\ q \in Seq(S)
        BY <2>2, <2>3, Zenon
      <3> QED
        BY <3>1, ConcatProperties, Zenon
    <2>6. Len(p \o q) = 6 /\ (p \o q)[6] = q[2]
      BY <2>2, <2>3, <2>5
    <2> QED
      BY <2>1, <2>4, <2>6
  <1> QED
    BY <1>2, <1>3

LEMMA RunTables ==
  ASSUME MigrationTypeOK, TablesInv, RunStatement
  PROVE  TablesInv'
  <1>1. Running /\ Ran
    BY RunIs
  <1>2. job.target # db.version
    BY <1>1 DEF Running, MigrationTypeOK, JobInv
  <1>3. /\ Current \in 1..Head6 /\ Up \in BOOLEAN
        /\ IF Up THEN Current = db.version + 1 ELSE Current = db.version
    BY <1>2, CurrentIs
  <1>4. Held(db')
    <2>1. Up \/ Current # 1 \/ db.version = 1
      BY <1>3
    <2>2. db.parts \subseteq ModelParts
      BY DEF MigrationTypeOK, WellTyped, DbType
    <2>3. Held(db) /\ Accepted(db, Statement) /\ EffectFacts(db, Statement, db')
          /\ Shape(dialect, Up, Current, Statement) /\ Statement \in StatementType
      BY <1>1, Zenon DEF TablesInv, Running, Ran
    <2> QED
      BY <2>1, <2>2, <2>3, StepHeld
  <1>5. Held(saved')
    BY <1>1, <1>4 DEF Ran, TablesInv
  <1>6. ASSUME Up', Current' = 1
        PROVE  job'.plan = CreateBaseline /\ \A k \in 1..job'.done : Baseline[k] \in db'.tables
    <2>1. /\ Up /\ Current = 1 /\ job.plan = CreateBaseline
          /\ \A k \in 1..job.done : Baseline[k] \in db.tables
      BY <1>1, <1>6, Zenon DEF Running, Ran, TablesInv
    <2>2. Statement = CreateTable(Baseline[job.done + 1],
                                  {p \in BaselineParts : p[1] = Baseline[job.done + 1].name})
      <3>1. job.done + 1 \in 1..Len(Baseline)
        BY <1>1, <2>1, PlanBaseline DEF Running
      <3> QED
        BY <1>1, <2>1, <3>1, PlanBaseline DEF Running
    <2>3. Statement.add = {Baseline[job.done + 1]} /\ Statement.drop = {}
      BY <2>2 DEF CreateTable, Nothing
    <2>4. db'.tables = db.tables \cup {Baseline[job.done + 1]}
      BY <1>1, <2>3 DEF Ran, EffectFacts
    <2>5. job'.done = job.done + 1 /\ job.done \in Nat /\ job'.plan = job.plan
      BY <1>1 DEF Running, Ran
    <2>6. \A k \in 1..job'.done : k \in 1..job.done \/ k = job.done + 1
      BY <2>5
    <2> QED
      BY <2>1, <2>4, <2>5, <2>6
  <1>7. ASSUME Up', Current' = 2
        PROVE  \/ ContentKey \in db'.parts
               \/ \E k \in (job'.done + 1)..Len(job'.plan) : ContentKey \in job'.plan[k].gain
    <2>1. /\ Up /\ Current = 2
          /\ \/ ContentKey \in db.parts
             \/ \E k \in (job.done + 1)..Len(job.plan) : ContentKey \in job.plan[k].gain
      BY <1>1, <1>7, Zenon DEF Running, Ran, TablesInv
    <2>2. /\ job'.done = job.done + 1 /\ job.done \in Nat /\ job'.plan = job.plan
          /\ Len(job.plan) \in Nat /\ Statement = job.plan[job.done + 1]
      BY <1>1 DEF Running, Ran
    <2>3. db'.parts = {p \in db.parts : p[1] \notin Statement.drop /\ p \notin Statement.lose}
                      \cup Statement.gain
      BY <1>1 DEF Ran, EffectFacts
    <2>4. Statement.lose = {} /\ ContentKey[1] \notin Statement.drop
      <3>1. ContentKey \in ModelParts
        BY PartsAre DEF PartFacts
      <3> QED
        BY <1>1, <2>1, <3>1 DEF Running, Shape
    <2>5. CASE ContentKey \in db.parts
      BY <2>3, <2>4, <2>5
    <2>6. ASSUME NEW k \in (job.done + 1)..Len(job.plan), ContentKey \in job.plan[k].gain
          PROVE  \/ ContentKey \in db'.parts
                 \/ \E i \in (job'.done + 1)..Len(job'.plan) : ContentKey \in job'.plan[i].gain
      <3>1. CASE k = job.done + 1
        BY <2>2, <2>3, <2>6, <3>1
      <3>2. CASE k # job.done + 1
        <4>1. k \in (job'.done + 1)..Len(job'.plan)
          BY <2>2, <3>2
        <4> QED
          BY <2>2, <2>6, <4>1
      <3> QED
        BY <3>1, <3>2
    <2> QED
      BY <2>1, <2>5, <2>6
  <1>8. job'.pc = "running"
    BY <1>1 DEF Ran
  <1> QED
    BY <1>4, <1>5, <1>6, <1>7, <1>8 DEF TablesInv

LEMMA StampTables ==
  ASSUME MigrationTypeOK, TablesInv, Stamp
  PROVE  TablesInv'
  <1>1. Stamped
    BY StampIs
  <1>2. Held(db')
    <2>1. CASE Up /\ Current = 2
      <3>1. ContentKey \in db.parts
        <4>1. \A k \in (job.done + 1)..Len(job.plan) : FALSE
          BY <1>1 DEF Stamped
        <4> QED
          BY <1>1, <2>1, <4>1 DEF Stamped, TablesInv
      <3>2. "raw_snapshots" \in Names(db)
        BY <3>1, PartsAre DEF TablesInv, Held, PartFacts
      <3> QED
        BY <1>1, <3>2 DEF Stamped, TablesInv, Held
    <2>2. CASE ~(Up /\ Current = 2)
      <3>1. db'.version >= 2 => db.version >= 2
        <4>1. db.version \in 0..Head6
          BY DEF MigrationTypeOK, WellTyped, DbType
        <4> QED
          BY <1>1, <2>2, <4>1 DEF Stamped, Head6
      <3> QED
        BY <1>1, <3>1 DEF Stamped, TablesInv, Held
    <2> QED
      BY <2>1, <2>2
  <1>3. Held(saved')
    BY <1>1, <1>2 DEF Stamped, TablesInv
  <1>4. db'.version >= 1 => db'.tables # {}
    <2>1. CASE Up /\ Current = 1
      <3>1. "organizations" \in Created
        BY SchemaAssumption, Zenon
      <3>2. PICK i \in DOMAIN Baseline : Baseline[i].name = "organizations"
        BY <3>1 DEF Created
      <3>3. job.done = Len(Baseline) /\ i \in 1..Len(Baseline)
        BY <1>1, <2>1, PlanBaseline DEF Stamped, TablesInv
      <3>4. Baseline[i] \in db.tables
        BY <1>1, <2>1, <3>3 DEF Stamped, TablesInv
      <3> QED
        BY <1>1, <3>4 DEF Stamped
    <2>2. CASE Up /\ Current # 1
      <3>1. db'.version >= 2 /\ db'.version \in Nat
        BY <1>1, <2>2 DEF Stamped
      <3>2. "raw_snapshots" \in Names(db')
        BY <1>2, <3>1 DEF Held
      <3> QED
        BY <3>2 DEF Names
    <2>3. CASE ~Up
      <3>1. db'.version >= 1 => db.version >= 2
        BY <1>1, <2>3 DEF Stamped, Head6
      <3>2. db'.version >= 1 => "raw_snapshots" \in Names(db)
        BY <3>1 DEF TablesInv, Held
      <3> QED
        BY <1>1, <3>2 DEF Names, Stamped
    <2> QED
      BY <1>1, <2>1, <2>2, <2>3 DEF Stamped
  <1> QED
    BY <1>1, <1>2, <1>3, <1>4 DEF Stamped, TablesInv

LEMMA TablesStep ==
  MigrationTypeOK /\ SavedInv /\ TablesInv /\ [MigrationNext]_migrationVars => TablesInv'
  <1> SUFFICES ASSUME MigrationTypeOK, SavedInv, TablesInv, [MigrationNext]_migrationVars
               PROVE  TablesInv'
    OBVIOUS
  <1>1. ASSUME NEW target \in 0..Head6, BeginCommand(target) PROVE TablesInv'
    BY <1>1 DEF BeginCommand, TablesInv, NoJob
  <1>2. ASSUME NextMigration PROVE TablesInv'
    <2>1. Begun
      BY <1>2, PlanBegun
    <2>2. ASSUME Up', Current' = 1
          PROVE  job'.plan = CreateBaseline /\ \A k \in 1..job'.done : FALSE
      BY <2>1, <2>2 DEF Begun, Upgrade
    <2>3. ASSUME Up', Current' = 2, ContentKey \notin db'.parts
          PROVE  \E k \in (job'.done + 1)..Len(job'.plan) : ContentKey \in job'.plan[k].gain
      <3>1. job'.plan = AddRunMetadata /\ job'.done = 0 /\ ContentKey \notin db.parts
        BY <2>1, <2>3 DEF Begun, Upgrade
      <3>2. \E k \in 1..Len(AddRunMetadata) : ContentKey \in AddRunMetadata[k].gain
        BY <3>1, ContentPlanned DEF MigrationTypeOK
      <3> QED
        BY <3>1, <3>2
    <2>4. Held(db') /\ Held(saved') /\ job'.pc = "running"
      BY <2>1 DEF Begun, TablesInv
    <2> QED
      BY <2>2, <2>3, <2>4 DEF TablesInv
  <1>3. ASSUME RunStatement PROVE TablesInv'
    BY <1>3, RunTables
  <1>4. ASSUME Stamp PROVE TablesInv'
    BY <1>4, StampTables
  <1>5. ASSUME FinishCommand PROVE TablesInv'
    BY <1>5 DEF FinishCommand, TablesInv, NoJob
  <1>6. ASSUME Abandon PROVE TablesInv'
    BY <1>6 DEF Abandon, TablesInv, NoJob
  <1>7. ASSUME NEW id \in Ids, NEW at \in Times, Decide(id, at) PROVE TablesInv'
    <2>1. /\ db'.tables = db.tables /\ db'.parts = db.parts /\ db'.version = db.version
          /\ saved' = db' /\ job' = job /\ job.pc = "idle"
      BY <1>7 DEF Decide, InUse, MigrationTypeOK, WellTyped, DbType
    <2> QED
      BY <2>1 DEF TablesInv, Held, Names
  <1>8. ASSUME NEW note \in {"blank", "text"}, Resolve(note) PROVE TablesInv'
    <2>1. /\ db'.tables = db.tables /\ db'.parts = db.parts /\ db'.version = db.version
          /\ saved' = db' /\ job' = job /\ job.pc = "idle"
      BY <1>8 DEF Resolve, InUse, MigrationTypeOK, WellTyped, DbType
    <2> QED
      BY <2>1 DEF TablesInv, Held, Names
  <1>9. ASSUME UNCHANGED migrationVars PROVE TablesInv'
    BY <1>9 DEF migrationVars, TablesInv, Up, Current
  <1> QED
    BY <1>1, <1>2, <1>3, <1>4, <1>5, <1>6, <1>7, <1>8, <1>9
    DEF MigrationNext, StatementFails, Crash

-----------------------------------------------------------------------------
(* The rest of a plan: that every statement will be accepted, and the      *)
(* schema it leads to.                                                     *)

\* A statement does not repeat, and does not take away, what another is about.
Consistent(plan) ==
    \A j, k \in 1..Len(plan) :
        /\ j # k => /\ \A t \in plan[j].add, u \in plan[k].add : t.name # u.name
                    /\ plan[j].drop \cap plan[k].drop = {}
                    /\ plan[j].gain \cap plan[k].gain = {}
                    /\ plan[j].lose \cap plan[k].lose = {}
        /\ \A t \in plan[j].add : t.refs \cap plan[k].drop = {}
        /\ \A p \in plan[j].gain \cup plan[j].lose : p[1] \notin plan[k].drop

\* A table is there, or will be, when the k-th statement runs.
ThereAt(name, d, plan, done, k) ==
    \/ name \in Names(d)
    \/ \E j \in (done + 1)..(k - 1) : \E u \in plan[j].add : u.name = name

Feasible(d, plan, done) ==
    \A k \in (done + 1)..Len(plan) :
        /\ \A t \in plan[k].add : /\ t.name \notin Names(d)
                                  /\ \A r \in t.refs : ThereAt(r, d, plan, done, k)
        /\ \A name \in plan[k].drop : ThereAt(name, d, plan, done, k)
        /\ \A p \in plan[k].gain : p \notin d.parts /\ ThereAt(p[1], d, plan, done, k + 1)
        /\ plan[k].lose \subseteq d.parts
        /\ \A t \in d.tables : t.refs \cap plan[k].drop # {} =>
               \E j \in (done + 1)..k : t.name \in plan[j].drop

\* The tables and the parts there will be at the end are between two sets.
LeadsTo(d, plan, done, lowT, highT, lowP, highP) ==
    /\ \A t \in d.tables : t \in highT \/ \E k \in (done + 1)..Len(plan) : t.name \in plan[k].drop
    /\ \A k \in (done + 1)..Len(plan) : \A t \in plan[k].add :
           t \in highT \/ \E j \in (k + 1)..Len(plan) : t.name \in plan[j].drop
    /\ \A t \in lowT : /\ t \in d.tables \/ \E k \in (done + 1)..Len(plan) : t \in plan[k].add
                       /\ \A k \in (done + 1)..Len(plan) : t.name \notin plan[k].drop
    /\ \A p \in d.parts : p \in highP \/ \E k \in (done + 1)..Len(plan) :
                                             p \in plan[k].lose \/ p[1] \in plan[k].drop
    /\ \A k \in (done + 1)..Len(plan) : plan[k].gain \subseteq highP
    /\ \A p \in lowP : /\ p \in d.parts \/ \E k \in (done + 1)..Len(plan) : p \in plan[k].gain
                       /\ \A k \in (done + 1)..Len(plan) :
                              p \notin plan[k].lose /\ p[1] \notin plan[k].drop

LEMMA NextIndex ==
  ASSUME NEW done \in Nat, NEW n \in Nat, NEW k, k = done + 1, k \in 1..n
  PROVE  /\ k \in (done + 1)..n /\ k \in Nat
         /\ (done + 1)..(k - 1) = {} /\ (done + 1)..((k + 1) - 1) = {k} /\ (done + 1)..k = {k}
  OBVIOUS

\* The rows are as the statement asks for.
RowsReady(d, s) ==
    /\ DecisionKeys \subseteq s.gain => Numbered(d.decisions)
    /\ s.rows = "keep_history" => "quarantine_resolutions" \in Names(d)

LEMMA AcceptedNow ==
  ASSUME NEW d, NEW s, RowsReady(d, s),
         \A t \in s.add : t.name \notin Names(d) /\ \A r \in t.refs : r \in Names(d),
         \A name \in s.drop : name \in Names(d),
         \A p \in s.gain : /\ p \notin d.parts
                           /\ p[1] \in Names(d) \/ \E u \in s.add : u.name = p[1],
         s.lose \subseteq d.parts,
         \A t \in d.tables : t.name \notin s.drop => t.refs \cap s.drop = {}
  PROVE  Accepted(d, s)
  BY DEF Accepted, RowsReady

LEMMA AcceptedIf ==
  ASSUME NEW d, NEW plan, NEW done \in Nat, NEW k, k = done + 1, k \in 1..Len(plan),
         Len(plan) \in Nat, Feasible(d, plan, done), RowsReady(d, plan[k])
  PROVE  Accepted(d, plan[k])
  <1>1. /\ k \in (done + 1)..Len(plan)
        /\ (done + 1)..(k - 1) = {} /\ (done + 1)..((k + 1) - 1) = {k} /\ (done + 1)..k = {k}
    BY NextIndex
  <1>2. \A name : ThereAt(name, d, plan, done, k) => name \in Names(d)
    BY <1>1, Zenon DEF ThereAt
  <1>3. \A name : ThereAt(name, d, plan, done, k + 1) =>
            name \in Names(d) \/ \E u \in plan[k].add : u.name = name
    <2>1. \A j \in (done + 1)..((k + 1) - 1) : j = k
      BY <1>1, Zenon
    <2> QED
      BY <2>1, Zenon DEF ThereAt
  <1>4. /\ \A t \in plan[k].add : /\ t.name \notin Names(d)
                                  /\ \A r \in t.refs : ThereAt(r, d, plan, done, k)
        /\ \A name \in plan[k].drop : ThereAt(name, d, plan, done, k)
        /\ \A p \in plan[k].gain : p \notin d.parts /\ ThereAt(p[1], d, plan, done, k + 1)
        /\ plan[k].lose \subseteq d.parts
        /\ \A t \in d.tables : t.refs \cap plan[k].drop # {} =>
               \E j \in (done + 1)..k : t.name \in plan[j].drop
    BY <1>1, Zenon DEF Feasible
  <1>5. \A t \in d.tables : t.name \notin plan[k].drop => t.refs \cap plan[k].drop = {}
    <2>1. \A j \in (done + 1)..k : j = k
      BY <1>1, Zenon
    <2> QED
      BY <1>4, <2>1, Zenon
  <1>6. /\ \A t \in plan[k].add : t.name \notin Names(d) /\ \A r \in t.refs : r \in Names(d)
        /\ \A name \in plan[k].drop : name \in Names(d)
    BY <1>2, <1>4, Zenon
  <1>7. \A p \in plan[k].gain : /\ p \notin d.parts
                                /\ p[1] \in Names(d) \/ \E u \in plan[k].add : u.name = p[1]
    BY <1>3, <1>4, Zenon
  <1> QED
    BY <1>4, <1>5, <1>6, <1>7, AcceptedNow, Zenon

LEMMA FeasibleAccepted ==
  ASSUME NEW d, NEW plan, NEW done \in Nat, done + 1 \in 1..Len(plan), Len(plan) \in Nat,
         Feasible(d, plan, done), RowsReady(d, plan[done + 1])
  PROVE  Accepted(d, plan[done + 1])
  BY AcceptedIf, Zenon

LEMMA StepSchema ==
  ASSUME NEW d, NEW s, NEW e, EffectFacts(d, s, e)
  PROVE  /\ \A t \in d.tables : t.name \notin s.drop => t \in e.tables
         /\ \A t \in s.add : t \in e.tables
         /\ \A t \in e.tables : (t \in d.tables /\ t.name \notin s.drop) \/ t \in s.add
         /\ \A p \in d.parts : p[1] \notin s.drop /\ p \notin s.lose => p \in e.parts
         /\ \A p \in s.gain : p \in e.parts
         /\ \A p \in e.parts : (p \in d.parts /\ p[1] \notin s.drop /\ p \notin s.lose) \/ p \in s.gain
         /\ \A x \in Names(d) : x \notin s.drop => x \in Names(e)
         /\ \A t \in s.add : t.name \in Names(e)
         /\ \A x \in Names(e) : (x \in Names(d) /\ x \notin s.drop) \/ \E t \in s.add : t.name = x
  BY DEF EffectFacts, Names

LEMMA FeasibleStep ==
  ASSUME NEW d, NEW e, NEW plan, NEW done \in Nat, done + 1 \in 1..Len(plan), Len(plan) \in Nat,
         Consistent(plan), Feasible(d, plan, done), EffectFacts(d, plan[done + 1], e)
  PROVE  Feasible(e, plan, done + 1)
  <1> DEFINE i == done + 1
             s == plan[i]
  <1>1. i \in 1..Len(plan) /\ i \in Nat
    OBVIOUS
  <1>2. ASSUME NEW k \in (i + 1)..Len(plan)
        PROVE  k \in (done + 1)..Len(plan) /\ k \in 1..Len(plan) /\ i # k
    OBVIOUS
  <1>3. ASSUME NEW k \in Nat, NEW j \in (done + 1)..(k - 1)
        PROVE  j = i \/ j \in (i + 1)..(k - 1)
    OBVIOUS
  <1>4. ASSUME NEW k \in Nat, NEW j \in (done + 1)..k
        PROVE  j = i \/ j \in (i + 1)..k
    OBVIOUS
  <1> HIDE DEF i, s
  <1>5. EffectFacts(d, s, e)
    BY DEF s, i
  <1>6. ASSUME NEW name, name \notin s.drop, NEW k \in Nat, ThereAt(name, d, plan, done, k)
        PROVE  ThereAt(name, e, plan, i, k)
    <2>1. CASE name \in Names(d)
      BY <1>5, <1>6, <2>1, StepSchema DEF ThereAt
    <2>2. ASSUME NEW j \in (done + 1)..(k - 1), \E u \in plan[j].add : u.name = name
          PROVE  ThereAt(name, e, plan, i, k)
      <3>1. CASE j = i
        <4>1. \E u \in s.add : u.name = name
          BY <2>2, <3>1 DEF s
        <4>2. name \in Names(e)
          BY <1>5, <4>1, StepSchema
        <4> QED
          BY <4>2 DEF ThereAt
      <3>2. CASE j \in (i + 1)..(k - 1)
        BY <2>2, <3>2 DEF ThereAt
      <3> QED
        BY <1>3, <3>1, <3>2
    <2> QED
      BY <1>6, <2>1, <2>2 DEF ThereAt
  <1>7. ASSUME NEW k \in (i + 1)..Len(plan)
        PROVE  /\ \A t \in plan[k].add : /\ t.name \notin Names(e)
                                         /\ \A r \in t.refs : ThereAt(r, e, plan, i, k)
               /\ \A name \in plan[k].drop : ThereAt(name, e, plan, i, k)
               /\ \A p \in plan[k].gain : p \notin e.parts /\ ThereAt(p[1], e, plan, i, k + 1)
               /\ plan[k].lose \subseteq e.parts
               /\ \A t \in e.tables : t.refs \cap plan[k].drop # {} =>
                      \E j \in (i + 1)..k : t.name \in plan[j].drop
    <2>1. k \in (done + 1)..Len(plan) /\ k \in 1..Len(plan) /\ i # k /\ k \in Nat /\ k + 1 \in Nat
      BY <1>2
    <2>2. /\ \A t \in plan[k].add : /\ t.name \notin Names(d)
                                    /\ \A r \in t.refs : ThereAt(r, d, plan, done, k)
          /\ \A name \in plan[k].drop : ThereAt(name, d, plan, done, k)
          /\ \A p \in plan[k].gain : p \notin d.parts /\ ThereAt(p[1], d, plan, done, k + 1)
          /\ plan[k].lose \subseteq d.parts
          /\ \A t \in d.tables : t.refs \cap plan[k].drop # {} =>
                 \E j \in (done + 1)..k : t.name \in plan[j].drop
      BY <2>1, Zenon DEF Feasible
    <2>3. /\ \A t \in plan[k].add, u \in s.add : t.name # u.name
          /\ plan[k].drop \cap s.drop = {}
          /\ plan[k].gain \cap s.gain = {}
          /\ plan[k].lose \cap s.lose = {}
          /\ \A t \in plan[k].add : t.refs \cap s.drop = {}
          /\ \A p \in plan[k].gain \cup plan[k].lose : p[1] \notin s.drop
          /\ \A t \in s.add : t.refs \cap plan[k].drop = {}
      BY <1>1, <2>1, Zenon DEF Consistent, s
    <2>4. \A t \in plan[k].add : t.name \notin Names(e)
      BY <1>5, <2>2, <2>3, StepSchema
    <2>5. \A t \in plan[k].add : \A r \in t.refs : r \notin s.drop /\ ThereAt(r, d, plan, done, k)
      BY <2>2, <2>3
    <2>6. \A t \in plan[k].add : \A r \in t.refs : ThereAt(r, e, plan, i, k)
      BY <1>6, <2>1, <2>5
    <2>7. \A name \in plan[k].drop : ThereAt(name, e, plan, i, k)
      BY <1>6, <2>1, <2>2, <2>3
    <2>8. \A p \in plan[k].gain : ThereAt(p[1], e, plan, i, k + 1)
      BY <1>6, <2>1, <2>2, <2>3
    <2>9. \A p \in plan[k].gain : p \notin e.parts
      BY <1>5, <2>2, <2>3, StepSchema
    <2>10. plan[k].lose \subseteq e.parts
      BY <1>5, <2>2, <2>3, StepSchema
    <2>11. ASSUME NEW t \in e.tables, t.refs \cap plan[k].drop # {}
           PROVE  \E j \in (i + 1)..k : t.name \in plan[j].drop
      <3>1. t \in d.tables /\ t.name \notin s.drop
        BY <1>5, <2>3, <2>11, StepSchema
      <3>2. PICK j \in (done + 1)..k : t.name \in plan[j].drop
        BY <2>2, <2>11, <3>1
      <3> QED
        BY <1>4, <2>1, <3>1, <3>2 DEF s
    <2> QED
      BY <2>4, <2>6, <2>7, <2>8, <2>9, <2>10, <2>11
  <1>8. Feasible(e, plan, i)
    BY <1>7, Zenon DEF Feasible
  <1> QED
    BY <1>8 DEF i

LEMMA LeadsToStep ==
  ASSUME NEW d, NEW e, NEW plan, NEW done \in Nat, NEW i, i = done + 1, i \in 1..Len(plan),
         Len(plan) \in Nat, NEW lowT, NEW highT, NEW lowP, NEW highP,
         LeadsTo(d, plan, done, lowT, highT, lowP, highP), EffectFacts(d, plan[i], e)
  PROVE  LeadsTo(e, plan, i, lowT, highT, lowP, highP)
  <1> DEFINE s == plan[i]
             Rest == (done + 1)..Len(plan)
             After == (i + 1)..Len(plan)
  <1>1. i \in Rest /\ After \subseteq Rest /\ \A k \in Rest : k = i \/ k \in After
    OBVIOUS
  <1>2. /\ \A t \in d.tables : t \in highT \/ \E k \in Rest : t.name \in plan[k].drop
        /\ \A k \in Rest : \A t \in plan[k].add :
               t \in highT \/ \E j \in (k + 1)..Len(plan) : t.name \in plan[j].drop
        /\ \A t \in lowT : /\ t \in d.tables \/ \E k \in Rest : t \in plan[k].add
                           /\ \A k \in Rest : t.name \notin plan[k].drop
        /\ \A p \in d.parts : p \in highP \/ \E k \in Rest :
                                                 p \in plan[k].lose \/ p[1] \in plan[k].drop
        /\ \A k \in Rest : plan[k].gain \subseteq highP
        /\ \A p \in lowP : /\ p \in d.parts \/ \E k \in Rest : p \in plan[k].gain
                           /\ \A k \in Rest : p \notin plan[k].lose /\ p[1] \notin plan[k].drop
    BY Zenon DEF LeadsTo
  <1>3. EffectFacts(d, s, e)
    BY Zenon
  <1>4. \A t \in s.add : t \in highT \/ \E j \in After : t.name \in plan[j].drop
    BY <1>1, <1>2, Zenon
  <1> HIDE DEF Rest, After, s
  <1>5. ASSUME NEW t \in e.tables
        PROVE  t \in highT \/ \E k \in After : t.name \in plan[k].drop
    <2>1. CASE t \in s.add
      BY <1>4, <2>1, Zenon
    <2>2. CASE t \in d.tables /\ t.name \notin s.drop
      BY <1>1, <1>2, <2>2, Zenon DEF s
    <2> QED
      BY <1>3, <2>1, <2>2, StepSchema, ZenonT(60)
  <1>6. \A k \in After : \A t \in plan[k].add :
            t \in highT \/ \E j \in (k + 1)..Len(plan) : t.name \in plan[j].drop
    BY <1>1, <1>2, Zenon
  <1>7. ASSUME NEW t \in lowT
        PROVE  /\ t \in e.tables \/ \E k \in After : t \in plan[k].add
               /\ \A k \in After : t.name \notin plan[k].drop
    <2>1. t.name \notin s.drop /\ \A k \in After : t.name \notin plan[k].drop
      BY <1>1, <1>2, Zenon DEF s
    <2>2. CASE t \in d.tables
      BY <1>3, <2>1, <2>2, StepSchema, Zenon
    <2>3. ASSUME NEW k \in Rest, t \in plan[k].add
          PROVE  t \in e.tables \/ \E j \in After : t \in plan[j].add
      <3>1. k = i => t \in e.tables
        BY <1>3, <2>3, StepSchema, Zenon DEF s
      <3> QED
        BY <1>1, <2>3, <3>1, Zenon
    <2> QED
      BY <1>2, <2>1, <2>2, <2>3, Zenon
  <1>8. ASSUME NEW p \in e.parts
        PROVE  p \in highP \/ \E k \in After : p \in plan[k].lose \/ p[1] \in plan[k].drop
    <2>1. CASE p \in s.gain
      BY <1>1, <1>2, <2>1, Zenon DEF s
    <2>2. CASE p \in d.parts /\ p[1] \notin s.drop /\ p \notin s.lose
      BY <1>1, <1>2, <2>2, Zenon DEF s
    <2> QED
      BY <1>3, <2>1, <2>2, StepSchema, ZenonT(60)
  <1>9. \A k \in After : plan[k].gain \subseteq highP
    BY <1>1, <1>2, Zenon
  <1>10. ASSUME NEW p \in lowP
         PROVE  /\ p \in e.parts \/ \E k \in After : p \in plan[k].gain
                /\ \A k \in After : p \notin plan[k].lose /\ p[1] \notin plan[k].drop
    <2>1. /\ p \notin s.lose /\ p[1] \notin s.drop
          /\ \A k \in After : p \notin plan[k].lose /\ p[1] \notin plan[k].drop
      BY <1>1, <1>2, Zenon DEF s
    <2>2. CASE p \in d.parts
      BY <1>3, <2>1, <2>2, StepSchema, Zenon
    <2>3. ASSUME NEW k \in Rest, p \in plan[k].gain
          PROVE  p \in e.parts \/ \E j \in After : p \in plan[j].gain
      <3>1. k = i => p \in e.parts
        BY <1>3, <2>3, StepSchema, Zenon DEF s
      <3> QED
        BY <1>1, <2>3, <3>1, Zenon
    <2> QED
      BY <1>2, <2>1, <2>2, <2>3, Zenon
  <1> QED
    BY <1>5, <1>6, <1>7, <1>8, <1>9, <1>10, Zenon DEF LeadsTo, After

LEMMA LeadsToEnd ==
  ASSUME NEW d, NEW plan, NEW done \in Nat, done = Len(plan),
         NEW lowT, NEW highT, NEW lowP, NEW highP,
         LeadsTo(d, plan, done, lowT, highT, lowP, highP)
  PROVE  lowT \subseteq d.tables /\ d.tables \subseteq highT
         /\ lowP \subseteq d.parts /\ d.parts \subseteq highP
  <1>1. (done + 1)..Len(plan) = {}
    OBVIOUS
  <1> QED
    BY <1>1, Zenon DEF LeadsTo

-----------------------------------------------------------------------------
(* The schema each version stands for. On PostgreSQL the way down from 0004 *)
(* to 0002 takes what the baseline had created with it; up to its migration *)
(* it may be there or not.                                                  *)

MissingNames(v, dia) == IF dia = "sqlite" \/ v \notin 1..3 THEN {}
                        ELSE IF v = 3 THEN Range(NewTables4) ELSE NewNames

MissingParts(v, dia) == IF dia = "sqlite" \/ v \notin 1..2 THEN {}
                        ELSE IF v = 2 THEN Range(OutcomeParts) ELSE BaselineParts

HighT(v) == IF v = 0 THEN {} ELSE IF v = 6 THEN Models ELSE Range(Baseline)

HighP(v) == IF v = 0 THEN {} ELSE IF v = 6 THEN ModelParts
            ELSE IF v = 5 THEN BaselineParts \cup DecisionParts \cup CandidateParts
            ELSE BaselineParts

LowT(v, dia) == {t \in HighT(v) : t.name \notin MissingNames(v, dia)}
LowP(v, dia) == HighP(v) \ MissingParts(v, dia)

SchemaAt(v, dia, d) ==
    /\ LowT(v, dia) \subseteq d.tables /\ d.tables \subseteq HighT(v)
    /\ LowP(v, dia) \subseteq d.parts /\ d.parts \subseteq HighP(v)

\* A plan that can be run to its end, and the version it leads to.
Start(d, plan, w, dia) ==
    /\ Consistent(plan) /\ Feasible(d, plan, 0)
    /\ LeadsTo(d, plan, 0, LowT(w, dia), HighT(w), LowP(w, dia), HighP(w))

AddsOnly(d, plan, n) ==
    /\ Len(plan) = n
    /\ \A k \in 1..n : plan[k].drop = {} /\ plan[k].lose = {}
    /\ \A k \in 1..n : \A t \in plan[k].add :
           t.name \notin Names(d) /\ \A r \in t.refs : ThereAt(r, d, plan, 0, k)
    /\ \A k \in 1..n : \A p \in plan[k].gain : p \notin d.parts /\ ThereAt(p[1], d, plan, 0, k + 1)
    /\ \A j, k \in 1..n : j # k => /\ \A t \in plan[j].add, u \in plan[k].add : t.name # u.name
                                   /\ plan[j].gain \cap plan[k].gain = {}

LEMMA AddsFeasible ==
  ASSUME NEW d, NEW plan, NEW n \in Nat, AddsOnly(d, plan, n)
  PROVE  Consistent(plan) /\ Feasible(d, plan, 0)
  <1>1. Len(plan) = n /\ (0 + 1)..n = 1..n
    BY DEF AddsOnly
  <1>2. Consistent(plan)
    BY <1>1, Zenon DEF AddsOnly, Consistent
  <1>3. Feasible(d, plan, 0)
    <2>1. \A k \in 1..n :
             /\ \A t \in plan[k].add : /\ t.name \notin Names(d)
                                       /\ \A r \in t.refs : ThereAt(r, d, plan, 0, k)
             /\ plan[k].drop = {} /\ plan[k].lose = {}
             /\ \A p \in plan[k].gain : p \notin d.parts /\ ThereAt(p[1], d, plan, 0, k + 1)
      BY Zenon DEF AddsOnly
    <2> QED
      BY <1>1, <2>1, Zenon DEF Feasible
  <1> QED
    BY <1>2, <1>3

LEMMA AddsLead ==
  ASSUME NEW d, NEW plan, NEW n \in Nat, AddsOnly(d, plan, n), NEW lowT, NEW highT, NEW lowP, NEW highP,
         d.tables \subseteq highT, \A k \in 1..n : plan[k].add \subseteq highT,
         \A t \in lowT : t \in d.tables \/ \E k \in 1..n : t \in plan[k].add,
         d.parts \subseteq highP, \A k \in 1..n : plan[k].gain \subseteq highP,
         \A p \in lowP : p \in d.parts \/ \E k \in 1..n : p \in plan[k].gain
  PROVE  LeadsTo(d, plan, 0, lowT, highT, lowP, highP)
  <1>1. Len(plan) = n /\ (0 + 1)..n = 1..n
    BY DEF AddsOnly
  <1>2. \A k \in 1..n : plan[k].drop = {} /\ plan[k].lose = {}
    BY Zenon DEF AddsOnly
  <1>3. /\ \A t \in d.tables : t \in highT
        /\ \A p \in d.parts : p \in highP
        /\ \A k \in 1..n : \A t \in plan[k].add : t \in highT
    BY Zenon
  <1> QED
    BY <1>1, <1>2, <1>3, Zenon DEF LeadsTo

DropsOnly(d, plan, n) ==
    /\ Len(plan) = n
    /\ \A k \in 1..n : plan[k].add = {} /\ plan[k].gain = {}
    /\ \A k \in 1..n : plan[k].drop \subseteq Names(d) /\ plan[k].lose \subseteq d.parts
    /\ \A k \in 1..n : \A t \in d.tables : t.refs \cap plan[k].drop # {} =>
           \E j \in 1..k : t.name \in plan[j].drop
    /\ \A j, k \in 1..n : j # k => /\ plan[j].drop \cap plan[k].drop = {}
                                   /\ plan[j].lose \cap plan[k].lose = {}
    /\ \A j, k \in 1..n : \A p \in plan[j].lose : p[1] \notin plan[k].drop

LEMMA DropsFeasible ==
  ASSUME NEW d, NEW plan, NEW n \in Nat, DropsOnly(d, plan, n)
  PROVE  Consistent(plan) /\ Feasible(d, plan, 0)
  <1>1. Len(plan) = n /\ (0 + 1)..n = 1..n /\ \A k \in 1..n : (0 + 1)..k = 1..k
    BY DEF DropsOnly
  <1>2. Consistent(plan)
    BY <1>1, Zenon DEF DropsOnly, Consistent
  <1>3. Feasible(d, plan, 0)
    <2>1. \A k \in 1..n :
             /\ \A x \in plan[k].drop : ThereAt(x, d, plan, 0, k)
             /\ plan[k].add = {} /\ plan[k].gain = {} /\ plan[k].lose \subseteq d.parts
             /\ \A t \in d.tables : t.refs \cap plan[k].drop # {} =>
                    \E j \in (0 + 1)..k : t.name \in plan[j].drop
      BY <1>1, Zenon DEF DropsOnly, ThereAt
    <2> QED
      BY <1>1, <2>1, Zenon DEF Feasible
  <1> QED
    BY <1>2, <1>3

LEMMA DropsLead ==
  ASSUME NEW d, NEW plan, NEW n \in Nat, DropsOnly(d, plan, n), NEW lowT, NEW highT, NEW lowP, NEW highP,
         \A t \in d.tables : t \in highT \/ \E k \in 1..n : t.name \in plan[k].drop,
         lowT \subseteq d.tables, \A t \in lowT : \A k \in 1..n : t.name \notin plan[k].drop,
         \A p \in d.parts : p \in highP \/ \E k \in 1..n : p \in plan[k].lose \/ p[1] \in plan[k].drop,
         lowP \subseteq d.parts,
         \A p \in lowP : \A k \in 1..n : p \notin plan[k].lose /\ p[1] \notin plan[k].drop
  PROVE  LeadsTo(d, plan, 0, lowT, highT, lowP, highP)
  <1>1. Len(plan) = n /\ (0 + 1)..n = 1..n
    BY DEF DropsOnly
  <1>2. \A k \in 1..n : plan[k].add = {} /\ plan[k].gain = {}
    BY Zenon DEF DropsOnly
  <1>3. \A t \in lowT : t \in d.tables
    BY Zenon
  <1>4. \A p \in lowP : p \in d.parts
    BY Zenon
  <1> QED
    BY <1>1, <1>2, <1>3, <1>4, Zenon DEF LeadsTo

\* What each kind of statement consists of.
LEMMA StatementFields ==
  /\ \A t, P : LET s == CreateTable(t, P) IN
         s.add = {t} /\ s.drop = {} /\ s.gain = P /\ s.lose = {} /\ s.rows = "unchanged"
  /\ \A x : LET s == DropTable(x) IN
         s.add = {} /\ s.drop = {x} /\ s.gain = {} /\ s.lose = {} /\ s.rows = "unchanged"
  /\ \A P : LET s == Add(P) IN
         s.add = {} /\ s.drop = {} /\ s.gain = P /\ s.lose = {} /\ s.rows = "unchanged"
  /\ \A P : LET s == Drop(P) IN
         s.add = {} /\ s.drop = {} /\ s.gain = {} /\ s.lose = P /\ s.rows = "unchanged"
  /\ \A r : LET s == Execute(r) IN
         s.add = {} /\ s.drop = {} /\ s.gain = {} /\ s.lose = {} /\ s.rows = r
  /\ /\ Nothing.add = {} /\ Nothing.drop = {} /\ Nothing.gain = {} /\ Nothing.lose = {}
     /\ Nothing.rows = "unchanged"
  BY DEF CreateTable, DropTable, Add, Drop, Execute, Nothing

LEMMA QuietStart ==
  ASSUME NEW d, NEW plan, NEW n \in Nat, Len(plan) = n, \A k \in 1..n : plan[k] = Nothing,
         NEW w, NEW dia, SchemaAt(w, dia, d)
  PROVE  Start(d, plan, w, dia)
  <1>1. \A k \in 1..n : /\ plan[k].add = {} /\ plan[k].drop = {} /\ plan[k].gain = {}
                        /\ plan[k].lose = {}
    BY StatementFields
  <1>2. AddsOnly(d, plan, n)
    BY <1>1, Zenon DEF AddsOnly
  <1>3. /\ d.tables \subseteq HighT(w) /\ d.parts \subseteq HighP(w)
        /\ \A t \in LowT(w, dia) : t \in d.tables
        /\ \A p \in LowP(w, dia) : p \in d.parts
    BY Zenon DEF SchemaAt
  <1>4. \A k \in 1..n : plan[k].add \subseteq HighT(w) /\ plan[k].gain \subseteq HighP(w)
    BY <1>1, Zenon
  <1>5. LeadsTo(d, plan, 0, LowT(w, dia), HighT(w), LowP(w, dia), HighP(w))
    BY <1>2, <1>3, <1>4, AddsLead, Zenon
  <1> QED
    BY <1>2, <1>5, AddsFeasible, Zenon DEF Start

\* The order of the baseline's tables.
BaselineOrder ==
    /\ Len(Baseline) \in Nat
    /\ \A i, j \in 1..Len(Baseline) : Baseline[i].name = Baseline[j].name => i = j
    /\ \A i \in 1..Len(Baseline) : \A r \in Baseline[i].refs :
           \E j \in 1..(i - 1) : r = Baseline[j].name
    /\ \A i \in 1..Len(Baseline) : Baseline[i] \in Range(Baseline)
    /\ \A t \in Range(Baseline) : \E i \in 1..Len(Baseline) : t = Baseline[i]
    /\ \A x \in Created : \E i \in 1..Len(Baseline) : x = Baseline[i].name

LEMMA BaselineIs == BaselineOrder
  <1>1. DOMAIN Baseline = 1..Len(Baseline) /\ Len(Baseline) \in Nat
    BY PlanBaseline, Zenon
  <1>2. /\ \A i, j \in DOMAIN Baseline : Baseline[i].name = Baseline[j].name => i = j
        /\ \A i \in DOMAIN Baseline : Baseline[i].refs \subseteq {Baseline[j].name : j \in 1..(i - 1)}
    BY SchemaAssumption, Zenon
  <1>3. \A i \in DOMAIN Baseline : \A r \in Baseline[i].refs :
            \E j \in 1..(i - 1) : r = Baseline[j].name
    BY <1>2, Zenon
  <1>4. /\ \A i \in DOMAIN Baseline : Baseline[i] \in Range(Baseline)
        /\ \A t \in Range(Baseline) : \E i \in DOMAIN Baseline : t = Baseline[i]
        /\ \A x \in Created : \E i \in DOMAIN Baseline : x = Baseline[i].name
    BY Zenon DEF Range, Created
  <1> QED
    BY <1>1, <1>2, <1>3, <1>4, SMT DEF BaselineOrder

LEMMA StartBaseline ==
  ASSUME NEW d, d.tables = {}, d.parts = {}, NEW dia
  PROVE  Start(d, CreateBaseline, 1, dia)
  <1> DEFINE n == Len(Baseline)
             plan == CreateBaseline
             P(k) == {p \in BaselineParts : p[1] = Baseline[k].name}
  <1>1. /\ \A i, j \in 1..n : Baseline[i].name = Baseline[j].name => i = j
        /\ \A i \in 1..n : \A r \in Baseline[i].refs : \E j \in 1..(i - 1) : r = Baseline[j].name
        /\ \A i \in 1..n : Baseline[i] \in Range(Baseline)
        /\ \A u \in Range(Baseline) : \E i \in 1..n : u = Baseline[i]
        /\ \A x \in Created : \E i \in 1..n : x = Baseline[i].name
    BY BaselineIs, Zenon DEF BaselineOrder
  <1>2. n \in Nat /\ Len(plan) = n /\ \A k \in 1..n : plan[k] = CreateTable(Baseline[k], P(k))
    BY PlanBaseline, Zenon
  <1> HIDE DEF plan
  <1>3. \A k \in 1..n : /\ plan[k].add = {Baseline[k]} /\ plan[k].drop = {}
                        /\ plan[k].gain = P(k) /\ plan[k].lose = {}
    <2> SUFFICES ASSUME NEW k \in 1..n
                 PROVE  /\ plan[k].add = {Baseline[k]} /\ plan[k].drop = {}
                        /\ plan[k].gain = P(k) /\ plan[k].lose = {}
      OBVIOUS
    <2> HIDE DEF P, n
    <2>1. plan[k] = CreateTable(Baseline[k], P(k))
      BY <1>2
    <2> QED
      BY <2>1 DEF CreateTable, Nothing
  <1> HIDE DEF P, n
  <1>4. Names(d) = {}
    BY DEF Names
  <1>5. \A j, k \in 1..n : j # k => Baseline[j].name # Baseline[k].name
    BY <1>1, Zenon
  <1>6. \A j, k \in 1..n : j # k =>
            /\ \A t \in plan[j].add, u \in plan[k].add : t.name # u.name
            /\ plan[j].gain \cap plan[k].gain = {}
    <2> SUFFICES ASSUME NEW j \in 1..n, NEW k \in 1..n, j # k
                 PROVE  /\ \A t \in plan[j].add, u \in plan[k].add : t.name # u.name
                        /\ plan[j].gain \cap plan[k].gain = {}
      OBVIOUS
    <2>1. \A t \in plan[j].add, u \in plan[k].add : t.name # u.name
      <3>1. \A t \in plan[j].add : t = Baseline[j]
        BY <1>3, Zenon
      <3>2. \A u \in plan[k].add : u = Baseline[k]
        BY <1>3, Zenon
      <3> QED
        BY <1>5, <3>1, <3>2
    <2>2. \A p : p \in P(j) /\ p \in P(k) => FALSE
      BY <1>5, Zenon DEF P
    <2> QED
      BY <1>3, <2>1, <2>2, ZenonT(60)
  <1>7. ASSUME NEW k \in 1..n, NEW r \in Baseline[k].refs
        PROVE  ThereAt(r, d, plan, 0, k)
    <2>1. PICK j \in 1..(k - 1) : r = Baseline[j].name
      BY <1>1, <1>7
    <2>2. j \in 1..n /\ j \in (0 + 1)..(k - 1)
      BY <1>2, <2>1
    <2> QED
      BY <1>3, <2>1, <2>2, Zenon DEF ThereAt
  <1>8. ASSUME NEW k \in 1..n, NEW p \in P(k)
        PROVE  ThereAt(p[1], d, plan, 0, k + 1)
    <2>1. k \in (0 + 1)..((k + 1) - 1)
      BY <1>2
    <2>2. p[1] = Baseline[k].name
      BY <1>8, Zenon DEF P
    <2> QED
      BY <1>3, <2>1, <2>2, Zenon DEF ThereAt
  <1>9. AddsOnly(d, plan, n)
    <2>1. \A k \in 1..n : plan[k].drop = {} /\ plan[k].lose = {}
      BY <1>3, Zenon
    <2>2. \A k \in 1..n : \A t \in plan[k].add :
              t.name \notin Names(d) /\ \A r \in t.refs : ThereAt(r, d, plan, 0, k)
      BY <1>3, <1>4, <1>7, Zenon
    <2>3. \A k \in 1..n : \A p \in plan[k].gain :
              p \notin d.parts /\ ThereAt(p[1], d, plan, 0, k + 1)
      BY <1>3, <1>8, Zenon
    <2> QED
      BY <1>2, <1>6, <2>1, <2>2, <2>3, Zenon DEF AddsOnly
  <1>10. HighT(1) = Range(Baseline) /\ HighP(1) = BaselineParts
    BY DEF HighT, HighP
  <1>11. \A k \in 1..n : /\ plan[k].add \subseteq HighT(1)
                         /\ plan[k].gain \subseteq HighP(1)
    <2>1. \A k \in 1..n : Baseline[k] \in Range(Baseline) /\ P(k) \subseteq BaselineParts
      BY <1>1, Zenon DEF P
    <2> QED
      BY <1>3, <1>10, <2>1, Zenon
  <1>12. \A t \in LowT(1, dia) : \E k \in 1..n : t \in plan[k].add
    <2> SUFFICES ASSUME NEW t \in LowT(1, dia) PROVE \E k \in 1..n : t \in plan[k].add
      OBVIOUS
    <2>1. t \in Range(Baseline)
      BY <1>10, Zenon DEF LowT
    <2>2. PICK k \in 1..n : t = Baseline[k]
      BY <1>1, <2>1, Zenon
    <2>3. t \in plan[k].add
      BY <1>3, <2>2
    <2> QED
      BY <2>3
  <1>13. \A p \in LowP(1, dia) : \E k \in 1..n : p \in plan[k].gain
    <2> SUFFICES ASSUME NEW p \in LowP(1, dia) PROVE \E k \in 1..n : p \in plan[k].gain
      OBVIOUS
    <2>1. p \in BaselineParts /\ BaselineParts \subseteq ModelParts
      BY <1>10, PartsAre, Zenon DEF LowP, PartFacts
    <2>2. p[1] \in Created
      BY <2>1, PartTables, Zenon
    <2>3. PICK k \in 1..n : p[1] = Baseline[k].name
      BY <1>1, <2>2, Zenon
    <2> QED
      BY <1>3, <2>1, <2>3, Zenon DEF P
  <1>14. LeadsTo(d, plan, 0, LowT(1, dia), HighT(1), LowP(1, dia), HighP(1))
    <2>1. d.tables \subseteq HighT(1) /\ d.parts \subseteq HighP(1)
      OBVIOUS
    <2> QED
      BY <1>2, <1>9, <1>11, <1>12, <1>13, <2>1, AddsLead, Zenon
  <1> QED
    BY <1>2, <1>9, <1>14, AddsFeasible, Zenon DEF Start, plan

\* 0001, downgrade: whatever there is of its tables can be dropped.
LEMMA StartBase ==
  ASSUME db.tables \subseteq Known, "quarantine_resolutions" \notin Names(db)
  PROVE  /\ Consistent(DropBaseline) /\ Feasible(db, DropBaseline, 0)
         /\ \A dia : SchemaAt(1, dia, db) /\ Held(db) => Start(db, DropBaseline, 0, dia)
  <1> DEFINE n == Len(Baseline)
             plan == DropBaseline
             B(k) == Baseline[n - k + 1]
  <1>1. /\ \A i, j \in 1..n : Baseline[i].name = Baseline[j].name => i = j
        /\ \A i \in 1..n : \A r \in Baseline[i].refs : \E j \in 1..(i - 1) : r = Baseline[j].name
        /\ \A i \in 1..n : Baseline[i] \in Range(Baseline)
        /\ \A u \in Range(Baseline) : \E i \in 1..n : u = Baseline[i]
        /\ \A x \in Created : \E i \in 1..n : x = Baseline[i].name
    BY BaselineIs, Zenon DEF BaselineOrder
  <1>2. n \in Nat /\ Len(plan) = n
        /\ \A k \in 1..n : /\ n - k + 1 \in 1..n
                           /\ plan[k] = IF B(k).name \in Names(db) THEN DropTable(B(k).name) ELSE Nothing
    BY PlanBaseline, Zenon
  <1> HIDE DEF plan
  <1>3. \A k \in 1..n : /\ plan[k].add = {} /\ plan[k].gain = {} /\ plan[k].lose = {}
                        /\ plan[k].drop = IF B(k).name \in Names(db) THEN {B(k).name} ELSE {}
    BY <1>2, StatementFields, Zenon
  <1>4. \A j, k \in 1..n : B(j).name = B(k).name => j = k
    <2>1. \A j, k \in 1..n : n - j + 1 = n - k + 1 => j = k
      BY <1>2
    <2> QED
      BY <1>1, <1>2, <2>1, Zenon
  <1>5. ASSUME NEW k \in 1..n, NEW t \in db.tables, t.refs \cap plan[k].drop # {}
        PROVE  \E j \in 1..k : t.name \in plan[j].drop
    <2>1. B(k).name \in t.refs
      BY <1>3, <1>5, Zenon
    <2>2. t \in Known /\ t.name \in Names(db) /\ t.name # "quarantine_resolutions"
      BY DEF Names
    <2>3. t \in Range(Baseline)
      BY <2>1, <2>2, TablesKnown DEF Known, KnownFacts
    <2>4. PICK i \in 1..n : t = Baseline[i]
      BY <1>1, <2>3, Zenon
    <2>5. PICK m \in 1..(i - 1) : B(k).name = Baseline[m].name
      <3>1. B(k).name \in Baseline[i].refs
        BY <2>1, <2>4
      <3> HIDE DEF B
      <3> QED
        BY <1>1, <3>1
    <2>6. m \in 1..n /\ n - k + 1 \in 1..n
      BY <1>2, <2>4, <2>5
    <2>7. m = n - k + 1
      BY <1>1, <2>5, <2>6, Zenon
    <2>8. n - i + 1 \in 1..k /\ n - (n - i + 1) + 1 = i /\ n - i + 1 \in 1..n
      BY <1>2, <2>4, <2>5, <2>7
    <2>9. B(n - i + 1) = Baseline[i]
      BY <2>8
    <2>10. plan[n - i + 1].drop = {t.name}
      BY <1>3, <2>2, <2>4, <2>8, <2>9, Zenon
    <2> QED
      BY <2>8, <2>10
  <1> HIDE DEF B
  <1>6. DropsOnly(db, plan, n)
    <2>1. \A k \in 1..n : plan[k].drop \subseteq Names(db) /\ plan[k].lose \subseteq db.parts
      BY <1>3, Zenon
    <2>2. \A j, k \in 1..n : j # k => /\ plan[j].drop \cap plan[k].drop = {}
                                      /\ plan[j].lose \cap plan[k].lose = {}
      <3>1. \A j, k \in 1..n : j # k => B(j).name # B(k).name
        BY <1>4, Zenon
      <3> QED
        BY <1>3, <3>1, ZenonT(60)
    <2> QED
      BY <1>2, <1>3, <1>5, <2>1, <2>2, Zenon DEF DropsOnly
  <1>7. ASSUME NEW x \in Created, x \in Names(db)
        PROVE  \E k \in 1..n : x \in plan[k].drop
    <2>1. PICK i \in 1..n : x = Baseline[i].name
      BY <1>1, Zenon
    <2>2. n - (n - i + 1) + 1 = i /\ n - i + 1 \in 1..n
      BY <1>2, <2>1
    <2>3. B(n - i + 1) = Baseline[i]
      BY <2>2 DEF B
    <2> QED
      BY <1>3, <1>7, <2>1, <2>2, <2>3, Zenon
  <1>8. ASSUME NEW dia, SchemaAt(1, dia, db), Held(db)
        PROVE  LeadsTo(db, plan, 0, LowT(0, dia), HighT(0), LowP(0, dia), HighP(0))
    <2>1. /\ HighT(1) = Range(Baseline) /\ HighP(1) = BaselineParts
          /\ LowT(0, dia) = {} /\ LowP(0, dia) = {}
      BY DEF HighT, HighP, LowT, LowP
    <2>2. db.tables \subseteq Range(Baseline) /\ db.parts \subseteq BaselineParts
      BY <1>8, <2>1, Zenon DEF SchemaAt
    <2>3. \A t \in db.tables : \E k \in 1..n : t.name \in plan[k].drop
      <3>1. \A t \in db.tables : t.name \in Created /\ t.name \in Names(db)
        <4>1. \A t \in Range(Baseline) : t.name \in Created
          BY Zenon DEF Range, Created
        <4> QED
          BY <2>2, <4>1, Zenon DEF Names
      <3> QED
        BY <1>7, <3>1, Zenon
    <2>4. \A p \in db.parts : \E k \in 1..n : p[1] \in plan[k].drop
      <3>1. \A p \in db.parts : p[1] \in Created /\ p[1] \in Names(db)
        BY <1>8, <2>2, PartTables, PartsAre, Zenon DEF Held, PartFacts
      <3> QED
        BY <1>7, <3>1, Zenon
    <2> QED
      BY <1>2, <1>6, <2>1, <2>3, <2>4, DropsLead, Zenon
  <1>9. Consistent(plan) /\ Feasible(db, plan, 0)
    BY <1>2, <1>6, DropsFeasible, Zenon
  <1> QED
    BY <1>8, <1>9, Zenon DEF Start, plan

\* The lists of 0002 to 0004: no part twice, no table before those it refers to.
ListFacts ==
    /\ \A i, j \in 1..6 : RunParts[i] = RunParts[j] => i = j
    /\ \A i, j \in 1..7 : OutcomeParts[i] = OutcomeParts[j] => i = j
    /\ \A i \in 1..6 : RunParts[i] \in Range(RunParts)
    /\ \A i \in 1..7 : OutcomeParts[i] \in Range(OutcomeParts)
    /\ \A p \in Range(RunParts) : \E i \in 1..6 : p = RunParts[i]
    /\ \A p \in Range(OutcomeParts) : \E i \in 1..7 : p = OutcomeParts[i]
    /\ BaselineParts = Range(RunParts) \cup Range(OutcomeParts)
    /\ Range(RunParts) \cap Range(OutcomeParts) = {}
    /\ \A names \in {NewTables3, NewTables4} : \A i \in 1..5 :
           /\ \A t \in Range(Baseline) :
                  names[i] \in t.refs => \E j \in (i + 1)..5 : t.name = names[j]
           /\ \A x \in Range(names) : \E k \in 1..5 : x = names[k]

LEMMA InjectiveConcat ==
  ASSUME NEW S, NEW p \in Seq(S), NEW q \in Seq(S), IsInjective(p \o q)
  PROVE  /\ \A i, j \in 1..Len(p) : p[i] = p[j] => i = j
         /\ \A i, j \in 1..Len(q) : q[i] = q[j] => i = j
  <1>1. /\ p \o q \in Seq(S) /\ Len(p \o q) = Len(p) + Len(q)
        /\ \A i \in 1..Len(p) : (p \o q)[i] = p[i]
        /\ \A i \in 1..Len(q) : (p \o q)[Len(p) + i] = q[i]
    BY ConcatIs
  <1>2. Len(p) \in Nat /\ Len(q) \in Nat
    OBVIOUS
  <1> DEFINE r == p \o q
  <1>3. \A i, j \in DOMAIN r : r[i] = r[j] => i = j
    BY Zenon DEF IsInjective
  <1>4. r \in Seq(S) /\ Len(r) = Len(p) + Len(q)
    BY <1>1
  <1>5. \A i \in 1..Len(p) : r[i] = p[i]
    BY <1>1
  <1>6. \A i \in 1..Len(q) : r[Len(p) + i] = q[i]
    BY <1>1
  <1> HIDE DEF r
  <1>7. DOMAIN r = 1..(Len(p) + Len(q))
    BY <1>4
  <1>8. \A i, j \in 1..Len(p) : i \in DOMAIN r /\ j \in DOMAIN r
    BY <1>2, <1>7
  <1>9. \A i, j \in 1..Len(q) : /\ Len(p) + i \in DOMAIN r /\ Len(p) + j \in DOMAIN r
                                /\ Len(p) + i = Len(p) + j => i = j
    BY <1>2, <1>7
  <1>10. ASSUME NEW i \in 1..Len(p), NEW j \in 1..Len(p), p[i] = p[j] PROVE i = j
    BY <1>3, <1>5, <1>8, <1>10
  <1>11. ASSUME NEW i \in 1..Len(q), NEW j \in 1..Len(q), q[i] = q[j] PROVE i = j
    <2>1. r[Len(p) + i] = r[Len(p) + j]
      BY <1>6, <1>11
    <2>2. Len(p) + i = Len(p) + j
      BY <1>3, <1>9, <2>1, Zenon
    <2> QED
      BY <1>9, <2>2, Zenon
  <1> QED
    BY <1>10, <1>11

LEMMA ListsAre == ListFacts
  <1>1. /\ RunParts \in Seq(BaselineParts) /\ OutcomeParts \in Seq(BaselineParts)
        /\ Len(RunParts) = 6 /\ Len(OutcomeParts) = 7
        /\ \A p \in Range(RunParts) : p[1] \in {"ingestion_runs", "raw_snapshots"}
        /\ \A p \in Range(OutcomeParts) : p[1] = "quarantine_records"
    BY PartsAre, Zenon DEF PartFacts
  <1>2. IsInjective(RunParts \o OutcomeParts)
    BY SchemaAssumption, Zenon
  <1>3. RunParts \in Seq(BaselineParts) /\ OutcomeParts \in Seq(BaselineParts)
    BY <1>1
  <1>4. /\ \A i, j \in 1..Len(RunParts) : RunParts[i] = RunParts[j] => i = j
        /\ \A i, j \in 1..Len(OutcomeParts) : OutcomeParts[i] = OutcomeParts[j] => i = j
    BY <1>2, <1>3, InjectiveConcat, Zenon
  <1>5. DOMAIN RunParts = 1..6 /\ DOMAIN OutcomeParts = 1..7
    BY <1>1
  <1>6. /\ \A i \in 1..6 : RunParts[i] \in Range(RunParts)
        /\ \A i \in 1..7 : OutcomeParts[i] \in Range(OutcomeParts)
        /\ \A p \in Range(RunParts) : \E i \in 1..6 : p = RunParts[i]
        /\ \A p \in Range(OutcomeParts) : \E i \in 1..7 : p = OutcomeParts[i]
    BY <1>5, Zenon DEF Range
  <1>7. Range(RunParts) \cap Range(OutcomeParts) = {}
    BY <1>1
  <1>8. BaselineParts = Range(RunParts) \cup Range(OutcomeParts)
    BY DEF BaselineParts
  <1>9. ASSUME NEW names \in {NewTables3, NewTables4}
        PROVE  /\ \A i \in 1..5 : \A t \in Range(Baseline) :
                      names[i] \in t.refs => \E j \in (i + 1)..5 : t.name = names[j]
               /\ \A x \in Range(names) : \E k \in 1..5 : x = names[k]
    <2>1. DOMAIN names = 1..5 /\ Len(names) = 5
      BY NewTablesAre DEF NewTableFacts
    <2>2. \A t \in Range(Baseline) : \A i \in DOMAIN names :
              names[i] \in t.refs => \E j \in (i + 1)..Len(names) : t.name = names[j]
      BY <1>9, SchemaAssumption, Zenon
    <2>3. \A x \in Range(names) : \E k \in 1..5 : x = names[k]
      BY <2>1, Zenon DEF Range
    <2>4. \A t \in Range(Baseline) : \A i \in 1..5 :
              names[i] \in t.refs => \E j \in (i + 1)..5 : t.name = names[j]
      BY <2>1, <2>2
    <2> QED
      BY <2>3, <2>4, Zenon
  <1>10. /\ \A i, j \in 1..6 : RunParts[i] = RunParts[j] => i = j
         /\ \A i, j \in 1..7 : OutcomeParts[i] = OutcomeParts[j] => i = j
    BY <1>1, <1>4
  <1> QED
    BY <1>6, <1>7, <1>8, <1>9, <1>10, Zenon DEF ListFacts

\* A table that is not missing is there.
LEMMA NameThere ==
  ASSUME NEW v \in 1..5, NEW dia, NEW d, LowT(v, dia) \subseteq d.tables,
         NEW x \in Created, x \notin MissingNames(v, dia)
  PROVE  x \in Names(d)
  <1>1. HighT(v) = Range(Baseline)
    BY DEF HighT
  <1>2. PICK i \in 1..Len(Baseline) : x = Baseline[i].name
    BY BaselineIs, Zenon DEF BaselineOrder
  <1>3. Baseline[i] \in Range(Baseline)
    BY BaselineIs, Zenon DEF BaselineOrder
  <1>4. Baseline[i] \in LowT(v, dia)
    BY <1>1, <1>2, <1>3, Zenon DEF LowT
  <1>5. Baseline[i] \in d.tables
    BY <1>4, Zenon
  <1> QED
    BY <1>2, <1>5, Zenon DEF Names

\* The parts of the baseline belong to tables that are never missing.
LEMMA PartThere ==
  ASSUME NEW v \in 1..5, NEW dia, NEW d, LowT(v, dia) \subseteq d.tables, NEW p \in ModelParts
  PROVE  p[1] \in Names(d)
  <1>1. p[1] \in Created /\ p[1] \notin NewNames
    BY PartTables, NewTablesAre, Zenon DEF NewTableFacts
  <1>2. MissingNames(v, dia) \subseteq NewNames
    BY DEF MissingNames, NewNames
  <1> QED
    BY <1>1, <1>2, NameThere, Zenon

-----------------------------------------------------------------------------
(* 0002 to 0004 on PostgreSQL.                                             *)

CreatesNew(plan, names) ==
    \A k \in 1..5 : /\ plan[k].drop = {} /\ plan[k].lose = {} /\ plan[k].gain = {}
                    /\ plan[k].add = IF names[k] \in Names(db) THEN {} ELSE {ModelNamed(names[k])}

LEMMA MissingFields ==
  ASSUME NEW parts \in Seq(BaselineParts)
  PROVE  /\ Len(AddMissing(parts)) = Len(parts)
         /\ \A k \in 1..Len(parts) : LET s == AddMissing(parts)[k] IN
                /\ s.drop = {} /\ s.lose = {} /\ s.add = {}
                /\ s.gain = IF parts[k] \in db.parts THEN {} ELSE {parts[k]}
  <1>1. /\ Len(AddMissing(parts)) = Len(parts)
        /\ \A i \in 1..Len(parts) :
               AddMissing(parts)[i] = IF parts[i] \in db.parts THEN Nothing ELSE Add({parts[i]})
    <2>1. 2 \in 1..4
      OBVIOUS
    <2> QED
      BY <2>1, AddMissingTyped, Zenon
  <1> SUFFICES ASSUME NEW k \in 1..Len(parts)
               PROVE  LET s == AddMissing(parts)[k] IN
                      /\ s.drop = {} /\ s.lose = {} /\ s.add = {}
                      /\ s.gain = IF parts[k] \in db.parts THEN {} ELSE {parts[k]}
    BY <1>1
  <1>2. AddMissing(parts)[k] = IF parts[k] \in db.parts THEN Nothing ELSE Add({parts[k]})
    BY <1>1, Zenon
  <1> QED
    BY <1>2 DEF Add, Nothing

LEMMA CreateFields ==
  ASSUME NEW names \in {NewTables3, NewTables4}
  PROVE  Len(CreateMissing(names)) = 5 /\ CreatesNew(CreateMissing(names), names)
  <1>1. 2 \in 1..4
    OBVIOUS
  <1>2. Len(CreateMissing(names)) = 5
    BY <1>1, CreateMissingTyped, Zenon
  <1> SUFFICES ASSUME NEW k \in 1..5
               PROVE  LET s == CreateMissing(names)[k] IN
                      /\ s.drop = {} /\ s.lose = {} /\ s.gain = {}
                      /\ s.add = IF names[k] \in Names(db) THEN {} ELSE {ModelNamed(names[k])}
    BY <1>2, Zenon DEF CreatesNew
  <1>3. CreateMissing(names)[k] = IF names[k] \in Names(db) THEN Nothing
                                  ELSE CreateTable(ModelNamed(names[k]), {})
    BY <1>1, CreateMissingTyped, Zenon
  <1> QED
    BY <1>3 DEF CreateTable, Nothing

\* The tables the lists create refer to tables there are or that come before.
LEMMA RangeKnown ==
  ASSUME NEW t \in Range(Baseline)
  PROVE  t \in Known /\ t.name \in Created
  <1>1. PICK i \in DOMAIN Baseline : t = Baseline[i]
    BY DEF Range
  <1> QED
    BY <1>1, TablesKnown DEF KnownFacts

LEMMA CreatesFeasible ==
  ASSUME NEW v \in {2, 3}, SchemaAt(v, "postgresql", db), NEW names,
         (v = 2 /\ names = NewTables3) \/ (v = 3 /\ names = NewTables4),
         NEW plan, CreatesNew(plan, names), NEW k \in 1..5, NEW t \in plan[k].add
  PROVE  /\ t.name \notin Names(db) /\ t.name = names[k] /\ t \in Range(Baseline)
         /\ \A r \in t.refs : ThereAt(r, db, plan, 0, k)
  <1>1. names \in {NewTables3, NewTables4}
    OBVIOUS
  <1>2. names[k] \notin Names(db) /\ t = ModelNamed(names[k]) /\ names[k] \in Created
    BY <1>1, NewTablesAre DEF CreatesNew, NewTableFacts, NewNames
  <1>3. t \in Range(Baseline) /\ t \in Known /\ t.name = names[k]
    BY <1>2, ModelIs DEF Known
  <1>4. ASSUME NEW r \in t.refs PROVE ThereAt(r, db, plan, 0, k)
    <2>1. r \in Created
      BY <1>3, TablesKnown, Zenon DEF KnownFacts
    <2>2. CASE r \notin MissingNames(v, "postgresql")
      <3>1. v \in 1..5 /\ LowT(v, "postgresql") \subseteq db.tables
        BY DEF SchemaAt
      <3>2. r \in Names(db)
        BY <2>1, <2>2, <3>1, NameThere, Zenon
      <3> QED
        BY <3>2, Zenon DEF ThereAt
    <2>3. CASE r \in MissingNames(v, "postgresql")
      <3>1. r \in Range(NewTables3) \/ r \in Range(NewTables4)
        BY <2>3 DEF MissingNames, NewNames
      <3>2. PICK list \in {NewTables3, NewTables4}, i \in 1..5 : r = list[i]
        BY <3>1, ListsAre DEF ListFacts
      <3>3. PICK j \in (i + 1)..5 : t.name = list[j]
        <4>1. list[i] \in t.refs
          BY <3>2
        <4> QED
          BY <1>3, <4>1, ListsAre DEF ListFacts
      <3>4. j \in 1..5
        OBVIOUS
      <3>5. list = names /\ j = k
        <4>1. list[j] = names[k]
          BY <1>3, <3>3
        <4> QED
          BY <1>1, <3>4, <4>1, NewTablesAre DEF NewTableFacts
      <3>6. CASE r \in Names(db)
        BY <3>6, Zenon DEF ThereAt
      <3>7. CASE r \notin Names(db)
        <4>1. plan[i].add = {ModelNamed(r)} /\ r \in Created
          BY <1>1, <2>1, <3>2, <3>5, <3>7 DEF CreatesNew
        <4>2. ModelNamed(r).name = r
          BY <4>1, ModelIs
        <4>3. i \in (0 + 1)..(k - 1)
          BY <3>3, <3>5
        <4> QED
          BY <4>1, <4>2, <4>3 DEF ThereAt
      <3> QED
        BY <3>6, <3>7
    <2> QED
      BY <2>2, <2>3
  <1> QED
    BY <1>2, <1>3, <1>4

LEMMA StartRuns ==
  ASSUME SchemaAt(1, "postgresql", db)
  PROVE  Start(db, AddMissing(RunParts), 2, "postgresql")
  <1> DEFINE plan == AddMissing(RunParts)
             pg == "postgresql"
  <1>1. RunParts \in Seq(BaselineParts) /\ Len(RunParts) = 6 /\ BaselineParts \subseteq ModelParts
    BY PartsAre, Zenon DEF PartFacts
  <1>2. Len(plan) = 6 /\ \A k \in 1..6 :
            /\ plan[k].drop = {} /\ plan[k].lose = {} /\ plan[k].add = {}
            /\ plan[k].gain = IF RunParts[k] \in db.parts THEN {} ELSE {RunParts[k]}
    BY <1>1, MissingFields
  <1> HIDE DEF plan
  <1>3. /\ LowT(1, pg) \subseteq db.tables /\ db.tables \subseteq HighT(1) /\ db.parts \subseteq HighP(1)
        /\ 1 \in 1..5
    BY DEF SchemaAt
  <1>4. /\ LowT(2, pg) = LowT(1, pg) /\ HighT(2) = HighT(1) /\ HighP(2) = BaselineParts
        /\ HighP(1) = BaselineParts /\ LowP(2, pg) = BaselineParts \ Range(OutcomeParts)
    BY DEF LowT, HighT, LowP, HighP, MissingNames, MissingParts
  <1>5. \A p \in BaselineParts : p[1] \in Names(db)
    BY <1>1, <1>3, PartThere, Zenon
  <1>6. \A k \in 1..6 : RunParts[k] \in BaselineParts
    BY ListsAre DEF ListFacts
  <1>7. AddsOnly(db, plan, 6)
    <2>1. \A k \in 1..6 : \A p \in plan[k].gain : p \notin db.parts /\ p = RunParts[k]
      BY <1>2
    <2>2. \A k \in 1..6 : \A p \in plan[k].gain : p \notin db.parts /\ ThereAt(p[1], db, plan, 0, k + 1)
      BY <1>5, <1>6, <2>1, Zenon DEF ThereAt
    <2>3. \A j, k \in 1..6 : j # k => RunParts[j] # RunParts[k]
      BY ListsAre, Zenon DEF ListFacts
    <2>4. \A j, k \in 1..6 : j # k => plan[j].gain \cap plan[k].gain = {}
      BY <2>1, <2>3
    <2> QED
      BY <1>2, <2>2, <2>4, Zenon DEF AddsOnly
  <1>8. \A k \in 1..6 : plan[k].add \subseteq HighT(2) /\ plan[k].gain \subseteq HighP(2)
    BY <1>2, <1>4, <1>6
  <1>9. \A p \in LowP(2, pg) : p \in db.parts \/ \E k \in 1..6 : p \in plan[k].gain
    <2> SUFFICES ASSUME NEW p \in LowP(2, pg), p \notin db.parts
                 PROVE  \E k \in 1..6 : p \in plan[k].gain
      OBVIOUS
    <2>1. p \in Range(RunParts)
      BY <1>4, ListsAre DEF ListFacts
    <2>2. PICK k \in 1..6 : p = RunParts[k]
      BY <2>1, ListsAre, Zenon DEF ListFacts
    <2> QED
      BY <1>2, <2>2
  <1>10. \A t \in LowT(2, pg) : t \in db.tables
    BY <1>3, <1>4
  <1>11. LeadsTo(db, plan, 0, LowT(2, pg), HighT(2), LowP(2, pg), HighP(2))
    <2>1. 6 \in Nat /\ db.tables \subseteq HighT(2) /\ db.parts \subseteq HighP(2)
      BY <1>3, <1>4
    <2> QED
      BY <1>7, <1>8, <1>9, <1>10, <2>1, AddsLead, Zenon
  <1>12. Consistent(plan) /\ Feasible(db, plan, 0)
    <2>1. 6 \in Nat
      OBVIOUS
    <2> QED
      BY <1>7, <2>1, AddsFeasible, Zenon
  <1> QED
    BY <1>11, <1>12, Zenon DEF Start, plan

LEMMA StartProcessing ==
  ASSUME SchemaAt(2, "postgresql", db)
  PROVE  Start(db, CreateMissing(NewTables3) \o AddMissing(OutcomeParts), 3, "postgresql")
  <1> DEFINE p == CreateMissing(NewTables3)
             q == AddMissing(OutcomeParts)
             plan == p \o q
             pg == "postgresql"
             S == PlanType("postgresql", TRUE, 3)
  <1>1. /\ OutcomeParts \in Seq(BaselineParts) /\ Len(OutcomeParts) = 7
        /\ BaselineParts \subseteq ModelParts
    BY PartsAre, Zenon DEF PartFacts
  <1>2. Len(q) = 7 /\ \A k \in 1..7 :
            /\ q[k].drop = {} /\ q[k].lose = {} /\ q[k].add = {}
            /\ q[k].gain = IF OutcomeParts[k] \in db.parts THEN {} ELSE {OutcomeParts[k]}
    BY <1>1, MissingFields
  <1>3. Len(p) = 5 /\ CreatesNew(p, NewTables3)
    BY CreateFields
  <1>4. p \in Seq(S) /\ q \in Seq(S)
    <2>1. 3 \in 1..4
      OBVIOUS
    <2>2. p \in Seq(S)
      BY <2>1, CreateMissingTyped, Zenon
    <2>3. q \in Seq(S)
      BY <1>1, <2>1, AddMissingTyped, Zenon
    <2> QED
      BY <2>2, <2>3
  <1> HIDE DEF p, q, S
  <1>5. /\ Len(p \o q) = Len(p) + Len(q)
        /\ \A i \in 1..Len(p) : (p \o q)[i] = p[i]
        /\ \A i \in 1..Len(q) : (p \o q)[Len(p) + i] = q[i]
    BY <1>4, ConcatIs
  <1>6. Len(plan) = 12 /\ \A i \in 1..5 : plan[i] = p[i]
    BY <1>2, <1>3, <1>5
  <1>7. \A i \in 1..7 : plan[5 + i] = q[i]
    BY <1>2, <1>3, <1>5
  <1> HIDE DEF plan
  <1>8. CreatesNew(plan, NewTables3)
    BY <1>3, <1>6, Zenon DEF CreatesNew
  <1>9. \A k \in 1..7 :
            /\ plan[5 + k].drop = {} /\ plan[5 + k].lose = {} /\ plan[5 + k].add = {}
            /\ plan[5 + k].gain = IF OutcomeParts[k] \in db.parts THEN {} ELSE {OutcomeParts[k]}
    BY <1>2, <1>7
  <1>10. \A k \in 1..12 : k \in 1..5 \/ \E i \in 1..7 : k = 5 + i
    <2> SUFFICES ASSUME NEW k \in 1..12, k \notin 1..5 PROVE \E i \in 1..7 : k = 5 + i
      OBVIOUS
    <2>1. k - 5 \in 1..7 /\ k = 5 + (k - 5)
      OBVIOUS
    <2> QED
      BY <2>1
  <1>11. /\ LowT(2, pg) \subseteq db.tables /\ db.tables \subseteq HighT(2)
         /\ LowP(2, pg) \subseteq db.parts /\ db.parts \subseteq HighP(2) /\ 2 \in 1..5
    BY DEF SchemaAt
  <1>12. /\ HighT(3) = Range(Baseline) /\ HighT(2) = Range(Baseline)
         /\ HighP(3) = BaselineParts /\ HighP(2) = BaselineParts
         /\ LowP(2, pg) = BaselineParts \ Range(OutcomeParts) /\ LowP(3, pg) = BaselineParts
    BY DEF HighT, LowP, HighP, MissingParts
  <1>13. \A k \in 1..5 : /\ plan[k].drop = {} /\ plan[k].lose = {} /\ plan[k].gain = {}
                         /\ \A t \in plan[k].add : t = ModelNamed(NewTables3[k])
    BY <1>8 DEF CreatesNew
  <1>14. ASSUME NEW k \in 1..12, NEW t \in plan[k].add
         PROVE  /\ k \in 1..5 /\ t.name \notin Names(db) /\ t.name = NewTables3[k]
                /\ t \in Range(Baseline) /\ \A r \in t.refs : ThereAt(r, db, plan, 0, k)
    <2>1. k \in 1..5
      BY <1>9, <1>10, <1>14
    <2>2. /\ 2 \in {2, 3}
          /\ (2 = 2 /\ NewTables3 = NewTables3) \/ (2 = 3 /\ NewTables3 = NewTables4)
      OBVIOUS
    <2> QED
      BY <1>8, <1>14, <2>1, <2>2, CreatesFeasible
  <1>15. ASSUME NEW k \in 1..12, NEW x \in plan[k].gain
         PROVE  \E i \in 1..7 : k = 5 + i /\ x = OutcomeParts[i] /\ x \notin db.parts
    BY <1>9, <1>10, <1>13, <1>15
  <1>16. \A x \in BaselineParts : x[1] \in Names(db)
    BY <1>1, <1>11, PartThere, Zenon
  <1>17. \A k \in 1..7 : OutcomeParts[k] \in BaselineParts
    BY ListsAre DEF ListFacts
  <1>18. AddsOnly(db, plan, 12)
    <2>1. \A k \in 1..12 : plan[k].drop = {} /\ plan[k].lose = {}
      BY <1>9, <1>10, <1>13
    <2>2. \A k \in 1..12 : \A x \in plan[k].gain : x \notin db.parts /\ ThereAt(x[1], db, plan, 0, k + 1)
      BY <1>15, <1>16, <1>17, Zenon DEF ThereAt
    <2>3. ASSUME NEW j \in 1..12, NEW k \in 1..12, j # k
          PROVE  /\ \A t \in plan[j].add, u \in plan[k].add : t.name # u.name
                 /\ plan[j].gain \cap plan[k].gain = {}
      <3>1. \A t \in plan[j].add, u \in plan[k].add : t.name # u.name
        BY <1>14, <2>3, NewTablesAre DEF NewTableFacts
      <3>2. ASSUME NEW x \in plan[j].gain, x \in plan[k].gain PROVE FALSE
        <4>1. PICK a \in 1..7 : j = 5 + a /\ x = OutcomeParts[a]
          BY <1>15
        <4>2. PICK b \in 1..7 : k = 5 + b /\ x = OutcomeParts[b]
          BY <1>15, <3>2
        <4>3. a = b
          BY <4>1, <4>2, ListsAre DEF ListFacts
        <4> QED
          BY <2>3, <4>1, <4>2, <4>3
      <3> QED
        BY <3>1, <3>2
    <2> QED
      BY <1>6, <1>14, <2>1, <2>2, <2>3, Zenon DEF AddsOnly
  <1>19. \A k \in 1..12 : plan[k].add \subseteq HighT(3) /\ plan[k].gain \subseteq HighP(3)
    BY <1>12, <1>14, <1>15, <1>17
  <1>20. \A x \in LowP(3, pg) : x \in db.parts \/ \E k \in 1..12 : x \in plan[k].gain
    <2> SUFFICES ASSUME NEW x \in LowP(3, pg), x \notin db.parts
                 PROVE  \E k \in 1..12 : x \in plan[k].gain
      OBVIOUS
    <2>1. x \in Range(OutcomeParts)
      BY <1>11, <1>12
    <2>2. PICK k \in 1..7 : x = OutcomeParts[k]
      BY <2>1, ListsAre, Zenon DEF ListFacts
    <2>3. x \in plan[5 + k].gain /\ 5 + k \in 1..12
      BY <1>9, <2>2
    <2> QED
      BY <2>3
  <1>21. \A t \in LowT(3, pg) : t \in db.tables \/ \E k \in 1..12 : t \in plan[k].add
    <2> SUFFICES ASSUME NEW t \in LowT(3, pg), t \notin db.tables
                 PROVE  \E k \in 1..12 : t \in plan[k].add
      OBVIOUS
    <2>1. t \in Range(Baseline) /\ t.name \notin Range(NewTables4)
      BY <1>12 DEF LowT, MissingNames
    <2>2. t.name \in NewNames
      BY <1>11, <1>12, <2>1 DEF LowT, MissingNames
    <2>3. PICK k \in 1..5 : t.name = NewTables3[k]
      BY <2>1, <2>2, ListsAre DEF ListFacts, NewNames
    <2>4. t.name \in Created /\ t \in Known
      BY <2>1, RangeKnown
    <2>5. ModelNamed(t.name) \in Known /\ ModelNamed(t.name).name = t.name
      BY <2>4, ModelIs DEF Known
    <2>6. ModelNamed(t.name) = t
      BY <2>4, <2>5, TablesKnown, Zenon DEF KnownFacts
    <2>7. t.name \notin Names(db)
      <3> SUFFICES ASSUME NEW u \in db.tables, u.name = t.name PROVE FALSE
        BY DEF Names
      <3>1. u \in Known
        BY <1>11, <1>12, <2>1, SchemaAssumption DEF Known
      <3> QED
        BY <2>4, <3>1, TablesKnown DEF KnownFacts
    <2>8. t \in plan[k].add /\ k \in 1..12
      BY <1>8, <2>3, <2>6, <2>7 DEF CreatesNew
    <2> QED
      BY <2>8
  <1>22. LeadsTo(db, plan, 0, LowT(3, pg), HighT(3), LowP(3, pg), HighP(3))
    <2>1. 12 \in Nat /\ db.tables \subseteq HighT(3) /\ db.parts \subseteq HighP(3)
      BY <1>11, <1>12
    <2> QED
      BY <1>18, <1>19, <1>20, <1>21, <2>1, AddsLead, Zenon
  <1>23. Consistent(plan) /\ Feasible(db, plan, 0)
    <2>1. 12 \in Nat
      OBVIOUS
    <2> QED
      BY <1>18, <2>1, AddsFeasible, Zenon
  <1> QED
    BY <1>22, <1>23, Zenon DEF Start, plan, p, q

LEMMA StartOperations ==
  ASSUME SchemaAt(3, "postgresql", db)
  PROVE  Start(db, CreateMissing(NewTables4), 4, "postgresql")
  <1> DEFINE plan == CreateMissing(NewTables4)
             pg == "postgresql"
  <1>1. Len(plan) = 5 /\ CreatesNew(plan, NewTables4)
    BY CreateFields
  <1> HIDE DEF plan
  <1>2. /\ LowT(3, pg) \subseteq db.tables /\ db.tables \subseteq HighT(3)
        /\ LowP(3, pg) \subseteq db.parts /\ db.parts \subseteq HighP(3)
    BY DEF SchemaAt
  <1>3. /\ HighT(3) = Range(Baseline) /\ HighT(4) = Range(Baseline)
        /\ HighP(3) = HighP(4) /\ LowP(3, pg) = LowP(4, pg)
    BY DEF HighT, LowP, HighP, MissingParts
  <1>4. \A k \in 1..5 : /\ plan[k].drop = {} /\ plan[k].lose = {} /\ plan[k].gain = {}
                        /\ \A t \in plan[k].add : t = ModelNamed(NewTables4[k])
    BY <1>1 DEF CreatesNew
  <1>5. ASSUME NEW k \in 1..5, NEW t \in plan[k].add
        PROVE  /\ t.name \notin Names(db) /\ t.name = NewTables4[k]
               /\ t \in Range(Baseline) /\ \A r \in t.refs : ThereAt(r, db, plan, 0, k)
    <2>2. /\ 3 \in {2, 3}
          /\ (3 = 2 /\ NewTables4 = NewTables3) \/ (3 = 3 /\ NewTables4 = NewTables4)
      OBVIOUS
    <2> QED
      BY <1>1, <1>5, <2>2, CreatesFeasible
  <1>6. AddsOnly(db, plan, 5)
    <2>1. \A j, k \in 1..5 : j # k => \A t \in plan[j].add, u \in plan[k].add : t.name # u.name
      BY <1>5, NewTablesAre DEF NewTableFacts
    <2> QED
      BY <1>1, <1>4, <1>5, <2>1, Zenon DEF AddsOnly
  <1>7. \A k \in 1..5 : plan[k].add \subseteq HighT(4) /\ plan[k].gain \subseteq HighP(4)
    BY <1>3, <1>4, <1>5
  <1>8. \A t \in LowT(4, pg) : t \in db.tables \/ \E k \in 1..5 : t \in plan[k].add
    <2> SUFFICES ASSUME NEW t \in LowT(4, pg), t \notin db.tables
                 PROVE  \E k \in 1..5 : t \in plan[k].add
      OBVIOUS
    <2>1. t \in Range(Baseline)
      BY <1>3 DEF LowT
    <2>2. t.name \in Range(NewTables4)
      BY <1>2, <1>3, <2>1 DEF LowT, MissingNames
    <2>3. PICK k \in 1..5 : t.name = NewTables4[k]
      BY <2>1, <2>2, ListsAre DEF ListFacts
    <2>4. t.name \in Created /\ t \in Known
      BY <2>1, RangeKnown
    <2>5. ModelNamed(t.name) \in Known /\ ModelNamed(t.name).name = t.name
      BY <2>4, ModelIs DEF Known
    <2>6. ModelNamed(t.name) = t
      BY <2>4, <2>5, TablesKnown, Zenon DEF KnownFacts
    <2>7. t.name \notin Names(db)
      <3> SUFFICES ASSUME NEW u \in db.tables, u.name = t.name PROVE FALSE
        BY DEF Names
      <3>1. u \in Known
        BY <1>2, <1>3, <2>1, SchemaAssumption DEF Known
      <3> QED
        BY <2>4, <3>1, TablesKnown DEF KnownFacts
    <2> QED
      BY <1>1, <2>3, <2>6, <2>7 DEF CreatesNew
  <1>9. LeadsTo(db, plan, 0, LowT(4, pg), HighT(4), LowP(4, pg), HighP(4))
    <2>1. 5 \in Nat /\ db.tables \subseteq HighT(4) /\ db.parts \subseteq HighP(4)
          /\ \A p \in LowP(4, pg) : p \in db.parts
      BY <1>2, <1>3
    <2> QED
      BY <1>6, <1>7, <1>8, <2>1, AddsLead, Zenon
  <1>10. Consistent(plan) /\ Feasible(db, plan, 0)
    <2>1. 5 \in Nat
      OBVIOUS
    <2> QED
      BY <1>6, <2>1, AddsFeasible, Zenon
  <1> QED
    BY <1>9, <1>10, Zenon DEF Start, plan

LEMMA DropEachFields ==
  ASSUME NEW parts \in Seq(BaselineParts)
  PROVE  /\ Len(DropEach(Reverse(parts))) = Len(parts)
         /\ \A k \in 1..Len(parts) : LET s == DropEach(Reverse(parts))[k] IN
                s.add = {} /\ s.drop = {} /\ s.gain = {} /\ s.lose = {parts[Len(parts) - k + 1]}
  <1>1. 2 \in 1..4
    OBVIOUS
  <1>2. Len(DropEach(Reverse(parts))) = Len(parts)
    BY <1>1, DropEachTyped, Zenon
  <1> SUFFICES ASSUME NEW k \in 1..Len(parts)
               PROVE  LET s == DropEach(Reverse(parts))[k] IN
                      s.add = {} /\ s.drop = {} /\ s.gain = {} /\ s.lose = {parts[Len(parts) - k + 1]}
    BY <1>2
  <1>3. DropEach(Reverse(parts))[k] = Drop({parts[Len(parts) - k + 1]})
    BY <1>1, DropEachTyped, Zenon
  <1> QED
    BY <1>3 DEF Drop, Nothing

LEMMA DropTablesFields ==
  ASSUME NEW names \in {NewTables3, NewTables4}
  PROVE  /\ Len(DropTables(Reverse(names))) = 5
         /\ \A k \in 1..5 : LET s == DropTables(Reverse(names))[k] IN
                s.add = {} /\ s.drop = {names[6 - k]} /\ s.gain = {} /\ s.lose = {}
  <1> DEFINE plan == DropTables(Reverse(names))
  <1>1. DOMAIN Reverse(names) = 1..5 /\ \A i \in 1..5 : Reverse(names)[i] = names[6 - i]
    <2>1. Len(names) = 5
      BY NewTablesAre DEF NewTableFacts
    <2> QED
      BY <2>1 DEF Reverse
  <1>2. Len(plan) = 5 /\ \A i \in 1..5 : plan[i] = DropTable(names[6 - i])
    <2>1. plan = [i \in 1..5 |-> DropTable(Reverse(names)[i])]
      BY <1>1, Zenon DEF DropTables
    <2>2. plan \in [1..5 -> {DropTable(Reverse(names)[i]) : i \in 1..5}]
      BY <2>1
    <2> HIDE DEF plan
    <2>3. Len(plan) = 5
      BY <2>2, PlanIs
    <2> QED
      BY <1>1, <2>1, <2>3
  <1> SUFFICES ASSUME NEW k \in 1..5
               PROVE  LET s == DropTables(Reverse(names))[k] IN
                      s.add = {} /\ s.drop = {names[6 - k]} /\ s.gain = {} /\ s.lose = {}
    BY <1>2
  <1>3. DropTables(Reverse(names))[k] = DropTable(names[6 - k])
    BY <1>2, Zenon
  <1> QED
    BY <1>3 DEF DropTable, Nothing

\* Only the tables of a list refer to them, and those are dropped before.
LEMMA DroppedBefore ==
  ASSUME NEW names \in {NewTables3, NewTables4}, NEW k \in 1..5, NEW t \in Range(Baseline),
         names[6 - k] \in t.refs
  PROVE  \E j \in 1..(k - 1) : t.name = names[6 - j]
  <1>1. 6 - k \in 1..5
    OBVIOUS
  <1>2. PICK m \in ((6 - k) + 1)..5 : t.name = names[m]
    BY <1>1, ListsAre DEF ListFacts
  <1>3. 6 - m \in 1..(k - 1) /\ 6 - (6 - m) = m
    OBVIOUS
  <1> QED
    BY <1>2, <1>3

LEMMA StartUnrun ==
  ASSUME SchemaAt(2, "postgresql", db)
  PROVE  Start(db, DropEach(Reverse(RunParts)), 1, "postgresql")
  <1> DEFINE plan == DropEach(Reverse(RunParts))
             pg == "postgresql"
  <1>1. RunParts \in Seq(BaselineParts) /\ Len(RunParts) = 6
    BY PartsAre, Zenon DEF PartFacts
  <1>2. Len(plan) = 6 /\ \A k \in 1..6 : /\ plan[k].add = {} /\ plan[k].drop = {} /\ plan[k].gain = {}
                                         /\ plan[k].lose = {RunParts[6 - k + 1]}
    BY <1>1, DropEachFields
  <1> HIDE DEF plan
  <1>3. /\ LowT(2, pg) \subseteq db.tables /\ db.tables \subseteq HighT(2)
        /\ LowP(2, pg) \subseteq db.parts /\ db.parts \subseteq HighP(2)
    BY DEF SchemaAt
  <1>4. /\ LowT(2, pg) = LowT(1, pg) /\ HighT(2) = HighT(1) /\ HighP(1) = HighP(2)
        /\ HighP(2) = BaselineParts /\ LowP(1, pg) = {}
        /\ LowP(2, pg) = BaselineParts \ Range(OutcomeParts)
    BY DEF LowT, HighT, LowP, HighP, MissingNames, MissingParts
  <1>5. \A k \in 1..6 : RunParts[6 - k + 1] \in db.parts
    <2>1. \A k \in 1..6 : 6 - k + 1 \in 1..6
      OBVIOUS
    <2>2. \A k \in 1..6 : RunParts[k] \in LowP(2, pg)
      BY <1>4, ListsAre DEF ListFacts
    <2> QED
      BY <1>3, <2>1, <2>2
  <1>6. \A j, k \in 1..6 : j # k => RunParts[6 - j + 1] # RunParts[6 - k + 1]
    <2>1. \A j, k \in 1..6 : /\ 6 - j + 1 \in 1..6 /\ 6 - k + 1 \in 1..6
                             /\ 6 - j + 1 = 6 - k + 1 => j = k
      OBVIOUS
    <2> QED
      BY <2>1, ListsAre, ZenonT(60) DEF ListFacts
  <1>7. DropsOnly(db, plan, 6)
    <2>1. \A j, k \in 1..6 : j # k => plan[j].lose \cap plan[k].lose = {}
      BY <1>2, <1>6
    <2>2. \A k \in 1..6 : plan[k].drop \subseteq Names(db) /\ plan[k].lose \subseteq db.parts
      BY <1>2, <1>5
    <2> QED
      BY <1>2, <2>1, <2>2, Zenon DEF DropsOnly
  <1>8. 6 \in Nat /\ db.tables \subseteq HighT(1) /\ db.parts \subseteq HighP(1)
        /\ LowT(1, pg) \subseteq db.tables
    BY <1>3, <1>4
  <1>9. LeadsTo(db, plan, 0, LowT(1, pg), HighT(1), LowP(1, pg), HighP(1))
    <2>1. \A k \in 1..6 : plan[k].drop = {}
      BY <1>2
    <2> QED
      BY <1>4, <1>7, <1>8, <2>1, DropsLead, Zenon
  <1>10. Consistent(plan) /\ Feasible(db, plan, 0)
    BY <1>7, <1>8, DropsFeasible, Zenon
  <1> QED
    BY <1>9, <1>10, Zenon DEF Start, plan

LEMMA StartUnprocessed ==
  ASSUME SchemaAt(3, "postgresql", db)
  PROVE  Start(db, DropEach(Reverse(OutcomeParts)) \o DropTables(Reverse(NewTables3)), 2, "postgresql")
  <1> DEFINE p == DropEach(Reverse(OutcomeParts))
             q == DropTables(Reverse(NewTables3))
             plan == p \o q
             pg == "postgresql"
             S == PlanType("postgresql", FALSE, 3)
  <1>1. OutcomeParts \in Seq(BaselineParts) /\ Len(OutcomeParts) = 7
        /\ BaselineParts \subseteq ModelParts
    BY PartsAre, Zenon DEF PartFacts
  <1>2. Len(p) = 7 /\ \A k \in 1..7 : /\ p[k].add = {} /\ p[k].drop = {} /\ p[k].gain = {}
                                      /\ p[k].lose = {OutcomeParts[7 - k + 1]}
    BY <1>1, DropEachFields
  <1>3. Len(q) = 5 /\ \A k \in 1..5 : /\ q[k].add = {} /\ q[k].drop = {NewTables3[6 - k]}
                                      /\ q[k].gain = {} /\ q[k].lose = {}
    BY DropTablesFields
  <1>4. p \in Seq(S) /\ q \in Seq(S)
    <2>1. 3 \in 1..4 /\ "postgresql" # "sqlite"
      OBVIOUS
    <2>2. p \in Seq(S)
      BY <1>1, <2>1, DropEachTyped, Zenon
    <2>3. q \in Seq(S)
      BY <2>1, DropTablesTyped, Zenon
    <2> QED
      BY <2>2, <2>3
  <1> HIDE DEF p, q, S
  <1>5. /\ Len(p \o q) = Len(p) + Len(q)
        /\ \A i \in 1..Len(p) : (p \o q)[i] = p[i]
        /\ \A i \in 1..Len(q) : (p \o q)[Len(p) + i] = q[i]
    BY <1>4, ConcatIs
  <1>6. Len(plan) = 12 /\ \A i \in 1..7 : plan[i] = p[i]
    BY <1>2, <1>3, <1>5
  <1>7. \A i \in 1..5 : plan[7 + i] = q[i]
    BY <1>2, <1>3, <1>5
  <1> HIDE DEF plan
  <1>8. \A k \in 1..7 : /\ plan[k].add = {} /\ plan[k].drop = {} /\ plan[k].gain = {}
                        /\ plan[k].lose = {OutcomeParts[7 - k + 1]}
    BY <1>2, <1>6
  <1>9. \A k \in 1..5 : /\ plan[7 + k].add = {} /\ plan[7 + k].drop = {NewTables3[6 - k]}
                        /\ plan[7 + k].gain = {} /\ plan[7 + k].lose = {}
    BY <1>3, <1>7
  <1>10. \A k \in 1..12 : k \in 1..7 \/ \E i \in 1..5 : k = 7 + i
    <2> SUFFICES ASSUME NEW k \in 1..12, k \notin 1..7 PROVE \E i \in 1..5 : k = 7 + i
      OBVIOUS
    <2>1. k - 7 \in 1..5 /\ k = 7 + (k - 7)
      OBVIOUS
    <2> QED
      BY <2>1
  <1>11. /\ LowT(3, pg) \subseteq db.tables /\ db.tables \subseteq HighT(3)
         /\ LowP(3, pg) \subseteq db.parts /\ db.parts \subseteq HighP(3) /\ 3 \in 1..5
    BY DEF SchemaAt
  <1>12. /\ HighT(3) = Range(Baseline) /\ HighT(2) = Range(Baseline)
         /\ HighP(3) = BaselineParts /\ HighP(2) = BaselineParts /\ LowP(3, pg) = BaselineParts
         /\ LowP(2, pg) = BaselineParts \ Range(OutcomeParts)
         /\ MissingNames(3, pg) = Range(NewTables4) /\ MissingNames(2, pg) = NewNames
    BY DEF HighT, LowP, HighP, MissingParts, MissingNames
  <1>13. ASSUME NEW k \in 1..12, NEW x \in plan[k].drop
         PROVE  \E i \in 1..5 : k = 7 + i /\ x = NewTables3[6 - i] /\ 6 - i \in 1..5
    BY <1>8, <1>9, <1>10, <1>13
  <1>14. ASSUME NEW k \in 1..12, NEW x \in plan[k].lose
         PROVE  \E i \in 1..7 : k = i /\ x = OutcomeParts[7 - i + 1] /\ 7 - i + 1 \in 1..7
    BY <1>8, <1>9, <1>10, <1>14
  <1>15. \A k \in 1..12 : plan[k].add = {} /\ plan[k].gain = {}
    BY <1>8, <1>9, <1>10
  <1>16. \A i \in 1..5 : /\ NewTables3[i] \in Created /\ NewTables3[i] \in NewNames
                         /\ NewTables3[i] \notin Range(NewTables4)
    BY NewTablesAre DEF NewTableFacts, NewNames
  <1>17. \A i \in 1..5 : NewTables3[i] \in Names(db)
    BY <1>11, <1>12, <1>16, NameThere
  <1>18. \A k \in 1..12 : plan[k].drop \subseteq Names(db)
    BY <1>13, <1>17
  <1>19. \A k \in 1..12 : plan[k].lose \subseteq db.parts
    <2>1. \A i \in 1..7 : OutcomeParts[i] \in BaselineParts
      BY ListsAre DEF ListFacts
    <2> QED
      BY <1>11, <1>12, <1>14, <2>1
  <1>20. ASSUME NEW k \in 1..12, NEW t \in db.tables, t.refs \cap plan[k].drop # {}
         PROVE  \E j \in 1..k : t.name \in plan[j].drop
    <2>1. PICK i \in 1..5 : k = 7 + i /\ NewTables3[6 - i] \in t.refs
      BY <1>13, <1>20
    <2>2. t \in Range(Baseline)
      BY <1>11, <1>12
    <2>3. PICK j \in 1..(i - 1) : t.name = NewTables3[6 - j]
      BY <2>1, <2>2, DroppedBefore, Zenon
    <2>4. t.name \in plan[7 + j].drop /\ 7 + j \in 1..k
      BY <1>9, <2>1, <2>3
    <2> QED
      BY <2>4
  <1>21. ASSUME NEW j \in 1..12, NEW k \in 1..12, j # k
         PROVE  plan[j].drop \cap plan[k].drop = {} /\ plan[j].lose \cap plan[k].lose = {}
    <2>1. ASSUME NEW x \in plan[j].drop, x \in plan[k].drop PROVE FALSE
      <3>1. PICK a \in 1..5 : j = 7 + a /\ x = NewTables3[6 - a] /\ 6 - a \in 1..5
        BY <1>13
      <3>2. PICK b \in 1..5 : k = 7 + b /\ x = NewTables3[6 - b] /\ 6 - b \in 1..5
        BY <1>13, <2>1
      <3>3. 6 - a = 6 - b
        BY <3>1, <3>2, NewTablesAre, Zenon DEF NewTableFacts
      <3> QED
        BY <1>21, <3>1, <3>2, <3>3
    <2>2. ASSUME NEW x \in plan[j].lose, x \in plan[k].lose PROVE FALSE
      <3>1. PICK a \in 1..7 : j = a /\ x = OutcomeParts[7 - a + 1] /\ 7 - a + 1 \in 1..7
        BY <1>14
      <3>2. PICK b \in 1..7 : k = b /\ x = OutcomeParts[7 - b + 1] /\ 7 - b + 1 \in 1..7
        BY <1>14, <2>2
      <3>3. 7 - a + 1 = 7 - b + 1
        <4>1. \A i, m \in 1..7 : OutcomeParts[i] = OutcomeParts[m] => i = m
          BY ListsAre, Zenon DEF ListFacts
        <4>2. OutcomeParts[7 - a + 1] = OutcomeParts[7 - b + 1]
          BY <3>1, <3>2, Zenon
        <4> QED
          BY <3>1, <3>2, <4>1, <4>2, Zenon
      <3> QED
        BY <1>21, <3>1, <3>2, <3>3
    <2> QED
      BY <2>1, <2>2
  <1>22. \A j, k \in 1..12 : \A x \in plan[j].lose : x[1] \notin plan[k].drop
    <2>1. \A i \in 1..7 : OutcomeParts[i][1] \notin NewNames
      <3>1. \A i \in 1..7 : OutcomeParts[i] \in ModelParts
        BY <1>1, ListsAre DEF ListFacts
      <3> QED
        BY <3>1, PartTables, NewTablesAre, Zenon DEF NewTableFacts
    <2>2. \A j \in 1..12 : \A x \in plan[j].lose : x[1] \notin NewNames
      BY <1>14, <2>1, Zenon
    <2>3. \A k \in 1..12 : plan[k].drop \subseteq NewNames
      BY <1>13, <1>16
    <2> QED
      BY <2>2, <2>3
  <1>23. DropsOnly(db, plan, 12)
    BY <1>6, <1>15, <1>18, <1>19, <1>20, <1>21, <1>22, Zenon DEF DropsOnly
  <1>24. LeadsTo(db, plan, 0, LowT(2, pg), HighT(2), LowP(2, pg), HighP(2))
    <2>1. 12 \in Nat /\ db.tables \subseteq HighT(2) /\ db.parts \subseteq HighP(2)
          /\ LowP(2, pg) \subseteq db.parts /\ LowT(2, pg) \subseteq db.tables
      <3>1. \A t \in LowT(2, pg) : t \in LowT(3, pg)
        BY <1>12 DEF LowT, NewNames
      <3> QED
        BY <1>11, <1>12, <3>1
    <2>2. \A t \in LowT(2, pg) : \A k \in 1..12 : t.name \notin plan[k].drop
      BY <1>12, <1>13, <1>16 DEF LowT
    <2>3. \A x \in LowP(2, pg) : \A k \in 1..12 : x \notin plan[k].lose
      <3>1. \A i \in 1..7 : OutcomeParts[i] \in Range(OutcomeParts)
        BY ListsAre DEF ListFacts
      <3> QED
        BY <1>12, <1>14, <3>1
    <2>4. \A x \in LowP(2, pg) : \A k \in 1..12 : x[1] \notin plan[k].drop
      <3>1. \A x \in BaselineParts : x[1] \notin NewNames
        BY <1>1, PartTables, NewTablesAre, Zenon DEF NewTableFacts
      <3>2. \A k \in 1..12 : plan[k].drop \subseteq NewNames
        BY <1>13, <1>16
      <3> QED
        BY <1>12, <3>1, <3>2
    <2> QED
      BY <1>23, <2>1, <2>2, <2>3, <2>4, DropsLead, Zenon
  <1>25. Consistent(plan) /\ Feasible(db, plan, 0)
    <2>1. 12 \in Nat
      OBVIOUS
    <2> QED
      BY <1>23, <2>1, DropsFeasible, Zenon
  <1> QED
    BY <1>24, <1>25, Zenon DEF Start, plan, p, q

LEMMA StartUnoperated ==
  ASSUME SchemaAt(4, "postgresql", db)
  PROVE  Start(db, DropTables(Reverse(NewTables4)), 3, "postgresql")
  <1> DEFINE plan == DropTables(Reverse(NewTables4))
             pg == "postgresql"
  <1>1. Len(plan) = 5 /\ \A k \in 1..5 : /\ plan[k].add = {} /\ plan[k].drop = {NewTables4[6 - k]}
                                         /\ plan[k].gain = {} /\ plan[k].lose = {}
    BY DropTablesFields
  <1> HIDE DEF plan
  <1>2. /\ LowT(4, pg) \subseteq db.tables /\ db.tables \subseteq HighT(4)
        /\ LowP(4, pg) \subseteq db.parts /\ db.parts \subseteq HighP(4) /\ 4 \in 1..5
    BY DEF SchemaAt
  <1>3. /\ HighT(4) = Range(Baseline) /\ HighT(3) = Range(Baseline) /\ HighP(3) = HighP(4)
        /\ HighP(3) = BaselineParts /\ LowP(3, pg) = LowP(4, pg)
        /\ MissingNames(4, pg) = {} /\ MissingNames(3, pg) = Range(NewTables4)
    BY DEF HighT, LowP, HighP, MissingParts, MissingNames
  <1>4. \A k \in 1..5 : /\ 6 - k \in 1..5
                        /\ NewTables4[k] \in Created /\ NewTables4[k] \in Range(NewTables4)
    BY NewTablesAre DEF NewTableFacts, NewNames
  <1>5. \A k \in 1..5 : plan[k].drop \subseteq Names(db) /\ plan[k].lose \subseteq db.parts
    <2>1. \A k \in 1..5 : NewTables4[k] \in Names(db)
      BY <1>2, <1>3, <1>4, NameThere
    <2> QED
      BY <1>1, <1>4, <2>1
  <1>6. ASSUME NEW k \in 1..5, NEW t \in db.tables, t.refs \cap plan[k].drop # {}
        PROVE  \E j \in 1..k : t.name \in plan[j].drop
    <2>1. NewTables4[6 - k] \in t.refs /\ t \in Range(Baseline)
      BY <1>1, <1>2, <1>3, <1>6
    <2>2. PICK j \in 1..(k - 1) : t.name = NewTables4[6 - j]
      BY <2>1, DroppedBefore, Zenon
    <2>3. t.name \in plan[j].drop /\ j \in 1..k
      BY <1>1, <2>2
    <2> QED
      BY <2>3
  <1>7. \A j, k \in 1..5 : j # k => /\ plan[j].drop \cap plan[k].drop = {}
                                    /\ plan[j].lose \cap plan[k].lose = {}
    <2>1. \A j, k \in 1..5 : NewTables4[6 - j] = NewTables4[6 - k] => 6 - j = 6 - k
      BY <1>4, NewTablesAre, Zenon DEF NewTableFacts
    <2>2. \A j, k \in 1..5 : 6 - j = 6 - k => j = k
      OBVIOUS
    <2>3. \A j, k \in 1..5 : j # k => NewTables4[6 - j] # NewTables4[6 - k]
      BY <2>1, <2>2, Zenon
    <2> QED
      BY <1>1, <2>3
  <1>8. DropsOnly(db, plan, 5)
    BY <1>1, <1>5, <1>6, <1>7, Zenon DEF DropsOnly
  <1>9. LeadsTo(db, plan, 0, LowT(3, pg), HighT(3), LowP(3, pg), HighP(3))
    <2>1. 5 \in Nat /\ db.tables \subseteq HighT(3) /\ db.parts \subseteq HighP(3)
          /\ LowP(3, pg) \subseteq db.parts /\ LowT(3, pg) \subseteq db.tables
      <3>1. \A t \in LowT(3, pg) : t \in LowT(4, pg)
        BY <1>3 DEF LowT
      <3> QED
        BY <1>2, <1>3, <3>1
    <2>2. \A t \in LowT(3, pg) : \A k \in 1..5 : t.name \notin plan[k].drop
      BY <1>1, <1>3, <1>4 DEF LowT
    <2>3. \A x \in LowP(3, pg) : \A k \in 1..5 : x \notin plan[k].lose /\ x[1] \notin plan[k].drop
      <3>1. \A x \in BaselineParts : x[1] \notin NewNames
        <4>1. BaselineParts \subseteq ModelParts
          BY PartsAre, Zenon DEF PartFacts
        <4> QED
          BY <4>1, PartTables, NewTablesAre, Zenon DEF NewTableFacts
      <3>2. \A k \in 1..5 : plan[k].drop \subseteq NewNames /\ plan[k].lose = {}
        BY <1>1, <1>4 DEF NewNames
      <3>3. LowP(3, pg) \subseteq BaselineParts
        BY <1>3 DEF LowP
      <3> QED
        BY <3>1, <3>2, <3>3
    <2> QED
      BY <1>8, <2>1, <2>2, <2>3, DropsLead, Zenon
  <1>10. Consistent(plan) /\ Feasible(db, plan, 0)
    <2>1. 5 \in Nat
      OBVIOUS
    <2> QED
      BY <1>8, <2>1, DropsFeasible, Zenon
  <1> QED
    BY <1>9, <1>10, Zenon DEF Start, plan

-----------------------------------------------------------------------------
(* 0005 and 0006: batches, with the table of the resolutions added or dropped. *)

ResolutionTable == OwnedAnd("quarantine_resolutions", {"quarantine_records", "raw_snapshots"})

TempOf(table) == Table(Temporary[table], {})

LEMMA ResolutionsIs ==
  /\ ResolutionTable \in Models /\ ResolutionTable.name = "quarantine_resolutions"
  /\ \A r \in ResolutionTable.refs : r \in Created
  /\ Models = Range(Baseline) \cup {ResolutionTable}
  /\ \A t \in Range(Baseline) : t.name # "quarantine_resolutions" /\ t \in Models
  /\ "quarantine_resolutions" \notin Created
  <1>1. /\ Models = Range(Baseline) \cup {ResolutionTable}
        /\ {"organizations", "quarantine_records", "raw_snapshots"} \subseteq Created
        /\ "quarantine_resolutions" \notin Created
    BY SchemaAssumption, Zenon DEF ResolutionTable
  <1>2. ResolutionTable.name = "quarantine_resolutions"
        /\ ResolutionTable.refs = {"organizations", "quarantine_records", "raw_snapshots"}
    BY DEF ResolutionTable, OwnedAnd, Table
  <1>3. \A t \in Range(Baseline) : t.name \in Created
    BY RangeKnown
  <1> QED
    BY <1>1, <1>2, <1>3

LEMMA TempsAre ==
  /\ TempOf("match_candidates") \in Temps /\ TempOf("match_decisions") \in Temps
  /\ TempOf("quarantine_records") \in Temps
  /\ TempOf("match_candidates").name # TempOf("match_decisions").name
  /\ \A t \in Temps : t.refs = {} /\ t.name \notin Created /\ t.name # "quarantine_resolutions"
  /\ \A t \in Temps : t \notin Models
  <1>1. DOMAIN Temporary = {"raw_snapshots", "match_candidates", "match_decisions",
                            "quarantine_records"}
    BY DEF Temporary
  <1>2. TempOf("match_candidates").name = "_alembic_tmp_match_candidates"
        /\ TempOf("match_decisions").name = "_alembic_tmp_match_decisions"
    BY DEF TempOf, Table, Temporary
  <1>3. \A t \in Temps : t.refs = {} /\ t.name \notin Created /\ t.name # "quarantine_resolutions"
    BY TablesKnown DEF KnownFacts
  <1>4. \A t \in Models : t.name \in Created \/ t.name = "quarantine_resolutions"
    BY TablesKnown, Zenon DEF KnownFacts
  <1> QED
    BY <1>1, <1>2, <1>3, <1>4 DEF Temps, TempOf

BatchPlan(d, plan, n) ==
    /\ Len(plan) = n
    /\ \A k \in 1..n : \A t \in plan[k].add :
           \/ t \in Temps /\ \E j \in (k + 1)..n : t.name \in plan[j].drop
           \/ /\ t = ResolutionTable /\ "quarantine_resolutions" \notin Names(d)
              /\ \A j \in 1..n : "quarantine_resolutions" \notin plan[j].drop
    /\ \A k \in 1..n : \A x \in plan[k].drop :
           \/ \E j \in 1..(k - 1) : \E t \in plan[j].add : t \in Temps /\ t.name = x
           \/ x = "quarantine_resolutions" /\ x \in Names(d)
    /\ \A k \in 1..n : \A p \in plan[k].gain : p \in ModelParts /\ p \notin d.parts
    /\ \A k \in 1..n : \A p \in plan[k].lose : p \in ModelParts /\ p \in d.parts
    /\ \A j, k \in 1..n :
           j # k => /\ \A t \in plan[j].add, u \in plan[k].add : t.name # u.name
                    /\ plan[j].drop \cap plan[k].drop = {}
                    /\ plan[j].gain \cap plan[k].gain = {}
                    /\ plan[j].lose \cap plan[k].lose = {}

\* The names and parts a database has from 0004 on.
Complete(d) ==
    /\ d.tables \subseteq Models /\ d.parts \subseteq ModelParts
    /\ \A x \in Created : x \in Names(d)

LEMMA BatchFeasible ==
  ASSUME NEW d, Complete(d), NEW plan, NEW n \in Nat, BatchPlan(d, plan, n)
  PROVE  Consistent(plan) /\ Feasible(d, plan, 0)
  <1>1. Len(plan) = n /\ (0 + 1)..n = 1..n /\ \A k \in 1..n : (0 + 1)..(k - 1) = 1..(k - 1)
    BY DEF BatchPlan
  <1>2. \A p \in ModelParts : p[1] \in Created
    BY PartTables
  <1>3. ASSUME NEW k \in 1..n, NEW x \in plan[k].drop PROVE x \notin Created
    <2>1. \/ \E j \in 1..(k - 1) : \E t \in plan[j].add : t \in Temps /\ t.name = x
          \/ x = "quarantine_resolutions"
      BY <1>3, Zenon DEF BatchPlan
    <2> QED
      BY <2>1, TempsAre, ResolutionsIs, Zenon
  <1>4. ASSUME NEW k \in 1..n, NEW t \in plan[k].add PROVE \A r \in t.refs : r \in Created
    <2>1. t \in Temps \/ t = ResolutionTable
      BY <1>4, Zenon DEF BatchPlan
    <2> QED
      BY <2>1, TempsAre, ResolutionsIs
  <1>5. Consistent(plan)
    <2> SUFFICES ASSUME NEW j \in 1..n, NEW k \in 1..n
                 PROVE  /\ j # k => /\ \A t \in plan[j].add, u \in plan[k].add : t.name # u.name
                                    /\ plan[j].drop \cap plan[k].drop = {}
                                    /\ plan[j].gain \cap plan[k].gain = {}
                                    /\ plan[j].lose \cap plan[k].lose = {}
                        /\ \A t \in plan[j].add : t.refs \cap plan[k].drop = {}
                        /\ \A p \in plan[j].gain \cup plan[j].lose : p[1] \notin plan[k].drop
      BY <1>1, Zenon DEF Consistent
    <2>1. \A t \in plan[j].add : \A r \in t.refs : r \notin plan[k].drop
      BY <1>3, <1>4, Zenon
    <2>2. \A p \in plan[j].gain \cup plan[j].lose : p[1] \notin plan[k].drop
      <3>1. \A p \in plan[j].gain \cup plan[j].lose : p \in ModelParts
        BY Zenon DEF BatchPlan
      <3> QED
        BY <1>2, <1>3, <3>1, Zenon
    <2>3. j # k => /\ \A t \in plan[j].add, u \in plan[k].add : t.name # u.name
                   /\ plan[j].drop \cap plan[k].drop = {}
                   /\ plan[j].gain \cap plan[k].gain = {}
                   /\ plan[j].lose \cap plan[k].lose = {}
      BY Zenon DEF BatchPlan
    <2> QED
      BY <2>1, <2>2, <2>3, Zenon
  <1>6. Feasible(d, plan, 0)
    <2> SUFFICES ASSUME NEW k \in 1..n
                 PROVE  /\ \A t \in plan[k].add : /\ t.name \notin Names(d)
                                                  /\ \A r \in t.refs : ThereAt(r, d, plan, 0, k)
                        /\ \A x \in plan[k].drop : ThereAt(x, d, plan, 0, k)
                        /\ \A p \in plan[k].gain : p \notin d.parts /\ ThereAt(p[1], d, plan, 0, k + 1)
                        /\ plan[k].lose \subseteq d.parts
                        /\ \A t \in d.tables : t.refs \cap plan[k].drop = {}
      BY <1>1, Zenon DEF Feasible
    <2>1. ASSUME NEW t \in plan[k].add PROVE t.name \notin Names(d)
      <3>1. CASE t \in Temps
        <4>1. \A u \in d.tables : u.name \in Created \/ u.name = "quarantine_resolutions"
          BY TablesKnown, Zenon DEF KnownFacts, Complete
        <4>2. t.name \notin Created /\ t.name # "quarantine_resolutions"
          BY <3>1, TempsAre
        <4> QED
          BY <4>1, <4>2 DEF Names
      <3>2. CASE t = ResolutionTable /\ "quarantine_resolutions" \notin Names(d)
        BY <3>2, ResolutionsIs
      <3> QED
        BY <2>1, <3>1, <3>2, Zenon DEF BatchPlan
    <2>2. \A t \in plan[k].add : \A r \in t.refs : ThereAt(r, d, plan, 0, k)
      BY <1>4, Zenon DEF ThereAt, Complete
    <2>3. \A x \in plan[k].drop : ThereAt(x, d, plan, 0, k)
      BY <1>1, Zenon DEF ThereAt, BatchPlan
    <2>4. \A p \in plan[k].gain : p \notin d.parts /\ ThereAt(p[1], d, plan, 0, k + 1)
      BY <1>2, Zenon DEF ThereAt, BatchPlan, Complete
    <2>5. plan[k].lose \subseteq d.parts
      BY Zenon DEF BatchPlan
    <2>6. \A t \in d.tables : t.refs \cap plan[k].drop = {}
      <3>1. \A t \in d.tables : \A r \in t.refs : r \in Created
        BY TablesKnown, Zenon DEF KnownFacts, Complete, Known
      <3> QED
        BY <1>3, <3>1, Zenon
    <2> QED
      BY <2>1, <2>2, <2>3, <2>4, <2>5, <2>6, Zenon
  <1> QED
    BY <1>5, <1>6

LEMMA BatchLeads ==
  ASSUME NEW d, Complete(d), NEW plan, NEW n \in Nat, BatchPlan(d, plan, n),
         NEW lowT, NEW highT, NEW lowP, NEW highP, lowP \subseteq ModelParts,
         \A t \in d.tables : t \in highT \/ \E k \in 1..n : t.name \in plan[k].drop,
         \A k \in 1..n : \A t \in plan[k].add : t \in Temps \/ t \in highT,
         \A t \in lowT : /\ t \in d.tables \/ \E k \in 1..n : t \in plan[k].add
                         /\ \A k \in 1..n : t.name \notin plan[k].drop,
         \A p \in d.parts : p \in highP \/ \E k \in 1..n : p \in plan[k].lose,
         \A k \in 1..n : plan[k].gain \subseteq highP,
         \A p \in lowP : /\ p \in d.parts \/ \E k \in 1..n : p \in plan[k].gain
                         /\ \A k \in 1..n : p \notin plan[k].lose
  PROVE  LeadsTo(d, plan, 0, lowT, highT, lowP, highP)
  <1>1. Len(plan) = n /\ (0 + 1)..n = 1..n
    BY DEF BatchPlan
  <1>2. \A p \in ModelParts : p[1] \in Created
    BY PartTables
  <1>3. ASSUME NEW k \in 1..n, NEW x \in plan[k].drop PROVE x \notin Created
    <2>1. \/ \E j \in 1..(k - 1) : \E t \in plan[j].add : t \in Temps /\ t.name = x
          \/ x = "quarantine_resolutions"
      BY <1>3, Zenon DEF BatchPlan
    <2> QED
      BY <2>1, TempsAre, ResolutionsIs, Zenon
  <1>4. \A k \in 1..n : \A t \in plan[k].add :
            t \in highT \/ \E j \in (k + 1)..n : t.name \in plan[j].drop
    <2> SUFFICES ASSUME NEW k \in 1..n, NEW t \in plan[k].add
                 PROVE  t \in highT \/ \E j \in (k + 1)..n : t.name \in plan[j].drop
      OBVIOUS
    <2>1. CASE t \in Temps
      <3>1. t # ResolutionTable
        BY <2>1, TempsAre, ResolutionsIs, Zenon
      <3> QED
        BY <3>1, Zenon DEF BatchPlan
    <2> QED
      BY <2>1, Zenon
  <1>5. \A p \in lowP : \A k \in 1..n : p[1] \notin plan[k].drop
    BY <1>2, <1>3, Zenon
  <1> QED
    BY <1>1, <1>4, <1>5, Zenon DEF LeadsTo

LEMMA BatchFields ==
  ASSUME NEW dia, NEW plan, NEW i, NEW table, NEW gain, NEW lose,
         BatchAt(dia, plan, i, table, gain, lose)
  PROVE  IF dia = "sqlite"
         THEN /\ plan[i].add = {TempOf(table)} /\ plan[i].drop = {} /\ plan[i].gain = {}
              /\ plan[i].lose = {} /\ plan[i].rows = "unchanged"
              /\ plan[i + 1].add = {} /\ plan[i + 1].drop = {TempOf(table).name}
              /\ plan[i + 1].gain = gain /\ plan[i + 1].lose = lose /\ plan[i + 1].rows = "copied"
         ELSE /\ plan[i].add = {} /\ plan[i].drop = {} /\ plan[i].gain = gain
              /\ plan[i].lose = lose /\ plan[i].rows = "unchanged"
  <1>1. CASE dia = "sqlite"
    <2>1. plan[i] = CreateTable(TempOf(table), {})
      BY <1>1, Zenon DEF BatchAt, TempOf
    <2>2. plan[i + 1] = [Nothing EXCEPT !.gain = gain, !.lose = lose,
                                        !.drop = {Temporary[table]}, !.rows = "copied"]
      BY <1>1, Zenon DEF BatchAt
    <2>3. TempOf(table).name = Temporary[table]
      BY DEF TempOf, Table
    <2>4. /\ plan[i].add = {TempOf(table)} /\ plan[i].drop = {} /\ plan[i].gain = {}
          /\ plan[i].lose = {} /\ plan[i].rows = "unchanged"
      BY <2>1 DEF CreateTable, Nothing
    <2>5. /\ plan[i + 1].add = {} /\ plan[i + 1].drop = {Temporary[table]}
          /\ plan[i + 1].gain = gain /\ plan[i + 1].lose = lose /\ plan[i + 1].rows = "copied"
      BY <2>2 DEF Nothing
    <2> QED
      BY <1>1, <2>3, <2>4, <2>5
  <1>2. CASE dia # "sqlite"
    <2>1. plan[i] = [Nothing EXCEPT !.gain = gain, !.lose = lose]
      BY <1>2, Zenon DEF BatchAt
    <2> QED
      BY <1>2, <2>1 DEF Nothing
  <1> QED
    BY <1>1, <1>2

\* Where the plans of 0005 and 0006 do what; a and b are the ends of their batches.
IsStatement(s, add, drop, gain, lose, rows) ==
    s.add = add /\ s.drop = drop /\ s.gain = gain /\ s.lose = lose /\ s.rows = rows

At5Up(dia, s, k, a, b) ==
    /\ \A t : t \in s.add <=> /\ dia = "sqlite"
                              /\ \/ k = a - 1 /\ t = TempOf("match_candidates")
                                 \/ k = b - 1 /\ t = TempOf("match_decisions")
    /\ \A x : x \in s.drop <=> /\ dia = "sqlite"
                               /\ \/ k = a /\ x = TempOf("match_candidates").name
                                  \/ k = b /\ x = TempOf("match_decisions").name
    /\ \A p : p \in s.gain <=> \/ k = 1 /\ p = CandidateRevision
                               \/ k = 2 /\ p = DecisionRevision
                               \/ k = a /\ p \in CandidateKeys
                               \/ k = b /\ p \in DecisionKeys
    /\ s.lose = {}
    /\ k = 3 => s.rows = "rank_decisions"
    /\ k = 4 => s.rows = "count_decisions"
    /\ k \notin 3..4 => s.rows \in {"unchanged", "copied"}

Where5Up(dia, plan, a, b) == \A k \in 1..b : At5Up(dia, plan[k], k, a, b)

At5Down(dia, s, k, a, b) ==
    /\ \A t : t \in s.add <=> /\ dia = "sqlite"
                              /\ \/ k = a - 1 /\ t = TempOf("match_decisions")
                                 \/ k = b - 1 /\ t = TempOf("match_candidates")
    /\ \A x : x \in s.drop <=> /\ dia = "sqlite"
                               /\ \/ k = a /\ x = TempOf("match_decisions").name
                                  \/ k = b /\ x = TempOf("match_candidates").name
    /\ \A p : p \in s.lose <=> \/ k = a /\ p \in DecisionParts
                               \/ k = b /\ p \in CandidateParts
    /\ s.gain = {}
    /\ s.rows \in {"unchanged", "copied"}
    /\ dia = "sqlite" => (s.rows = "copied" <=> k \in {a, b})

Where5Down(dia, plan, a, b) == \A k \in 1..b : At5Down(dia, plan[k], k, a, b)

At6Up(dia, s, k, a) ==
    /\ \A t : t \in s.add <=> \/ dia = "sqlite" /\ k = a - 1 /\ t = TempOf("quarantine_records")
                              \/ k = a + 1 /\ t = ResolutionTable
    /\ \A x : x \in s.drop <=> dia = "sqlite" /\ k = a /\ x = TempOf("quarantine_records").name
    /\ \A p : p \in s.gain <=> k = a /\ p \in RecordParts
    /\ s.lose = {}
    /\ k = a + 2 => s.rows = "import_note"
    /\ k = a + 3 => s.rows = "revise_records"
    /\ k \notin (a + 2)..(a + 3) => s.rows \in {"unchanged", "copied"}
    /\ dia = "sqlite" /\ k = a => s.rows = "copied"

Where6Up(dia, plan, a) == \A k \in 1..(a + 3) : At6Up(dia, plan[k], k, a)

At6Down(dia, s, k, a) ==
    /\ \A t : t \in s.add <=> dia = "sqlite" /\ k = a - 1 /\ t = TempOf("quarantine_records")
    /\ \A x : x \in s.drop <=>
                  \/ dia = "sqlite" /\ k = a /\ x = TempOf("quarantine_records").name
                  \/ k = 2 /\ x = "quarantine_resolutions"
    /\ \A p : p \in s.lose <=> k = a /\ p \in RecordParts
    /\ s.gain = {}
    /\ k = 1 => s.rows = "keep_history"
    /\ k # 1 => s.rows \in {"unchanged", "copied"}
    /\ k = 2 => s.rows = "unchanged"

Where6Down(dia, plan, a) == \A k \in 1..a : At6Down(dia, plan[k], k, a)

\* Where the batches end.
First5(dia, up) == IF up THEN IF dia = "sqlite" THEN 6 ELSE 5 ELSE IF dia = "sqlite" THEN 2 ELSE 1
Last5(dia, up) == IF up THEN IF dia = "sqlite" THEN 8 ELSE 6 ELSE IF dia = "sqlite" THEN 4 ELSE 2
End6(dia, up) == IF up THEN IF dia = "sqlite" THEN 2 ELSE 1 ELSE IF dia = "sqlite" THEN 4 ELSE 3

LEMMA Fields5Up ==
  ASSUME NEW dia, NEW plan, Plan5Up(dia, plan)
  PROVE  /\ Last5(dia, TRUE) \in Nat /\ Len(plan) = Last5(dia, TRUE)
         /\ Where5Up(dia, plan, First5(dia, TRUE), Last5(dia, TRUE))
  <1>1. Len(plan) = 4 + 2 * BatchLen(dia)
    BY Zenon DEF Plan5Up
  <1>2. /\ BatchAt(dia, plan, 5, "match_candidates", CandidateKeys, {})
        /\ BatchAt(dia, plan, 5 + BatchLen(dia), "match_decisions", DecisionKeys, {})
    BY Zenon DEF Plan5Up
  <1>3. /\ IsStatement(plan[1], {}, {}, {CandidateRevision}, {}, "unchanged")
        /\ IsStatement(plan[2], {}, {}, {DecisionRevision}, {}, "unchanged")
        /\ IsStatement(plan[3], {}, {}, {}, {}, "rank_decisions")
        /\ IsStatement(plan[4], {}, {}, {}, {}, "count_decisions")
    <2>1. /\ plan[1] = Add({CandidateRevision})
          /\ plan[2] = Add({DecisionRevision})
          /\ plan[3] = Execute("rank_decisions")
          /\ plan[4] = Execute("count_decisions")
      BY Zenon DEF Plan5Up, ResolutionTable
    <2>2. IsStatement(plan[1], {}, {}, {CandidateRevision}, {}, "unchanged")
      BY <2>1 DEF Add, Execute, DropTable, CreateTable, Nothing, IsStatement
    <2>3. IsStatement(plan[2], {}, {}, {DecisionRevision}, {}, "unchanged")
      BY <2>1 DEF Add, Execute, DropTable, CreateTable, Nothing, IsStatement
    <2>4. IsStatement(plan[3], {}, {}, {}, {}, "rank_decisions")
      BY <2>1 DEF Add, Execute, DropTable, CreateTable, Nothing, IsStatement
    <2>5. IsStatement(plan[4], {}, {}, {}, {}, "count_decisions")
      BY <2>1 DEF Add, Execute, DropTable, CreateTable, Nothing, IsStatement
    <2> QED
      BY <2>2, <2>3, <2>4, <2>5, Zenon
  <1>4. CASE dia = "sqlite"
    <2>1. BatchLen(dia) = 2 /\ 4 + 2 * BatchLen(dia) = 8 /\ 5 + BatchLen(dia) = 7
      <3>1. BatchLen(dia) = 2
        BY <1>4 DEF BatchLen
      <3>2. 4 + 2 * 2 = 8 /\ 5 + 2 = 7
        OBVIOUS
      <3> QED
        BY <3>1, <3>2, Zenon
    <2>2. /\ BatchAt(dia, plan, 5, "match_candidates", CandidateKeys, {})
          /\ BatchAt(dia, plan, 7, "match_decisions", DecisionKeys, {})
      BY <1>2, <2>1, Zenon
    <2>3. /\ IsStatement(plan[5], {TempOf("match_candidates")}, {}, {}, {}, "unchanged")
          /\ IsStatement(plan[6], {}, {TempOf("match_candidates").name}, CandidateKeys, {}, "copied")
      <3>1. 5 + 1 = 6
        OBVIOUS
      <3>2. /\ IsStatement(plan[5], {TempOf("match_candidates")}, {}, {}, {}, "unchanged")
            /\ IsStatement(plan[5 + 1], {}, {TempOf("match_candidates").name}, CandidateKeys, {}, "copied")
        BY <1>4, <2>2, BatchFields DEF IsStatement
      <3> QED
        BY <3>1, <3>2, Zenon
    <2>4. /\ IsStatement(plan[7], {TempOf("match_decisions")}, {}, {}, {}, "unchanged")
          /\ IsStatement(plan[8], {}, {TempOf("match_decisions").name}, DecisionKeys, {}, "copied")
      <3>1. 7 + 1 = 8
        OBVIOUS
      <3>2. /\ IsStatement(plan[7], {TempOf("match_decisions")}, {}, {}, {}, "unchanged")
            /\ IsStatement(plan[7 + 1], {}, {TempOf("match_decisions").name}, DecisionKeys, {}, "copied")
        BY <1>4, <2>2, BatchFields DEF IsStatement
      <3> QED
        BY <3>1, <3>2, Zenon
    <2>10. /\ IsStatement(plan[1], {}, {}, {CandidateRevision}, {}, "unchanged")
           /\ IsStatement(plan[2], {}, {}, {DecisionRevision}, {}, "unchanged")
           /\ IsStatement(plan[3], {}, {}, {}, {}, "rank_decisions")
           /\ IsStatement(plan[4], {}, {}, {}, {}, "count_decisions")
      BY <1>3, <2>1, Zenon
    <2>11. IsStatement(plan[1], {}, {}, {CandidateRevision}, {}, "unchanged")
      BY <2>10, Zenon
    <2>12. IsStatement(plan[2], {}, {}, {DecisionRevision}, {}, "unchanged")
      BY <2>10, Zenon
    <2>13. IsStatement(plan[3], {}, {}, {}, {}, "rank_decisions")
      BY <2>10, Zenon
    <2>14. IsStatement(plan[4], {}, {}, {}, {}, "count_decisions")
      BY <2>10, Zenon
    <2>5. First5(dia, TRUE) = 6 /\ Last5(dia, TRUE) = 8 /\ Len(plan) = 8 /\ 8 \in Nat
      BY <1>4, <1>1, <2>1 DEF First5, Last5
    <2>6. /\ At5Up(dia, plan[1], 1, 6, 8)
          /\ At5Up(dia, plan[2], 2, 6, 8)
          /\ At5Up(dia, plan[3], 3, 6, 8)
          /\ At5Up(dia, plan[4], 4, 6, 8)
          /\ At5Up(dia, plan[5], 5, 6, 8)
          /\ At5Up(dia, plan[6], 6, 6, 8)
          /\ At5Up(dia, plan[7], 7, 6, 8)
          /\ At5Up(dia, plan[8], 8, 6, 8)
      <3>1. At5Up(dia, plan[1], 1, 6, 8)
        BY <1>4, <2>11 DEF IsStatement, At5Up
      <3>2. At5Up(dia, plan[2], 2, 6, 8)
        BY <1>4, <2>12 DEF IsStatement, At5Up
      <3>3. At5Up(dia, plan[3], 3, 6, 8)
        BY <1>4, <2>13 DEF IsStatement, At5Up
      <3>4. At5Up(dia, plan[4], 4, 6, 8)
        BY <1>4, <2>14 DEF IsStatement, At5Up
      <3>5. At5Up(dia, plan[5], 5, 6, 8)
        BY <1>4, <2>3 DEF IsStatement, At5Up
      <3>6. At5Up(dia, plan[6], 6, 6, 8)
        BY <1>4, <2>3 DEF IsStatement, At5Up
      <3>7. At5Up(dia, plan[7], 7, 6, 8)
        BY <1>4, <2>4 DEF IsStatement, At5Up
      <3>8. At5Up(dia, plan[8], 8, 6, 8)
        BY <1>4, <2>4 DEF IsStatement, At5Up
      <3> QED
        BY <3>1, <3>2, <3>3, <3>4, <3>5, <3>6, <3>7, <3>8, Zenon
    <2>7. \A k \in 1..8 : k = 1 \/ k = 2 \/ k = 3 \/ k = 4 \/ k = 5 \/ k = 6 \/ k = 7 \/ k = 8
      OBVIOUS
    <2>8. Where5Up(dia, plan, 6, 8)
      BY <2>6, <2>7, Zenon DEF Where5Up
    <2> QED
      BY <2>5, <2>8, Zenon
  <1>5. CASE dia # "sqlite"
    <2>1. BatchLen(dia) = 1 /\ 4 + 2 * BatchLen(dia) = 6 /\ 5 + BatchLen(dia) = 6
      <3>1. BatchLen(dia) = 1
        BY <1>5 DEF BatchLen
      <3>2. 4 + 2 * 1 = 6 /\ 5 + 1 = 6
        OBVIOUS
      <3> QED
        BY <3>1, <3>2, Zenon
    <2>2. /\ BatchAt(dia, plan, 5, "match_candidates", CandidateKeys, {})
          /\ BatchAt(dia, plan, 6, "match_decisions", DecisionKeys, {})
      BY <1>2, <2>1, Zenon
    <2>3. IsStatement(plan[5], {}, {}, CandidateKeys, {}, "unchanged")
      BY <1>5, <2>2, BatchFields DEF IsStatement
    <2>4. IsStatement(plan[6], {}, {}, DecisionKeys, {}, "unchanged")
      BY <1>5, <2>2, BatchFields DEF IsStatement
    <2>10. /\ IsStatement(plan[1], {}, {}, {CandidateRevision}, {}, "unchanged")
           /\ IsStatement(plan[2], {}, {}, {DecisionRevision}, {}, "unchanged")
           /\ IsStatement(plan[3], {}, {}, {}, {}, "rank_decisions")
           /\ IsStatement(plan[4], {}, {}, {}, {}, "count_decisions")
      BY <1>3, <2>1, Zenon
    <2>11. IsStatement(plan[1], {}, {}, {CandidateRevision}, {}, "unchanged")
      BY <2>10, Zenon
    <2>12. IsStatement(plan[2], {}, {}, {DecisionRevision}, {}, "unchanged")
      BY <2>10, Zenon
    <2>13. IsStatement(plan[3], {}, {}, {}, {}, "rank_decisions")
      BY <2>10, Zenon
    <2>14. IsStatement(plan[4], {}, {}, {}, {}, "count_decisions")
      BY <2>10, Zenon
    <2>5. First5(dia, TRUE) = 5 /\ Last5(dia, TRUE) = 6 /\ Len(plan) = 6 /\ 6 \in Nat
      BY <1>5, <1>1, <2>1 DEF First5, Last5
    <2>6. /\ At5Up(dia, plan[1], 1, 5, 6)
          /\ At5Up(dia, plan[2], 2, 5, 6)
          /\ At5Up(dia, plan[3], 3, 5, 6)
          /\ At5Up(dia, plan[4], 4, 5, 6)
          /\ At5Up(dia, plan[5], 5, 5, 6)
          /\ At5Up(dia, plan[6], 6, 5, 6)
      <3>1. At5Up(dia, plan[1], 1, 5, 6)
        BY <1>5, <2>11 DEF IsStatement, At5Up
      <3>2. At5Up(dia, plan[2], 2, 5, 6)
        BY <1>5, <2>12 DEF IsStatement, At5Up
      <3>3. At5Up(dia, plan[3], 3, 5, 6)
        BY <1>5, <2>13 DEF IsStatement, At5Up
      <3>4. At5Up(dia, plan[4], 4, 5, 6)
        BY <1>5, <2>14 DEF IsStatement, At5Up
      <3>5. At5Up(dia, plan[5], 5, 5, 6)
        BY <1>5, <2>3 DEF IsStatement, At5Up
      <3>6. At5Up(dia, plan[6], 6, 5, 6)
        BY <1>5, <2>4 DEF IsStatement, At5Up
      <3> QED
        BY <3>1, <3>2, <3>3, <3>4, <3>5, <3>6, Zenon
    <2>7. \A k \in 1..6 : k = 1 \/ k = 2 \/ k = 3 \/ k = 4 \/ k = 5 \/ k = 6
      OBVIOUS
    <2>8. Where5Up(dia, plan, 5, 6)
      BY <2>6, <2>7, Zenon DEF Where5Up
    <2> QED
      BY <2>5, <2>8, Zenon
  <1> QED
    BY <1>4, <1>5, Zenon

LEMMA Fields5Down ==
  ASSUME NEW dia, NEW plan, Plan5Down(dia, plan)
  PROVE  /\ Last5(dia, FALSE) \in Nat /\ Len(plan) = Last5(dia, FALSE)
         /\ Where5Down(dia, plan, First5(dia, FALSE), Last5(dia, FALSE))
  <1>0. /\ DecisionKeys \cup {DecisionRevision} = DecisionParts
        /\ CandidateKeys \cup {CandidateRevision} = CandidateParts
        /\ RecordKeys \cup {RecordRevision} = RecordParts
        /\ {RecordRevision} \cup RecordKeys = RecordParts
    BY DEF DecisionParts, CandidateParts, RecordParts
  <1>1. Len(plan) = 2 * BatchLen(dia)
    BY Zenon DEF Plan5Down
  <1>2. /\ BatchAt(dia, plan, 1, "match_decisions", {}, DecisionParts)
        /\ BatchAt(dia, plan, 1 + BatchLen(dia), "match_candidates", {}, CandidateParts)
    BY <1>0, Zenon DEF Plan5Down
  <1>4. CASE dia = "sqlite"
    <2>1. BatchLen(dia) = 2 /\ 1 + BatchLen(dia) = 3 /\ 2 * BatchLen(dia) = 4
      <3>1. BatchLen(dia) = 2
        BY <1>4 DEF BatchLen
      <3>2. 1 + 2 = 3 /\ 2 * 2 = 4
        OBVIOUS
      <3> QED
        BY <3>1, <3>2, Zenon
    <2>2. /\ BatchAt(dia, plan, 1, "match_decisions", {}, DecisionParts)
          /\ BatchAt(dia, plan, 3, "match_candidates", {}, CandidateParts)
      BY <1>2, <2>1, Zenon
    <2>3. /\ IsStatement(plan[1], {TempOf("match_decisions")}, {}, {}, {}, "unchanged")
          /\ IsStatement(plan[2], {}, {TempOf("match_decisions").name}, {}, DecisionParts, "copied")
      <3>1. 1 + 1 = 2
        OBVIOUS
      <3>2. /\ IsStatement(plan[1], {TempOf("match_decisions")}, {}, {}, {}, "unchanged")
            /\ IsStatement(plan[1 + 1], {}, {TempOf("match_decisions").name}, {}, DecisionParts, "copied")
        BY <1>4, <2>2, BatchFields DEF IsStatement
      <3> QED
        BY <3>1, <3>2, Zenon
    <2>4. /\ IsStatement(plan[3], {TempOf("match_candidates")}, {}, {}, {}, "unchanged")
          /\ IsStatement(plan[4], {}, {TempOf("match_candidates").name}, {}, CandidateParts, "copied")
      <3>1. 3 + 1 = 4
        OBVIOUS
      <3>2. /\ IsStatement(plan[3], {TempOf("match_candidates")}, {}, {}, {}, "unchanged")
            /\ IsStatement(plan[3 + 1], {}, {TempOf("match_candidates").name}, {}, CandidateParts, "copied")
        BY <1>4, <2>2, BatchFields DEF IsStatement
      <3> QED
        BY <3>1, <3>2, Zenon
    <2>5. First5(dia, FALSE) = 2 /\ Last5(dia, FALSE) = 4 /\ Len(plan) = 4 /\ 4 \in Nat
      BY <1>4, <1>1, <2>1 DEF First5, Last5
    <2>6. /\ At5Down(dia, plan[1], 1, 2, 4)
          /\ At5Down(dia, plan[2], 2, 2, 4)
          /\ At5Down(dia, plan[3], 3, 2, 4)
          /\ At5Down(dia, plan[4], 4, 2, 4)
      <3>1. At5Down(dia, plan[1], 1, 2, 4)
        BY <1>4, <2>3 DEF IsStatement, At5Down
      <3>2. At5Down(dia, plan[2], 2, 2, 4)
        BY <1>4, <2>3 DEF IsStatement, At5Down
      <3>3. At5Down(dia, plan[3], 3, 2, 4)
        BY <1>4, <2>4 DEF IsStatement, At5Down
      <3>4. At5Down(dia, plan[4], 4, 2, 4)
        BY <1>4, <2>4 DEF IsStatement, At5Down
      <3> QED
        BY <3>1, <3>2, <3>3, <3>4, Zenon
    <2>7. \A k \in 1..4 : k = 1 \/ k = 2 \/ k = 3 \/ k = 4
      OBVIOUS
    <2>8. Where5Down(dia, plan, 2, 4)
      BY <2>6, <2>7, Zenon DEF Where5Down
    <2> QED
      BY <2>5, <2>8, Zenon
  <1>5. CASE dia # "sqlite"
    <2>1. BatchLen(dia) = 1 /\ 1 + BatchLen(dia) = 2 /\ 2 * BatchLen(dia) = 2
      <3>1. BatchLen(dia) = 1
        BY <1>5 DEF BatchLen
      <3>2. 1 + 1 = 2 /\ 2 * 1 = 2
        OBVIOUS
      <3> QED
        BY <3>1, <3>2, Zenon
    <2>2. /\ BatchAt(dia, plan, 1, "match_decisions", {}, DecisionParts)
          /\ BatchAt(dia, plan, 2, "match_candidates", {}, CandidateParts)
      BY <1>2, <2>1, Zenon
    <2>3. IsStatement(plan[1], {}, {}, {}, DecisionParts, "unchanged")
      BY <1>5, <2>2, BatchFields DEF IsStatement
    <2>4. IsStatement(plan[2], {}, {}, {}, CandidateParts, "unchanged")
      BY <1>5, <2>2, BatchFields DEF IsStatement
    <2>5. First5(dia, FALSE) = 1 /\ Last5(dia, FALSE) = 2 /\ Len(plan) = 2 /\ 2 \in Nat
      BY <1>5, <1>1, <2>1 DEF First5, Last5
    <2>6. /\ At5Down(dia, plan[1], 1, 1, 2)
          /\ At5Down(dia, plan[2], 2, 1, 2)
      <3>1. At5Down(dia, plan[1], 1, 1, 2)
        BY <1>5, <2>3 DEF IsStatement, At5Down
      <3>2. At5Down(dia, plan[2], 2, 1, 2)
        BY <1>5, <2>4 DEF IsStatement, At5Down
      <3> QED
        BY <3>1, <3>2, Zenon
    <2>7. \A k \in 1..2 : k = 1 \/ k = 2
      OBVIOUS
    <2>8. Where5Down(dia, plan, 1, 2)
      BY <2>6, <2>7, Zenon DEF Where5Down
    <2> QED
      BY <2>5, <2>8, Zenon
  <1> QED
    BY <1>4, <1>5, Zenon

LEMMA Fields6Up ==
  ASSUME NEW dia, NEW plan, Plan6Up(dia, plan)
  PROVE  /\ End6(dia, TRUE) + 3 \in Nat /\ Len(plan) = End6(dia, TRUE) + 3
         /\ Where6Up(dia, plan, End6(dia, TRUE))
  <1>0. /\ DecisionKeys \cup {DecisionRevision} = DecisionParts
        /\ CandidateKeys \cup {CandidateRevision} = CandidateParts
        /\ RecordKeys \cup {RecordRevision} = RecordParts
        /\ {RecordRevision} \cup RecordKeys = RecordParts
    BY DEF DecisionParts, CandidateParts, RecordParts
  <1>1. Len(plan) = BatchLen(dia) + 3
    BY Zenon DEF Plan6Up
  <1>2. /\ BatchAt(dia, plan, 1, "quarantine_records", RecordParts, {})
    BY <1>0, Zenon DEF Plan6Up
  <1>3. /\ IsStatement(plan[BatchLen(dia) + 1], {ResolutionTable}, {}, {}, {}, "unchanged")
        /\ IsStatement(plan[BatchLen(dia) + 2], {}, {}, {}, {}, "import_note")
        /\ IsStatement(plan[BatchLen(dia) + 3], {}, {}, {}, {}, "revise_records")
    <2>1. /\ plan[BatchLen(dia) + 1] = CreateTable(ResolutionTable, {})
          /\ plan[BatchLen(dia) + 2] = Execute("import_note")
          /\ plan[BatchLen(dia) + 3] = Execute("revise_records")
      BY Zenon DEF Plan6Up, ResolutionTable
    <2>2. IsStatement(plan[BatchLen(dia) + 1], {ResolutionTable}, {}, {}, {}, "unchanged")
      BY <2>1 DEF Add, Execute, DropTable, CreateTable, Nothing, IsStatement
    <2>3. IsStatement(plan[BatchLen(dia) + 2], {}, {}, {}, {}, "import_note")
      BY <2>1 DEF Add, Execute, DropTable, CreateTable, Nothing, IsStatement
    <2>4. IsStatement(plan[BatchLen(dia) + 3], {}, {}, {}, {}, "revise_records")
      BY <2>1 DEF Add, Execute, DropTable, CreateTable, Nothing, IsStatement
    <2> QED
      BY <2>2, <2>3, <2>4, Zenon
  <1>4. CASE dia = "sqlite"
    <2>1. BatchLen(dia) = 2 /\ BatchLen(dia) + 1 = 3 /\ BatchLen(dia) + 2 = 4 /\ BatchLen(dia) + 3 = 5
      <3>1. BatchLen(dia) = 2
        BY <1>4 DEF BatchLen
      <3>2. 2 + 1 = 3 /\ 2 + 2 = 4 /\ 2 + 3 = 5
        OBVIOUS
      <3> QED
        BY <3>1, <3>2, Zenon
    <2>2. /\ BatchAt(dia, plan, 1, "quarantine_records", RecordParts, {})
      BY <1>2, <2>1, Zenon
    <2>3. /\ IsStatement(plan[1], {TempOf("quarantine_records")}, {}, {}, {}, "unchanged")
          /\ IsStatement(plan[2], {}, {TempOf("quarantine_records").name}, RecordParts, {}, "copied")
      <3>1. 1 + 1 = 2
        OBVIOUS
      <3>2. /\ IsStatement(plan[1], {TempOf("quarantine_records")}, {}, {}, {}, "unchanged")
            /\ IsStatement(plan[1 + 1], {}, {TempOf("quarantine_records").name}, RecordParts, {}, "copied")
        BY <1>4, <2>2, BatchFields DEF IsStatement
      <3> QED
        BY <3>1, <3>2, Zenon
    <2>10. /\ IsStatement(plan[3], {ResolutionTable}, {}, {}, {}, "unchanged")
           /\ IsStatement(plan[4], {}, {}, {}, {}, "import_note")
           /\ IsStatement(plan[5], {}, {}, {}, {}, "revise_records")
      BY <1>3, <2>1, Zenon
    <2>11. IsStatement(plan[3], {ResolutionTable}, {}, {}, {}, "unchanged")
      BY <2>10, Zenon
    <2>12. IsStatement(plan[4], {}, {}, {}, {}, "import_note")
      BY <2>10, Zenon
    <2>13. IsStatement(plan[5], {}, {}, {}, {}, "revise_records")
      BY <2>10, Zenon
    <2>5. End6(dia, TRUE) = 2 /\ End6(dia, TRUE) + 3 = 5 /\ Len(plan) = 5 /\ 5 \in Nat
      BY <1>4, <1>1, <2>1 DEF End6
    <2>6. /\ At6Up(dia, plan[1], 1, 2)
          /\ At6Up(dia, plan[2], 2, 2)
          /\ At6Up(dia, plan[3], 3, 2)
          /\ At6Up(dia, plan[4], 4, 2)
          /\ At6Up(dia, plan[5], 5, 2)
      <3>1. At6Up(dia, plan[1], 1, 2)
        BY <1>4, <2>3 DEF IsStatement, At6Up
      <3>2. At6Up(dia, plan[2], 2, 2)
        BY <1>4, <2>3 DEF IsStatement, At6Up
      <3>3. At6Up(dia, plan[3], 3, 2)
        BY <1>4, <2>11 DEF IsStatement, At6Up
      <3>4. At6Up(dia, plan[4], 4, 2)
        BY <1>4, <2>12 DEF IsStatement, At6Up
      <3>5. At6Up(dia, plan[5], 5, 2)
        BY <1>4, <2>13 DEF IsStatement, At6Up
      <3> QED
        BY <3>1, <3>2, <3>3, <3>4, <3>5, Zenon
    <2>7. \A k \in 1..5 : k = 1 \/ k = 2 \/ k = 3 \/ k = 4 \/ k = 5
      OBVIOUS
    <2>9. 2 + 3 = 5
      OBVIOUS
    <2>8. Where6Up(dia, plan, 2)
      BY <2>6, <2>7, <2>9, Zenon DEF Where6Up
    <2> QED
      BY <2>5, <2>8, Zenon
  <1>5. CASE dia # "sqlite"
    <2>1. BatchLen(dia) = 1 /\ BatchLen(dia) + 1 = 2 /\ BatchLen(dia) + 2 = 3 /\ BatchLen(dia) + 3 = 4
      <3>1. BatchLen(dia) = 1
        BY <1>5 DEF BatchLen
      <3>2. 1 + 1 = 2 /\ 1 + 2 = 3 /\ 1 + 3 = 4
        OBVIOUS
      <3> QED
        BY <3>1, <3>2, Zenon
    <2>2. /\ BatchAt(dia, plan, 1, "quarantine_records", RecordParts, {})
      BY <1>2, <2>1, Zenon
    <2>3. IsStatement(plan[1], {}, {}, RecordParts, {}, "unchanged")
      BY <1>5, <2>2, BatchFields DEF IsStatement
    <2>10. /\ IsStatement(plan[2], {ResolutionTable}, {}, {}, {}, "unchanged")
           /\ IsStatement(plan[3], {}, {}, {}, {}, "import_note")
           /\ IsStatement(plan[4], {}, {}, {}, {}, "revise_records")
      BY <1>3, <2>1, Zenon
    <2>11. IsStatement(plan[2], {ResolutionTable}, {}, {}, {}, "unchanged")
      BY <2>10, Zenon
    <2>12. IsStatement(plan[3], {}, {}, {}, {}, "import_note")
      BY <2>10, Zenon
    <2>13. IsStatement(plan[4], {}, {}, {}, {}, "revise_records")
      BY <2>10, Zenon
    <2>5. End6(dia, TRUE) = 1 /\ End6(dia, TRUE) + 3 = 4 /\ Len(plan) = 4 /\ 4 \in Nat
      BY <1>5, <1>1, <2>1 DEF End6
    <2>6. /\ At6Up(dia, plan[1], 1, 1)
          /\ At6Up(dia, plan[2], 2, 1)
          /\ At6Up(dia, plan[3], 3, 1)
          /\ At6Up(dia, plan[4], 4, 1)
      <3>1. At6Up(dia, plan[1], 1, 1)
        BY <1>5, <2>3 DEF IsStatement, At6Up
      <3>2. At6Up(dia, plan[2], 2, 1)
        BY <1>5, <2>11 DEF IsStatement, At6Up
      <3>3. At6Up(dia, plan[3], 3, 1)
        BY <1>5, <2>12 DEF IsStatement, At6Up
      <3>4. At6Up(dia, plan[4], 4, 1)
        BY <1>5, <2>13 DEF IsStatement, At6Up
      <3> QED
        BY <3>1, <3>2, <3>3, <3>4, Zenon
    <2>7. \A k \in 1..4 : k = 1 \/ k = 2 \/ k = 3 \/ k = 4
      OBVIOUS
    <2>9. 1 + 3 = 4
      OBVIOUS
    <2>8. Where6Up(dia, plan, 1)
      BY <2>6, <2>7, <2>9, Zenon DEF Where6Up
    <2> QED
      BY <2>5, <2>8, Zenon
  <1> QED
    BY <1>4, <1>5, Zenon

LEMMA Fields6Down ==
  ASSUME NEW dia, NEW plan, Plan6Down(dia, plan)
  PROVE  /\ End6(dia, FALSE) \in Nat /\ Len(plan) = End6(dia, FALSE)
         /\ Where6Down(dia, plan, End6(dia, FALSE))
  <1>0. /\ DecisionKeys \cup {DecisionRevision} = DecisionParts
        /\ CandidateKeys \cup {CandidateRevision} = CandidateParts
        /\ RecordKeys \cup {RecordRevision} = RecordParts
        /\ {RecordRevision} \cup RecordKeys = RecordParts
    BY DEF DecisionParts, CandidateParts, RecordParts
  <1>1. Len(plan) = 2 + BatchLen(dia)
    BY Zenon DEF Plan6Down
  <1>2. /\ BatchAt(dia, plan, 3, "quarantine_records", {}, RecordParts)
    BY <1>0, Zenon DEF Plan6Down
  <1>3. /\ IsStatement(plan[1], {}, {}, {}, {}, "keep_history")
        /\ IsStatement(plan[2], {}, {"quarantine_resolutions"}, {}, {}, "unchanged")
    <2>1. /\ plan[1] = Execute("keep_history")
          /\ plan[2] = DropTable("quarantine_resolutions")
      BY Zenon DEF Plan6Down, ResolutionTable
    <2>2. IsStatement(plan[1], {}, {}, {}, {}, "keep_history")
      BY <2>1 DEF Add, Execute, DropTable, CreateTable, Nothing, IsStatement
    <2>3. IsStatement(plan[2], {}, {"quarantine_resolutions"}, {}, {}, "unchanged")
      BY <2>1 DEF Add, Execute, DropTable, CreateTable, Nothing, IsStatement
    <2> QED
      BY <2>2, <2>3, Zenon
  <1>4. CASE dia = "sqlite"
    <2>1. BatchLen(dia) = 2 /\ 2 + BatchLen(dia) = 4
      <3>1. BatchLen(dia) = 2
        BY <1>4 DEF BatchLen
      <3>2. 2 + 2 = 4
        OBVIOUS
      <3> QED
        BY <3>1, <3>2, Zenon
    <2>2. /\ BatchAt(dia, plan, 3, "quarantine_records", {}, RecordParts)
      BY <1>2, <2>1, Zenon
    <2>3. /\ IsStatement(plan[3], {TempOf("quarantine_records")}, {}, {}, {}, "unchanged")
          /\ IsStatement(plan[4], {}, {TempOf("quarantine_records").name}, {}, RecordParts, "copied")
      <3>1. 3 + 1 = 4
        OBVIOUS
      <3>2. /\ IsStatement(plan[3], {TempOf("quarantine_records")}, {}, {}, {}, "unchanged")
            /\ IsStatement(plan[3 + 1], {}, {TempOf("quarantine_records").name}, {}, RecordParts, "copied")
        BY <1>4, <2>2, BatchFields DEF IsStatement
      <3> QED
        BY <3>1, <3>2, Zenon
    <2>10. /\ IsStatement(plan[1], {}, {}, {}, {}, "keep_history")
           /\ IsStatement(plan[2], {}, {"quarantine_resolutions"}, {}, {}, "unchanged")
      BY <1>3, <2>1, Zenon
    <2>11. IsStatement(plan[1], {}, {}, {}, {}, "keep_history")
      BY <2>10, Zenon
    <2>12. IsStatement(plan[2], {}, {"quarantine_resolutions"}, {}, {}, "unchanged")
      BY <2>10, Zenon
    <2>5. End6(dia, FALSE) = 4 /\ Len(plan) = 4 /\ 4 \in Nat
      BY <1>4, <1>1, <2>1 DEF End6
    <2>6. /\ At6Down(dia, plan[1], 1, 4)
          /\ At6Down(dia, plan[2], 2, 4)
          /\ At6Down(dia, plan[3], 3, 4)
          /\ At6Down(dia, plan[4], 4, 4)
      <3>1. At6Down(dia, plan[1], 1, 4)
        BY <1>4, <2>11 DEF IsStatement, At6Down
      <3>2. At6Down(dia, plan[2], 2, 4)
        BY <1>4, <2>12 DEF IsStatement, At6Down
      <3>3. At6Down(dia, plan[3], 3, 4)
        BY <1>4, <2>3 DEF IsStatement, At6Down
      <3>4. At6Down(dia, plan[4], 4, 4)
        BY <1>4, <2>3 DEF IsStatement, At6Down
      <3> QED
        BY <3>1, <3>2, <3>3, <3>4, Zenon
    <2>7. \A k \in 1..4 : k = 1 \/ k = 2 \/ k = 3 \/ k = 4
      OBVIOUS
    <2>8. Where6Down(dia, plan, 4)
      BY <2>6, <2>7, Zenon DEF Where6Down
    <2> QED
      BY <2>5, <2>8, Zenon
  <1>5. CASE dia # "sqlite"
    <2>1. BatchLen(dia) = 1 /\ 2 + BatchLen(dia) = 3
      <3>1. BatchLen(dia) = 1
        BY <1>5 DEF BatchLen
      <3>2. 2 + 1 = 3
        OBVIOUS
      <3> QED
        BY <3>1, <3>2, Zenon
    <2>2. /\ BatchAt(dia, plan, 3, "quarantine_records", {}, RecordParts)
      BY <1>2, <2>1, Zenon
    <2>3. IsStatement(plan[3], {}, {}, {}, RecordParts, "unchanged")
      BY <1>5, <2>2, BatchFields DEF IsStatement
    <2>10. /\ IsStatement(plan[1], {}, {}, {}, {}, "keep_history")
           /\ IsStatement(plan[2], {}, {"quarantine_resolutions"}, {}, {}, "unchanged")
      BY <1>3, <2>1, Zenon
    <2>11. IsStatement(plan[1], {}, {}, {}, {}, "keep_history")
      BY <2>10, Zenon
    <2>12. IsStatement(plan[2], {}, {"quarantine_resolutions"}, {}, {}, "unchanged")
      BY <2>10, Zenon
    <2>5. End6(dia, FALSE) = 3 /\ Len(plan) = 3 /\ 3 \in Nat
      BY <1>5, <1>1, <2>1 DEF End6
    <2>6. /\ At6Down(dia, plan[1], 1, 3)
          /\ At6Down(dia, plan[2], 2, 3)
          /\ At6Down(dia, plan[3], 3, 3)
      <3>1. At6Down(dia, plan[1], 1, 3)
        BY <1>5, <2>11 DEF IsStatement, At6Down
      <3>2. At6Down(dia, plan[2], 2, 3)
        BY <1>5, <2>12 DEF IsStatement, At6Down
      <3>3. At6Down(dia, plan[3], 3, 3)
        BY <1>5, <2>3 DEF IsStatement, At6Down
      <3> QED
        BY <3>1, <3>2, <3>3, Zenon
    <2>7. \A k \in 1..3 : k = 1 \/ k = 2 \/ k = 3
      OBVIOUS
    <2>8. Where6Down(dia, plan, 3)
      BY <2>6, <2>7, Zenon DEF Where6Down
    <2> QED
      BY <2>5, <2>8, Zenon
  <1> QED
    BY <1>4, <1>5, Zenon

\* From 0004 on a version stands for exactly one schema.
LEMMA FullAt ==
  ASSUME NEW v \in 4..6, NEW dia
  PROVE  /\ LowT(v, dia) = HighT(v) /\ LowP(v, dia) = HighP(v)
         /\ HighT(v) = IF v = 6 THEN Range(Baseline) \cup {ResolutionTable} ELSE Range(Baseline)
         /\ HighP(v) = IF v = 6 THEN ModelParts
                       ELSE IF v = 5 THEN BaselineParts \cup DecisionParts \cup CandidateParts
                       ELSE BaselineParts
  <1>1. MissingNames(v, dia) = {} /\ MissingParts(v, dia) = {}
    BY DEF MissingNames, MissingParts
  <1>2. LowT(v, dia) = HighT(v) /\ LowP(v, dia) = HighP(v)
    BY <1>1 DEF LowT, LowP
  <1> QED
    BY <1>2, ResolutionsIs DEF HighT, HighP

LEMMA CompleteAt ==
  ASSUME NEW v \in 4..6, NEW dia, NEW d, SchemaAt(v, dia, d)
  PROVE  Complete(d) /\ d.tables = HighT(v) /\ d.parts = HighP(v)
  <1>1. d.tables = HighT(v) /\ d.parts = HighP(v)
    BY FullAt DEF SchemaAt
  <1>2. Range(Baseline) \subseteq d.tables /\ d.tables \subseteq Models
    BY <1>1, FullAt, ResolutionsIs
  <1>3. d.parts \subseteq ModelParts
    <2>1. ModelParts = BaselineParts \cup DecisionParts \cup CandidateParts \cup RecordParts
      BY PartsAre, Zenon DEF PartFacts
    <2> QED
      BY <1>1, <2>1, FullAt
  <1>4. ASSUME NEW x \in Created PROVE x \in Names(d)
    <2>1. PICK i \in DOMAIN Baseline : x = Baseline[i].name
      BY DEF Created
    <2> QED
      BY <1>2, <2>1 DEF Names, Range
  <1> QED
    BY <1>1, <1>2, <1>3, <1>4 DEF Complete

LEMMA StartReview ==
  ASSUME NEW dia, NEW d, SchemaAt(4, dia, d), NEW plan, Plan5Up(dia, plan)
  PROVE  Start(d, plan, 5, dia)
  <1> DEFINE a == First5(dia, TRUE)
             b == Last5(dia, TRUE)
             tc == TempOf("match_candidates")
             td == TempOf("match_decisions")
  <1>1. /\ a \in Nat /\ b \in Nat /\ 4 < a /\ a < b
        /\ dia = "sqlite" => a < b - 1
    BY DEF First5, Last5
  <1>2. Len(plan) = b /\ \A k \in 1..b : At5Up(dia, plan[k], k, a, b)
    BY Fields5Up, Zenon DEF Where5Up
  <1>3. /\ tc \in Temps /\ td \in Temps /\ tc.name # td.name
        /\ \A t \in Temps : t.name \notin Created /\ t.name # "quarantine_resolutions"
    BY TempsAre
  <1> HIDE DEF a, b, tc, td
  <1>4. \A k \in 1..b :
            /\ \A t \in plan[k].add : /\ dia = "sqlite"
                                      /\ \/ k = a - 1 /\ t = tc
                                         \/ k = b - 1 /\ t = td
            /\ dia = "sqlite" => (k = a - 1 => tc \in plan[k].add) /\ (k = b - 1 => td \in plan[k].add)
            /\ \A x \in plan[k].drop : /\ dia = "sqlite"
                                       /\ \/ k = a /\ x = tc.name
                                          \/ k = b /\ x = td.name
            /\ dia = "sqlite" => (k = a => tc.name \in plan[k].drop) /\ (k = b => td.name \in plan[k].drop)
    BY <1>2 DEF At5Up, tc, td
  <1>5. \A k \in 1..b :
            /\ plan[k].lose = {}
            /\ \A p \in plan[k].gain : \/ k = 1 /\ p = CandidateRevision
                                       \/ k = 2 /\ p = DecisionRevision
                                       \/ k = a /\ p \in CandidateKeys
                                       \/ k = b /\ p \in DecisionKeys
            /\ k = 1 => CandidateRevision \in plan[k].gain
            /\ k = 2 => DecisionRevision \in plan[k].gain
            /\ k = a => CandidateKeys \subseteq plan[k].gain
            /\ k = b => DecisionKeys \subseteq plan[k].gain
    BY <1>2, Zenon DEF At5Up
  <1>6. Complete(d) /\ d.tables = Range(Baseline) /\ d.parts = BaselineParts
    <2>1. 4 \in 4..6 /\ 4 # 6 /\ 4 # 5
      OBVIOUS
    <2>2. Complete(d) /\ d.tables = HighT(4) /\ d.parts = HighP(4)
      BY <2>1, CompleteAt, Zenon
    <2> QED
      BY <2>1, <2>2, FullAt
  <1>7. /\ ModelParts = BaselineParts \cup DecisionParts \cup CandidateParts \cup RecordParts
        /\ BaselineParts \cap (DecisionParts \cup CandidateParts) = {}
        /\ DecisionParts \cap CandidateParts = {}
        /\ DecisionRevision \notin DecisionKeys /\ CandidateRevision \notin CandidateKeys
        /\ DecisionParts = {DecisionRevision} \cup DecisionKeys
        /\ CandidateParts = {CandidateRevision} \cup CandidateKeys
    BY PartsAre DEF PartFacts, DecisionParts, CandidateParts
  <1>8. BatchPlan(d, plan, b)
    <2>1. ASSUME NEW k \in 1..b, NEW t \in plan[k].add
          PROVE  t \in Temps /\ \E j \in (k + 1)..b : t.name \in plan[j].drop
      <3>1. a \in 1..b /\ b \in 1..b
        BY <1>1
      <3>4. dia = "sqlite" /\ ((k = a - 1 /\ t = tc) \/ (k = b - 1 /\ t = td))
        BY <1>4, <2>1, Zenon
      <3>2. CASE k = a - 1 /\ t = tc
        <4>1. a \in (k + 1)..b
          BY <1>1, <3>2
        <4> QED
          BY <1>3, <1>4, <3>1, <3>2, <3>4, <4>1, Zenon
      <3>3. CASE k = b - 1 /\ t = td
        <4>1. b \in (k + 1)..b
          BY <1>1, <3>3
        <4> QED
          BY <1>3, <1>4, <3>1, <3>3, <3>4, <4>1, Zenon
      <3> QED
        BY <3>2, <3>3, <3>4, Zenon
    <2>2. ASSUME NEW k \in 1..b, NEW x \in plan[k].drop
          PROVE  \E j \in 1..(k - 1) : \E t \in plan[j].add : t \in Temps /\ t.name = x
      <3>1. dia = "sqlite" /\ ((k = a /\ x = tc.name) \/ (k = b /\ x = td.name))
        BY <1>4, <2>2, Zenon
      <3>2. /\ a - 1 \in 1..b /\ a - 1 \in 1..(a - 1) /\ tc \in plan[a - 1].add
            /\ b - 1 \in 1..b /\ b - 1 \in 1..(b - 1) /\ td \in plan[b - 1].add
        BY <1>1, <1>4, <3>1
      <3> QED
        BY <1>3, <3>1, <3>2, Zenon
    <2>3. \A k \in 1..b : \A p \in plan[k].gain : p \in ModelParts /\ p \notin d.parts
      BY <1>5, <1>6, <1>7
    <2>4. ASSUME NEW j \in 1..b, NEW k \in 1..b, j # k
          PROVE  /\ \A t \in plan[j].add, u \in plan[k].add : t.name # u.name
                 /\ plan[j].drop \cap plan[k].drop = {}
                 /\ plan[j].gain \cap plan[k].gain = {}
                 /\ plan[j].lose \cap plan[k].lose = {}
      <3>1. \A t \in plan[j].add, u \in plan[k].add : t.name # u.name
        BY <1>3, <1>4, <2>4
      <3>2. plan[j].drop \cap plan[k].drop = {}
        BY <1>3, <1>4, <2>4
      <3>3. plan[j].gain \cap plan[k].gain = {}
        <4>1. ASSUME NEW p \in plan[j].gain, p \in plan[k].gain PROVE FALSE
          <5>1. /\ \/ j = 1 /\ p = CandidateRevision
                   \/ j = 2 /\ p = DecisionRevision
                   \/ j = a /\ p \in CandidateKeys
                   \/ j = b /\ p \in DecisionKeys
                /\ \/ k = 1 /\ p = CandidateRevision
                   \/ k = 2 /\ p = DecisionRevision
                   \/ k = a /\ p \in CandidateKeys
                   \/ k = b /\ p \in DecisionKeys
            BY <1>5, <4>1, Zenon
          <5> QED
            BY <1>7, <2>4, <5>1
        <4> QED
          BY <4>1
      <3>4. plan[j].lose \cap plan[k].lose = {}
        BY <1>5
      <3> QED
        BY <3>1, <3>2, <3>3, <3>4
    <2>5. \A k \in 1..b : \A p \in plan[k].lose : p \in ModelParts /\ p \in d.parts
      BY <1>5
    <2>6. \A j, k \in 1..b :
             j # k => /\ \A t \in plan[j].add, u \in plan[k].add : t.name # u.name
                      /\ plan[j].drop \cap plan[k].drop = {}
                      /\ plan[j].gain \cap plan[k].gain = {}
                      /\ plan[j].lose \cap plan[k].lose = {}
      BY <2>4, Zenon
    <2>7. \A k \in 1..b : \A t \in plan[k].add :
             t \in Temps /\ \E j \in (k + 1)..b : t.name \in plan[j].drop
      BY <2>1, Zenon
    <2>8. \A k \in 1..b : \A x \in plan[k].drop :
             \E j \in 1..(k - 1) : \E t \in plan[j].add : t \in Temps /\ t.name = x
      BY <2>2, Zenon
    <2> QED
      BY <1>2, <2>3, <2>5, <2>6, <2>7, <2>8 DEF BatchPlan
  <1>9. Consistent(plan) /\ Feasible(d, plan, 0)
    BY <1>1, <1>6, <1>8, BatchFeasible, Zenon
  <1>10. LeadsTo(d, plan, 0, LowT(5, dia), HighT(5), LowP(5, dia), HighP(5))
    <2> DEFINE T == Range(Baseline)
               P == BaselineParts \cup DecisionParts \cup CandidateParts
    <2>1. LowT(5, dia) = T /\ HighT(5) = T /\ LowP(5, dia) = P /\ HighP(5) = P
      <3>1. 5 \in 4..6 /\ 5 # 6
        OBVIOUS
      <3> QED
        BY <3>1, FullAt
    <2>2. P \subseteq ModelParts
      BY <1>7
    <2>3. \A t \in d.tables : t \in T \/ \E k \in 1..b : t.name \in plan[k].drop
      BY <1>6
    <2>4. \A k \in 1..b : \A t \in plan[k].add : t \in Temps \/ t \in T
      BY <1>3, <1>4, Zenon
    <2>5. \A t \in T : /\ t \in d.tables \/ \E k \in 1..b : t \in plan[k].add
                       /\ \A k \in 1..b : t.name \notin plan[k].drop
      <3>1. \A t \in T : t.name \in Created
        BY RangeKnown
      <3> QED
        BY <1>3, <1>4, <1>6, <3>1, Zenon
    <2>6. \A p \in d.parts : p \in P \/ \E k \in 1..b : p \in plan[k].lose
      BY <1>6
    <2>7. \A k \in 1..b : plan[k].gain \subseteq P
      BY <1>5, <1>7
    <2>8. \A p \in P : /\ p \in d.parts \/ \E k \in 1..b : p \in plan[k].gain
                       /\ \A k \in 1..b : p \notin plan[k].lose
      <3>1. 1 \in 1..b /\ 2 \in 1..b /\ a \in 1..b /\ b \in 1..b
        BY <1>1
      <3>2. /\ CandidateRevision \in plan[1].gain /\ DecisionRevision \in plan[2].gain
            /\ CandidateKeys \subseteq plan[a].gain /\ DecisionKeys \subseteq plan[b].gain
        BY <1>5, <3>1, Zenon
      <3>3. \A p \in P : p \in d.parts \/ \E k \in 1..b : p \in plan[k].gain
        BY <1>6, <1>7, <3>1, <3>2
      <3> QED
        BY <1>5, <3>3
    <2> HIDE DEF T, P
    <2>9. LeadsTo(d, plan, 0, T, T, P, P)
      BY <1>1, <1>6, <1>8, <2>2, <2>3, <2>4, <2>5, <2>6, <2>7, <2>8, BatchLeads, Zenon
    <2> QED
      BY <2>1, <2>9, Zenon
  <1> QED
    BY <1>9, <1>10, Zenon DEF Start

LEMMA StartUnreview ==
  ASSUME NEW dia, NEW d, SchemaAt(5, dia, d), NEW plan, Plan5Down(dia, plan)
  PROVE  Start(d, plan, 4, dia)
  <1> DEFINE a == First5(dia, FALSE)
             b == Last5(dia, FALSE)
             tc == TempOf("match_candidates")
             td == TempOf("match_decisions")
  <1>1. /\ a \in Nat /\ b \in Nat /\ 0 < a /\ a < b
        /\ dia = "sqlite" => 1 < a /\ a < b - 1
    BY DEF First5, Last5
  <1>2. Len(plan) = b /\ \A k \in 1..b : At5Down(dia, plan[k], k, a, b)
    BY Fields5Down, Zenon DEF Where5Down
  <1>3. /\ tc \in Temps /\ td \in Temps /\ tc.name # td.name
        /\ \A t \in Temps : t.name \notin Created /\ t.name # "quarantine_resolutions"
    BY TempsAre
  <1> HIDE DEF a, b, tc, td
  <1>4. \A k \in 1..b :
            /\ \A t \in plan[k].add : /\ dia = "sqlite"
                                      /\ \/ k = a - 1 /\ t = td
                                         \/ k = b - 1 /\ t = tc
            /\ dia = "sqlite" => (k = a - 1 => td \in plan[k].add) /\ (k = b - 1 => tc \in plan[k].add)
            /\ \A x \in plan[k].drop : /\ dia = "sqlite"
                                       /\ \/ k = a /\ x = td.name
                                          \/ k = b /\ x = tc.name
            /\ dia = "sqlite" => (k = a => td.name \in plan[k].drop) /\ (k = b => tc.name \in plan[k].drop)
    BY <1>2 DEF At5Down, tc, td
  <1>5. \A k \in 1..b :
            /\ plan[k].gain = {}
            /\ \A p \in plan[k].lose : \/ k = a /\ p \in DecisionParts
                                       \/ k = b /\ p \in CandidateParts
            /\ k = a => DecisionParts \subseteq plan[k].lose
            /\ k = b => CandidateParts \subseteq plan[k].lose
    BY <1>2, Zenon DEF At5Down
  <1>6. Complete(d) /\ d.tables = Range(Baseline) /\ d.parts = BaselineParts \cup DecisionParts \cup CandidateParts
    <2>1. 5 \in 4..6 /\ 5 # 6
      OBVIOUS
    <2>2. Complete(d) /\ d.tables = HighT(5) /\ d.parts = HighP(5)
      BY <2>1, CompleteAt, Zenon
    <2> QED
      BY <2>1, <2>2, FullAt
  <1>7. /\ ModelParts = BaselineParts \cup DecisionParts \cup CandidateParts \cup RecordParts
        /\ BaselineParts \cap (DecisionParts \cup CandidateParts) = {}
        /\ DecisionParts \cap CandidateParts = {}
        /\ DecisionRevision \notin DecisionKeys /\ CandidateRevision \notin CandidateKeys
        /\ DecisionParts = {DecisionRevision} \cup DecisionKeys
        /\ CandidateParts = {CandidateRevision} \cup CandidateKeys
    BY PartsAre DEF PartFacts, DecisionParts, CandidateParts
  <1>8. BatchPlan(d, plan, b)
    <2>1. ASSUME NEW k \in 1..b, NEW t \in plan[k].add
          PROVE  t \in Temps /\ \E j \in (k + 1)..b : t.name \in plan[j].drop
      <3>1. a \in 1..b /\ b \in 1..b
        BY <1>1
      <3>4. dia = "sqlite" /\ ((k = a - 1 /\ t = td) \/ (k = b - 1 /\ t = tc))
        BY <1>4, <2>1, Zenon
      <3>2. CASE k = a - 1 /\ t = td
        <4>1. a \in (k + 1)..b
          BY <1>1, <3>2
        <4> QED
          BY <1>3, <1>4, <3>1, <3>2, <3>4, <4>1, Zenon
      <3>3. CASE k = b - 1 /\ t = tc
        <4>1. b \in (k + 1)..b
          BY <1>1, <3>3
        <4> QED
          BY <1>3, <1>4, <3>1, <3>3, <3>4, <4>1, Zenon
      <3> QED
        BY <3>2, <3>3, <3>4, Zenon
    <2>2. ASSUME NEW k \in 1..b, NEW x \in plan[k].drop
          PROVE  \E j \in 1..(k - 1) : \E t \in plan[j].add : t \in Temps /\ t.name = x
      <3>1. dia = "sqlite" /\ ((k = a /\ x = td.name) \/ (k = b /\ x = tc.name))
        BY <1>4, <2>2, Zenon
      <3>2. /\ a - 1 \in 1..b /\ a - 1 \in 1..(a - 1) /\ td \in plan[a - 1].add
            /\ b - 1 \in 1..b /\ b - 1 \in 1..(b - 1) /\ tc \in plan[b - 1].add
        BY <1>1, <1>4, <3>1
      <3> QED
        BY <1>3, <3>1, <3>2, Zenon
    <2>3. \A k \in 1..b : \A p \in plan[k].gain : p \in ModelParts /\ p \notin d.parts
      BY <1>5
    <2>4. ASSUME NEW j \in 1..b, NEW k \in 1..b, j # k
          PROVE  /\ \A t \in plan[j].add, u \in plan[k].add : t.name # u.name
                 /\ plan[j].drop \cap plan[k].drop = {}
                 /\ plan[j].gain \cap plan[k].gain = {}
                 /\ plan[j].lose \cap plan[k].lose = {}
      <3>1. \A t \in plan[j].add, u \in plan[k].add : t.name # u.name
        BY <1>3, <1>4, <2>4
      <3>2. plan[j].drop \cap plan[k].drop = {}
        BY <1>3, <1>4, <2>4
      <3>3. plan[j].lose \cap plan[k].lose = {}
        BY <1>5, <1>7, <2>4
      <3>4. plan[j].gain \cap plan[k].gain = {}
        BY <1>5
      <3> QED
        BY <3>1, <3>2, <3>3, <3>4
    <2>5. \A k \in 1..b : \A p \in plan[k].lose : p \in ModelParts /\ p \in d.parts
      BY <1>5, <1>6, <1>7
    <2>6. \A j, k \in 1..b :
             j # k => /\ \A t \in plan[j].add, u \in plan[k].add : t.name # u.name
                      /\ plan[j].drop \cap plan[k].drop = {}
                      /\ plan[j].gain \cap plan[k].gain = {}
                      /\ plan[j].lose \cap plan[k].lose = {}
      BY <2>4, Zenon
    <2>7. \A k \in 1..b : \A t \in plan[k].add :
             t \in Temps /\ \E j \in (k + 1)..b : t.name \in plan[j].drop
      BY <2>1, Zenon
    <2>8. \A k \in 1..b : \A x \in plan[k].drop :
             \E j \in 1..(k - 1) : \E t \in plan[j].add : t \in Temps /\ t.name = x
      BY <2>2, Zenon
    <2> QED
      BY <1>2, <2>3, <2>5, <2>6, <2>7, <2>8 DEF BatchPlan
  <1>9. Consistent(plan) /\ Feasible(d, plan, 0)
    BY <1>1, <1>6, <1>8, BatchFeasible, Zenon
  <1>10. LeadsTo(d, plan, 0, LowT(4, dia), HighT(4), LowP(4, dia), HighP(4))
    <2> DEFINE T == Range(Baseline)
               P == BaselineParts
    <2>1. LowT(4, dia) = T /\ HighT(4) = T /\ LowP(4, dia) = P /\ HighP(4) = P
      <3>1. 4 \in 4..6 /\ 4 # 6 /\ 4 # 5
        OBVIOUS
      <3> QED
        BY <3>1, FullAt
    <2>2. P \subseteq ModelParts
      BY <1>7
    <2>3. \A t \in d.tables : t \in T \/ \E k \in 1..b : t.name \in plan[k].drop
      BY <1>6
    <2>4. \A k \in 1..b : \A t \in plan[k].add : t \in Temps \/ t \in T
      BY <1>3, <1>4, Zenon
    <2>5. \A t \in T : /\ t \in d.tables \/ \E k \in 1..b : t \in plan[k].add
                       /\ \A k \in 1..b : t.name \notin plan[k].drop
      <3>1. \A t \in T : t.name \in Created
        BY RangeKnown
      <3> QED
        BY <1>3, <1>4, <1>6, <3>1, Zenon
    <2>6. \A p \in d.parts : p \in P \/ \E k \in 1..b : p \in plan[k].lose
      <3>1. a \in 1..b /\ b \in 1..b
        BY <1>1
      <3>2. DecisionParts \subseteq plan[a].lose /\ CandidateParts \subseteq plan[b].lose
        BY <1>5, <3>1, Zenon
      <3> QED
        BY <1>6, <3>1, <3>2
    <2>7. \A k \in 1..b : plan[k].gain \subseteq P
      BY <1>5
    <2>8. \A p \in P : /\ p \in d.parts \/ \E k \in 1..b : p \in plan[k].gain
                       /\ \A k \in 1..b : p \notin plan[k].lose
      BY <1>5, <1>6, <1>7
    <2> HIDE DEF T, P
    <2>9. LeadsTo(d, plan, 0, T, T, P, P)
      BY <1>1, <1>6, <1>8, <2>2, <2>3, <2>4, <2>5, <2>6, <2>7, <2>8, BatchLeads, Zenon
    <2> QED
      BY <2>1, <2>9, Zenon
  <1> QED
    BY <1>9, <1>10, Zenon DEF Start

LEMMA StartResolutions ==
  ASSUME NEW dia, NEW d, SchemaAt(5, dia, d), NEW plan, Plan6Up(dia, plan)
  PROVE  Start(d, plan, 6, dia)
  <1> DEFINE a == End6(dia, TRUE)
             b == a + 3
             tq == TempOf("quarantine_records")
             qr == "quarantine_resolutions"
  <1>1. /\ a \in Nat /\ b \in Nat /\ 0 < a /\ a + 1 < b
        /\ dia = "sqlite" => 1 < a
    BY DEF End6
  <1>2. Len(plan) = b /\ \A k \in 1..b : At6Up(dia, plan[k], k, a)
    BY Fields6Up, Zenon DEF Where6Up
  <1>3. /\ tq \in Temps /\ ResolutionTable \notin Temps /\ ResolutionTable.name = qr
        /\ \A t \in Temps : t.name \notin Created /\ t.name # qr
        /\ qr \notin Created
    <2>1. /\ tq \in Temps /\ \A t \in Temps : t.name \notin Created /\ t.name # qr
      BY TempsAre
    <2> QED
      BY <2>1, ResolutionsIs
  <1> HIDE DEF a, b, tq, qr
  <1>4. \A k \in 1..b :
            /\ \A t \in plan[k].add : \/ dia = "sqlite" /\ k = a - 1 /\ t = tq
                                      \/ k = a + 1 /\ t = ResolutionTable
            /\ dia = "sqlite" => (k = a - 1 => tq \in plan[k].add)
            /\ k = a + 1 => ResolutionTable \in plan[k].add
            /\ \A x \in plan[k].drop : dia = "sqlite" /\ k = a /\ x = tq.name
            /\ dia = "sqlite" => (k = a => tq.name \in plan[k].drop)
    BY <1>2, Zenon DEF At6Up, tq
  <1>5. \A k \in 1..b :
            /\ plan[k].lose = {}
            /\ \A p \in plan[k].gain : k = a /\ p \in RecordParts
            /\ k = a => RecordParts \subseteq plan[k].gain
    BY <1>2, Zenon DEF At6Up
  <1>6. /\ Complete(d) /\ d.tables = Range(Baseline)
        /\ d.parts = BaselineParts \cup DecisionParts \cup CandidateParts
    <2>1. 5 \in 4..6 /\ 5 # 6
      OBVIOUS
    <2>2. Complete(d) /\ d.tables = HighT(5) /\ d.parts = HighP(5)
      BY <2>1, CompleteAt, Zenon
    <2> QED
      BY <2>1, <2>2, FullAt
  <1>7. /\ ModelParts = BaselineParts \cup DecisionParts \cup CandidateParts \cup RecordParts
        /\ BaselineParts \cap RecordParts = {}
        /\ RecordParts \cap (DecisionParts \cup CandidateParts) = {}
    <2>1. BaselineParts \cap (DecisionParts \cup CandidateParts \cup RecordParts) = {}
      BY PartsAre, Zenon DEF PartFacts
    <2>2. /\ ModelParts = BaselineParts \cup DecisionParts \cup CandidateParts \cup RecordParts
          /\ RecordParts \cap (DecisionParts \cup CandidateParts) = {}
      BY PartsAre, Zenon DEF PartFacts
    <2> QED
      BY <2>1, <2>2
  <1>11. qr \notin Names(d)
    <2>1. \A t \in Range(Baseline) : t.name # qr
      BY ResolutionsIs, Zenon DEF qr
    <2> QED
      BY <1>6, <2>1 DEF Names
  <1>8. BatchPlan(d, plan, b)
    <2>1. ASSUME NEW k \in 1..b, NEW t \in plan[k].add
          PROVE  \/ t \in Temps /\ \E j \in (k + 1)..b : t.name \in plan[j].drop
                 \/ /\ t = ResolutionTable /\ qr \notin Names(d)
                    /\ \A j \in 1..b : qr \notin plan[j].drop
      <3>1. a \in 1..b
        BY <1>1
      <3>4. \/ dia = "sqlite" /\ k = a - 1 /\ t = tq
            \/ k = a + 1 /\ t = ResolutionTable
        BY <1>4, <2>1, Zenon
      <3>2. CASE dia = "sqlite" /\ k = a - 1 /\ t = tq
        <4>1. a \in (k + 1)..b
          BY <1>1, <3>2
        <4> QED
          BY <1>3, <1>4, <3>1, <3>2, <4>1, Zenon
      <3>3. CASE t = ResolutionTable
        BY <1>3, <1>4, <1>11, <3>3, Zenon
      <3> QED
        BY <3>2, <3>3, <3>4, Zenon
    <2>2. ASSUME NEW k \in 1..b, NEW x \in plan[k].drop
          PROVE  \E j \in 1..(k - 1) : \E t \in plan[j].add : t \in Temps /\ t.name = x
      <3>1. dia = "sqlite" /\ k = a /\ x = tq.name
        BY <1>4, <2>2, Zenon
      <3>2. a - 1 \in 1..b /\ a - 1 \in 1..(a - 1)
        BY <1>1, <3>1
      <3>3. tq \in plan[a - 1].add
        BY <1>4, <3>1, <3>2, Zenon
      <3> QED
        BY <1>3, <3>1, <3>2, <3>3, Zenon
    <2>3. \A k \in 1..b : \A p \in plan[k].gain : p \in ModelParts /\ p \notin d.parts
      BY <1>5, <1>6, <1>7
    <2>4. ASSUME NEW j \in 1..b, NEW k \in 1..b, j # k
          PROVE  /\ \A t \in plan[j].add, u \in plan[k].add : t.name # u.name
                 /\ plan[j].drop \cap plan[k].drop = {}
                 /\ plan[j].gain \cap plan[k].gain = {}
                 /\ plan[j].lose \cap plan[k].lose = {}
      <3>1. ASSUME NEW t \in plan[j].add, NEW u \in plan[k].add PROVE t.name # u.name
        <4>1. /\ \/ j = a - 1 /\ t = tq
                 \/ j = a + 1 /\ t = ResolutionTable
              /\ \/ k = a - 1 /\ u = tq
                 \/ k = a + 1 /\ u = ResolutionTable
          BY <1>4, <3>1, Zenon
        <4> QED
          BY <1>3, <2>4, <4>1
      <3>2. plan[j].drop \cap plan[k].drop = {}
        BY <1>4, <2>4
      <3>3. plan[j].gain \cap plan[k].gain = {}
        BY <1>5, <2>4
      <3>4. plan[j].lose \cap plan[k].lose = {}
        BY <1>5
      <3> QED
        BY <3>1, <3>2, <3>3, <3>4
    <2>5. \A k \in 1..b : \A p \in plan[k].lose : p \in ModelParts /\ p \in d.parts
      BY <1>5
    <2>6. \A j, k \in 1..b :
             j # k => /\ \A t \in plan[j].add, u \in plan[k].add : t.name # u.name
                      /\ plan[j].drop \cap plan[k].drop = {}
                      /\ plan[j].gain \cap plan[k].gain = {}
                      /\ plan[j].lose \cap plan[k].lose = {}
      BY <2>4, Zenon
    <2>7. \A k \in 1..b : \A t \in plan[k].add :
             \/ t \in Temps /\ \E j \in (k + 1)..b : t.name \in plan[j].drop
             \/ /\ t = ResolutionTable /\ qr \notin Names(d)
                /\ \A j \in 1..b : qr \notin plan[j].drop
      BY <2>1, Zenon
    <2>8. \A k \in 1..b : \A x \in plan[k].drop :
             \E j \in 1..(k - 1) : \E t \in plan[j].add : t \in Temps /\ t.name = x
      BY <2>2, Zenon
    <2> QED
      BY <1>2, <2>3, <2>5, <2>6, <2>7, <2>8 DEF BatchPlan, qr
  <1>9. Consistent(plan) /\ Feasible(d, plan, 0)
    BY <1>1, <1>6, <1>8, BatchFeasible, Zenon
  <1>10. LeadsTo(d, plan, 0, LowT(6, dia), HighT(6), LowP(6, dia), HighP(6))
    <2> DEFINE T == Range(Baseline) \cup {ResolutionTable}
               P == ModelParts
    <2>1. LowT(6, dia) = T /\ HighT(6) = T /\ LowP(6, dia) = P /\ HighP(6) = P
      <3>1. 6 \in 4..6
        OBVIOUS
      <3> QED
        BY <3>1, FullAt
    <2>2. P \subseteq ModelParts
      OBVIOUS
    <2>3. \A t \in d.tables : t \in T \/ \E k \in 1..b : t.name \in plan[k].drop
      BY <1>6
    <2>4. \A k \in 1..b : \A t \in plan[k].add : t \in Temps \/ t \in T
      BY <1>3, <1>4
    <2>5. \A t \in T : /\ t \in d.tables \/ \E k \in 1..b : t \in plan[k].add
                       /\ \A k \in 1..b : t.name \notin plan[k].drop
      <3>1. \A t \in T : t.name \in Created \/ t.name = qr
        BY <1>3, RangeKnown
      <3>2. a + 1 \in 1..b
        BY <1>1
      <3>3. ResolutionTable \in plan[a + 1].add
        BY <1>4, <3>2, Zenon
      <3>4. \A t \in T : t \in d.tables \/ \E k \in 1..b : t \in plan[k].add
        BY <1>6, <3>2, <3>3
      <3> QED
        BY <1>3, <1>4, <3>1, <3>4, Zenon
    <2>6. \A p \in d.parts : p \in P \/ \E k \in 1..b : p \in plan[k].lose
      BY <1>6, <1>7
    <2>7. \A k \in 1..b : plan[k].gain \subseteq P
      BY <1>5, <1>7
    <2>8. \A p \in P : /\ p \in d.parts \/ \E k \in 1..b : p \in plan[k].gain
                       /\ \A k \in 1..b : p \notin plan[k].lose
      <3>1. a \in 1..b
        BY <1>1
      <3>2. RecordParts \subseteq plan[a].gain
        BY <1>5, <3>1, Zenon
      <3>3. \A p \in P : p \in d.parts \/ \E k \in 1..b : p \in plan[k].gain
        BY <1>6, <1>7, <3>1, <3>2
      <3> QED
        BY <1>5, <3>3
    <2> HIDE DEF T, P
    <2>9. LeadsTo(d, plan, 0, T, T, P, P)
      BY <1>1, <1>6, <1>8, <2>2, <2>3, <2>4, <2>5, <2>6, <2>7, <2>8, BatchLeads, Zenon
    <2> QED
      BY <2>1, <2>9, Zenon
  <1> QED
    BY <1>9, <1>10, Zenon DEF Start

LEMMA StartUnresolved ==
  ASSUME NEW dia, NEW d, SchemaAt(6, dia, d), NEW plan, Plan6Down(dia, plan)
  PROVE  Start(d, plan, 5, dia)
  <1> DEFINE a == End6(dia, FALSE)
             tq == TempOf("quarantine_records")
             qr == "quarantine_resolutions"
  <1>1. /\ a \in Nat /\ 2 < a
        /\ dia = "sqlite" => 3 < a
    BY DEF End6
  <1>2. Len(plan) = a /\ \A k \in 1..a : At6Down(dia, plan[k], k, a)
    BY Fields6Down, Zenon DEF Where6Down
  <1>3. /\ tq \in Temps /\ ResolutionTable.name = qr
        /\ \A t \in Temps : t.name \notin Created /\ t.name # qr
        /\ qr \notin Created
    <2>1. /\ tq \in Temps /\ \A t \in Temps : t.name \notin Created /\ t.name # qr
      BY TempsAre
    <2> QED
      BY <2>1, ResolutionsIs
  <1> HIDE DEF a, tq, qr
  <1>4. \A k \in 1..a :
            /\ \A t \in plan[k].add : dia = "sqlite" /\ k = a - 1 /\ t = tq
            /\ dia = "sqlite" => (k = a - 1 => tq \in plan[k].add)
            /\ \A x \in plan[k].drop : \/ dia = "sqlite" /\ k = a /\ x = tq.name
                                       \/ k = 2 /\ x = qr
            /\ k = 2 => qr \in plan[k].drop
    BY <1>2, ZenonT(60) DEF At6Down, tq, qr
  <1>5. \A k \in 1..a :
            /\ plan[k].gain = {}
            /\ \A p \in plan[k].lose : k = a /\ p \in RecordParts
            /\ k = a => RecordParts \subseteq plan[k].lose
    BY <1>2, Zenon DEF At6Down
  <1>6. /\ Complete(d) /\ d.tables = Range(Baseline) \cup {ResolutionTable}
        /\ d.parts = ModelParts
    <2>1. 6 \in 4..6
      OBVIOUS
    <2>2. Complete(d) /\ d.tables = HighT(6) /\ d.parts = HighP(6)
      BY <2>1, CompleteAt, Zenon
    <2> QED
      BY <2>1, <2>2, FullAt
  <1>7. /\ ModelParts = BaselineParts \cup DecisionParts \cup CandidateParts \cup RecordParts
        /\ BaselineParts \cap RecordParts = {}
        /\ RecordParts \cap (DecisionParts \cup CandidateParts) = {}
    <2>1. BaselineParts \cap (DecisionParts \cup CandidateParts \cup RecordParts) = {}
      BY PartsAre, Zenon DEF PartFacts
    <2>2. /\ ModelParts = BaselineParts \cup DecisionParts \cup CandidateParts \cup RecordParts
          /\ RecordParts \cap (DecisionParts \cup CandidateParts) = {}
      BY PartsAre, Zenon DEF PartFacts
    <2> QED
      BY <2>1, <2>2
  <1>11. qr \in Names(d)
    BY <1>3, <1>6 DEF Names
  <1>8. BatchPlan(d, plan, a)
    <2>1. ASSUME NEW k \in 1..a, NEW t \in plan[k].add
          PROVE  t \in Temps /\ \E j \in (k + 1)..a : t.name \in plan[j].drop
      <3>1. dia = "sqlite" /\ k = a - 1 /\ t = tq
        BY <1>4, <2>1, Zenon
      <3>2. a \in (k + 1)..a /\ a \in 1..a
        BY <1>1, <3>1
      <3>3. tq.name \in plan[a].drop
        <4>1. At6Down(dia, plan[a], a, a)
          BY <1>2, <3>2, Zenon
        <4> QED
          BY <3>1, <4>1, Zenon DEF At6Down, tq
      <3> QED
        BY <1>3, <3>1, <3>2, <3>3, Zenon
    <2>2. ASSUME NEW k \in 1..a, NEW x \in plan[k].drop
          PROVE  \/ \E j \in 1..(k - 1) : \E t \in plan[j].add : t \in Temps /\ t.name = x
                 \/ x = qr /\ x \in Names(d)
      <3>1. CASE dia = "sqlite" /\ k = a /\ x = tq.name
        <4>1. a - 1 \in 1..a /\ a - 1 \in 1..(a - 1)
          BY <1>1, <3>1
        <4>2. tq \in plan[a - 1].add
          BY <1>4, <3>1, <4>1, Zenon
        <4> QED
          BY <1>3, <3>1, <4>1, <4>2, Zenon
      <3>2. CASE x = qr
        BY <1>11, <3>2
      <3> QED
        BY <1>4, <2>2, <3>1, <3>2, Zenon
    <2>3. \A k \in 1..a : \A p \in plan[k].gain : p \in ModelParts /\ p \notin d.parts
      BY <1>5
    <2>4. ASSUME NEW j \in 1..a, NEW k \in 1..a, j # k
          PROVE  /\ \A t \in plan[j].add, u \in plan[k].add : t.name # u.name
                 /\ plan[j].drop \cap plan[k].drop = {}
                 /\ plan[j].gain \cap plan[k].gain = {}
                 /\ plan[j].lose \cap plan[k].lose = {}
      <3>1. \A t \in plan[j].add, u \in plan[k].add : t.name # u.name
        BY <1>4, <2>4, Zenon
      <3>2. ASSUME NEW x \in plan[j].drop, x \in plan[k].drop PROVE FALSE
        <4>1. /\ \/ j = a /\ x = tq.name
                 \/ j = 2 /\ x = qr
              /\ \/ k = a /\ x = tq.name
                 \/ k = 2 /\ x = qr
          BY <1>4, <3>2, Zenon
        <4> QED
          BY <1>3, <2>4, <4>1
      <3>3. plan[j].lose \cap plan[k].lose = {}
        BY <1>5, <2>4
      <3>4. plan[j].gain \cap plan[k].gain = {}
        BY <1>5
      <3> QED
        BY <3>1, <3>2, <3>3, <3>4
    <2>5. \A k \in 1..a : \A p \in plan[k].lose : p \in ModelParts /\ p \in d.parts
      BY <1>5, <1>6, <1>7
    <2>6. \A j, k \in 1..a :
             j # k => /\ \A t \in plan[j].add, u \in plan[k].add : t.name # u.name
                      /\ plan[j].drop \cap plan[k].drop = {}
                      /\ plan[j].gain \cap plan[k].gain = {}
                      /\ plan[j].lose \cap plan[k].lose = {}
      BY <2>4, Zenon
    <2>7. \A k \in 1..a : \A t \in plan[k].add :
             t \in Temps /\ \E j \in (k + 1)..a : t.name \in plan[j].drop
      BY <2>1, Zenon
    <2>8. \A k \in 1..a : \A x \in plan[k].drop :
             \/ \E j \in 1..(k - 1) : \E t \in plan[j].add : t \in Temps /\ t.name = x
             \/ x = qr /\ x \in Names(d)
      BY <2>2, Zenon
    <2> QED
      BY <1>2, <2>3, <2>5, <2>6, <2>7, <2>8 DEF BatchPlan, qr
  <1>9. Consistent(plan) /\ Feasible(d, plan, 0)
    BY <1>1, <1>6, <1>8, BatchFeasible, Zenon
  <1>10. LeadsTo(d, plan, 0, LowT(5, dia), HighT(5), LowP(5, dia), HighP(5))
    <2> DEFINE T == Range(Baseline)
               P == BaselineParts \cup DecisionParts \cup CandidateParts
    <2>1. LowT(5, dia) = T /\ HighT(5) = T /\ LowP(5, dia) = P /\ HighP(5) = P
      <3>1. 5 \in 4..6 /\ 5 # 6
        OBVIOUS
      <3> QED
        BY <3>1, FullAt
    <2>2. P \subseteq ModelParts
      BY <1>7
    <2>3. \A t \in d.tables : t \in T \/ \E k \in 1..a : t.name \in plan[k].drop
      <3>1. 2 \in 1..a
        BY <1>1
      <3>2. qr \in plan[2].drop
        BY <1>4, <3>1, Zenon
      <3> QED
        BY <1>3, <1>6, <3>1, <3>2
    <2>4. \A k \in 1..a : \A t \in plan[k].add : t \in Temps \/ t \in T
      BY <1>3, <1>4, Zenon
    <2>5. \A t \in T : /\ t \in d.tables \/ \E k \in 1..a : t \in plan[k].add
                       /\ \A k \in 1..a : t.name \notin plan[k].drop
      <3>1. \A t \in T : t.name \in Created
        BY RangeKnown
      <3>2. \A t \in T : t \in d.tables
        BY <1>6
      <3> QED
        BY <1>3, <1>4, <3>1, <3>2, Zenon
    <2>6. \A p \in d.parts : p \in P \/ \E k \in 1..a : p \in plan[k].lose
      <3>1. a \in 1..a
        BY <1>1
      <3>2. RecordParts \subseteq plan[a].lose
        BY <1>5, <3>1, Zenon
      <3> QED
        BY <1>6, <1>7, <3>1, <3>2
    <2>7. \A k \in 1..a : plan[k].gain \subseteq P
      BY <1>5
    <2>8. \A p \in P : /\ p \in d.parts \/ \E k \in 1..a : p \in plan[k].gain
                       /\ \A k \in 1..a : p \notin plan[k].lose
      BY <1>5, <1>6, <1>7
    <2> HIDE DEF T, P
    <2>9. LeadsTo(d, plan, 0, T, T, P, P)
      BY <1>1, <1>6, <1>8, <2>2, <2>3, <2>4, <2>5, <2>6, <2>7, <2>8, BatchLeads, Zenon
    <2> QED
      BY <2>1, <2>9, Zenon
  <1> QED
    BY <1>9, <1>10, Zenon DEF Start

-----------------------------------------------------------------------------
(* Every migration can be run from the version before it to its own.       *)

\* On SQLite 0002 to 0004 find everything the baseline created.
Quiet(plan) == Len(plan) \in Nat /\ \A k \in 1..Len(plan) : plan[k] = Nothing

LEMMA QuietEmpty == Quiet(<<>>)
  BY DEF Quiet

LEMMA QuietConcat ==
  ASSUME NEW S, NEW p \in Seq(S), NEW q \in Seq(S), Quiet(p), Quiet(q)
  PROVE  Quiet(p \o q)
  <1>1. /\ p \o q \in Seq(S) /\ Len(p \o q) = Len(p) + Len(q)
        /\ \A i \in 1..Len(p) : (p \o q)[i] = p[i]
        /\ \A i \in 1..Len(q) : (p \o q)[Len(p) + i] = q[i]
    BY ConcatIs
  <1>2. Len(p) \in Nat /\ Len(q) \in Nat /\ Len(p \o q) \in Nat
    BY <1>1
  <1>3. ASSUME NEW k \in 1..Len(p \o q) PROVE (p \o q)[k] = Nothing
    <2>1. k \in 1..Len(p) \/ (k - Len(p) \in 1..Len(q) /\ Len(p) + (k - Len(p)) = k)
      BY <1>1, <1>2, <1>3
    <2>2. CASE k \in 1..Len(p)
      BY <1>1, <2>2, Zenon DEF Quiet
    <2>3. CASE k - Len(p) \in 1..Len(q) /\ Len(p) + (k - Len(p)) = k
      <3>1. (p \o q)[Len(p) + (k - Len(p))] = q[k - Len(p)] /\ q[k - Len(p)] = Nothing
        BY <1>1, <2>3, Zenon DEF Quiet
      <3> QED
        BY <2>3, <3>1, Zenon
    <2> QED
      BY <2>1, <2>2, <2>3, Zenon
  <1> QED
    BY <1>2, <1>3, Zenon DEF Quiet

LEMMA SqliteSchema ==
  ASSUME NEW v \in 1..4, NEW d
  PROVE  /\ SchemaAt(v, "sqlite", d) <=> d.tables = Range(Baseline) /\ d.parts = BaselineParts
  <1>1. MissingNames(v, "sqlite") = {} /\ MissingParts(v, "sqlite") = {}
    BY DEF MissingNames, MissingParts
  <1>2. HighT(v) = Range(Baseline) /\ HighP(v) = BaselineParts
    BY DEF HighT, HighP
  <1>3. LowT(v, "sqlite") = Range(Baseline) /\ LowP(v, "sqlite") = BaselineParts
    BY <1>1, <1>2 DEF LowT, LowP
  <1> QED
    BY <1>2, <1>3 DEF SchemaAt

LEMMA SqliteQuiet ==
  ASSUME dialect = "sqlite", dialect \in Dialects,
         db.tables = Range(Baseline), db.parts = BaselineParts
  PROVE  Quiet(AddRunMetadata) /\ Quiet(AddProcessing) /\ Quiet(AddOperations)
  <1>1. ASSUME NEW x \in Created PROVE x \in Names(db)
    <2>1. PICK i \in DOMAIN Baseline : x = Baseline[i].name
      BY DEF Created
    <2> QED
      BY <2>1 DEF Names, Range
  <1>2. /\ RunColumns \in Seq(BaselineParts) /\ OutcomeColumns \in Seq(BaselineParts)
        /\ Len(RunColumns) = 4 /\ Len(OutcomeColumns) = 5 /\ ContentKey \in BaselineParts
    BY PartsAre, Zenon DEF PartFacts
  <1>3. ASSUME NEW n \in 1..4, NEW parts \in Seq(BaselineParts)
        PROVE  Quiet(AddMissing(parts)) /\ AddMissing(parts) \in Seq(PlanType("sqlite", TRUE, n))
    <2>1. /\ AddMissing(parts) \in Seq(PlanType("sqlite", TRUE, n))
          /\ Len(AddMissing(parts)) = Len(parts)
          /\ \A i \in 1..Len(parts) : parts[i] \in BaselineParts
                /\ AddMissing(parts)[i] = IF parts[i] \in db.parts THEN Nothing ELSE Add({parts[i]})
      BY AddMissingTyped, Zenon
    <2>2. Len(parts) \in Nat
      BY LenProperties
    <2> QED
      BY <2>1, <2>2, Zenon DEF Quiet
  <1>4. ASSUME NEW n \in 1..4, NEW names \in {NewTables3, NewTables4}
        PROVE  Quiet(CreateMissing(names)) /\ CreateMissing(names) \in Seq(PlanType("sqlite", TRUE, n))
    <2>1. /\ CreateMissing(names) \in Seq(PlanType("sqlite", TRUE, n))
          /\ Len(CreateMissing(names)) = 5
          /\ \A i \in 1..5 : names[i] \in Created
                /\ CreateMissing(names)[i] = IF names[i] \in Names(db) THEN Nothing
                                             ELSE CreateTable(ModelNamed(names[i]), {})
      BY CreateMissingTyped, Zenon
    <2>2. 5 \in Nat
      OBVIOUS
    <2> QED
      BY <1>1, <2>1, <2>2, Zenon DEF Quiet
  <1>5. 2 \in 1..4 /\ 3 \in 1..4 /\ 4 \in 1..4
    OBVIOUS
  <1>6. Quiet(AddRunMetadata)
    <2> DEFINE p == AddMissing(RunColumns)
    <2>1. Quiet(p) /\ p \in Seq(PlanType("sqlite", TRUE, 2))
      BY <1>2, <1>3, <1>5, Zenon
    <2>2. <<>> \in Seq(PlanType("sqlite", TRUE, 2))
      BY NoPlan
    <2>3. Quiet(p \o <<>>)
      BY <2>1, <2>2, QuietEmpty, QuietConcat, Zenon
    <2>4. AddRunMetadata = p \o <<>>
      <3>1. dialect # "postgresql" /\ ContentKey \in db.parts
        BY <1>2
      <3> QED
        BY <3>1 DEF AddRunMetadata
    <2> QED
      BY <2>3, <2>4
  <1>7. Quiet(AddProcessing)
    <2> DEFINE p == CreateMissing(NewTables3)
               q == AddMissing(OutcomeColumns)
    <2>1. Quiet(p) /\ p \in Seq(PlanType("sqlite", TRUE, 3))
      BY <1>4, <1>5, Zenon
    <2>2. Quiet(q) /\ q \in Seq(PlanType("sqlite", TRUE, 3))
      BY <1>2, <1>3, <1>5, Zenon
    <2>3. Quiet(p \o q)
      BY <2>1, <2>2, QuietConcat, Zenon
    <2>4. AddProcessing = p \o q
      BY Zenon DEF AddProcessing
    <2> QED
      BY <2>3, <2>4
  <1>8. Quiet(AddOperations)
    BY <1>4, <1>5, Zenon DEF AddOperations
  <1> QED
    BY <1>6, <1>7, <1>8

LEMMA PlanStart ==
  ASSUME dialect \in Dialects, Held(db), db.tables \subseteq Known, NEW n \in 1..Head6
  PROVE  /\ SchemaAt(n - 1, dialect, db) => Start(db, Upgrade(n), n, dialect)
         /\ SchemaAt(n, dialect, db) => Start(db, Downgrade(n), n - 1, dialect)
  <1>1. dialect = "sqlite" \/ dialect = "postgresql"
    BY IdsAssumption
  <1>2. n = 1 \/ n = 2 \/ n = 3 \/ n = 4 \/ n = 5 \/ n = 6
    BY DEF Head6
  <1>3. CASE n = 1
    <2>1. Upgrade(n) = CreateBaseline /\ Downgrade(n) = DropBaseline /\ n - 1 = 0
      BY <1>3 DEF Upgrade, Downgrade
    <2>2. SchemaAt(0, dialect, db) => Start(db, CreateBaseline, 1, dialect)
      <3>1. SchemaAt(0, dialect, db) => db.tables = {} /\ db.parts = {}
        BY DEF SchemaAt, HighT, HighP
      <3> QED
        BY <3>1, StartBaseline, Zenon
    <2>3. SchemaAt(1, dialect, db) => Start(db, DropBaseline, 0, dialect)
      <3>1. SchemaAt(1, dialect, db) => "quarantine_resolutions" \notin Names(db)
        <4>1. SchemaAt(1, dialect, db) => db.tables \subseteq Range(Baseline)
          BY DEF SchemaAt, HighT
        <4>2. \A t \in Range(Baseline) : t.name # "quarantine_resolutions"
          BY ResolutionsIs, Zenon
        <4> QED
          BY <4>1, <4>2 DEF Names
      <3> QED
        BY <3>1, StartBase, Zenon
    <2> QED
      BY <1>3, <2>1, <2>2, <2>3, Zenon
  <1>4. CASE n = 5
    <2>1. Upgrade(n) = AddReviewRevisions /\ Downgrade(n) = DropReviewRevisions /\ n - 1 = 4
      BY <1>4 DEF Upgrade, Downgrade
    <2>2. Plan5Up(dialect, AddReviewRevisions) /\ Plan5Down(dialect, DropReviewRevisions)
      BY ReviewPlansTyped DEF Planned
    <2> QED
      BY <1>4, <2>1, <2>2, StartReview, StartUnreview, Zenon
  <1>5. CASE n = 6
    <2>1. Upgrade(n) = AddResolutions /\ Downgrade(n) = DropResolutions /\ n - 1 = 5
      BY <1>5 DEF Upgrade, Downgrade
    <2>2. Plan6Up(dialect, AddResolutions) /\ Plan6Down(dialect, DropResolutions)
      BY ResolutionPlansTyped DEF Planned
    <2> QED
      BY <1>5, <2>1, <2>2, StartResolutions, StartUnresolved, Zenon
  <1>6. CASE n \in 2..4 /\ dialect = "postgresql"
    <2>1. dialect # "sqlite"
      BY <1>6
    <2>2. CASE n = 2
      <3>1. Upgrade(n) = AddMissing(RunParts) /\ Downgrade(n) = DropEach(Reverse(RunParts)) /\ n - 1 = 1
        BY <1>6, <2>1, <2>2 DEF Upgrade, Downgrade, AddRunMetadata, DropRunMetadata
      <3> QED
        BY <1>6, <2>2, <3>1, StartRuns, StartUnrun, Zenon
    <2>3. CASE n = 3
      <3>1. /\ Upgrade(n) = CreateMissing(NewTables3) \o AddMissing(OutcomeParts)
            /\ Downgrade(n) = DropEach(Reverse(OutcomeParts)) \o DropTables(Reverse(NewTables3))
            /\ n - 1 = 2
        BY <1>6, <2>1, <2>3 DEF Upgrade, Downgrade, AddProcessing, DropProcessing
      <3> QED
        BY <1>6, <2>3, <3>1, StartProcessing, StartUnprocessed, Zenon
    <2>4. CASE n = 4
      <3>1. /\ Upgrade(n) = CreateMissing(NewTables4)
            /\ Downgrade(n) = DropTables(Reverse(NewTables4)) /\ n - 1 = 3
        BY <1>6, <2>1, <2>4 DEF Upgrade, Downgrade, AddOperations, DropOperations
      <3> QED
        BY <1>6, <2>4, <3>1, StartOperations, StartUnoperated, Zenon
    <2> QED
      BY <1>6, <2>2, <2>3, <2>4
  <1>7. CASE n \in 2..4 /\ dialect = "sqlite"
    <2>1. n - 1 \in 1..4 /\ n \in 1..4
      BY <1>7
    <2>2. SchemaAt(n - 1, "sqlite", db) <=> SchemaAt(n, "sqlite", db)
      BY <2>1, SqliteSchema, Zenon
    <2>3. ASSUME SchemaAt(n, "sqlite", db) PROVE Quiet(Upgrade(n)) /\ Quiet(Downgrade(n))
      <3>1. db.tables = Range(Baseline) /\ db.parts = BaselineParts
        BY <2>1, <2>3, SqliteSchema, Zenon
      <3>2. Quiet(AddRunMetadata) /\ Quiet(AddProcessing) /\ Quiet(AddOperations)
        BY <1>7, <3>1, SqliteQuiet, Zenon
      <3>3. Downgrade(n) = <<>> /\ Upgrade(n) \in {AddRunMetadata, AddProcessing, AddOperations}
        BY <1>7 DEF Upgrade, Downgrade, DropRunMetadata, DropProcessing, DropOperations
      <3> QED
        BY <3>2, <3>3, QuietEmpty
    <2>4. \A plan, w : Quiet(plan) /\ SchemaAt(w, "sqlite", db) => Start(db, plan, w, "sqlite")
      BY QuietStart, Zenon DEF Quiet
    <2> QED
      BY <1>7, <2>2, <2>3, <2>4, Zenon
  <1>8. n \in 2..4 \/ n = 1 \/ n = 5 \/ n = 6
    BY <1>2
  <1> QED
    BY <1>1, <1>3, <1>4, <1>5, <1>6, <1>7, <1>8, Zenon

-----------------------------------------------------------------------------
(* The other steps, and all of them together.                              *)

Paused == /\ job.pc # "running" /\ job'.pc # "running" /\ ~job'.began /\ ~job'.open
          /\ (job'.pc = "idle" => job.pc = "idle")
          /\ UNCHANGED <<dialect, db, saved, torn>>

Finished == /\ job.pc = "between" /\ job.target = db.version /\ job'.pc = "idle"
            /\ ~job'.began /\ ~job'.open
            /\ saved' = db /\ db' = db /\ dialect' = dialect
            /\ torn' = (IF db.tables = {} THEN {} ELSE torn)

Abandoned == /\ job.pc # "idle" /\ job'.pc = "idle" /\ ~job'.began /\ ~job'.open
             /\ db' = saved /\ saved' = saved /\ dialect' = dialect
             /\ torn' = (IF job.began THEN torn \cup {Current} ELSE torn)

SameSchema(d, e) == /\ e.version = d.version /\ e.tables = d.tables /\ e.parts = d.parts
                    /\ Names(e) = Names(d)

Served == /\ job.pc = "idle" /\ job' = job /\ torn = {} /\ db.version > 0
          /\ SameSchema(db, db') /\ saved' = db' /\ UNCHANGED <<dialect, torn>>
          /\ \/ \E id \in Ids, at \in Times : Decide(id, at)
             \/ \E note \in {"blank", "text"} : Resolve(note)

Rested == UNCHANGED migrationVars

LEMMA ServedIs ==
  ASSUME MigrationTypeOK,
         \/ \E id \in Ids, at \in Times : Decide(id, at)
         \/ \E note \in {"blank", "text"} : Resolve(note)
  PROVE  Served
  <1>1. ASSUME NEW id \in Ids, NEW at \in Times, Decide(id, at) PROVE Served
    <2>1. /\ db'.tables = db.tables /\ db'.parts = db.parts /\ db'.version = db.version
      BY <1>1 DEF Decide, MigrationTypeOK, WellTyped, DbType
    <2>2. /\ saved' = db' /\ job' = job /\ job.pc = "idle" /\ UNCHANGED <<dialect, torn>>
          /\ torn = {} /\ db.version > 0
      BY <1>1 DEF Decide, InUse
    <2> QED
      BY <1>1, <2>1, <2>2 DEF Served, SameSchema, Names
  <1>2. ASSUME NEW note \in {"blank", "text"}, Resolve(note) PROVE Served
    <2>1. /\ db'.tables = db.tables /\ db'.parts = db.parts /\ db'.version = db.version
      BY <1>2 DEF Resolve, MigrationTypeOK, WellTyped, DbType
    <2>2. /\ saved' = db' /\ job' = job /\ job.pc = "idle" /\ UNCHANGED <<dialect, torn>>
          /\ torn = {} /\ db.version > 0
      BY <1>2 DEF Resolve, InUse
    <2> QED
      BY <1>2, <2>1, <2>2 DEF Served, SameSchema, Names
  <1> QED
    BY <1>1, <1>2

Step == \/ Paused
        \/ NextMigration /\ Begun
        \/ Running /\ Ran
        \/ Stamped
        \/ Finished
        \/ Abandoned
        \/ Served
        \/ Rested

LEMMA Steps == MigrationTypeOK /\ [MigrationNext]_migrationVars => Step
  <1> SUFFICES ASSUME MigrationTypeOK, [MigrationNext]_migrationVars PROVE Step
    OBVIOUS
  <1>1. ASSUME NEW target \in 0..Head6, BeginCommand(target) PROVE Paused
    BY <1>1 DEF BeginCommand, NoJob, Paused
  <1>2. ASSUME NextMigration PROVE Begun
    BY <1>2, PlanBegun
  <1>3. ASSUME RunStatement PROVE Running /\ Ran
    BY <1>3, RunIs
  <1>4. ASSUME Stamp PROVE Stamped
    BY <1>4, StampIs
  <1>5. ASSUME FinishCommand PROVE Finished
    BY <1>5 DEF FinishCommand, NoJob, Finished
  <1>6. ASSUME Abandon, job.pc # "idle" PROVE Abandoned
    BY <1>6 DEF Abandon, NoJob, Abandoned
  <1>7. ASSUME StatementFails PROVE Abandoned
    BY <1>6, <1>7 DEF StatementFails
  <1>8. ASSUME Crash PROVE Abandoned
    BY <1>6, <1>8 DEF Crash
  <1> QED
    BY <1>1, <1>2, <1>3, <1>4, <1>5, <1>7, <1>8, ServedIs, Zenon DEF MigrationNext, Step, Rested

-----------------------------------------------------------------------------
(* While nothing was interrupted the schema is the one of the version.     *)

TargetVersion == IF Up THEN Current ELSE Current - 1

Ready ==
    /\ Consistent(job.plan) /\ Feasible(db, job.plan, job.done)
    /\ LeadsTo(db, job.plan, job.done, LowT(TargetVersion, dialect), HighT(TargetVersion),
               LowP(TargetVersion, dialect), HighP(TargetVersion))

SchemaInv ==
    torn = {} =>
        /\ job.pc # "running" => SchemaAt(db.version, dialect, db)
        /\ job.pc = "running" => Ready
        /\ ~job.began => SchemaAt(saved.version, dialect, saved)

LEMMA SchemaSame ==
  ASSUME NEW v, NEW dia, NEW d, NEW e, e.tables = d.tables, e.parts = d.parts, SchemaAt(v, dia, d)
  PROVE  SchemaAt(v, dia, e)
  BY DEF SchemaAt

LEMMA BeginReady ==
  ASSUME MigrationTypeOK, TablesInv, SchemaAt(db.version, dialect, db), Begun
  PROVE  Ready'
  <1>1. Held(db) /\ db.tables \subseteq Known /\ dialect \in Dialects
    BY DEF TablesInv, MigrationTypeOK, WellTyped, DbType
  <1>2. Current \in 1..Head6 /\ Current = IF Up THEN db.version + 1 ELSE db.version
    BY DEF Begun
  <1>3. /\ SchemaAt(Current - 1, dialect, db) => Start(db, Upgrade(Current), Current, dialect)
        /\ SchemaAt(Current, dialect, db) => Start(db, Downgrade(Current), Current - 1, dialect)
    BY <1>1, <1>2, PlanStart, Zenon
  <1>4. Up => Current - 1 = db.version
    BY <1>2 DEF MigrationTypeOK, WellTyped, DbType
  <1>5. Start(db, job'.plan, TargetVersion, dialect)
    <2>1. CASE Up
      <3>1. SchemaAt(Current - 1, dialect, db)
        BY <1>4, <2>1, Zenon
      <3>2. job'.plan = Upgrade(Current)
        BY <2>1 DEF Begun
      <3> QED
        BY <1>3, <2>1, <3>1, <3>2 DEF TargetVersion
    <2>2. CASE ~Up
      <3>1. SchemaAt(Current, dialect, db)
        BY <1>2, <2>2, Zenon
      <3>2. job'.plan = Downgrade(Current)
        BY <2>2 DEF Begun
      <3> QED
        BY <1>3, <2>2, <3>1, <3>2 DEF TargetVersion
    <2> QED
      BY <2>1, <2>2
  <1>6. TargetVersion' = TargetVersion /\ job'.done = 0 /\ db' = db /\ dialect' = dialect
    BY DEF Begun, TargetVersion
  <1> QED
    BY <1>5, <1>6 DEF Start, Ready

LEMMA RunReady ==
  ASSUME Ready, Running, Ran
  PROVE  Ready'
  <1>1. /\ job.done \in Nat /\ job.done + 1 \in 1..Len(job.plan) /\ Len(job.plan) \in Nat
        /\ EffectFacts(db, job.plan[job.done + 1], db')
        /\ job'.plan = job.plan /\ job'.done = job.done + 1
        /\ TargetVersion' = TargetVersion /\ dialect' = dialect
    BY DEF Running, Ran, TargetVersion
  <1>2. Feasible(db', job.plan, job.done + 1)
    BY <1>1, FeasibleStep, Zenon DEF Ready
  <1>3. LeadsTo(db', job.plan, job.done + 1, LowT(TargetVersion, dialect), HighT(TargetVersion),
                LowP(TargetVersion, dialect), HighP(TargetVersion))
    BY <1>1, LeadsToStep, Zenon DEF Ready
  <1> QED
    BY <1>1, <1>2, <1>3 DEF Ready

LEMMA ReadyEnd ==
  ASSUME Ready, Stamped
  PROVE  SchemaAt(db'.version, dialect, db')
  <1>1. db'.version = TargetVersion /\ db'.tables = db.tables /\ db'.parts = db.parts
        /\ job.done = Len(job.plan)
    BY DEF Stamped, TargetVersion
  <1>2. /\ LowT(TargetVersion, dialect) \subseteq db.tables /\ db.tables \subseteq HighT(TargetVersion)
        /\ LowP(TargetVersion, dialect) \subseteq db.parts /\ db.parts \subseteq HighP(TargetVersion)
    BY <1>1, LeadsToEnd, SMTT(60) DEF Ready
  <1> QED
    BY <1>1, <1>2 DEF SchemaAt

LEMMA SchemaStep ==
  MigrationTypeOK /\ SavedInv /\ TablesInv /\ SchemaInv /\ [MigrationNext]_migrationVars => SchemaInv'
  <1> SUFFICES ASSUME MigrationTypeOK, SavedInv, TablesInv, SchemaInv, Step, torn' = {}
               PROVE  /\ job'.pc # "running" => SchemaAt(db'.version, dialect', db')
                      /\ job'.pc = "running" => Ready'
                      /\ ~job'.began => SchemaAt(saved'.version, dialect', saved')
    BY Steps DEF SchemaInv
  <1>1. job.pc # "running" => ~job.began /\ ~job.open
    BY DEF MigrationTypeOK, JobInv, Stopped
  <1>2. CASE Paused
    BY <1>1, <1>2 DEF Paused, SchemaInv
  <1>3. CASE Begun
    <2>1. torn = {} /\ job.pc = "between" /\ SchemaAt(db.version, dialect, db)
      BY <1>3 DEF Begun, SchemaInv
    <2>2. Ready'
      BY <1>3, <2>1, BeginReady
    <2> QED
      BY <1>3, <2>1, <2>2 DEF Begun, SchemaInv
  <1>4. CASE Running /\ Ran
    <2>1. torn = {} /\ Ready
      BY <1>4 DEF Running, Ran, SchemaInv
    <2>2. Ready'
      BY <1>4, <2>1, RunReady
    <2>3. ~job'.began => ~job.began /\ saved' = saved /\ dialect' = dialect
      BY <1>4 DEF Ran
    <2>4. job'.pc = "running"
      BY <1>4 DEF Ran
    <2> QED
      BY <2>1, <2>2, <2>3, <2>4 DEF SchemaInv
  <1>5. CASE Stamped
    <2>1. torn = {} /\ Ready
      BY <1>5 DEF Stamped, SchemaInv
    <2>2. SchemaAt(db'.version, dialect, db')
      BY <1>5, <2>1, ReadyEnd
    <2>3. dialect # "sqlite" => ~job.began
      BY DEF SavedInv
    <2> QED
      BY <1>5, <2>1, <2>2, <2>3 DEF Stamped, SchemaInv
  <1>6. CASE Finished
    <2>1. CASE torn = {}
      BY <1>1, <1>6, <2>1 DEF Finished, SchemaInv
    <2>2. CASE torn # {}
      <3>1. db.tables = {} /\ db.version = 0
        BY <1>6, <2>2 DEF Finished, TablesInv, MigrationTypeOK, WellTyped, DbType
      <3>2. db.parts = {}
        BY <3>1 DEF TablesInv, Held, Names
      <3>3. SchemaAt(0, dialect, db)
        BY <3>1, <3>2 DEF SchemaAt, LowT, HighT, LowP, HighP
      <3> QED
        BY <1>6, <3>1, <3>3 DEF Finished
    <2> QED
      BY <2>1, <2>2
  <1>7. CASE Abandoned
    <2>1. torn = {} /\ ~job.began
      BY <1>7 DEF Abandoned
    <2> QED
      BY <1>7, <2>1 DEF Abandoned, SchemaInv
  <1>8. CASE Served
    <2>1. SchemaAt(db.version, dialect, db) /\ job.pc = "idle"
      BY <1>8 DEF Served, SchemaInv
    <2>2. SchemaAt(db'.version, dialect, db')
      BY <1>8, <2>1, SchemaSame, Zenon DEF Served, SameSchema
    <2> QED
      BY <1>8, <2>1, <2>2 DEF Served
  <1>9. CASE Rested
    BY <1>9 DEF Rested, migrationVars, SchemaInv, Ready, TargetVersion, Up, Current
  <1> QED
    BY <1>2, <1>3, <1>4, <1>5, <1>6, <1>7, <1>8, <1>9 DEF Step

-----------------------------------------------------------------------------
(* The table of the resolutions is there only at 0006, and references hold. *)

Resolution == "quarantine_resolutions"

EarlyInv ==
    /\ saved.version <= 5 => Resolution \notin Names(saved)
    /\ job.pc # "running" /\ db.version <= 5 => Resolution \notin Names(db)
    /\ job.pc = "running" /\ Current # 6 => Resolution \notin Names(db)
    /\ job.pc = "running" /\ Current = 6 /\ Up =>
           /\ job.done <= End6(dialect, TRUE) => Resolution \notin Names(db)
           /\ dialect = "sqlite" /\ job.done >= End6(dialect, TRUE) => job.open
    /\ job.pc = "running" /\ Current = 6 /\ ~Up /\ job.done >= 2 => Resolution \notin Names(db)

LEMMA StepNames ==
  ASSUME NEW d, NEW s, NEW e, EffectFacts(d, s, e), NEW x, x \in Names(e)
  PROVE  (x \in Names(d) /\ x \notin s.drop) \/ \E t \in s.add : t.name = x
  BY StepSchema

\* The statement of 0006 that is to be run.
LEMMA Statement6 ==
  ASSUME Running, Current = 6
  PROVE  IF Up THEN /\ At6Up(dialect, Statement, job.done + 1, End6(dialect, TRUE))
                    /\ Len(job.plan) = End6(dialect, TRUE) + 3
               ELSE /\ At6Down(dialect, Statement, job.done + 1, End6(dialect, FALSE))
                    /\ Len(job.plan) = End6(dialect, FALSE)
  <1>1. /\ Planned(dialect, Up, Current, job.plan) /\ Statement = job.plan[job.done + 1]
        /\ job.done + 1 \in 1..Len(job.plan)
    BY DEF Running
  <1>2. CASE Up
    <2>1. Plan6Up(dialect, job.plan)
      BY <1>1, <1>2 DEF Planned
    <2>2. /\ Len(job.plan) = End6(dialect, TRUE) + 3
          /\ Where6Up(dialect, job.plan, End6(dialect, TRUE))
      BY <2>1, Fields6Up, Zenon
    <2>3. At6Up(dialect, job.plan[job.done + 1], job.done + 1, End6(dialect, TRUE))
      BY <1>1, <2>2, Zenon DEF Where6Up
    <2> QED
      BY <1>1, <1>2, <2>2, <2>3, Zenon
  <1>3. CASE ~Up
    <2>1. Plan6Down(dialect, job.plan)
      BY <1>1, <1>3 DEF Planned
    <2>2. /\ Len(job.plan) = End6(dialect, FALSE)
          /\ Where6Down(dialect, job.plan, End6(dialect, FALSE))
      BY <2>1, Fields6Down, Zenon
    <2>3. At6Down(dialect, job.plan[job.done + 1], job.done + 1, End6(dialect, FALSE))
      BY <1>1, <2>2, Zenon DEF Where6Down
    <2> QED
      BY <1>1, <1>3, <2>2, <2>3, Zenon
  <1> QED
    BY <1>2, <1>3

LEMMA RunEarly ==
  ASSUME MigrationTypeOK, SavedInv, EarlyInv, Running, Ran
  PROVE  EarlyInv'
  <1>1. /\ job.pc = "running" /\ job'.pc = "running" /\ job.done \in Nat /\ job'.done = job.done + 1
        /\ Up' = Up /\ Current' = Current /\ dialect' = dialect
        /\ EffectFacts(db, Statement, db') /\ Shape(dialect, Up, Current, Statement)
        /\ saved' = (IF dialect = "sqlite" /\ ~job'.open THEN db' ELSE saved)
        /\ (job.open => job'.open)
        /\ (Statement.rows \notin {"unchanged", "keep_history"} => job'.open)
    BY DEF Running, Ran
  <1>2. db'.version = db.version
    BY <1>1 DEF EffectFacts
  <1>3. \A x \in Names(db') : (x \in Names(db) /\ x \notin Statement.drop)
                              \/ \E t \in Statement.add : t.name = x
    BY <1>1, StepNames
  <1>4. /\ Current \in 1..Head6 /\ Up \in BOOLEAN /\ db.version \in 0..Head6
        /\ IF Up THEN Current = db.version + 1 ELSE Current = db.version
    <2>1. job.target # db.version /\ db.version \in 0..Head6
      BY <1>1 DEF MigrationTypeOK, JobInv, WellTyped, DbType
    <2> QED
      BY <2>1, CurrentIs
  <1>5. TempOf("quarantine_records").name # Resolution /\ ResolutionTable.name = Resolution
    BY TempsAre, ResolutionsIs DEF Resolution
  <1>6. End6(dialect, TRUE) \in {1, 2} /\ End6(dialect, FALSE) \in {3, 4}
    BY DEF End6
  <1>7. CASE Current # 6
    <2>1. Resolution \notin Names(db)
      BY <1>1, <1>7 DEF EarlyInv
    <2>2. \A t \in Statement.add : t.name # Resolution
      BY <1>1, <1>7 DEF Shape, Resolution
    <2>3. Resolution \notin Names(db')
      BY <1>3, <2>1, <2>2, Zenon
    <2>4. saved'.version <= 5 => Resolution \notin Names(saved')
      BY <1>1, <2>3 DEF EarlyInv
    <2> QED
      BY <1>1, <1>7, <2>3, <2>4 DEF EarlyInv
  <1>8. CASE Current = 6 /\ Up
    <2> DEFINE a == End6(dialect, TRUE)
               k == job.done + 1
    <2>1. At6Up(dialect, Statement, k, a)
      BY <1>8, Statement6
    <2>2. \A t \in Statement.add : k = a + 1 \/ t.name # Resolution
      BY <1>5, <2>1, Zenon DEF At6Up
    <2>3. dialect = "sqlite" /\ k = a => Statement.rows = "copied"
      BY <2>1, Zenon DEF At6Up
    <2> HIDE DEF a
    <2>4. a \in Nat
      BY DEF a, End6
    <2>5. k <= a => Resolution \notin Names(db')
      <3>1. k <= a => job.done <= a /\ k # a + 1
        BY <1>1, <2>4
      <3>2. k <= a => Resolution \notin Names(db)
        BY <1>1, <1>8, <3>1 DEF EarlyInv, a
      <3> QED
        BY <1>3, <2>2, <3>1, <3>2, Zenon
    <2>6. dialect = "sqlite" /\ k >= a => job'.open
      <3>1. CASE k = a
        BY <1>1, <2>3, <3>1
      <3>2. CASE job.done >= a
        BY <1>1, <1>8, <3>2 DEF EarlyInv, a
      <3> QED
        BY <1>1, <2>4, <3>1, <3>2
    <2>7. saved'.version <= 5 => Resolution \notin Names(saved')
      <3>1. CASE dialect = "sqlite" /\ ~job'.open
        <4>1. k <= a
          BY <1>1, <2>4, <2>6, <3>1
        <4> QED
          BY <1>1, <2>5, <3>1, <4>1
      <3>2. CASE ~(dialect = "sqlite" /\ ~job'.open)
        BY <1>1, <3>2 DEF EarlyInv
      <3> QED
        BY <3>1, <3>2
    <2> QED
      BY <1>1, <1>8, <2>5, <2>6, <2>7 DEF EarlyInv, a
  <1>9. CASE Current = 6 /\ ~Up
    <2> DEFINE k == job.done + 1
    <2>1. At6Down(dialect, Statement, k, End6(dialect, FALSE))
      BY <1>9, Statement6
    <2>2. /\ \A t \in Statement.add : t.name # Resolution
          /\ k = 2 => Resolution \in Statement.drop
      BY <1>5, <2>1, Zenon DEF At6Down, Resolution
    <2>3. k >= 2 => Resolution \notin Names(db')
      <3>1. CASE k = 2
        BY <1>3, <2>2, <3>1, Zenon
      <3>2. CASE job.done >= 2
        <4>1. Resolution \notin Names(db)
          BY <1>1, <1>9, <3>2 DEF EarlyInv
        <4> QED
          BY <1>3, <2>2, <4>1, Zenon
      <3> QED
        BY <1>1, <3>1, <3>2
    <2>4. saved'.version <= 5 => Resolution \notin Names(saved')
      <3>1. db'.version = 6
        BY <1>2, <1>4, <1>9
      <3> QED
        BY <1>1, <3>1 DEF EarlyInv
    <2> QED
      BY <1>1, <1>9, <2>3, <2>4 DEF EarlyInv
  <1> QED
    BY <1>7, <1>8, <1>9

LEMMA EarlyStep ==
  MigrationTypeOK /\ SavedInv /\ EarlyInv /\ [MigrationNext]_migrationVars => EarlyInv'
  <1> SUFFICES ASSUME MigrationTypeOK, SavedInv, EarlyInv, Step PROVE EarlyInv'
    BY Steps
  <1>1. job.pc # "running" => ~job.began /\ ~job.open
    BY DEF MigrationTypeOK, JobInv, Stopped
  <1>2. CASE Paused
    BY <1>2 DEF Paused, EarlyInv
  <1>3. CASE Begun
    <2>1. /\ job.pc = "between" /\ job'.done = 0 /\ Current' = Current /\ Up' = Up
          /\ db' = db /\ saved' = saved /\ dialect' = dialect /\ job'.pc = "running"
          /\ Current \in 1..Head6 /\ Current = (IF Up THEN db.version + 1 ELSE db.version)
      BY <1>3 DEF Begun
    <2>2. db.version \in 0..Head6 /\ End6(dialect, TRUE) \in {1, 2}
      BY DEF MigrationTypeOK, WellTyped, DbType, End6
    <2>3. db.version <= 5 => Resolution \notin Names(db)
      BY <2>1 DEF EarlyInv
    <2>4. Current # 6 \/ Up => db.version <= 5
      BY <2>1, <2>2 DEF Head6
    <2>5. Current = 6 /\ Up => db.version <= 5
      BY <2>4
    <2>6. saved.version <= 5 => Resolution \notin Names(saved)
      BY DEF EarlyInv
    <2>7. ~(0 >= 2) /\ ~(0 >= End6(dialect, TRUE))
      BY DEF End6
    <2> QED
      BY <2>1, <2>3, <2>4, <2>5, <2>6, <2>7 DEF EarlyInv
  <1>4. CASE Running /\ Ran
    BY <1>4, RunEarly
  <1>5. CASE Stamped
    <2>1. /\ job.pc = "running" /\ job.done = Len(job.plan) /\ Names(db') = Names(db)
          /\ db'.version = (IF Up THEN Current ELSE Current - 1)
          /\ saved' = (IF dialect = "sqlite" THEN db' ELSE saved)
          /\ job'.pc = "between" /\ Current \in 1..Head6
      BY <1>5 DEF Stamped
    <2>2. db'.version <= 5 => Resolution \notin Names(db')
      <3>1. CASE Current # 6
        BY <2>1, <3>1 DEF EarlyInv
      <3>2. CASE Current = 6 /\ Up
        BY <2>1, <3>2
      <3>3. CASE Current = 6 /\ ~Up
        <4>1. Plan6Down(dialect, job.plan)
          BY <1>5, <3>3 DEF Stamped, Planned
        <4>2. Len(job.plan) = End6(dialect, FALSE)
          BY <4>1, Fields6Down, Zenon
        <4>3. job.done >= 2
          BY <2>1, <4>2 DEF End6
        <4> QED
          BY <2>1, <3>3, <4>3 DEF EarlyInv
      <3> QED
        BY <3>1, <3>2, <3>3
    <2>3. saved'.version <= 5 => Resolution \notin Names(saved')
      BY <2>1, <2>2 DEF EarlyInv
    <2> QED
      BY <2>1, <2>2, <2>3 DEF EarlyInv
  <1>6. CASE Finished
    BY <1>6 DEF Finished, EarlyInv
  <1>7. CASE Abandoned
    BY <1>7 DEF Abandoned, EarlyInv
  <1>8. CASE Served
    BY <1>8 DEF Served, SameSchema, EarlyInv
  <1>9. CASE Rested
    BY <1>9 DEF Rested, migrationVars, EarlyInv, Up, Current
  <1> QED
    BY <1>2, <1>3, <1>4, <1>5, <1>6, <1>7, <1>8, <1>9 DEF Step

\* The way down to the base can be run to its end, whatever was interrupted.
BaseInv ==
    job.pc = "running" /\ ~Up /\ Current = 1 =>
        Consistent(job.plan) /\ Feasible(db, job.plan, job.done)

LEMMA BaseStep ==
  MigrationTypeOK /\ EarlyInv /\ BaseInv /\ [MigrationNext]_migrationVars => BaseInv'
  <1> SUFFICES ASSUME MigrationTypeOK, EarlyInv, BaseInv, Step PROVE BaseInv'
    BY Steps
  <1>1. CASE Begun
    <2> SUFFICES ASSUME ~Up', Current' = 1
                 PROVE  Consistent(job'.plan) /\ Feasible(db', job'.plan, job'.done)
      BY DEF BaseInv
    <2>1. ~Up /\ Current = 1 /\ job'.plan = DropBaseline /\ job'.done = 0 /\ db' = db
          /\ db.version = 1 /\ job.pc = "between"
      BY <1>1 DEF Begun, Downgrade
    <2>2. db.tables \subseteq Known /\ "quarantine_resolutions" \notin Names(db)
      BY <2>1 DEF MigrationTypeOK, WellTyped, DbType, EarlyInv, Resolution
    <2> QED
      BY <2>1, <2>2, StartBase, Zenon
  <1>2. CASE Running /\ Ran
    <2> SUFFICES ASSUME ~Up', Current' = 1
                 PROVE  Consistent(job'.plan) /\ Feasible(db', job'.plan, job'.done)
      BY DEF BaseInv
    <2>1. /\ job.done \in Nat /\ job.done + 1 \in 1..Len(job.plan) /\ Len(job.plan) \in Nat
          /\ EffectFacts(db, job.plan[job.done + 1], db')
          /\ job'.plan = job.plan /\ job'.done = job.done + 1
          /\ job.pc = "running" /\ ~Up /\ Current = 1
      BY <1>2 DEF Running, Ran
    <2>2. Consistent(job.plan) /\ Feasible(db, job.plan, job.done)
      BY <2>1 DEF BaseInv
    <2>3. Feasible(db', job.plan, job.done + 1)
      BY <2>1, <2>2, FeasibleStep, Zenon
    <2> QED
      BY <2>1, <2>2, <2>3
  <1>3. CASE Paused \/ Stamped \/ Finished \/ Abandoned
    BY <1>3 DEF Paused, Stamped, Finished, Abandoned, BaseInv
  <1>4. CASE Served
    BY <1>4 DEF Served, BaseInv
  <1>5. CASE Rested
    BY <1>5 DEF Rested, migrationVars, BaseInv, Up, Current
  <1> QED
    BY <1>1, <1>2, <1>3, <1>4, <1>5 DEF Step

RefsAt(d) == \A t \in d.tables : t.refs \subseteq Names(d)

RefsInv == RefsAt(db) /\ RefsAt(saved)

LEMMA RunRefs ==
  ASSUME MigrationTypeOK, BaseInv, RefsInv, Running, Ran
  PROVE  RefsAt(db')
  <1>1. /\ EffectFacts(db, Statement, db') /\ Accepted(db, Statement)
        /\ Shape(dialect, Up, Current, Statement) /\ Statement \in StatementType
        /\ job.done \in Nat /\ job.done + 1 \in 1..Len(job.plan) /\ Len(job.plan) \in Nat
        /\ Statement = job.plan[job.done + 1] /\ job.pc = "running"
    BY DEF Running, Ran
  <1>2. /\ \A t \in db'.tables : (t \in db.tables /\ t.name \notin Statement.drop)
                                 \/ t \in Statement.add
        /\ \A x \in Names(db) : x \notin Statement.drop => x \in Names(db')
        /\ \A t \in Statement.add : t.name \in Names(db')
    BY <1>1, StepSchema
  <1>3. db.tables \subseteq Known /\ Statement.add \subseteq Known
    BY <1>1 DEF MigrationTypeOK, WellTyped, DbType, StatementType
  <1>4. \A t \in Known : \A r \in t.refs : r \in Created
    BY TablesKnown, Zenon DEF KnownFacts
  <1>5. dialect = "sqlite" \/ dialect = "postgresql"
    BY IdsAssumption DEF MigrationTypeOK
  <1>6. ASSUME NEW t \in Statement.add PROVE \A r \in t.refs : r \in Names(db')
    <2>1. Statement.drop = {}
      BY <1>1, <1>6 DEF Shape
    <2>2. \A r \in t.refs : r \in Names(db)
      BY <1>1, <1>6 DEF Accepted
    <2> QED
      BY <1>2, <2>1, <2>2
  <1>7. ASSUME NEW t \in db.tables, t.name \notin Statement.drop
        PROVE  \A r \in t.refs : r \notin Statement.drop
    <2>1. CASE dialect = "postgresql"
      BY <1>1, <1>7, <2>1 DEF Accepted
    <2>2. CASE dialect = "sqlite" /\ (Up \/ Current # 1)
      BY <1>1, <1>3, <1>4, <1>7, <2>2 DEF Shape
    <2>3. CASE ~Up /\ Current = 1
      <3>1. Feasible(db, job.plan, job.done)
        BY <1>1, <2>3 DEF BaseInv
      <3> DEFINE k == job.done + 1
      <3>2. k \in (job.done + 1)..Len(job.plan) /\ (job.done + 1)..k = {k}
        BY <1>1
      <3>3. t.refs \cap job.plan[k].drop # {} => \E j \in (job.done + 1)..k : t.name \in job.plan[j].drop
        BY <1>7, <3>1, <3>2, Zenon DEF Feasible
      <3>4. t.refs \cap job.plan[k].drop = {}
        BY <1>1, <1>7, <3>2, <3>3, Zenon
      <3> QED
        BY <1>1, <3>4
    <2> QED
      BY <1>5, <2>1, <2>2, <2>3
  <1>8. ASSUME NEW t \in db'.tables PROVE t.refs \subseteq Names(db')
    <2>1. CASE t \in Statement.add
      BY <1>6, <2>1
    <2>2. CASE t \in db.tables /\ t.name \notin Statement.drop
      <3>1. \A r \in t.refs : r \in Names(db) /\ r \notin Statement.drop
        BY <1>7, <2>2 DEF RefsInv, RefsAt
      <3> QED
        BY <1>2, <3>1
    <2> QED
      BY <1>2, <1>8, <2>1, <2>2
  <1> QED
    BY <1>8 DEF RefsAt

LEMMA RefsStep ==
  MigrationTypeOK /\ BaseInv /\ RefsInv /\ [MigrationNext]_migrationVars => RefsInv'
  <1> SUFFICES ASSUME MigrationTypeOK, BaseInv, RefsInv, Step PROVE RefsInv'
    BY Steps
  <1>1. \A d : d.tables = db.tables /\ Names(d) = Names(db) => RefsAt(d)
    BY DEF RefsInv, RefsAt
  <1>2. CASE Running /\ Ran
    <2>1. RefsAt(db')
      BY <1>2, RunRefs
    <2>2. saved' = db' \/ saved' = saved
      BY <1>2 DEF Ran
    <2> QED
      BY <2>1, <2>2 DEF RefsInv
  <1>3. CASE Stamped
    <2>1. RefsAt(db') /\ (saved' = db' \/ saved' = saved)
      BY <1>1, <1>3, Zenon DEF Stamped
    <2> QED
      BY <2>1 DEF RefsInv
  <1>4. CASE Served
    <2>1. RefsAt(db') /\ saved' = db'
      BY <1>1, <1>4, Zenon DEF Served, SameSchema
    <2> QED
      BY <2>1 DEF RefsInv
  <1>5. CASE Paused \/ Begun \/ Finished \/ Abandoned
    BY <1>5 DEF Paused, Begun, Finished, Abandoned, RefsInv
  <1>6. CASE Rested
    BY <1>6 DEF Rested, migrationVars, RefsInv
  <1> QED
    BY <1>2, <1>3, <1>4, <1>5, <1>6 DEF Step

-----------------------------------------------------------------------------
(* What no command loses.                                                  *)

NormalInv == Normal(db) /\ Normal(saved)

\* The columns and tables the application writes to are there.
LEMMA WrittenThere ==
  ASSUME NEW v \in 1..6, NEW dia, NEW d, SchemaAt(v, dia, d)
  PROVE  /\ "match_decisions" \in Names(d)
         /\ v >= 5 => DecisionRevision \in d.parts /\ CandidateRevision \in d.parts
         /\ v = 6 => RecordRevision \in d.parts /\ Resolution \in Names(d)
  <1>1. /\ DecisionRevision \in ModelParts /\ DecisionRevision[1] = "match_decisions"
        /\ DecisionRevision \in DecisionParts /\ CandidateRevision \in CandidateParts
        /\ RecordRevision \in ModelParts
        /\ ModelParts = BaselineParts \cup DecisionParts \cup CandidateParts \cup RecordParts
    <2>1. /\ \A p \in DecisionParts : p[1] = "match_decisions"
          /\ ModelParts = BaselineParts \cup DecisionParts \cup CandidateParts \cup RecordParts
      BY PartsAre, Zenon DEF PartFacts
    <2> QED
      BY <2>1 DEF DecisionParts, CandidateParts, RecordParts
  <1>2. CASE v \in 4..6
    <2>1. Complete(d) /\ d.tables = HighT(v) /\ d.parts = HighP(v)
      BY <1>2, CompleteAt, Zenon
    <2>2. "match_decisions" \in Names(d)
      <3>1. DecisionRevision[1] \in Created
        BY <1>1, PartTables
      <3> QED
        BY <1>1, <2>1, <3>1 DEF Complete
    <2>3. v >= 5 => DecisionRevision \in d.parts /\ CandidateRevision \in d.parts
      BY <1>1, <1>2, <2>1, FullAt
    <2>4. v = 6 => RecordRevision \in d.parts /\ Resolution \in Names(d)
      <3>1. v = 6 => d.parts = ModelParts /\ ResolutionTable \in d.tables
        BY <1>2, <2>1, FullAt
      <3> QED
        BY <1>1, <3>1, ResolutionsIs DEF Names, Resolution
    <2> QED
      BY <2>2, <2>3, <2>4
  <1>3. CASE v \in 1..3
    <2>1. v \in 1..5 /\ LowT(v, dia) \subseteq d.tables
      BY <1>3 DEF SchemaAt
    <2>2. DecisionRevision[1] \in Names(d)
      BY <1>1, <2>1, PartThere, Zenon
    <2> QED
      BY <1>1, <1>3, <2>2
  <1> QED
    BY <1>2, <1>3

LEMMA DecideNormal ==
  ASSUME MigrationTypeOK, SchemaInv, NormalInv, NEW id \in Ids, NEW at \in Times, Decide(id, at)
  PROVE  Normal(db')
  <1>1. db.version \in 1..6 /\ SchemaAt(db.version, dialect, db)
    BY DEF Decide, InUse, SchemaInv, MigrationTypeOK, WellTyped, DbType, Head6
  <1>2. /\ "match_decisions" \in Names(db)
        /\ db.version >= 5 => DecisionRevision \in db.parts /\ CandidateRevision \in db.parts
    BY <1>1, WrittenThere, Zenon
  <1> DEFINE revision == IF db.version >= 5 THEN db.candidate + 1 ELSE 0
             new == [id |-> id, at |-> at, revision |-> revision]
  <1>3. db' = [db EXCEPT !.decisions = @ \cup {new}, !.candidate = revision]
    BY DEF Decide
  <1>4. new.revision = revision
    OBVIOUS
  <1>5. revision # 0 => DecisionRevision \in db.parts /\ CandidateRevision \in db.parts
    BY <1>2
  <1> HIDE DEF revision, new
  <1>6. /\ db'.decisions = db.decisions \cup {new} /\ db'.candidate = revision
        /\ db'.tables = db.tables /\ db'.parts = db.parts /\ db'.note = db.note
        /\ db'.record = db.record /\ db'.resolutions = db.resolutions
    BY <1>3 DEF MigrationTypeOK, WellTyped, DbType
  <1>7. Names(db') = Names(db)
    BY <1>6 DEF Names
  <1> QED
    BY <1>2, <1>4, <1>5, <1>6, <1>7 DEF NormalInv, Normal

\* What a decision on the quarantine record writes.
Resolving(note) ==
    /\ db'.decisions = db.decisions /\ db'.candidate = db.candidate
    /\ db'.tables = db.tables /\ db'.parts = db.parts /\ Names(db') = Names(db)
    /\ db'.note = note /\ NoteColumn \in db.parts
    /\ IF db.version = Head6
       THEN /\ db'.record = db.record + 1 /\ note = "text"
            /\ db'.resolutions = db.resolutions \cup {[revision |-> db.record + 1, imported |-> FALSE]}
       ELSE db'.record = db.record /\ db'.resolutions = db.resolutions

LEMMA ResolveIs ==
  ASSUME MigrationTypeOK, NEW note \in {"blank", "text"}, Resolve(note)
  PROVE  Resolving(note)
  <1> DEFINE new == [revision |-> db.record + 1, imported |-> FALSE]
  <1> HIDE DEF new
  <1>1. /\ NoteColumn \in db.parts
        /\ db.version = Head6 => note = "text"
        /\ db' = IF db.version = Head6
                 THEN [db EXCEPT !.note = note, !.record = @ + 1, !.resolutions = @ \cup {new}]
                 ELSE [db EXCEPT !.note = note]
    BY DEF Resolve, new
  <1>2. db'.tables = db.tables
    BY <1>1 DEF MigrationTypeOK, WellTyped, DbType
  <1>3. Names(db') = Names(db)
    BY <1>2 DEF Names
  <1>4. /\ db'.decisions = db.decisions /\ db'.candidate = db.candidate
        /\ db'.parts = db.parts /\ db'.note = note
        /\ IF db.version = Head6
           THEN /\ db'.record = db.record + 1
                /\ db'.resolutions = db.resolutions \cup {new}
           ELSE db'.record = db.record /\ db'.resolutions = db.resolutions
    BY <1>1 DEF MigrationTypeOK, WellTyped, DbType
  <1> QED
    BY <1>1, <1>2, <1>3, <1>4 DEF Resolving, new

LEMMA ResolveNormal ==
  ASSUME MigrationTypeOK, SchemaInv, NormalInv, Served, NEW note \in {"blank", "text"}, Resolve(note)
  PROVE  Normal(db')
  <1>1. db.version \in 1..6 /\ SchemaAt(db.version, dialect, db)
    BY DEF Served, SchemaInv, MigrationTypeOK, WellTyped, DbType, Head6
  <1>2. db.version = Head6 => RecordRevision \in db.parts /\ "quarantine_resolutions" \in Names(db)
    BY <1>1, WrittenThere DEF Resolution, Head6
  <1>3. Resolving(note)
    BY ResolveIs
  <1> QED
    BY <1>2, <1>3 DEF Resolving, NormalInv, Normal

LEMMA NormalStep ==
  MigrationTypeOK /\ SchemaInv /\ NormalInv /\ [MigrationNext]_migrationVars => NormalInv'
  <1> SUFFICES ASSUME MigrationTypeOK, SchemaInv, NormalInv, Step PROVE NormalInv'
    BY Steps
  <1>1. CASE Running /\ Ran
    BY <1>1 DEF Ran, NormalInv
  <1>2. CASE Stamped
    <2>1. Normal(db') /\ (saved' = db' \/ saved' = saved)
      BY <1>2, Zenon DEF Stamped, NormalInv, Normal
    <2> QED
      BY <2>1 DEF NormalInv
  <1>3. CASE Served
    <2>1. Normal(db')
      BY <1>3, DecideNormal, ResolveNormal, Zenon DEF Served
    <2> QED
      BY <1>3, <2>1 DEF Served, NormalInv
  <1>4. CASE Paused \/ Begun \/ Finished \/ Abandoned
    BY <1>4 DEF Paused, Begun, Finished, Abandoned, NormalInv
  <1>5. CASE Rested
    BY <1>5 DEF Rested, migrationVars, NormalInv
  <1> QED
    BY <1>1, <1>2, <1>3, <1>4, <1>5 DEF Step

\* No decision is durable that was not taken, and none taken is not durable;
\* what an interruption takes from the resolutions was imported from the note.
Importing(d) == \A r \in d.resolutions : r.imported => d.note = "text"

SurvivalInv ==
    /\ \A e \in db.decisions : \E o \in saved.decisions : o.id = e.id
    /\ db.note \in {"none", saved.note}
    /\ Importing(db) /\ Importing(saved)
    /\ \A r \in db.resolutions : r \in saved.resolutions \/ (r.imported /\ saved.note = "text")
    /\ job.pc = "running" /\ Current = 6 /\ Up /\ job.done <= End6(dialect, TRUE) + 1 =>
           db.resolutions = {}
    /\ job.pc = "running" /\ Current = 6 /\ ~Up /\ job.done >= 1 =>
           \A r \in db.resolutions : r.imported

Survival ==
    /\ "match_decisions" \in Names(db') =>
         \A o \in db.decisions : \E e \in db'.decisions : o.id = e.id
    /\ \A r \in db.resolutions : r \in db'.resolutions \/ (r.imported /\ db'.note = "text")

LEMMA RunDecisions ==
  ASSUME MigrationTypeOK, Running, Ran
  PROVE  /\ "match_decisions" \in Names(db') =>
              \A o \in db.decisions : \E e \in db'.decisions : o.id = e.id
         /\ \A e \in db'.decisions : \E o \in db.decisions : o.id = e.id
  <1>1. WellTyped(db) /\ Statement \in StatementType /\ db' = Effect(db, Statement) /\ Normal(db')
    BY DEF MigrationTypeOK, Running, Ran
  <1>2. "match_decisions" \in Names(db') => SameDecisions(db.decisions, db'.decisions)
    BY <1>1, EffectTyped
  <1>3. "match_decisions" \notin Names(db') => db'.decisions = {}
    BY <1>1 DEF Normal
  <1> QED
    BY <1>2, <1>3 DEF SameDecisions

\* What a statement does to the resolutions.
RunResolution ==
    /\ db'.note \in {"none", db.note}
    /\ Current # 6 => db.resolutions = {} /\ db'.resolutions = {}
    /\ Current = 6 => db'.note = db.note
    /\ Current = 6 /\ Up /\ job.done # End6(dialect, TRUE) + 1 => db'.resolutions = db.resolutions
    /\ Current = 6 /\ Up /\ job.done = End6(dialect, TRUE) + 1 =>
           db.resolutions = {} /\ db'.resolutions \subseteq Imported(db.note)
    /\ Current = 6 /\ ~Up /\ job.done # 1 => db'.resolutions = db.resolutions
    /\ Current = 6 /\ ~Up /\ job.done = 1 =>
           db'.resolutions = {} /\ \A r \in db.resolutions : r.imported
    /\ Current = 6 /\ ~Up /\ job.done = 0 => \A r \in db.resolutions : r.imported

LEMMA RunResolves ==
  ASSUME MigrationTypeOK, EarlyInv, EarlyInv', NormalInv, SurvivalInv, Running, Ran
  PROVE  RunResolution
  <1>1. /\ EffectFacts(db, Statement, db') /\ Shape(dialect, Up, Current, Statement)
        /\ Normal(db) /\ Normal(db') /\ ~Refused(db, Statement)
        /\ job.pc = "running" /\ job'.pc = "running" /\ Current' = Current
        /\ job.done \in Nat /\ Statement \in StatementType /\ db.parts \subseteq ModelParts
    BY DEF Running, Ran, NormalInv, MigrationTypeOK, WellTyped, DbType
  <1>2. /\ db'.note = IF NoteColumn \in db'.parts THEN db.note ELSE "none"
        /\ db'.resolutions = IF Resolution \in Names(db') THEN Resolved6(db, Statement.rows) ELSE {}
        /\ db'.tables = {t \in db.tables : t.name \notin Statement.drop} \cup Statement.add
        /\ db'.parts = {p \in db.parts : p[1] \notin Statement.drop /\ p \notin Statement.lose}
                       \cup Statement.gain
    BY <1>1 DEF EffectFacts, Columns, Resolution
  <1>3. /\ Resolution \notin Names(db) => db.resolutions = {}
        /\ Resolution \notin Names(db') => db'.resolutions = {}
        /\ NoteColumn \notin db.parts => db.note = "none"
    BY <1>1 DEF Normal, Resolution
  <1>4. Current # 6 => db.resolutions = {} /\ db'.resolutions = {}
    BY <1>1, <1>3 DEF EarlyInv
  <1>5. NoteColumn \in ModelParts /\ NoteColumn \notin PartsAt(6)
    <2>1. /\ NoteColumn \in BaselineParts
          /\ BaselineParts \cap (DecisionParts \cup CandidateParts \cup RecordParts) = {}
          /\ ModelParts = BaselineParts \cup DecisionParts \cup CandidateParts \cup RecordParts
      BY PartsAre, Zenon DEF PartFacts
    <2> QED
      BY <2>1 DEF PartsAt
  <1>6. Current = 6 => db'.note = db.note
    <2>1. Current = 6 => NoteColumn \notin Statement.lose /\ NoteColumn[1] \notin Statement.drop
      <3>1. /\ Up => Statement.lose = {}
            /\ ~Up => Statement.lose \subseteq PartsAt(Current)
            /\ Up \/ Current # 1 => \A p \in ModelParts : p[1] \notin Statement.drop
        BY <1>1, Zenon DEF Shape
      <3> QED
        BY <1>5, <3>1
    <2>2. Current = 6 /\ NoteColumn \in db.parts => NoteColumn \in db'.parts
      BY <1>2, <2>1
    <2> QED
      BY <1>2, <1>3, <2>2
  <1>7. Statement.rows # "import_note" /\ Resolution \notin Statement.drop =>
            db'.resolutions = db.resolutions
    <2>1. Resolution \in Names(db) /\ Resolution \notin Statement.drop => Resolution \in Names(db')
      BY <1>2 DEF Names
    <2>2. Statement.rows # "import_note" => Resolved6(db, Statement.rows) = db.resolutions
      BY DEF Resolved6
    <2> QED
      BY <1>2, <1>3, <2>1, <2>2
  <1>8. TempOf("quarantine_records").name # Resolution
    BY TempsAre DEF Resolution
  <1>9. CASE Current # 6
    BY <1>2, <1>4, <1>9 DEF RunResolution
  <1>10. CASE Current = 6 /\ Up
    <2> DEFINE a == End6(dialect, TRUE)
    <2>1. At6Up(dialect, Statement, job.done + 1, a)
      BY <1>10, Statement6
    <2>2. /\ Resolution \notin Statement.drop
          /\ job.done + 1 = a + 2 => Statement.rows = "import_note"
          /\ job.done + 1 = a + 3 => Statement.rows = "revise_records"
          /\ job.done + 1 \notin (a + 2)..(a + 3) => Statement.rows \in {"unchanged", "copied"}
      <3>1. /\ job.done + 1 = a + 2 => Statement.rows = "import_note"
            /\ job.done + 1 = a + 3 => Statement.rows = "revise_records"
            /\ job.done + 1 \notin (a + 2)..(a + 3) => Statement.rows \in {"unchanged", "copied"}
        BY <2>1, Zenon DEF At6Up
      <3>2. Resolution \notin Statement.drop
        <4>1. \A x \in Statement.drop : x = TempOf("quarantine_records").name
          <5> DEFINE k == job.done + 1
                     c == TempOf("quarantine_records").name
          <5>1. \A x : x \in Statement.drop <=> (dialect = "sqlite" /\ k = a /\ x = c)
            BY <2>1, Zenon DEF At6Up
          <5> HIDE DEF k, a, c
          <5> SUFFICES ASSUME NEW x \in Statement.drop PROVE x = c
            BY DEF c
          <5> QED
            BY <5>1
        <4> QED
          BY <1>8, <4>1, Zenon
      <3> QED
        BY <3>1, <3>2, Zenon
    <2>3. a \in {1, 2}
      BY DEF End6
    <2> HIDE DEF a
    <2>4. job.done # a + 1 => db'.resolutions = db.resolutions
      <3>1. job.done # a + 1 => Statement.rows # "import_note"
        BY <1>1, <2>2, <2>3
      <3> QED
        BY <1>7, <2>2, <3>1
    <2>5. job.done = a + 1 => db.resolutions = {} /\ db'.resolutions \subseteq Imported(db.note)
      <3>1. job.done = a + 1 => db.resolutions = {}
        <4>1. job.done <= a + 1 => db.resolutions = {}
          BY <1>1, <1>10, Zenon DEF SurvivalInv, a
        <4> QED
          BY <1>1, <2>3, <4>1
      <3>2. job.done = a + 1 => Statement.rows = "import_note"
        BY <1>1, <2>2, <2>3
      <3> QED
        BY <1>2, <3>1, <3>2 DEF Resolved6
    <2> QED
      BY <1>2, <1>6, <1>10, <2>4, <2>5, Zenon DEF RunResolution, a
  <1>11. CASE Current = 6 /\ ~Up
    <2>1. At6Down(dialect, Statement, job.done + 1, End6(dialect, FALSE))
      BY <1>11, Statement6
    <2>2. /\ job.done + 1 # 2 => Resolution \notin Statement.drop
          /\ job.done + 1 = 2 => Resolution \in Statement.drop
          /\ \A t \in Statement.add : t.name # Resolution
          /\ job.done + 1 = 1 => Statement.rows = "keep_history"
          /\ job.done + 1 # 1 => Statement.rows \in {"unchanged", "copied"}
      <3> DEFINE k == job.done + 1
      <3>1. /\ \A t : t \in Statement.add <=>
                    dialect = "sqlite" /\ k = End6(dialect, FALSE) - 1 /\ t = TempOf("quarantine_records")
            /\ \A x : x \in Statement.drop <=>
                  \/ /\ dialect = "sqlite" /\ k = End6(dialect, FALSE)
                     /\ x = TempOf("quarantine_records").name
                  \/ k = 2 /\ x = "quarantine_resolutions"
            /\ k = 1 => Statement.rows = "keep_history"
            /\ k # 1 => Statement.rows \in {"unchanged", "copied"}
        BY <2>1, Zenon DEF At6Down
      <3> HIDE DEF k
      <3>2. \A t \in Statement.add : t.name # Resolution
        BY <1>8, <3>1, Zenon
      <3>3. k # 2 => Resolution \notin Statement.drop
        <4>1. \A x \in Statement.drop :
                 x = TempOf("quarantine_records").name \/ (k = 2 /\ x = Resolution)
          BY <3>1, Zenon DEF Resolution
        <4> QED
          BY <1>8, <4>1, Zenon
      <3>4. k = 2 => Resolution \in Statement.drop
        BY <3>1, Zenon DEF Resolution
      <3> QED
        BY <3>1, <3>2, <3>3, <3>4, Zenon DEF k
    <2>3. job.done # 1 => db'.resolutions = db.resolutions
      <3>1. job.done # 1 => job.done + 1 # 2
        BY <1>1
      <3>2. Statement.rows # "import_note"
        BY <2>2
      <3> QED
        BY <1>7, <2>2, <3>1, <3>2, Zenon
    <2>4. job.done = 1 => db'.resolutions = {} /\ \A r \in db.resolutions : r.imported
      <3>1. job.done = 1 => Resolution \notin Names(db')
        BY <1>2, <2>2 DEF Names
      <3>2. job.done = 1 => \A r \in db.resolutions : r.imported
        BY <1>1, <1>11 DEF SurvivalInv
      <3> QED
        BY <1>3, <3>1, <3>2
    <2>5. job.done = 0 => \A r \in db.resolutions : r.imported
      BY <1>1, <2>2 DEF Refused
    <2> QED
      BY <1>2, <1>6, <1>11, <2>3, <2>4, <2>5, Zenon DEF RunResolution
  <1> QED
    BY <1>9, <1>10, <1>11

LEMMA RunSurvival ==
  ASSUME MigrationTypeOK, EarlyInv, EarlyInv', NormalInv, SurvivalInv, Running, Ran
  PROVE  SurvivalInv' /\ Survival
  <1>1. /\ job.pc = "running" /\ job'.pc = "running" /\ Current' = Current /\ Up' = Up
        /\ dialect' = dialect /\ job.done \in Nat /\ job'.done = job.done + 1
        /\ saved' = db' \/ saved' = saved
    BY DEF Running, Ran
  <1>2. RunResolution
    BY RunResolves
  <1>4. \A r \in Imported(db.note) : r.imported /\ db.note = "text"
    BY DEF Imported
  <1>5. \A e \in db'.decisions : \E o \in saved'.decisions : o.id = e.id
    <2>1. \A e \in db'.decisions : \E o \in db.decisions : o.id = e.id
      BY RunDecisions
    <2>2. \A e \in db.decisions : \E o \in saved.decisions : o.id = e.id
      BY DEF SurvivalInv
    <2>3. CASE saved' = saved
      <3> SUFFICES ASSUME NEW e \in db'.decisions PROVE \E o \in saved.decisions : o.id = e.id
        BY <2>3
      <3>1. PICK o \in db.decisions : o.id = e.id
        BY <2>1
      <3>2. PICK u \in saved.decisions : u.id = o.id
        BY <2>2
      <3> QED
        BY <3>1, <3>2
    <2> QED
      BY <1>1, <2>3
  <1>6. db'.note \in {"none", saved'.note}
    BY <1>1, <1>2 DEF RunResolution, SurvivalInv
  <1>7. Importing(db')
    <2>1. CASE Current # 6
      BY <1>2, <2>1 DEF RunResolution, Importing
    <2>2. CASE Current = 6
      <3>1. db'.note = db.note
        BY <1>2, <2>2 DEF RunResolution
      <3>2. \A r \in db'.resolutions : r \in db.resolutions \/ r \in Imported(db.note)
        BY <1>2, <2>2 DEF RunResolution
      <3> QED
        BY <1>4, <3>1, <3>2 DEF SurvivalInv, Importing
    <2> QED
      BY <2>1, <2>2
  <1>8. Importing(saved')
    BY <1>1, <1>7 DEF SurvivalInv
  <1>9. \A r \in db'.resolutions : r \in saved'.resolutions \/ (r.imported /\ saved'.note = "text")
    <2>1. CASE saved' = saved
      <3>1. \A r \in db'.resolutions : r \in db.resolutions \/ r \in Imported(db.note)
        BY <1>2 DEF RunResolution
      <3>2. db.note = "text" => saved.note = "text"
        BY DEF SurvivalInv
      <3> QED
        BY <1>4, <2>1, <3>1, <3>2 DEF SurvivalInv
    <2> QED
      BY <1>1, <2>1
  <1>10. Current = 6 /\ Up /\ job'.done <= End6(dialect, TRUE) + 1 => db'.resolutions = {}
    <2>1. /\ job'.done <= End6(dialect, TRUE) + 1 => job.done <= End6(dialect, TRUE) + 1
          /\ job'.done <= End6(dialect, TRUE) + 1 => job.done # End6(dialect, TRUE) + 1
      <3> DEFINE a == End6(dialect, TRUE)
      <3>1. a \in Nat
        BY DEF End6
      <3>2. job.done \in Nat /\ job'.done = job.done + 1
        BY <1>1
      <3> HIDE DEF a
      <3>3. /\ job'.done <= a + 1 => job.done <= a + 1
            /\ job'.done <= a + 1 => job.done # a + 1
        BY <3>1, <3>2
      <3> QED
        BY <3>3 DEF a
    <2> QED
      BY <1>1, <1>2, <2>1, Zenon DEF RunResolution, SurvivalInv
  <1>11. Current = 6 /\ ~Up => \A r \in db'.resolutions : r.imported
    <2>1. job.done >= 1 \/ job.done = 0
      BY <1>1
    <2>2. Current = 6 /\ ~Up => db'.resolutions = db.resolutions \/ db'.resolutions = {}
      BY <1>2 DEF RunResolution
    <2>3. Current = 6 /\ ~Up => \A r \in db.resolutions : r.imported
      BY <1>1, <1>2, <2>1, Zenon DEF RunResolution, SurvivalInv
    <2> QED
      BY <2>2, <2>3
  <1>12. \A r \in db.resolutions : r \in db'.resolutions \/ (r.imported /\ db'.note = "text")
    <2>1. CASE Current = 6 /\ ~Up /\ job.done = 1
      BY <1>2, <2>1 DEF RunResolution, SurvivalInv, Importing
    <2>2. CASE ~(Current = 6 /\ ~Up /\ job.done = 1)
      BY <1>2, <2>2 DEF RunResolution
    <2> QED
      BY <2>1, <2>2
  <1>13. Survival
    BY <1>12, RunDecisions, Zenon DEF Survival
  <1>14. SurvivalInv'
    BY <1>1, <1>5, <1>6, <1>7, <1>8, <1>9, <1>10, <1>11 DEF SurvivalInv
  <1> QED
    BY <1>13, <1>14

\* The application adds to the history.
LEMMA ServedSurvival ==
  ASSUME MigrationTypeOK, EarlyInv, NormalInv, SurvivalInv, Served
  PROVE  SurvivalInv' /\ Survival
  <1>1. job.pc = "idle" /\ job' = job /\ saved' = db'
    BY DEF Served
  <1>2. db.version # 6 => db.resolutions = {}
    <2>1. db.version \in 0..6
      BY DEF MigrationTypeOK, WellTyped, DbType, Head6
    <2>2. db.version # 6 => Resolution \notin Names(db)
      BY <1>1, <2>1 DEF EarlyInv
    <2> QED
      BY <2>2 DEF NormalInv, Normal, Resolution
  <1> SUFFICES Survival /\ Importing(db')
    BY <1>1 DEF SurvivalInv
  <1>3. ASSUME NEW id \in Ids, NEW at \in Times, Decide(id, at) PROVE Survival /\ Importing(db')
    <2>1. /\ db.decisions \subseteq db'.decisions /\ db'.resolutions = db.resolutions
          /\ db'.note = db.note
      BY <1>3 DEF Decide, MigrationTypeOK, WellTyped, DbType
    <2> QED
      BY <2>1 DEF Survival, SurvivalInv, Importing
  <1>4. ASSUME NEW note \in {"blank", "text"}, Resolve(note) PROVE Survival /\ Importing(db')
    <2>1. Resolving(note)
      BY <1>4, ResolveIs
    <2>2. db.decisions = db'.decisions /\ db.resolutions \subseteq db'.resolutions
      BY <2>1 DEF Resolving
    <2>3. Importing(db')
      <3>1. CASE db.version = 6
        <4>1. db'.note = "text"
          BY <2>1, <3>1 DEF Resolving, Head6
        <4> QED
          BY <4>1 DEF Importing
      <3>2. CASE db.version # 6
        <4>1. db'.resolutions = {}
          BY <1>2, <2>1, <3>2 DEF Resolving, Head6
        <4> QED
          BY <4>1 DEF Importing
      <3> QED
        BY <3>1, <3>2
    <2> QED
      BY <2>2, <2>3 DEF Survival
  <1> QED
    BY <1>3, <1>4 DEF Served

LEMMA SurvivalStep ==
  /\ MigrationTypeOK /\ SavedInv /\ EarlyInv /\ EarlyInv' /\ NormalInv /\ SurvivalInv
  /\ [MigrationNext]_migrationVars
  => SurvivalInv' /\ (db' = db \/ Survival)
  <1> SUFFICES ASSUME MigrationTypeOK, SavedInv, EarlyInv, EarlyInv', NormalInv, SurvivalInv, Step
               PROVE  SurvivalInv' /\ (db' = db \/ Survival)
    BY Steps
  <1>1. CASE Paused \/ Rested
    <2>1. /\ UNCHANGED <<dialect, db, saved>>
          /\ job' = job \/ job'.pc # "running"
      BY <1>1 DEF Paused, Rested, migrationVars
    <2> QED
      BY <2>1 DEF SurvivalInv, Importing, Current, Up
  <1>2. CASE Begun
    <2>1. /\ UNCHANGED <<dialect, db, saved>>
          /\ job.pc = "between" /\ job'.done = 0 /\ Current' = Current /\ Up' = Up
          /\ Current = IF Up THEN db.version + 1 ELSE db.version
      BY <1>2 DEF Begun
    <2>2. Current = 6 /\ Up => db.resolutions = {}
      <3>1. Current = 6 /\ Up => db.version = 5
        BY <2>1 DEF MigrationTypeOK, WellTyped, DbType
      <3>2. Current = 6 /\ Up => Resolution \notin Names(db)
        BY <2>1, <3>1 DEF EarlyInv
      <3> QED
        BY <3>2 DEF NormalInv, Normal, Resolution
    <2>3. ~(job'.done >= 1)
      BY <2>1
    <2> QED
      BY <2>1, <2>2, <2>3 DEF SurvivalInv, Importing
  <1>3. CASE Running /\ Ran
    BY <1>3, RunSurvival
  <1>4. CASE Stamped
    <2>1. /\ job'.pc = "between" /\ db'.decisions = db.decisions /\ db'.note = db.note
          /\ db'.resolutions = db.resolutions /\ (saved' = db' \/ saved' = saved)
      BY <1>4 DEF Stamped
    <2>2. Survival
      BY <2>1 DEF Survival
    <2>3. Importing(db') /\ Importing(saved')
      BY <2>1 DEF SurvivalInv, Importing
    <2>4. CASE saved' = db'
      BY <2>1, <2>2, <2>3, <2>4 DEF SurvivalInv
    <2>5. CASE saved' = saved
      <3>1. /\ \A e \in db'.decisions : \E o \in saved'.decisions : o.id = e.id
            /\ db'.note \in {"none", saved'.note}
            /\ \A r \in db'.resolutions :
                   r \in saved'.resolutions \/ (r.imported /\ saved'.note = "text")
        BY <2>1, <2>5 DEF SurvivalInv
      <3> QED
        BY <2>1, <2>2, <2>3, <3>1 DEF SurvivalInv
    <2> QED
      BY <2>1, <2>4, <2>5
  <1>5. CASE Finished
    <2>1. job'.pc = "idle" /\ saved' = db /\ db' = db
      BY <1>5 DEF Finished
    <2> QED
      BY <2>1 DEF SurvivalInv, Importing
  <1>6. CASE Abandoned
    <2>1. job'.pc = "idle" /\ saved' = saved /\ db' = saved
      BY <1>6 DEF Abandoned
    <2>2. Survival
      <3>1. \A o \in db.decisions : \E e \in saved.decisions : o.id = e.id
        <4> SUFFICES ASSUME NEW o \in db.decisions PROVE \E e \in saved.decisions : o.id = e.id
          OBVIOUS
        <4>1. PICK e \in saved.decisions : e.id = o.id
          BY DEF SurvivalInv
        <4> QED
          BY <4>1
      <3> QED
        BY <2>1, <3>1 DEF SurvivalInv, Survival
    <2> QED
      BY <2>1, <2>2 DEF SurvivalInv, Importing
  <1>7. CASE Served
    BY <1>7, ServedSurvival
  <1> QED
    BY <1>1, <1>2, <1>3, <1>4, <1>5, <1>6, <1>7 DEF Step

-----------------------------------------------------------------------------
(* The numbers of the review history.                                      *)

Distinct(S) == \A d, e \in S : d.id = e.id => d = e

\* What HistoryNumbered says of the decisions.
Ordered(S) ==
    /\ {d.revision : d \in S} = 1..Cardinality(S)
    /\ \A d, e \in S : d.revision < e.revision => d.at <= e.at

\* The ranks by time and id number the decisions from 1 on without a gap.
LEMMA RankGrows ==
  ASSUME NEW S, S \subseteq DecisionType, IsFiniteSet(S), NEW d \in S, NEW e \in S,
         d.at < e.at \/ (d.at = e.at /\ d.id < e.id)
  PROVE  Rank(d, S) < Rank(e, S)
  <1> DEFINE Before(x) == {y \in S : y.at < x.at \/ (y.at = x.at /\ y.id <= x.id)}
  <1>1. \A x \in S : x.at \in Nat /\ x.id \in Nat
    BY IdsAssumption DEF DecisionType
  <1>2. Before(d) \subseteq Before(e)
    <2> SUFFICES ASSUME NEW y \in S, y.at < d.at \/ (y.at = d.at /\ y.id <= d.id)
                 PROVE  y.at < e.at \/ (y.at = e.at /\ y.id <= e.id)
      OBVIOUS
    <2>1. y.at \in Nat /\ y.id \in Nat /\ d.at \in Nat /\ d.id \in Nat /\ e.at \in Nat /\ e.id \in Nat
      BY <1>1
    <2> QED
      BY <2>1
  <1>3. e \in Before(e) /\ e \notin Before(d)
    <2>1. d.at \in Nat /\ d.id \in Nat /\ e.at \in Nat /\ e.id \in Nat
      BY <1>1
    <2> QED
      BY <2>1
  <1>4. Before(e) \subseteq S
    OBVIOUS
  <1>5. Rank(d, S) = Cardinality(Before(d)) /\ Rank(e, S) = Cardinality(Before(e))
    BY Zenon DEF Rank
  <1> HIDE DEF Before
  <1>6. IsFiniteSet(Before(e))
    BY <1>4, FS_Subset
  <1>7. /\ IsFiniteSet(Before(d)) /\ Cardinality(Before(d)) <= Cardinality(Before(e))
        /\ Cardinality(Before(e)) = Cardinality(Before(d)) => Before(e) = Before(d)
    BY <1>2, <1>6, FS_Subset
  <1>8. Cardinality(Before(d)) \in Nat /\ Cardinality(Before(e)) \in Nat
    BY <1>6, <1>7, FS_CardinalityType
  <1>9. Cardinality(Before(e)) # Cardinality(Before(d))
    BY <1>3, <1>7
  <1> QED
    BY <1>5, <1>7, <1>8, <1>9

LEMMA RankBounds ==
  ASSUME NEW S, S \subseteq DecisionType, IsFiniteSet(S), NEW e \in S
  PROVE  Rank(e, S) \in 1..Cardinality(S)
  <1> DEFINE B == {y \in S : y.at < e.at \/ (y.at = e.at /\ y.id <= e.id)}
  <1>1. e.at \in Nat /\ e.id \in Nat
    BY IdsAssumption DEF DecisionType
  <1>2. e \in B /\ B \subseteq S
    BY <1>1
  <1>3. Rank(e, S) = Cardinality(B)
    BY Zenon DEF Rank
  <1> HIDE DEF B
  <1>4. IsFiniteSet(B) /\ Cardinality(B) <= Cardinality(S)
    BY <1>2, FS_Subset
  <1>5. Cardinality(B) \in Nat /\ Cardinality(S) \in Nat
    BY <1>4, FS_CardinalityType
  <1>6. Cardinality(B) # 0
    BY <1>2, <1>4, FS_EmptySet
  <1> QED
    BY <1>3, <1>4, <1>5, <1>6

LEMMA RankOrder ==
  ASSUME NEW S, S \subseteq DecisionType, IsFiniteSet(S), Distinct(S), NEW d \in S, NEW e \in S
  PROVE  /\ Rank(d, S) = Rank(e, S) => d = e
         /\ Rank(d, S) < Rank(e, S) => d.at <= e.at
  <1>1. d.at \in Nat /\ d.id \in Nat /\ e.at \in Nat /\ e.id \in Nat
    BY IdsAssumption DEF DecisionType
  <1>2. Rank(d, S) \in Nat /\ Rank(e, S) \in Nat
    BY RankIsNat
  <1>3. CASE d.at < e.at \/ (d.at = e.at /\ d.id < e.id)
    <2>1. Rank(d, S) < Rank(e, S)
      BY <1>3, RankGrows
    <2> QED
      BY <1>1, <1>2, <1>3, <2>1
  <1>4. CASE e.at < d.at \/ (e.at = d.at /\ e.id < d.id)
    <2>1. Rank(e, S) < Rank(d, S)
      BY <1>4, RankGrows
    <2> QED
      BY <1>2, <2>1
  <1>5. CASE d.at = e.at /\ d.id = e.id
    BY <1>1, <1>5 DEF Distinct
  <1> QED
    BY <1>1, <1>3, <1>4, <1>5

LEMMA RanksOrdered ==
  ASSUME NEW S, S \subseteq DecisionType, IsFiniteSet(S), Distinct(S),
         NEW T, T = {[e EXCEPT !.revision = Rank(e, S)] : e \in S}
  PROVE  Ordered(T) /\ Numbered(T) /\ Distinct(T)
  <1> DEFINE R == {Rank(e, S) : e \in S}
             n == Cardinality(S)
             f == [e \in S |-> Rank(e, S)]
             g == [e \in S |-> [e EXCEPT !.revision = Rank(e, S)]]
  <1>1. \A e \in S : /\ g[e].revision = Rank(e, S) /\ g[e].id = e.id /\ g[e].at = e.at
                     /\ f[e] = Rank(e, S)
    BY DEF DecisionType
  <1>2. T = {g[e] : e \in S}
    BY Zenon
  <1>3. \A d, e \in S : Rank(d, S) = Rank(e, S) => d = e
    BY RankOrder, Zenon
  <1>4. \A d, e \in S : Rank(d, S) < Rank(e, S) => d.at <= e.at
    BY RankOrder, Zenon
  <1>5. \A e \in S : Rank(e, S) \in 1..n
    BY RankBounds
  <1>6. n \in Nat
    BY FS_CardinalityType
  <1>7. R = 1..n
    <2>1. f \in Surjection(S, R)
      BY Zenon DEF Surjection
    <2>2. f \in Injection(S, R)
      <3>1. DOMAIN f = S /\ f \in [S -> R] /\ \A d, e \in S : f[d] = f[e] => d = e
        BY <1>3, Zenon
      <3> HIDE DEF f
      <3> QED
        BY <3>1, Zenon DEF Injection, IsInjective
    <2>3. IsFiniteSet(R) /\ Cardinality(R) = n
      BY <2>1, <2>2, FS_Surjection
    <2>4. R \subseteq 1..n
      BY <1>5
    <2> HIDE DEF R, n, f, g
    <2>5. IsFiniteSet(1..n) /\ Cardinality(1..n) = n
      BY <1>6, FS_Interval
    <2> QED
      BY <2>3, <2>4, <2>5, FS_Subset
  <1>8. Cardinality(T) = n
    <2>1. g \in Surjection(S, T)
      <3>1. g \in [S -> T]
        BY <1>2
      <3>2. \A t \in T : \E e \in S : g[e] = t
        BY <1>2, Zenon
      <3> HIDE DEF g
      <3> QED
        BY <3>1, <3>2, Zenon DEF Surjection
    <2>2. g \in Injection(S, T)
      <3>1. \A d, e \in S : g[d] = g[e] => d = e
        <4> HIDE DEF g
        <4> QED
          BY <1>1, <1>3
      <3>2. DOMAIN g = S
        OBVIOUS
      <3> HIDE DEF g
      <3> QED
        BY <2>1, <3>1, <3>2, Zenon DEF Surjection, Injection, IsInjective
    <2> QED
      BY <2>1, <2>2, FS_Surjection
  <1> HIDE DEF f, g
  <1>9. {t.revision : t \in T} = R
    BY <1>1, <1>2
  <1> HIDE DEF R, n
  <1>10. \A t, u \in T : t.revision < u.revision => t.at <= u.at
    BY <1>1, <1>2, <1>4
  <1>11. Numbered(T)
    <2>1. \A t \in T : t.revision > 0
      BY <1>1, <1>2, <1>5, <1>6
    <2>2. \A t, u \in T : t.revision = u.revision => t = u
      BY <1>1, <1>2, <1>3
    <2> QED
      BY <2>1, <2>2 DEF Numbered
  <1>12. Distinct(T)
    BY <1>1, <1>2 DEF Distinct
  <1> QED
    BY <1>7, <1>8, <1>9, <1>10, <1>11, <1>12 DEF Ordered

LEMMA ImagesDistinct ==
  ASSUME NEW S, S \subseteq DecisionType, IsFiniteSet(S), Distinct(S)
  PROVE  /\ Distinct({[e EXCEPT !.revision = Rank(e, S)] : e \in S})
         /\ Distinct(Unnumbered(S))
  <1>1. Distinct({[e EXCEPT !.revision = Rank(e, S)] : e \in S})
    BY RanksOrdered
  <1>2. Distinct(Unnumbered(S))
    BY DEF Distinct, Unnumbered, DecisionType
  <1> QED
    BY <1>1, <1>2

DistinctInv == Distinct(db.decisions) /\ Distinct(saved.decisions)

LEMMA RunDistinct ==
  ASSUME MigrationTypeOK, DistinctInv, Running, Ran
  PROVE  Distinct(db'.decisions)
  <1> DEFINE rows == Statement.rows
             R == Ranked(db, rows)
  <1>1. db.decisions \subseteq DecisionType /\ IsFiniteSet(db.decisions) /\ Distinct(db.decisions)
    BY DEF MigrationTypeOK, WellTyped, DbType, DistinctInv
  <1>2. /\ SameDecisions(db.decisions, R)
    BY <1>1, RankedSame
  <1>3. Distinct(R)
    <2>1. R = IF rows = "rank_decisions"
              THEN {[e EXCEPT !.revision = Rank(e, db.decisions)] : e \in db.decisions}
              ELSE db.decisions
      BY Zenon DEF Ranked
    <2>2. Distinct({[e EXCEPT !.revision = Rank(e, db.decisions)] : e \in db.decisions})
      BY <1>1, ImagesDistinct
    <2> QED
      BY <1>1, <2>1, <2>2, Zenon
  <1>4. db'.decisions \in {{}, R, Unnumbered(R)}
    BY DEF Ran, EffectFacts, Columns
  <1> HIDE DEF R
  <1>5. Distinct(Unnumbered(R))
    BY <1>2, <1>3, ImagesDistinct DEF SameDecisions
  <1>6. Distinct({})
    BY DEF Distinct
  <1> QED
    BY <1>3, <1>4, <1>5, <1>6, Zenon

LEMMA DistinctStep ==
  MigrationTypeOK /\ DistinctInv /\ [MigrationNext]_migrationVars => DistinctInv'
  <1> SUFFICES ASSUME MigrationTypeOK, DistinctInv, Step PROVE DistinctInv'
    BY Steps
  <1>1. CASE Running /\ Ran
    <2>1. saved' = db' \/ saved' = saved
      BY <1>1 DEF Ran
    <2> QED
      BY <1>1, <2>1, RunDistinct DEF DistinctInv
  <1>2. CASE Stamped
    BY <1>2 DEF Stamped, DistinctInv
  <1>3. CASE Served
    <2>1. ASSUME NEW id \in Ids, NEW at \in Times, Decide(id, at) PROVE Distinct(db'.decisions)
      <3> DEFINE new == [id |-> id, at |-> at,
                         revision |-> IF db.version >= 5 THEN db.candidate + 1 ELSE 0]
      <3>1. db'.decisions = db.decisions \cup {new}
        BY <2>1 DEF Decide, MigrationTypeOK, WellTyped, DbType
      <3>2. new.id = id /\ id \notin {d.id : d \in db.decisions}
        BY <2>1 DEF Decide
      <3> HIDE DEF new
      <3> QED
        BY <3>1, <3>2 DEF Distinct, DistinctInv
    <2>2. ASSUME NEW note \in {"blank", "text"}, Resolve(note) PROVE db'.decisions = db.decisions
      BY <2>2, ResolveIs DEF Resolving
    <2> QED
      BY <1>3, <2>1, <2>2 DEF Served, DistinctInv
  <1>4. CASE Paused \/ Begun \/ Finished \/ Abandoned
    BY <1>4 DEF Paused, Begun, Finished, Abandoned, DistinctInv
  <1>5. CASE Rested
    BY <1>5 DEF Rested, migrationVars, DistinctInv
  <1> QED
    BY <1>1, <1>2, <1>3, <1>4, <1>5 DEF Step

\* The statement of 0005 that is to be run.
LEMMA Statement5 ==
  ASSUME Running, Current = 5
  PROVE  IF Up THEN /\ At5Up(dialect, Statement, job.done + 1, First5(dialect, TRUE),
                             Last5(dialect, TRUE))
                    /\ Len(job.plan) = Last5(dialect, TRUE)
               ELSE /\ At5Down(dialect, Statement, job.done + 1, First5(dialect, FALSE),
                               Last5(dialect, FALSE))
                    /\ Len(job.plan) = Last5(dialect, FALSE)
  <1>1. /\ Planned(dialect, Up, Current, job.plan) /\ Statement = job.plan[job.done + 1]
        /\ job.done + 1 \in 1..Len(job.plan)
    BY DEF Running
  <1>2. CASE Up
    <2>1. Plan5Up(dialect, job.plan)
      BY <1>1, <1>2 DEF Planned
    <2>2. /\ Len(job.plan) = Last5(dialect, TRUE)
          /\ Where5Up(dialect, job.plan, First5(dialect, TRUE), Last5(dialect, TRUE))
      BY <2>1, Fields5Up, Zenon
    <2>3. At5Up(dialect, job.plan[job.done + 1], job.done + 1, First5(dialect, TRUE),
                Last5(dialect, TRUE))
      BY <1>1, <2>2, Zenon DEF Where5Up
    <2> QED
      BY <1>1, <1>2, <2>2, <2>3, Zenon
  <1>3. CASE ~Up
    <2>1. Plan5Down(dialect, job.plan)
      BY <1>1, <1>3 DEF Planned
    <2>2. /\ Len(job.plan) = Last5(dialect, FALSE)
          /\ Where5Down(dialect, job.plan, First5(dialect, FALSE), Last5(dialect, FALSE))
      BY <2>1, Fields5Down, Zenon
    <2>3. At5Down(dialect, job.plan[job.done + 1], job.done + 1, First5(dialect, FALSE),
                  Last5(dialect, FALSE))
      BY <1>1, <2>2, Zenon DEF Where5Down
    <2> QED
      BY <1>1, <1>3, <2>2, <2>3, Zenon
  <1> QED
    BY <1>2, <1>3

\* Where a statement changes rows.
LEMMA RowsChanged ==
  ASSUME Running
  PROVE  /\ Statement.rows = "keep_history" => Current = 6 /\ ~Up /\ job.done = 0
         /\ Statement.rows = "rank_decisions" => Current = 5 /\ Up /\ job.done = 2
         /\ Statement.rows = "count_decisions" => Current = 5 /\ Up /\ job.done = 3
         /\ Statement.rows = "revise_records" =>
                Current = 6 /\ Up /\ job.done = End6(dialect, TRUE) + 2
         /\ Current = 5 /\ Up /\ job.done = 2 => Statement.rows = "rank_decisions"
         /\ Current = 5 /\ Up /\ job.done = 3 => Statement.rows = "count_decisions"
         /\ Current = 6 /\ Up /\ job.done = End6(dialect, TRUE) + 1 => Statement.rows = "import_note"
         /\ Current = 6 /\ Up /\ job.done = End6(dialect, TRUE) + 2 => Statement.rows = "revise_records"
  <1>1. job.done \in Nat /\ (Current \notin {5, 6} => Statement.rows \in {"unchanged", "copied"})
    BY DEF Running, Shape
  <1>2. CASE Current \notin {5, 6}
    BY <1>1, <1>2
  <1>3. CASE Current = 5 /\ Up
    <2> DEFINE k == job.done + 1
    <2>1. /\ k = 3 => Statement.rows = "rank_decisions"
          /\ k = 4 => Statement.rows = "count_decisions"
          /\ k \notin 3..4 => Statement.rows \in {"unchanged", "copied"}
      BY <1>3, Statement5, Zenon DEF At5Up
    <2> QED
      BY <1>1, <1>3, <2>1
  <1>4. CASE Current = 5 /\ ~Up
    <2>1. Statement.rows \in {"unchanged", "copied"}
      BY <1>4, Statement5, Zenon DEF At5Down
    <2> QED
      BY <1>4, <2>1
  <1>5. CASE Current = 6 /\ Up
    <2> DEFINE a == End6(dialect, TRUE)
               k == job.done + 1
    <2>1. /\ k = a + 2 => Statement.rows = "import_note"
          /\ k = a + 3 => Statement.rows = "revise_records"
          /\ k \notin (a + 2)..(a + 3) => Statement.rows \in {"unchanged", "copied"}
      BY <1>5, Statement6, Zenon DEF At6Up
    <2>2. a \in Nat
      BY DEF End6
    <2> HIDE DEF a
    <2>3. /\ job.done = a + 1 => Statement.rows = "import_note"
          /\ job.done = a + 2 => Statement.rows = "revise_records"
          /\ Statement.rows = "revise_records" => job.done = a + 2
          /\ Statement.rows # "keep_history" /\ Statement.rows # "rank_decisions"
          /\ Statement.rows # "count_decisions"
      BY <1>1, <2>1, <2>2
    <2>4. Current # 5
      BY <1>5
    <2> QED
      BY <1>5, <2>3, <2>4, Zenon DEF a
  <1>6. CASE Current = 6 /\ ~Up
    <2> DEFINE k == job.done + 1
    <2>1. /\ k = 1 => Statement.rows = "keep_history"
          /\ k # 1 => Statement.rows \in {"unchanged", "copied"}
      BY <1>6, Statement6, Zenon DEF At6Down
    <2>2. /\ Statement.rows = "keep_history" => job.done = 0
          /\ Statement.rows # "rank_decisions" /\ Statement.rows # "count_decisions"
          /\ Statement.rows # "revise_records"
      BY <1>1, <2>1
    <2>3. Current # 5
      BY <1>6
    <2> QED
      BY <1>6, <2>2, <2>3, Zenon
  <1> QED
    BY <1>2, <1>3, <1>4, <1>5, <1>6

LEMMA PartsStay ==
  ASSUME Running, Ran, NEW p \in ModelParts, p \in db.parts,
         Up \/ (Current # 1 /\ p \notin PartsAt(Current))
  PROVE  p \in db'.parts
  <1>1. /\ db'.parts = {q \in db.parts : q[1] \notin Statement.drop /\ q \notin Statement.lose}
                       \cup Statement.gain
        /\ Shape(dialect, Up, Current, Statement)
    BY DEF Running, Ran, EffectFacts
  <1>2. p \notin Statement.lose /\ p[1] \notin Statement.drop
    <2>1. /\ Up => Statement.lose = {}
          /\ ~Up => Statement.lose \subseteq PartsAt(Current)
          /\ Up \/ Current # 1 => \A q \in ModelParts : q[1] \notin Statement.drop
      BY <1>1, Zenon DEF Shape
    <2> QED
      BY <2>1
  <1> QED
    BY <1>1, <1>2

\* The revisions of 0005 and 0006 are not of the baseline, nor of each other.
LEMMA RevisionParts ==
  /\ DecisionRevision \in ModelParts /\ CandidateRevision \in ModelParts
  /\ RecordRevision \in ModelParts /\ DecisionRevision[1] = "match_decisions"
  /\ DecisionRevision \notin PartsAt(6) /\ CandidateRevision \notin PartsAt(6)
  <1>1. /\ ModelParts = BaselineParts \cup DecisionParts \cup CandidateParts \cup RecordParts
        /\ \A p \in DecisionParts : p[1] = "match_decisions"
        /\ RecordParts \cap (DecisionParts \cup CandidateParts) = {}
    BY PartsAre, Zenon DEF PartFacts
  <1>2. /\ DecisionRevision \in DecisionParts /\ CandidateRevision \in CandidateParts
        /\ RecordRevision \in RecordParts
    BY DEF DecisionParts, CandidateParts, RecordParts
  <1>3. PartsAt(6) = RecordParts
    BY DEF PartsAt
  <1> QED
    BY <1>1, <1>2, <1>3

Good5(d) ==
    /\ CandidateRevision \in d.parts /\ DecisionRevision \in d.parts
    /\ Ordered(d.decisions) /\ d.candidate = Cardinality(d.decisions)

\* After the given number of statements of the upgrade.
Early5(d, done) ==
    /\ done >= 1 => CandidateRevision \in d.parts
    /\ done >= 2 => DecisionRevision \in d.parts
    /\ done >= 3 => Ordered(d.decisions) /\ Numbered(d.decisions)
    /\ done >= 4 => d.candidate = Cardinality(d.decisions)

DecisionInv ==
    torn = {} =>
        /\ job.pc # "running" /\ db.version >= 5 => Good5(db)
        /\ job.pc = "running" /\ Current = 6 => Good5(db)
        /\ job.pc = "running" /\ Current = 5 /\ Up => Early5(db, job.done)
        /\ ~job.began /\ saved.version >= 5 => Good5(saved)

LEMMA RunGood5 ==
  ASSUME Running, Ran, Held(db'), Current = 6, Good5(db)
  PROVE  Good5(db')
  <1>1. CandidateRevision \in db'.parts /\ DecisionRevision \in db'.parts
    <2>1. Current # 1 /\ PartsAt(Current) = PartsAt(6)
      OBVIOUS
    <2> QED
      BY <2>1, PartsStay, RevisionParts, Zenon DEF Good5
  <1>2. "match_decisions" \in Names(db')
    BY <1>1, RevisionParts DEF Held
  <1>3. Columns(db, db', Statement.rows)
    BY DEF Ran, EffectFacts
  <1>4. Statement.rows # "rank_decisions" /\ Statement.rows # "count_decisions"
    BY RowsChanged
  <1>5. db'.decisions = db.decisions /\ db'.candidate = db.candidate
    BY <1>1, <1>2, <1>3, <1>4 DEF Columns, Ranked, Counted
  <1> QED
    BY <1>1, <1>5 DEF Good5

LEMMA RunEarly5 ==
  ASSUME MigrationTypeOK, DistinctInv, Running, Ran, Held(db'), Current = 5, Up,
         Early5(db, job.done)
  PROVE  Early5(db', job.done + 1)
  <1> DEFINE k == job.done + 1
             S == db.decisions
  <1>1. /\ job.done \in Nat /\ Columns(db, db', Statement.rows)
        /\ Statement.gain \subseteq db'.parts
        /\ S \subseteq DecisionType /\ IsFiniteSet(S) /\ Distinct(S)
    BY DEF Running, Ran, EffectFacts, MigrationTypeOK, WellTyped, DbType, DistinctInv
  <1>2. \A p : p \in Statement.gain <=>
            \/ k = 1 /\ p = CandidateRevision
            \/ k = 2 /\ p = DecisionRevision
            \/ k = First5(dialect, TRUE) /\ p \in CandidateKeys
            \/ k = Last5(dialect, TRUE) /\ p \in DecisionKeys
    BY Statement5, Zenon DEF At5Up
  <1>3. k = 1 => CandidateRevision \in db'.parts
    BY <1>1, <1>2
  <1>4. k = 2 => DecisionRevision \in db'.parts
    BY <1>1, <1>2
  <1>5. k >= 1 => CandidateRevision \in db'.parts
    <2>1. CASE job.done >= 1
      <3>1. CandidateRevision \in db.parts
        BY <2>1 DEF Early5
      <3> QED
        BY <3>1, PartsStay, RevisionParts
    <2> QED
      BY <1>1, <1>3, <2>1
  <1>6. k >= 2 => DecisionRevision \in db'.parts
    <2>1. CASE job.done >= 2
      <3>1. DecisionRevision \in db.parts
        BY <2>1 DEF Early5
      <3> QED
        BY <3>1, PartsStay, RevisionParts
    <2> QED
      BY <1>1, <1>4, <2>1
  <1>7. k >= 2 => db'.decisions = Ranked(db, Statement.rows)
    <2>1. k >= 2 => "match_decisions" \in Names(db')
      BY <1>6, RevisionParts DEF Held
    <2> QED
      BY <1>1, <1>6, <2>1 DEF Columns
  <1>8. k >= 3 => Ordered(db'.decisions) /\ Numbered(db'.decisions)
    <2>1. CASE k = 3
      <3>1. Statement.rows = "rank_decisions" /\ k >= 2
        BY <1>1, <2>1, RowsChanged
      <3>2. db'.decisions = {[e EXCEPT !.revision = Rank(e, S)] : e \in S}
        BY <1>7, <3>1 DEF Ranked
      <3> QED
        BY <1>1, <3>2, RanksOrdered, Zenon
    <2>2. CASE job.done >= 3
      <3>1. Statement.rows # "rank_decisions" /\ k >= 2
        BY <1>1, <2>2, RowsChanged
      <3>2. db'.decisions = S
        BY <1>7, <3>1 DEF Ranked
      <3> QED
        BY <2>2, <3>2 DEF Early5
    <2> QED
      BY <1>1, <2>1, <2>2
  <1>9. k >= 4 => db'.candidate = Cardinality(db'.decisions)
    <2> SUFFICES ASSUME job.done >= 3 PROVE db'.candidate = Cardinality(db'.decisions)
      BY <1>1
    <2>1. Statement.rows # "rank_decisions" /\ k >= 2 /\ k >= 1
      BY <1>1, RowsChanged
    <2>2. db'.decisions = S
      BY <1>7, <2>1 DEF Ranked
    <2>3. db'.candidate = Counted(db, Statement.rows)
      BY <1>1, <1>5, <2>1 DEF Columns
    <2>4. CASE job.done = 3
      <3>1. Statement.rows = "count_decisions"
        BY <2>4, RowsChanged
      <3> QED
        BY <2>2, <2>3, <3>1 DEF Counted
    <2>5. CASE job.done >= 4
      <3>1. Statement.rows # "count_decisions"
        BY <1>1, <2>5, RowsChanged
      <3> QED
        BY <2>2, <2>3, <2>5, <3>1 DEF Counted, Early5
    <2> QED
      BY <1>1, <2>4, <2>5
  <1> QED
    BY <1>5, <1>6, <1>8, <1>9 DEF Early5

\* A new decision takes the next number.
LEMMA DecideOrdered ==
  ASSUME NEW S, S \subseteq DecisionType, IsFiniteSet(S), Ordered(S),
         NEW new \in DecisionType, new \notin S, new.revision = Cardinality(S) + 1,
         \A d \in S : d.at <= new.at
  PROVE  Ordered(S \cup {new}) /\ Cardinality(S \cup {new}) = Cardinality(S) + 1
  <1> DEFINE n == Cardinality(S)
             T == S \cup {new}
  <1>1. n \in Nat
    BY FS_CardinalityType
  <1>2. Cardinality(T) = n + 1
    BY FS_AddElement
  <1>3. \A d \in S : d.revision \in 1..n
    BY DEF Ordered
  <1> HIDE DEF n
  <1>4. {d.revision : d \in T} = 1..(n + 1)
    <2>1. {d.revision : d \in T} = {d.revision : d \in S} \cup {n + 1}
      BY DEF n
    <2>2. {d.revision : d \in S} = 1..n
      BY DEF Ordered, n
    <2> QED
      BY <1>1, <2>1, <2>2
  <1>5. ASSUME NEW d \in T, NEW e \in T, d.revision < e.revision PROVE d.at <= e.at
    <2>1. CASE d \in S /\ e \in S
      BY <1>5, <2>1 DEF Ordered
    <2>2. CASE d \in S /\ e = new
      BY <2>2
    <2>3. CASE d = new
      <3>1. e.revision <= n + 1
        BY <1>1, <1>3 DEF n
      <3> QED
        BY <1>1, <1>3, <1>5, <2>3, <3>1 DEF n
    <2> QED
      BY <2>1, <2>2, <2>3
  <1> QED
    BY <1>2, <1>4, <1>5 DEF Ordered, n

LEMMA ServedGood5 ==
  ASSUME MigrationTypeOK, Served, db.version >= 5, Good5(db)
  PROVE  Good5(db')
  <1>1. SameSchema(db, db')
    BY DEF Served
  <1>2. ASSUME NEW id \in Ids, NEW at \in Times, Decide(id, at) PROVE Good5(db')
    <2> DEFINE new == [id |-> id, at |-> at, revision |-> db.candidate + 1]
               S == db.decisions
    <2>1. /\ S \subseteq DecisionType /\ IsFiniteSet(S) /\ db.candidate \in Nat
          /\ Ordered(S) /\ db.candidate = Cardinality(S)
      BY DEF MigrationTypeOK, WellTyped, DbType, Good5
    <2>2. db'.decisions = S \cup {new} /\ db'.candidate = db.candidate + 1
      BY <1>2 DEF Decide, MigrationTypeOK, WellTyped, DbType
    <2>3. id \notin {d.id : d \in S} /\ \A t \in LastTime : t <= at
      BY <1>2 DEF Decide
    <2>4. new \in DecisionType /\ new.id = id /\ new.at = at /\ new.revision = db.candidate + 1
      BY <2>1 DEF DecisionType
    <2> HIDE DEF new
    <2>5. new \notin S /\ \A d \in S : d.at <= new.at
      BY <2>3, <2>4 DEF LastTime
    <2>6. Ordered(S \cup {new}) /\ Cardinality(S \cup {new}) = Cardinality(S) + 1
      BY <2>1, <2>4, <2>5, DecideOrdered
    <2> QED
      BY <1>1, <2>1, <2>2, <2>6 DEF Good5, SameSchema
  <1>3. ASSUME NEW note \in {"blank", "text"}, Resolve(note) PROVE Good5(db')
    <2>1. Resolving(note)
      BY <1>3, ResolveIs
    <2> QED
      BY <2>1 DEF Resolving, Good5
  <1> QED
    BY <1>2, <1>3 DEF Served

LEMMA DecisionStep ==
  /\ MigrationTypeOK /\ SavedInv /\ TablesInv /\ TablesInv' /\ DistinctInv /\ DecisionInv
  /\ [MigrationNext]_migrationVars
  => DecisionInv'
  <1> SUFFICES ASSUME MigrationTypeOK, SavedInv, TablesInv, TablesInv', DistinctInv, DecisionInv,
                      Step, torn' = {}
               PROVE  DecisionInv'
    BY Steps DEF DecisionInv
  <1>1. job.pc # "running" => ~job.began
    BY DEF MigrationTypeOK, JobInv, Stopped
  <1>2. CASE Paused
    BY <1>1, <1>2 DEF Paused, DecisionInv
  <1>3. CASE Begun
    <2>1. /\ UNCHANGED <<dialect, db, saved, torn>> /\ ~job.began
          /\ job.pc = "between" /\ job'.done = 0 /\ Current' = Current /\ Up' = Up
          /\ job'.pc = "running" /\ Current = IF Up THEN db.version + 1 ELSE db.version
      BY <1>3 DEF Begun
    <2>2. Current = 6 => db.version >= 5
      BY <2>1 DEF MigrationTypeOK, WellTyped, DbType
    <2>3. Early5(db, 0)
      BY DEF Early5
    <2>4. Current = 6 => Good5(db)
      BY <2>1, <2>2 DEF DecisionInv
    <2>5. saved.version >= 5 => Good5(saved)
      BY <2>1 DEF DecisionInv
    <2> QED
      BY <2>1, <2>3, <2>4, <2>5 DEF DecisionInv
  <1>4. CASE Running /\ Ran
    <2>1. /\ job.pc = "running" /\ job'.pc = "running" /\ Current' = Current /\ Up' = Up
          /\ torn' = torn /\ job'.done = job.done + 1
          /\ (~job'.began => ~job.began /\ saved' = saved)
      BY <1>4 DEF Running, Ran
    <2>2. Held(db')
      BY DEF TablesInv
    <2>3. Current = 6 => Good5(db')
      BY <1>4, <2>1, <2>2, RunGood5 DEF DecisionInv
    <2>4. Current = 5 /\ Up => Early5(db', job'.done)
      BY <1>4, <2>1, <2>2, RunEarly5 DEF DecisionInv
    <2>5. ~job'.began /\ saved'.version >= 5 => Good5(saved')
      BY <2>1 DEF DecisionInv
    <2> QED
      BY <2>1, <2>3, <2>4, <2>5 DEF DecisionInv
  <1>5. CASE Stamped
    <2>1. /\ job.pc = "running" /\ job.done = Len(job.plan) /\ torn' = torn
          /\ Current \in 1..Head6 /\ Planned(dialect, Up, Current, job.plan)
          /\ db'.version = (IF Up THEN Current ELSE Current - 1)
          /\ db'.parts = db.parts /\ db'.decisions = db.decisions /\ db'.candidate = db.candidate
          /\ saved' = (IF dialect = "sqlite" THEN db' ELSE saved)
          /\ job'.pc = "between"
      BY <1>5 DEF Stamped
    <2>2. db'.version >= 5 => Good5(db)
      <3>1. CASE Current = 6
        BY <2>1, <3>1 DEF DecisionInv
      <3>2. CASE Current = 5 /\ Up
        <4>1. Plan5Up(dialect, job.plan)
          BY <2>1, <3>2 DEF Planned
        <4>2. Len(job.plan) = Last5(dialect, TRUE)
          BY <4>1, Fields5Up, Zenon
        <4>3. job.done >= 4 /\ job.done >= 1 /\ job.done >= 2 /\ job.done >= 3
          BY <2>1, <4>2 DEF Last5
        <4>4. Early5(db, job.done)
          BY <2>1, <3>2 DEF DecisionInv
        <4> QED
          BY <4>3, <4>4 DEF Early5, Good5
      <3>3. CASE Current # 6 /\ ~(Current = 5 /\ Up)
        BY <2>1, <3>3 DEF Head6
      <3> QED
        BY <3>1, <3>2, <3>3
    <2>3. db'.version >= 5 => Good5(db')
      BY <2>1, <2>2 DEF Good5
    <2>4. saved'.version >= 5 => Good5(saved')
      BY <2>1, <2>3 DEF DecisionInv, SavedInv
    <2> QED
      BY <2>1, <2>3, <2>4 DEF DecisionInv
  <1>6. CASE Finished
    <2>1. /\ job.pc = "between" /\ job.target = db.version /\ job'.pc = "idle"
          /\ saved' = db /\ db' = db /\ torn' = (IF db.tables = {} THEN {} ELSE torn)
      BY <1>6 DEF Finished
    <2>2. db.version >= 5 => db.tables # {}
      BY <2>1 DEF TablesInv, MigrationTypeOK, WellTyped, DbType
    <2>3. db.version >= 5 => Good5(db)
      BY <2>1, <2>2 DEF DecisionInv
    <2> QED
      BY <2>1, <2>3 DEF DecisionInv
  <1>7. CASE Abandoned
    <2>1. /\ job'.pc = "idle" /\ db' = saved /\ saved' = saved /\ torn = {} /\ ~job.began
      BY <1>7 DEF Abandoned
    <2> QED
      BY <2>1 DEF DecisionInv
  <1>8. CASE Served
    <2>1. /\ job' = job /\ job.pc = "idle" /\ saved' = db' /\ torn = {} /\ db'.version = db.version
      BY <1>8 DEF Served, SameSchema
    <2>2. db.version >= 5 => Good5(db')
      BY <1>8, <2>1, ServedGood5 DEF DecisionInv
    <2> QED
      BY <2>1, <2>2 DEF DecisionInv
  <1>9. CASE Rested
    BY <1>9 DEF Rested, migrationVars, DecisionInv, Up, Current
  <1> QED
    BY <1>2, <1>3, <1>4, <1>5, <1>6, <1>7, <1>8, <1>9 DEF Step

Good6(d) ==
    /\ RecordRevision \in d.parts /\ Resolution \in Names(d)
    /\ IsFiniteSet(d.resolutions) /\ Cardinality(d.resolutions) = d.record
    /\ {r.revision : r \in d.resolutions} = 1..d.record
    /\ \A r \in d.resolutions : r.imported => r.revision = 1
    /\ d.record = 0 => d.note # "text"

\* After the given number of statements of the upgrade, whose batch ends at a.
Early6(d, done, a) ==
    /\ done >= a => RecordRevision \in d.parts
    /\ done >= a + 1 => Resolution \in Names(d)
    /\ done < a + 3 => d.record = 0
    /\ done >= a + 2 => d.resolutions = Imported(d.note)
    /\ done >= a + 3 => Good6(d)

ResolutionInv ==
    torn = {} =>
        /\ job.pc # "running" /\ db.version = 6 => Good6(db)
        /\ job.pc = "running" /\ Current = 6 /\ Up => Early6(db, job.done, End6(dialect, TRUE))
        /\ ~job.began /\ saved.version = 6 => Good6(saved)

LEMMA ImportedGood ==
  ASSUME NEW d, RecordRevision \in d.parts, Resolution \in Names(d), d.resolutions = Imported(d.note),
         d.record = IF d.resolutions = {} THEN 0 ELSE 1
  PROVE  Good6(d)
  <1> DEFINE r == [revision |-> 1, imported |-> TRUE]
  <1>1. CASE d.note = "text"
    <2>1. d.resolutions = {r} /\ d.record = 1
      BY <1>1 DEF Imported
    <2>2. r.revision = 1
      OBVIOUS
    <2> HIDE DEF r
    <2>3. IsFiniteSet({r}) /\ Cardinality({r}) = 1
      BY FS_Singleton
    <2> QED
      BY <2>1, <2>2, <2>3 DEF Good6
  <1>2. CASE d.note # "text"
    <2>1. d.resolutions = {} /\ d.record = 0
      BY <1>2 DEF Imported
    <2>2. IsFiniteSet({}) /\ Cardinality({}) = 0
      BY FS_EmptySet
    <2> QED
      BY <1>2, <2>1, <2>2 DEF Good6
  <1> QED
    BY <1>1, <1>2

\* The upgrade of 0006 creates the table of the resolutions, and keeps it.
LEMMA ResolutionStays ==
  ASSUME Running, Ran, Current = 6, Up,
         Resolution \in Names(db) \/ job.done = End6(dialect, TRUE)
  PROVE  Resolution \in Names(db')
  <1> DEFINE k == job.done + 1
             a == End6(dialect, TRUE)
             c == TempOf("quarantine_records").name
  <1>1. At6Up(dialect, Statement, k, a)
    BY Statement6
  <1>2. \A x : x \in Statement.drop <=> (dialect = "sqlite" /\ k = a /\ x = c)
    BY <1>1, Zenon DEF At6Up
  <1>3. k = a + 1 => ResolutionTable \in Statement.add
    BY <1>1, Zenon DEF At6Up
  <1>4. c # Resolution /\ ResolutionTable.name = Resolution
    BY TempsAre, ResolutionsIs DEF Resolution
  <1>5. db'.tables = {t \in db.tables : t.name \notin Statement.drop} \cup Statement.add
    BY DEF Ran, EffectFacts
  <1>6. job.done = End6(dialect, TRUE) => k = a + 1
    OBVIOUS
  <1> HIDE DEF k, a, c
  <1>7. Resolution \notin Statement.drop
    BY <1>2, <1>4
  <1>8. CASE Resolution \in Names(db)
    BY <1>5, <1>7, <1>8 DEF Names
  <1>9. CASE job.done = End6(dialect, TRUE)
    BY <1>3, <1>4, <1>5, <1>6, <1>9 DEF Names
  <1> QED
    BY <1>8, <1>9

LEMMA RunEarly6 ==
  ASSUME Running, Ran, RunResolution, Current = 6, Up, Early6(db, job.done, End6(dialect, TRUE))
  PROVE  Early6(db', job.done + 1, End6(dialect, TRUE))
  <1> DEFINE a == End6(dialect, TRUE)
             k == job.done + 1
  <1>1. /\ job.done \in Nat /\ job.done < Len(job.plan) /\ Columns(db, db', Statement.rows)
        /\ Statement.gain \subseteq db'.parts
    BY DEF Running, Ran, EffectFacts
  <1>2. Len(job.plan) = a + 3 /\ At6Up(dialect, Statement, k, a)
    BY Statement6
  <1>3. k = a => RecordRevision \in Statement.gain
    <2>1. RecordRevision \in RecordParts
      BY DEF RecordParts
    <2> QED
      BY <1>2, <2>1, Zenon DEF At6Up
  <1>4. /\ db'.note = db.note
        /\ job.done # a + 1 => db'.resolutions = db.resolutions
    BY DEF RunResolution
  <1>5. /\ Statement.rows = "revise_records" => job.done = a + 2
        /\ job.done = a + 1 => Statement.rows = "import_note"
        /\ job.done = a + 2 => Statement.rows = "revise_records"
    BY RowsChanged
  <1>6. /\ job.done >= a => RecordRevision \in db.parts
        /\ job.done >= a + 1 => Resolution \in Names(db)
        /\ job.done < a + 3 => db.record = 0
        /\ job.done >= a + 2 => db.resolutions = Imported(db.note)
    BY DEF Early6
  <1>7. a \in Nat
    BY DEF End6
  <1>8. Resolution \in Names(db) \/ job.done = a => Resolution \in Names(db')
    BY ResolutionStays
  <1>9. /\ db'.record = IF RecordRevision \in db'.parts THEN Revised(db, Statement.rows) ELSE 0
        /\ Resolution \in Names(db') => db'.resolutions = Resolved6(db, Statement.rows)
    BY <1>1 DEF Columns, Resolution
  <1>10. RecordRevision \in db.parts => RecordRevision \in db'.parts
    BY PartsStay, RevisionParts
  <1> HIDE DEF a
  <1>11. k >= a => RecordRevision \in db'.parts
    BY <1>1, <1>3, <1>6, <1>7, <1>10
  <1>12. k >= a + 1 => Resolution \in Names(db')
    BY <1>1, <1>6, <1>7, <1>8
  <1>13. k < a + 3 => db'.record = 0
    <2>1. k < a + 3 => Statement.rows # "revise_records" /\ db.record = 0
      BY <1>1, <1>5, <1>6, <1>7
    <2> QED
      BY <1>9, <2>1 DEF Revised
  <1>14. k >= a + 2 => db'.resolutions = Imported(db'.note)
    <2>1. CASE job.done = a + 1
      <3>1. Resolution \in Names(db')
        BY <1>1, <1>7, <1>12, <2>1
      <3> QED
        BY <1>4, <1>5, <1>9, <2>1, <3>1 DEF Resolved6
    <2>2. CASE job.done >= a + 2
      <3>1. job.done # a + 1
        BY <1>1, <1>7, <2>2
      <3> QED
        BY <1>4, <1>6, <2>2, <3>1
    <2> QED
      BY <1>1, <1>7, <2>1, <2>2
  <1>15. k >= a + 3 => Good6(db')
    <2> SUFFICES ASSUME k >= a + 3 PROVE Good6(db')
      OBVIOUS
    <2>1. job.done = a + 2 /\ job.done # a + 1 /\ job.done >= a + 2 /\ job.done < a + 3
          /\ k >= a /\ k >= a + 1 /\ k >= a + 2
      BY <1>1, <1>2, <1>7
    <2>2. db'.record = Revised(db, "revise_records") /\ db.record = 0
      BY <1>5, <1>6, <1>9, <1>11, <2>1
    <2>3. db'.resolutions = db.resolutions
      BY <1>4, <2>1
    <2>4. db'.record = IF db'.resolutions = {} THEN 0 ELSE 1
      BY <2>2, <2>3 DEF Revised
    <2> QED
      BY <1>11, <1>12, <1>14, <2>1, <2>4, ImportedGood
  <1> QED
    BY <1>11, <1>12, <1>13, <1>14, <1>15, Zenon DEF Early6, a

LEMMA ServedGood6 ==
  ASSUME MigrationTypeOK, Served, db.version = 6, Good6(db)
  PROVE  Good6(db')
  <1>1. SameSchema(db, db')
    BY DEF Served
  <1>2. ASSUME NEW id \in Ids, NEW at \in Times, Decide(id, at) PROVE Good6(db')
    <2>1. db'.record = db.record /\ db'.resolutions = db.resolutions /\ db'.note = db.note
      BY <1>2 DEF Decide, MigrationTypeOK, WellTyped, DbType
    <2> QED
      BY <1>1, <2>1 DEF Good6, SameSchema
  <1>3. ASSUME NEW note \in {"blank", "text"}, Resolve(note) PROVE Good6(db')
    <2> DEFINE new == [revision |-> db.record + 1, imported |-> FALSE]
               n == db.record
               R == db.resolutions
    <2>1. Resolving(note)
      BY <1>3, ResolveIs
    <2>2. db'.record = n + 1 /\ db'.resolutions = R \cup {new}
      BY <2>1 DEF Resolving, Head6
    <2>3. new.revision = n + 1 /\ ~new.imported
      OBVIOUS
    <2>4. n \in Nat
      BY DEF MigrationTypeOK, WellTyped, DbType
    <2>5. /\ IsFiniteSet(R) /\ Cardinality(R) = n /\ {r.revision : r \in R} = 1..n
          /\ \A r \in R : r.imported => r.revision = 1
      BY DEF Good6
    <2> HIDE DEF new, n, R
    <2>6. new \notin R
      <3>1. \A r \in R : r.revision \in 1..n
        BY <2>5
      <3> QED
        BY <2>3, <2>4, <3>1
    <2>7. IsFiniteSet(R \cup {new}) /\ Cardinality(R \cup {new}) = n + 1
      BY <2>5, <2>6, FS_AddElement
    <2>8. {r.revision : r \in R \cup {new}} = 1..(n + 1)
      <3>1. {r.revision : r \in R \cup {new}} = {r.revision : r \in R} \cup {n + 1}
        BY <2>3
      <3> QED
        BY <2>4, <2>5, <3>1
    <2>9. n + 1 # 0
      BY <2>4
    <2>10. \A r \in R \cup {new} : r.imported => r.revision = 1
      BY <2>3, <2>5
    <2>11. RecordRevision \in db'.parts /\ Resolution \in Names(db')
      BY <1>1 DEF SameSchema, Good6
    <2> QED
      BY <2>2, <2>7, <2>8, <2>9, <2>10, <2>11 DEF Good6
  <1> QED
    BY <1>2, <1>3 DEF Served

LEMMA ResolutionStep ==
  /\ MigrationTypeOK /\ SavedInv /\ TablesInv /\ SchemaInv /\ EarlyInv /\ EarlyInv'
  /\ NormalInv /\ SurvivalInv /\ ResolutionInv /\ [MigrationNext]_migrationVars
  => ResolutionInv'
  <1> SUFFICES ASSUME MigrationTypeOK, SavedInv, TablesInv, SchemaInv, EarlyInv, EarlyInv',
                      NormalInv, SurvivalInv, ResolutionInv, Step, torn' = {}
               PROVE  ResolutionInv'
    BY Steps DEF ResolutionInv
  <1>1. job.pc # "running" => ~job.began
    BY DEF MigrationTypeOK, JobInv, Stopped
  <1>2. CASE Paused
    BY <1>1, <1>2 DEF Paused, ResolutionInv
  <1>3. CASE Begun
    <2>1. /\ UNCHANGED <<dialect, db, saved, torn>> /\ ~job.began
          /\ job.pc = "between" /\ job'.done = 0 /\ Current' = Current /\ Up' = Up
          /\ job'.pc = "running" /\ Current = IF Up THEN db.version + 1 ELSE db.version
      BY <1>3 DEF Begun
    <2>2. Current = 6 /\ Up => db.record = 0
      <3> SUFFICES ASSUME Current = 6, Up PROVE db.record = 0
        OBVIOUS
      <3>1. db.version = 5
        BY <2>1 DEF MigrationTypeOK, WellTyped, DbType
      <3>2. SchemaAt(5, dialect, db)
        BY <2>1, <3>1 DEF SchemaInv
      <3>3. 5 \in 4..6
        OBVIOUS
      <3>4. db.parts = HighP(5)
        BY <3>2, <3>3, CompleteAt, Zenon
      <3>5. db.parts = BaselineParts \cup DecisionParts \cup CandidateParts
        BY <3>3, <3>4, FullAt
      <3>6. /\ BaselineParts \cap (DecisionParts \cup CandidateParts \cup RecordParts) = {}
            /\ RecordParts \cap (DecisionParts \cup CandidateParts) = {}
        BY PartsAre, Zenon DEF PartFacts
      <3>7. RecordRevision \in RecordParts
        BY DEF RecordParts
      <3>8. RecordRevision \notin db.parts
        BY <3>5, <3>6, <3>7
      <3> QED
        BY <3>8 DEF NormalInv, Normal
    <2>3. Current = 6 /\ Up => Early6(db, 0, End6(dialect, TRUE))
      <3>1. /\ ~(0 >= End6(dialect, TRUE)) /\ ~(0 >= End6(dialect, TRUE) + 1)
            /\ ~(0 >= End6(dialect, TRUE) + 2) /\ ~(0 >= End6(dialect, TRUE) + 3)
        BY DEF End6
      <3> QED
        BY <2>2, <3>1, Zenon DEF Early6
    <2>4. saved.version = 6 => Good6(saved)
      BY <2>1 DEF ResolutionInv
    <2> QED
      BY <2>1, <2>3, <2>4 DEF ResolutionInv
  <1>4. CASE Running /\ Ran
    <2>1. /\ job.pc = "running" /\ job'.pc = "running" /\ Current' = Current /\ Up' = Up
          /\ torn' = torn /\ job'.done = job.done + 1 /\ dialect' = dialect
          /\ (~job'.began => ~job.began /\ saved' = saved)
      BY <1>4 DEF Running, Ran
    <2>2. RunResolution
      BY <1>4, RunResolves
    <2>3. Current = 6 /\ Up => Early6(db', job'.done, End6(dialect, TRUE))
      BY <1>4, <2>1, <2>2, RunEarly6 DEF ResolutionInv
    <2>4. ~job'.began /\ saved'.version = 6 => Good6(saved')
      BY <2>1 DEF ResolutionInv
    <2> QED
      BY <2>1, <2>3, <2>4 DEF ResolutionInv
  <1>5. CASE Stamped
    <2>1. /\ job.pc = "running" /\ job.done = Len(job.plan) /\ torn' = torn
          /\ Current \in 1..Head6 /\ Planned(dialect, Up, Current, job.plan)
          /\ db'.version = (IF Up THEN Current ELSE Current - 1) /\ Names(db') = Names(db)
          /\ db'.parts = db.parts /\ db'.note = db.note /\ db'.record = db.record
          /\ db'.resolutions = db.resolutions
          /\ saved' = (IF dialect = "sqlite" THEN db' ELSE saved)
          /\ job'.pc = "between"
      BY <1>5 DEF Stamped
    <2>2. db'.version = 6 => Good6(db)
      <3> SUFFICES ASSUME db'.version = 6 PROVE Good6(db)
        OBVIOUS
      <3>1. Current = 6 /\ Up
        BY <2>1 DEF Head6
      <3>2. Plan6Up(dialect, job.plan)
        BY <2>1, <3>1 DEF Planned
      <3>3. Len(job.plan) = End6(dialect, TRUE) + 3
        BY <3>2, Fields6Up, Zenon
      <3>4. job.done >= End6(dialect, TRUE) + 3
        BY <2>1, <3>3 DEF End6
      <3>5. Early6(db, job.done, End6(dialect, TRUE))
        BY <2>1, <3>1 DEF ResolutionInv
      <3> QED
        BY <3>4, <3>5, Zenon DEF Early6
    <2>3. db'.version = 6 => Good6(db')
      BY <2>1, <2>2 DEF Good6
    <2>4. saved'.version = 6 => Good6(saved')
      BY <2>1, <2>3 DEF ResolutionInv, SavedInv
    <2> QED
      BY <2>1, <2>3, <2>4 DEF ResolutionInv
  <1>6. CASE Finished
    <2>1. /\ job.pc = "between" /\ job.target = db.version /\ job'.pc = "idle"
          /\ saved' = db /\ db' = db /\ torn' = (IF db.tables = {} THEN {} ELSE torn)
      BY <1>6 DEF Finished
    <2>2. db.version = 6 => db.tables # {}
      BY <2>1 DEF TablesInv
    <2>3. db.version = 6 => Good6(db)
      BY <2>1, <2>2 DEF ResolutionInv
    <2> QED
      BY <2>1, <2>3 DEF ResolutionInv
  <1>7. CASE Abandoned
    <2>1. /\ job'.pc = "idle" /\ db' = saved /\ saved' = saved /\ torn = {} /\ ~job.began
      BY <1>7 DEF Abandoned
    <2> QED
      BY <2>1 DEF ResolutionInv
  <1>8. CASE Served
    <2>1. /\ job' = job /\ job.pc = "idle" /\ saved' = db' /\ torn = {} /\ db'.version = db.version
      BY <1>8 DEF Served, SameSchema
    <2>2. db.version = 6 => Good6(db')
      BY <1>8, <2>1, ServedGood6 DEF ResolutionInv
    <2> QED
      BY <2>1, <2>2 DEF ResolutionInv
  <1>9. CASE Rested
    BY <1>9 DEF Rested, migrationVars, ResolutionInv, Up, Current
  <1> QED
    BY <1>2, <1>3, <1>4, <1>5, <1>6, <1>7, <1>8, <1>9 DEF Step

-----------------------------------------------------------------------------
(* What can fail.                                                          *)

\* A statement that does nothing.
LEMMA NothingDone ==
  ASSUME MigrationTypeOK, NormalInv, Ran, Statement = Nothing
  PROVE  db' = db
  <1>1. WellTyped(db) /\ WellTyped(db') /\ Normal(db) /\ EffectFacts(db, Nothing, db')
    BY DEF MigrationTypeOK, NormalInv, Ran
  <1>2. /\ Nothing.add = {} /\ Nothing.drop = {} /\ Nothing.gain = {} /\ Nothing.lose = {}
        /\ Nothing.rows = "unchanged"
    BY DEF Nothing
  <1>3. db'.version = db.version /\ db'.tables = db.tables /\ db'.parts = db.parts
    BY <1>1, <1>2 DEF EffectFacts
  <1>4. Names(db') = Names(db)
    BY <1>3 DEF Names
  <1>5. Columns(db, db', "unchanged")
    BY <1>1, <1>2 DEF EffectFacts
  <1>6. /\ Ranked(db, "unchanged") = db.decisions /\ Counted(db, "unchanged") = db.candidate
        /\ Revised(db, "unchanged") = db.record /\ Resolved6(db, "unchanged") = db.resolutions
    BY DEF Ranked, Counted, Revised, Resolved6
  <1>7. (\A e \in db.decisions : e.revision = 0) => Unnumbered(db.decisions) = db.decisions
    <2> SUFFICES ASSUME \A e \in db.decisions : e.revision = 0
                 PROVE  Unnumbered(db.decisions) = db.decisions
      OBVIOUS
    <2>1. \A e \in db.decisions : [e EXCEPT !.revision = 0] = e
      BY <1>1 DEF WellTyped, DbType, DecisionType
    <2> QED
      BY <2>1 DEF Unnumbered
  <1>8. db'.decisions = db.decisions
    BY <1>1, <1>3, <1>4, <1>5, <1>6, <1>7 DEF Columns, Normal
  <1>9. /\ db'.candidate = db.candidate /\ db'.note = db.note /\ db'.record = db.record
        /\ db'.resolutions = db.resolutions
    BY <1>1, <1>3, <1>4, <1>5, <1>6 DEF Columns, Normal
  <1>10. Fields(db) /\ Fields(db')
    BY <1>1 DEF WellTyped, DbType, Fields
  <1> QED
    BY <1>3, <1>8, <1>9, <1>10 DEF Fields

\* On SQLite 0002 to 0004 find everything there, unless a migration was
\* interrupted, and have nothing to do on the way down.
QuietInv ==
    job.pc = "running" /\ dialect = "sqlite" /\ Current \in 2..4 =>
        /\ torn = {} => Quiet(job.plan) /\ ~job.began /\ ~job.open
        /\ ~Up => Len(job.plan) = 0

TornInv == torn # {} => torn \cap {1, 5, 6} # {}

LEMMA BeginQuiet ==
  ASSUME MigrationTypeOK, SchemaInv, Begun, dialect = "sqlite", Current \in 2..4
  PROVE  /\ torn = {} => Quiet(job'.plan)
         /\ ~Up => Len(job'.plan) = 0
  <1>1. /\ job.pc = "between" /\ Up \in BOOLEAN
        /\ Current = IF Up THEN db.version + 1 ELSE db.version
        /\ job'.plan = (IF Up THEN Upgrade(Current) ELSE Downgrade(Current))
    BY DEF Begun
  <1>2. ~Up => job'.plan = <<>>
    BY <1>1 DEF Downgrade, DropRunMetadata, DropProcessing, DropOperations
  <1>3. CASE ~Up
    <2>1. Len(<<>>) = 0
      OBVIOUS
    <2> QED
      BY <1>2, <1>3, <2>1 DEF Quiet
  <1>4. CASE Up
    <2> SUFFICES ASSUME torn = {} PROVE Quiet(job'.plan)
      BY <1>4
    <2>1. SchemaAt(db.version, "sqlite", db)
      BY <1>1 DEF SchemaInv
    <2>2. db.version \in 1..4
      BY <1>1, <1>4 DEF MigrationTypeOK, WellTyped, DbType, Head6
    <2>3. db.tables = Range(Baseline) /\ db.parts = BaselineParts
      BY <2>1, <2>2, SqliteSchema
    <2>4. Quiet(AddRunMetadata) /\ Quiet(AddProcessing) /\ Quiet(AddOperations)
      BY <2>3, SqliteQuiet DEF MigrationTypeOK
    <2>5. Upgrade(2) = AddRunMetadata /\ Upgrade(3) = AddProcessing /\ Upgrade(4) = AddOperations
      BY DEF Upgrade
    <2>6. Current = 2 \/ Current = 3 \/ Current = 4
      OBVIOUS
    <2> QED
      BY <1>1, <1>4, <2>4, <2>5, <2>6
  <1> QED
    BY <1>1, <1>3, <1>4

LEMMA QuietStepped ==
  MigrationTypeOK /\ SavedInv /\ SchemaInv /\ NormalInv /\ QuietInv /\ [MigrationNext]_migrationVars
  => QuietInv'
  <1> SUFFICES ASSUME MigrationTypeOK, SavedInv, SchemaInv, NormalInv, QuietInv, Step
               PROVE  QuietInv'
    BY Steps
  <1>1. CASE Begun
    <2>1. /\ Current' = Current /\ Up' = Up /\ dialect' = dialect /\ torn' = torn
          /\ ~job'.began /\ ~job'.open
      BY <1>1 DEF Begun
    <2> QED
      BY <1>1, <2>1, BeginQuiet DEF QuietInv
  <1>2. CASE Running /\ Ran
    <2>1. /\ Current' = Current /\ Up' = Up /\ dialect' = dialect /\ torn' = torn
          /\ job.pc = "running" /\ job'.plan = job.plan
      BY <1>2 DEF Running, Ran
    <2> SUFFICES ASSUME dialect = "sqlite", Current \in 2..4, torn = {}
                 PROVE  ~job'.began /\ ~job'.open
      BY <2>1 DEF QuietInv
    <2>2. Quiet(job.plan) /\ ~job.began /\ ~job.open
      BY <2>1 DEF QuietInv
    <2>3. Statement = Nothing
      BY <1>2, <2>2 DEF Running, Quiet
    <2>4. db' = db
      BY <1>2, <2>3, NothingDone
    <2>5. ~job'.open
      BY <1>2, <2>2, <2>3 DEF Ran, Nothing
    <2>6. saved' = saved
      BY <1>2, <2>2, <2>4 DEF Ran, SavedInv
    <2> QED
      BY <1>2, <2>2, <2>5, <2>6 DEF Ran
  <1>3. CASE Paused \/ Stamped \/ Finished \/ Abandoned
    BY <1>3 DEF Paused, Stamped, Finished, Abandoned, QuietInv
  <1>4. CASE Served
    BY <1>4 DEF Served, QuietInv
  <1>5. CASE Rested
    BY <1>5 DEF Rested, migrationVars, QuietInv, Up, Current
  <1> QED
    BY <1>1, <1>2, <1>3, <1>4, <1>5 DEF Step

LEMMA TornStep ==
  MigrationTypeOK /\ SavedInv /\ QuietInv /\ TornInv /\ [MigrationNext]_migrationVars => TornInv'
  <1> SUFFICES ASSUME MigrationTypeOK, SavedInv, QuietInv, TornInv, Step PROVE TornInv'
    BY Steps
  <1>1. CASE Abandoned
    <2>1. torn' = (IF job.began THEN torn \cup {Current} ELSE torn)
      BY <1>1 DEF Abandoned
    <2>2. CASE ~job.began
      BY <2>1, <2>2 DEF TornInv
    <2>3. CASE job.began
      <3>1. job.pc = "running" /\ job.target # db.version
        BY <2>3 DEF MigrationTypeOK, JobInv, Stopped
      <3>2. Current \in 1..6
        BY <3>1, CurrentIs DEF Head6
      <3>3. dialect = "sqlite"
        BY <2>3 DEF SavedInv
      <3>4. CASE Current \in {1, 5, 6}
        BY <2>1, <2>3, <3>4 DEF TornInv
      <3>5. CASE Current \in 2..4
        <4>1. torn # {}
          BY <2>3, <3>1, <3>3, <3>5 DEF QuietInv
        <4> QED
          BY <2>1, <4>1 DEF TornInv
      <3> QED
        BY <3>2, <3>4, <3>5
    <2> QED
      BY <2>2, <2>3
  <1>2. CASE Finished
    BY <1>2 DEF Finished, TornInv
  <1>3. CASE Paused \/ Begun \/ Ran \/ Stamped \/ Served
    BY <1>3 DEF Paused, Begun, Ran, Stamped, Served, TornInv
  <1>4. CASE Rested
    BY <1>4 DEF Rested, migrationVars, TornInv
  <1> QED
    BY <1>1, <1>2, <1>3, <1>4 DEF Step

LEMMA RunningNow ==
  ASSUME MigrationTypeOK, job.pc = "running", job.done < Len(job.plan)
  PROVE  Running /\ Current \in 1..6
  <1>1. /\ job.done \in Nat /\ job.done + 1 \in 1..Len(job.plan) /\ Len(job.plan) \in Nat
        /\ Statement \in StatementType /\ Shape(dialect, Up, Current, Statement)
    BY StatementIs
  <1>2. Planned(dialect, Up, Current, job.plan) /\ job.target # db.version
    BY DEF MigrationTypeOK, JobInv
  <1>3. Current \in 1..6
    BY <1>2, CurrentIs DEF Head6
  <1> QED
    BY <1>1, <1>2, <1>3 DEF Running, Statement

\* Only 0005 adds the keys of the decisions, and numbers them first.
LEMMA KeysNumbered ==
  ASSUME Running, Current \in 1..6, DecisionKeys \subseteq Statement.gain
  PROVE  Current = 5 /\ Up /\ job.done >= 3
  <1>1. /\ ModelParts = BaselineParts \cup DecisionParts \cup CandidateParts \cup RecordParts
        /\ BaselineParts \cap (DecisionParts \cup CandidateParts \cup RecordParts) = {}
        /\ DecisionParts \cap CandidateParts = {}
        /\ RecordParts \cap (DecisionParts \cup CandidateParts) = {}
        /\ DecisionRevision \notin DecisionKeys /\ DecisionKeys # {}
    BY PartsAre, Zenon DEF PartFacts
  <1>2. PICK p : p \in DecisionKeys
    BY <1>1
  <1>3. /\ p \in Statement.gain /\ p \in DecisionParts
        /\ p \notin BaselineParts /\ p \notin RecordParts /\ p \notin CandidateKeys
        /\ p # CandidateRevision /\ p # DecisionRevision
    BY <1>1, <1>2 DEF DecisionParts, CandidateParts
  <1>4. /\ Up => Statement.gain \subseteq PartsAt(Current)
        /\ ~Up => Statement.gain = {}
    <2>1. Shape(dialect, Up, Current, Statement)
      BY DEF Running
    <2> QED
      BY <2>1, Zenon DEF Shape
  <1>5. Up /\ p \in PartsAt(Current)
    BY <1>3, <1>4
  <1>6. Current = 5
    <2>1. Current \in 1..4 => PartsAt(Current) = BaselineParts
      BY DEF PartsAt
    <2>2. Current = 6 => PartsAt(Current) = RecordParts
      BY DEF PartsAt
    <2>3. ~(Current \in 1..4) /\ Current # 6
      BY <1>3, <1>5, <2>1, <2>2
    <2> QED
      BY <2>3
  <1>7. job.done + 1 = Last5(dialect, TRUE)
    <2> DEFINE k == job.done + 1
    <2>1. p \in Statement.gain <=>
              \/ k = 1 /\ p = CandidateRevision
              \/ k = 2 /\ p = DecisionRevision
              \/ k = First5(dialect, TRUE) /\ p \in CandidateKeys
              \/ k = Last5(dialect, TRUE) /\ p \in DecisionKeys
      BY <1>5, <1>6, Statement5, Zenon DEF At5Up
    <2> HIDE DEF k
    <2>2. k = Last5(dialect, TRUE)
      BY <1>3, <2>1, Zenon
    <2> QED
      BY <2>2 DEF k
  <1>8. job.done \in Nat
    BY DEF Running
  <1>9. job.done >= 3
    <2>1. Last5(dialect, TRUE) \in {6, 8}
      BY DEF Last5
    <2> QED
      <3>1. job.done + 1 = 6 \/ job.done + 1 = 8
        BY <1>7, <2>1, Zenon
      <3> QED
        BY <1>8, <3>1
  <1> QED
    BY <1>5, <1>6, <1>9

LEMMA TwoBelow == \A n \in {3, 4} : 2 \in (0 + 1)..n
  OBVIOUS

\* The downgrade of 0006 starts from a table that is there.
LEMMA HistoryThere ==
  ASSUME Running, Current = 6, ~Up, job.done = 0, Feasible(db, job.plan, job.done)
  PROVE  Resolution \in Names(db)
  <1>1. Plan6Down(dialect, job.plan)
    BY DEF Running, Planned
  <1>2. /\ Len(job.plan) = End6(dialect, FALSE)
        /\ Where6Down(dialect, job.plan, End6(dialect, FALSE))
    BY <1>1, Fields6Down, Zenon
  <1>3. Len(job.plan) \in {3, 4}
    BY <1>2 DEF End6
  <1>4. 1 \in 1..End6(dialect, FALSE) /\ 2 \in 1..End6(dialect, FALSE) /\ 1 # End6(dialect, FALSE) - 1
    BY DEF End6
  <1>5. Resolution \in job.plan[2].drop
    <2>1. At6Down(dialect, job.plan[2], 2, End6(dialect, FALSE))
      BY <1>2, <1>4, Zenon DEF Where6Down
    <2> QED
      BY <2>1, Zenon DEF At6Down, Resolution
  <1>6. job.plan[1].add = {}
    <2>1. At6Down(dialect, job.plan[1], 1, End6(dialect, FALSE))
      BY <1>2, <1>4, Zenon DEF Where6Down
    <2>2. \A t : t \notin job.plan[1].add
      BY <1>4, <2>1, Zenon DEF At6Down
    <2> QED
      BY <2>2
  <1>7. ThereAt(Resolution, db, job.plan, 0, 2)
    <2>1. 2 \in (0 + 1)..Len(job.plan)
      BY <1>3, TwoBelow, Zenon
    <2>2. Feasible(db, job.plan, 0)
      OBVIOUS
    <2> QED
      BY <1>5, <2>1, <2>2 DEF Feasible
  <1>8. (0 + 1)..(2 - 1) = {1}
    OBVIOUS
  <1> QED
    BY <1>6, <1>7, <1>8 DEF ThereAt

-----------------------------------------------------------------------------
(* Together these invariants are inductive.                                *)

MigrationIInv ==
    /\ MigrationTypeOK /\ SavedInv /\ TablesInv /\ SchemaInv /\ EarlyInv /\ BaseInv /\ NormalInv
    /\ RefsInv /\ SurvivalInv /\ DistinctInv /\ DecisionInv /\ ResolutionInv /\ QuietInv /\ TornInv

LEMMA MigrationStarts == MigrationInit => MigrationIInv
  <1> SUFFICES ASSUME MigrationInit PROVE MigrationIInv
    OBVIOUS
  <1>1. MigrationTypeOK
    BY MigrationInitTypes
  <1>2. /\ db.tables = {} /\ db.parts = {} /\ db.version = 0 /\ saved = db
        /\ job.pc = "idle" /\ torn = {} /\ db.decisions = {} /\ db.candidate = 0
        /\ db.note = "none" /\ db.record = 0 /\ db.resolutions = {} /\ ~job.began
    BY DEF MigrationInit, EmptyDb, NoJob
  <1>3. Names(db) = {}
    BY <1>2 DEF Names
  <1>4. SavedInv /\ TablesInv
    BY <1>2, <1>3 DEF SavedInv, TablesInv, Held
  <1>5. SchemaInv
    BY <1>2 DEF SchemaInv, SchemaAt, HighT, HighP, LowT, LowP
  <1>6. EarlyInv /\ BaseInv /\ NormalInv /\ RefsInv /\ SurvivalInv
    BY <1>2, <1>3 DEF EarlyInv, BaseInv, NormalInv, Normal, RefsInv, RefsAt, SurvivalInv, Importing
  <1>7. DistinctInv /\ DecisionInv /\ ResolutionInv /\ QuietInv /\ TornInv
    BY <1>2 DEF DistinctInv, Distinct, DecisionInv, ResolutionInv, QuietInv, TornInv
  <1> QED
    BY <1>1, <1>4, <1>5, <1>6, <1>7 DEF MigrationIInv

LEMMA MigrationInduction == MigrationIInv /\ [MigrationNext]_migrationVars => MigrationIInv'
  <1> SUFFICES ASSUME MigrationIInv, [MigrationNext]_migrationVars PROVE MigrationIInv'
    OBVIOUS
  <1>1. /\ MigrationTypeOK /\ SavedInv /\ TablesInv /\ SchemaInv /\ EarlyInv /\ BaseInv /\ NormalInv
        /\ RefsInv /\ SurvivalInv /\ DistinctInv /\ DecisionInv /\ ResolutionInv /\ QuietInv /\ TornInv
    BY DEF MigrationIInv
  <1>2. MigrationTypeOK' /\ SavedInv' /\ TablesInv' /\ SchemaInv'
    BY <1>1, MigrationTypes, SavedStep, TablesStep, SchemaStep, Zenon
  <1>3. EarlyInv' /\ BaseInv' /\ NormalInv' /\ RefsInv' /\ DistinctInv'
    BY <1>1, EarlyStep, BaseStep, NormalStep, RefsStep, DistinctStep, Zenon
  <1>4. SurvivalInv'
    BY <1>1, <1>3, SurvivalStep, Zenon
  <1>5. DecisionInv'
    BY <1>1, <1>2, DecisionStep, Zenon
  <1>6. ResolutionInv'
    BY <1>1, <1>3, ResolutionStep, Zenon
  <1>7. QuietInv' /\ TornInv'
    BY <1>1, QuietStepped, TornStep, Zenon
  <1> QED
    BY <1>2, <1>3, <1>4, <1>5, <1>6, <1>7 DEF MigrationIInv

\* A statement is accepted unless something was interrupted, and on the way
\* down from 0004 in any case.
LEMMA StatementAccepted ==
  ASSUME MigrationIInv, Running, Current \in 1..6,
         torn = {} \/ (~Up /\ Current \in 1..4)
  PROVE  Accepted(db, Statement)
  <1>1. /\ job.pc = "running" /\ job.done \in Nat /\ job.done + 1 \in 1..Len(job.plan)
        /\ Len(job.plan) \in Nat /\ Statement = job.plan[job.done + 1]
        /\ job.done < Len(job.plan)
    BY DEF Running
  <1>2. Feasible(db, job.plan, job.done)
    <2>1. CASE torn = {}
      BY <1>1, <2>1 DEF MigrationIInv, SchemaInv, Ready
    <2>2. CASE torn # {}
      <3>1. dialect = "sqlite"
        BY <2>2 DEF MigrationIInv, SavedInv
      <3>2. Current \notin 2..4
        <4>1. Current \in 2..4 => Len(job.plan) = 0
          BY <1>1, <2>2, <3>1 DEF MigrationIInv, QuietInv
        <4> QED
          BY <1>1, <4>1
      <3>3. Current = 1 /\ ~Up
        BY <2>2, <3>2
      <3> QED
        BY <1>1, <3>3 DEF MigrationIInv, BaseInv
    <2> QED
      BY <2>1, <2>2
  <1>3. DecisionKeys \subseteq Statement.gain => Numbered(db.decisions)
    <2> SUFFICES ASSUME DecisionKeys \subseteq Statement.gain PROVE Numbered(db.decisions)
      OBVIOUS
    <2>1. Current = 5 /\ Up /\ job.done >= 3
      BY KeysNumbered
    <2>2. Early5(db, job.done)
      BY <1>1, <2>1 DEF MigrationIInv, DecisionInv
    <2> QED
      BY <2>1, <2>2 DEF Early5
  <1>4. Statement.rows = "keep_history" => "quarantine_resolutions" \in Names(db)
    BY <1>2, RowsChanged, HistoryThere DEF Resolution
  <1>5. RowsReady(db, job.plan[job.done + 1])
    BY <1>1, <1>3, <1>4, Zenon DEF RowsReady
  <1> QED
    BY <1>1, <1>2, <1>5, FeasibleAccepted, Zenon

FailureInv ==
    failure # NoFailure =>
        \/ failure.refused /\ failure.migration = 6
        \/ failure.afterTorn # {} /\ (~failure.up => failure.migration \in {5, 6})

LEMMA FailureStep ==
  MigrationIInv /\ FailureInv /\ [MigrationNext]_migrationVars => FailureInv'
  <1> SUFFICES ASSUME MigrationIInv, FailureInv, [MigrationNext]_migrationVars
               PROVE  FailureInv'
    OBVIOUS
  <1>1. ASSUME NEW target \in 0..Head6, BeginCommand(target) PROVE failure' = NoFailure
    BY <1>1 DEF BeginCommand
  <1>2. ASSUME \/ NextMigration \/ RunStatement \/ Stamp \/ FinishCommand \/ Crash
               \/ \E id \in Ids, at \in Times : Decide(id, at)
               \/ \E note \in {"blank", "text"} : Resolve(note)
               \/ UNCHANGED migrationVars
        PROVE  failure' = failure
    BY <1>2 DEF NextMigration, RunStatement, Stamp, FinishCommand, Crash, Decide, Resolve,
                migrationVars
  <1>3. ASSUME StatementFails PROVE FailureInv'
    <2>1. /\ job.pc = "running" /\ job.done < Len(job.plan)
          /\ ~Accepted(db, Statement) \/ Refused(db, Statement)
          /\ failure' = [migration |-> Current, up |-> Up, refused |-> Accepted(db, Statement),
                         afterTorn |-> torn]
      BY <1>3 DEF StatementFails
    <2>2. Running /\ Current \in 1..6
      BY <2>1, RunningNow DEF MigrationIInv
    <2>3. CASE Accepted(db, Statement)
      <3>1. Statement.rows = "keep_history"
        BY <2>1, <2>3 DEF Refused
      <3>2. Current = 6
        BY <2>2, <3>1, RowsChanged
      <3> QED
        BY <2>1, <2>3, <3>2 DEF FailureInv
    <2>4. CASE ~Accepted(db, Statement)
      <3>1. torn # {} /\ ~(~Up /\ Current \in 1..4)
        BY <2>2, <2>4, StatementAccepted
      <3>2. ~Up => Current \in {5, 6}
        BY <2>2, <3>1
      <3> QED
        BY <2>1, <3>1, <3>2 DEF FailureInv
    <2> QED
      BY <2>3, <2>4
  <1>4. failure' = failure \/ failure' = NoFailure => FailureInv'
    BY DEF FailureInv
  <1> QED
    BY <1>1, <1>2, <1>3, <1>4, Zenon DEF MigrationNext

-----------------------------------------------------------------------------
(* The theorems.                                                           *)

\* The variables have their types, and the statements of a migration are the
\* ones its upgrade or downgrade function plans, at every step of a command.
THEOREM MigrationTyping == MigrationSpec => []MigrationTypeOK
  <1>1. MigrationIInv => MigrationTypeOK
    BY DEF MigrationIInv
  <1> QED
    BY <1>1, MigrationStarts, MigrationInduction, PTL DEF MigrationSpec

\* Unless a migration was interrupted half way, the database at the head has
\* exactly the tables, columns and keys the models declare and the base none,
\* on both databases and whatever upgrades and downgrades led there.
THEOREM SchemaKept == MigrationSpec => []SchemaMatchesVersion
  <1>1. MigrationIInv => SchemaMatchesVersion
    <2> SUFFICES ASSUME MigrationIInv, job.pc = "idle", torn = {}
                 PROVE  /\ db.version = Head6 => db.tables = Models /\ db.parts = ModelParts
                        /\ db.version = 0 => db.tables = {} /\ db.parts = {}
      BY DEF SchemaMatchesVersion
    <2>1. SchemaAt(db.version, dialect, db)
      BY DEF MigrationIInv, SchemaInv
    <2>2. db.version = 0 => db.tables = {} /\ db.parts = {}
      BY <2>1 DEF SchemaAt, HighT, HighP
    <2>3. db.version = Head6 => db.tables = Models /\ db.parts = ModelParts
      <3>1. Head6 = 6 /\ Head6 \in 4..6
        BY DEF Head6
      <3>2. db.version = Head6 => db.tables = HighT(Head6) /\ db.parts = HighP(Head6)
        BY <2>1, <3>1, CompleteAt, Zenon
      <3> QED
        BY <3>1, <3>2 DEF HighT, HighP
    <2> QED
      BY <2>2, <2>3
  <1> QED
    BY <1>1, MigrationStarts, MigrationInduction, PTL DEF MigrationSpec

\* After every statement of every migration, and after an interruption, the
\* table a foreign key refers to exists.
THEOREM ReferencesKept == MigrationSpec => []ReferencesHold
  <1>1. MigrationIInv => ReferencesHold
    BY DEF MigrationIInv, RefsInv, RefsAt, ReferencesHold
  <1> QED
    BY <1>1, MigrationStarts, MigrationInduction, PTL DEF MigrationSpec

\* No upgrade, downgrade, failure or crash loses a decision while its table is
\* there, or a resolution recorded since 0006; an imported resolution goes only
\* while the note it was imported from is on the record.
THEOREM HistoryKept == MigrationSpec => HistorySurvives
  <1>1. MigrationIInv /\ MigrationIInv' /\ [MigrationNext]_migrationVars =>
            [/\ "match_decisions" \in Names(db') =>
                  {d.id : d \in db.decisions} \subseteq {d.id : d \in db'.decisions}
             /\ \A r \in db.resolutions \ db'.resolutions : r.imported /\ db'.note = "text"]_db
    <2> SUFFICES ASSUME MigrationIInv, MigrationIInv', [MigrationNext]_migrationVars, db' # db
                 PROVE  /\ "match_decisions" \in Names(db') =>
                             {d.id : d \in db.decisions} \subseteq {d.id : d \in db'.decisions}
                        /\ \A r \in db.resolutions \ db'.resolutions : r.imported /\ db'.note = "text"
      OBVIOUS
    <2>1. Survival
      BY SurvivalStep DEF MigrationIInv
    <2> QED
      BY <2>1 DEF Survival
  <1> QED
    BY <1>1, MigrationStarts, MigrationInduction, PTL DEF MigrationSpec, HistorySurvives

\* From 0005 on the decisions are numbered without a gap in the order of their
\* times, from 0006 on the resolutions too: by the rankings and the imports of
\* the migrations, and by the application that continues them.
THEOREM NumbersKept == MigrationSpec => []HistoryNumbered
  <1>1. MigrationIInv => HistoryNumbered
    <2> SUFFICES ASSUME MigrationIInv, job.pc = "idle", torn = {}
                 PROVE  /\ db.version >= 5 =>
                             /\ {d.revision : d \in db.decisions} = 1..db.candidate
                             /\ Cardinality(db.decisions) = db.candidate
                             /\ \A d, e \in db.decisions : d.revision < e.revision => d.at <= e.at
                        /\ db.version = 6 =>
                             /\ {r.revision : r \in db.resolutions} = 1..db.record
                             /\ Cardinality(db.resolutions) = db.record
                             /\ \A r \in db.resolutions : r.imported => r.revision = 1
                             /\ db.record = 0 => db.note # "text"
      BY DEF HistoryNumbered
    <2>1. /\ db.version >= 5 => Good5(db)
          /\ db.version = 6 => Good6(db)
      BY DEF MigrationIInv, DecisionInv, ResolutionInv
    <2> QED
      BY <2>1 DEF Good5, Ordered, Good6
  <1> QED
    BY <1>1, MigrationStarts, MigrationInduction, PTL DEF MigrationSpec

\* A statement is refused only by the guard of 0006, and fails only on SQLite
\* after 0001, 0005 or 0006 was interrupted, never on the way down from 0004.
THEOREM FailureKept == MigrationSpec => []FailureExplained
  <1>1. MigrationInit => FailureInv
    BY DEF MigrationInit, FailureInv
  <1>2. MigrationIInv /\ FailureInv => FailureExplained
    BY DEF MigrationIInv, TornInv, FailureInv, FailureExplained
  <1> QED
    BY <1>1, <1>2, MigrationStarts, MigrationInduction, FailureStep, PTL DEF MigrationSpec

=============================================================================

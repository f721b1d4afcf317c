------------------------------ MODULE Publishing ------------------------------
(***************************************************************************)
(* Marts, exports and the retention of exports (marts/service.py,          *)
(* publishing/exporter.py, publishing/retention.py and their handlers in   *)
(* main.py) for one organization, one mart definition and one export key.  *)
(*                                                                         *)
(* The handlers run in threads.  Each writes or removes files, which no    *)
(* transaction covers, next to rows, and may die between any two steps.    *)
(* Files are named by a digest, rows by ids of their own, so that several  *)
(* rows may stand for one file.                                            *)
(***************************************************************************)
EXTENDS Naturals

CONSTANTS Builds, Publications, Retentions,  \* requests; a retention repeats
          Marts, Versions, Digests,
          Mart,       \* build or publication -> the mart it is about
          Version,    \* publication -> the version of its export definition
          Rendered,   \* mart -> version -> digest of the exported bytes
          Mortal,     \* requests whose worker may die
          ExportDays, \* export_days of the retention policy
          MaxTime,    \* bound on the clock
          None

ASSUME PublishingAssumption ==
    /\ Mart \in [Builds \cup Publications -> Marts]
    /\ Version \in [Publications -> Versions]
    /\ Rendered \in [Marts -> [Versions -> Digests]]
    /\ ExportDays \in Nat \ {0} /\ MaxTime \in Nat
    /\ Builds \cap Publications = {}
    /\ None \notin Digests \cup Publications

VARIABLES
    martFiles, marts,    \* files of the mart root; data_mart_snapshots
    files, dictionary,   \* exported files; digest -> its sidecar dictionary
    definitions,         \* export_definitions, each named by who inserted it
    exports,             \* export_snapshots, likewise
    derived,             \* lineage: <<mart, export>>
    policy,              \* the retention policy has a row
    audit,               \* requests with an audit event
    now,
    req,                 \* build or publication -> where it is
    sweep                \* retention -> where it is

tables == <<marts, definitions, exports, derived>>
vars == <<martFiles, marts, files, dictionary, definitions, exports, derived,
          policy, audit, now, req, sweep>>

Export == [id : Publications, definition : Publications, digest : Digests,
           at : 0..MaxTime]

Dictionary == [version : Versions, mart : Marts]

Working == {"file", "missing", "row",
            "records", "stored", "described", "defined", "chosen", "committed"}

Places == {"free", "refused", "error", "ok", "dead"} \cup Working

Request == [pc : Places,
            definition : Publications \cup {None}, row : Export \cup {None}]

Sweep == [pc : {"free", "absent", "present", "select", "unlink", "audit"},
          dry_run : BOOLEAN, todo : SUBSET Export, gone : SUBSET Export]

TypeOK ==
    /\ martFiles \subseteq Marts /\ marts \subseteq Marts
    /\ files \subseteq Digests
    /\ dictionary \in [Digests -> Dictionary \cup {None}]
    /\ definitions \subseteq Publications
    /\ exports \subseteq Export
    /\ derived \subseteq Marts \X Publications
    /\ policy \in BOOLEAN
    /\ audit \subseteq Builds \cup Publications \cup Retentions
    /\ now \in 0..MaxTime
    /\ req \in [Builds \cup Publications -> Request]
    /\ sweep \in [Retentions -> Sweep]

Idle == [pc |-> "free", dry_run |-> TRUE, todo |-> {}, gone |-> {}]

Init ==
    /\ martFiles = {} /\ marts = {}
    /\ files = {} /\ dictionary = [d \in Digests |-> None]
    /\ definitions = {} /\ exports = {} /\ derived = {}
    /\ policy = FALSE /\ audit = {} /\ now = 0
    /\ req = [q \in Builds \cup Publications |->
                [pc |-> "free", definition |-> None, row |-> None]]
    /\ sweep = [t \in Retentions |-> Idle]

Tick ==
    /\ now < MaxTime
    /\ now' = now + 1
    /\ UNCHANGED <<martFiles, tables, files, dictionary, policy, audit, req, sweep>>

Goto(q, pc) == req' = [req EXCEPT ![q].pc = pc]

-----------------------------------------------------------------------------
(* build_mart: MartService.build, audit; the lineage graph that record_mart
   extends in between is in Lineage *)

\* The file is renamed into place unless it is there.
StoreMart(b) ==
    /\ req[b].pc = "free"
    /\ martFiles' = martFiles \cup {Mart[b]}
    /\ Goto(b, "file")
    /\ UNCHANGED <<tables, files, dictionary, policy, audit, now, sweep>>

SelectMart(b) ==
    /\ req[b].pc = "file"
    /\ Goto(b, IF Mart[b] \in marts THEN "row" ELSE "missing")
    /\ UNCHANGED <<martFiles, tables, files, dictionary, policy, audit, now, sweep>>

InsertMart(b) ==
    /\ req[b].pc = "missing" /\ Mart[b] \notin marts
    /\ marts' = marts \cup {Mart[b]}
    /\ Goto(b, "row")
    /\ UNCHANGED <<martFiles, definitions, exports, derived, files, dictionary,
                   policy, audit, now, sweep>>

\* uq_mart_snapshot_content: another build has inserted the row meanwhile.
InsertMartFails(b) ==
    /\ req[b].pc = "missing" /\ Mart[b] \in marts
    /\ Goto(b, "error")
    /\ UNCHANGED <<martFiles, tables, files, dictionary, policy, audit, now, sweep>>

AuditMart(b) ==
    /\ req[b].pc = "row"
    /\ audit' = audit \cup {b}
    /\ Goto(b, "ok")
    /\ UNCHANGED <<martFiles, tables, files, dictionary, policy, now, sweep>>

-----------------------------------------------------------------------------
(* publish_export: ExportService.publish, audit *)

Digest(q) == Rendered[Mart[q]][Version[q]]

\* Unknown mart, undocumented field, missing permission
Refuse(q) ==
    /\ req[q].pc = "free"
    /\ Goto(q, "refused")
    /\ UNCHANGED <<martFiles, tables, files, dictionary, policy, audit, now, sweep>>

\* session.get and read_mart_records
ReadMart(q) ==
    /\ req[q].pc = "free" /\ Mart[q] \in marts \cap martFiles
    /\ Goto(q, "records")
    /\ UNCHANGED <<martFiles, tables, files, dictionary, policy, audit, now, sweep>>

\* Mutant: whoever finds the file takes its dictionary for written.
StoreUndescribed(q) ==
    /\ req[q].pc = "records"
    /\ files' = files \cup {Digest(q)}
    /\ Goto(q, IF Digest(q) \in files THEN "described" ELSE "stored")
    /\ UNCHANGED <<martFiles, tables, dictionary, policy, audit, now, sweep>>

\* A file that is there is kept and its row not looked at.
StoreExport(q) ==
    /\ req[q].pc = "records"
    /\ files' = files \cup {Digest(q)}
    /\ Goto(q, "stored")
    /\ UNCHANGED <<martFiles, tables, dictionary, policy, audit, now, sweep>>

\* The dictionary is named by the digest as well and always written.
WriteDictionary(q) ==
    /\ req[q].pc = "stored"
    /\ dictionary' = [dictionary EXCEPT ![Digest(q)] =
                        [version |-> Version[q], mart |-> Mart[q]]]
    /\ Goto(q, "described")
    /\ UNCHANGED <<martFiles, tables, files, policy, audit, now, sweep>>

\* Mutant: a definition of any version is taken.
DefinitionsOfKey(q) == definitions

DefinitionsOf(q) == {d \in definitions : Version[d] = Version[q]}

\* _definition: no constraint keeps two publications from inserting one each,
\* and of several an arbitrary one is taken.
SelectDefinition(q) ==
    /\ req[q].pc = "described"
    /\ \E d \in IF DefinitionsOf(q) = {} THEN {q} ELSE DefinitionsOf(q) :
           req' = [req EXCEPT ![q] = [pc |-> "defined", definition |-> d,
                                      row |-> None]]
    /\ UNCHANGED <<martFiles, tables, files, dictionary, policy, audit, now, sweep>>

Existing(q) ==
    {x \in exports : x.definition = req[q].definition /\ x.digest = Digest(q)}

NewExport(q) == [id |-> q, definition |-> req[q].definition,
                 digest |-> Digest(q), at |-> now]

\* Nor does one keep two from inserting a snapshot.
SelectExport(q) ==
    /\ req[q].pc = "defined"
    /\ \E x \in IF Existing(q) = {} THEN {NewExport(q)} ELSE Existing(q) :
           req' = [req EXCEPT ![q] = [pc |-> "chosen", row |-> x,
                                      definition |-> req[q].definition]]
    /\ UNCHANGED <<martFiles, tables, files, dictionary, policy, audit, now, sweep>>

\* A new definition, a new snapshot and its lineage are one transaction; a
\* snapshot that was found gets no lineage and is not looked at again.
CommitExport(q) ==
    /\ req[q].pc = "chosen"
    /\ definitions' = definitions \cup {req[q].definition}
    /\ \/ /\ req[q].row.id = q
          /\ exports' = exports \cup {req[q].row}
          /\ derived' = derived \cup {<<Mart[q], q>>}
       \/ /\ req[q].row.id # q
          /\ UNCHANGED <<exports, derived>>
    /\ Goto(q, "committed")
    /\ UNCHANGED <<martFiles, marts, files, dictionary, policy, audit, now, sweep>>

AuditExport(q) ==
    /\ req[q].pc = "committed"
    /\ audit' = audit \cup {q}
    /\ Goto(q, "ok")
    /\ UNCHANGED <<martFiles, tables, files, dictionary, policy, now, sweep>>

Die(q) ==
    /\ q \in Mortal /\ req[q].pc \in Working
    /\ Goto(q, "dead")
    /\ UNCHANGED <<martFiles, tables, files, dictionary, policy, audit, now, sweep>>

-----------------------------------------------------------------------------
(* apply_retention: upsert_policy, apply_export_retention, audit *)

SelectPolicy(t, dry_run) ==
    /\ sweep[t].pc = "free"
    /\ sweep' = [sweep EXCEPT ![t] =
                   [Idle EXCEPT !.pc = IF policy THEN "present" ELSE "absent",
                                !.dry_run = dry_run]]
    /\ UNCHANGED <<martFiles, tables, files, dictionary, policy, audit, now, req>>

\* A first policy is inserted, later ones are updates of the same row.
SavePolicy(t) ==
    /\ sweep[t].pc = "present" \/ (sweep[t].pc = "absent" /\ ~policy)
    /\ policy' = TRUE
    /\ sweep' = [sweep EXCEPT ![t].pc = "select"]
    /\ UNCHANGED <<martFiles, tables, files, dictionary, audit, now, req>>

\* uq_retention_policy
SavePolicyFails(t) ==
    /\ sweep[t].pc = "absent" /\ policy
    /\ sweep' = [sweep EXCEPT ![t] = Idle]
    /\ UNCHANGED <<martFiles, tables, files, dictionary, policy, audit, now, req>>

\* published_at < now - export_days
Expired(x) == x.at + ExportDays < now

SelectExpired(t) ==
    /\ sweep[t].pc = "select"
    /\ sweep' = [sweep EXCEPT ![t] =
                   IF sweep[t].dry_run
                   THEN [Idle EXCEPT !.pc = "audit"]
                   ELSE [pc |-> "unlink", dry_run |-> FALSE, gone |-> {},
                         todo |-> {x \in exports : Expired(x)}]]
    /\ UNCHANGED <<martFiles, tables, files, dictionary, policy, audit, now, req>>

\* The file goes at once, its row with the commit, its dictionary never.
Unlink(t, x) ==
    /\ sweep[t].pc = "unlink" /\ x \in sweep[t].todo /\ x.digest \in files
    /\ files' = files \ {x.digest}
    /\ sweep' = [sweep EXCEPT ![t] =
                   [pc |-> "unlink", dry_run |-> FALSE,
                    todo |-> sweep[t].todo \ {x}, gone |-> sweep[t].gone \cup {x}]]
    /\ UNCHANGED <<martFiles, tables, dictionary, policy, audit, now, req>>

\* resolve(strict=True) or unlink raises FileNotFoundError: no row is deleted.
UnlinkFails(t, x) ==
    /\ sweep[t].pc = "unlink" /\ x \in sweep[t].todo /\ x.digest \notin files
    /\ sweep' = [sweep EXCEPT ![t] = Idle]
    /\ UNCHANGED <<martFiles, tables, files, dictionary, policy, audit, now, req>>

\* Mutant: the rows are deleted by their checksums.
CommitByDigest(t) ==
    /\ sweep[t].pc = "unlink" /\ sweep[t].todo = {}
    /\ exports' = {x \in exports : \A y \in sweep[t].gone : x.digest # y.digest}
    /\ sweep' = [sweep EXCEPT ![t] = [Idle EXCEPT !.pc = "audit"]]
    /\ UNCHANGED <<martFiles, marts, definitions, derived, files, dictionary,
                   policy, audit, now, req>>

CommitRetention(t) ==
    /\ sweep[t].pc = "unlink" /\ sweep[t].todo = {}
    /\ exports' = exports \ sweep[t].gone
    /\ sweep' = [sweep EXCEPT ![t] = [Idle EXCEPT !.pc = "audit"]]
    /\ UNCHANGED <<martFiles, marts, definitions, derived, files, dictionary,
                   policy, audit, now, req>>

AuditRetention(t) ==
    /\ sweep[t].pc = "audit"
    /\ audit' = audit \cup {t}
    /\ sweep' = [sweep EXCEPT ![t] = Idle]
    /\ UNCHANGED <<martFiles, tables, files, dictionary, policy, now, req>>

DieInRetention(t) ==
    /\ t \in Mortal /\ sweep[t].pc # "free"
    /\ sweep' = [sweep EXCEPT ![t] = Idle]
    /\ UNCHANGED <<martFiles, tables, files, dictionary, policy, audit, now, req>>

-----------------------------------------------------------------------------
Build(b) ==
    \/ StoreMart(b) \/ SelectMart(b) \/ InsertMart(b) \/ InsertMartFails(b)
    \/ AuditMart(b)

Publish(q) ==
    \/ Refuse(q) \/ ReadMart(q) \/ StoreExport(q) \/ WriteDictionary(q)
    \/ SelectDefinition(q) \/ SelectExport(q) \/ CommitExport(q) \/ AuditExport(q)

ApplyRetention(t) ==
    \/ SavePolicy(t) \/ SavePolicyFails(t) \/ SelectExpired(t)
    \/ \E x \in sweep[t].todo : Unlink(t, x) \/ UnlinkFails(t, x)
    \/ CommitRetention(t) \/ AuditRetention(t)

Next ==
    \/ Tick
    \/ \E b \in Builds : Build(b)
    \/ \E q \in Publications : Publish(q)
    \/ \E t \in Retentions, dry_run \in BOOLEAN : SelectPolicy(t, dry_run)
    \/ \E t \in Retentions : ApplyRetention(t)
    \/ \E q \in Builds \cup Publications : Die(q)
    \/ \E t \in Retentions : DieInRetention(t)

Spec == Init /\ [][Next]_vars

\* A retention that was begun runs on, and somebody applies retention for real
\* again and again.
FairSpec ==
    /\ Spec
    /\ \A t \in Retentions : WF_vars(ApplyRetention(t))
                             /\ SF_vars(SelectPolicy(t, FALSE))

-----------------------------------------------------------------------------
(* Properties *)

\* A mart row has its file, whoever built the same mart at the same time and
\* died in between: the file comes first.
MartsBacked == marts \subseteq martFiles

Traceable(x) ==
    \E m \in marts : /\ <<m, x.id>> \in derived
                     /\ Rendered[m][Version[x.definition]] = x.digest

\* Every export snapshot is derived from a mart whose records, rendered by its
\* own version of the definition, are its bytes, although definitions and
\* snapshots are looked up and inserted without constraints.
ExportsTraceable == \A x \in exports : Traceable(x)

\* An answered build has its row, although it found the file of one that died.
\* The snapshot an answer names, found or new and perhaps removed since, has
\* the bytes and the version that were asked for and is traceable.
AnswersSound ==
    /\ \A b \in Builds : req[b].pc = "ok" => Mart[b] \in marts
    /\ \A q \in Publications :
           req[q].pc = "ok" => /\ req[q].row.digest = Digest(q)
                               /\ Version[req[q].row.definition] = Version[q]
                               /\ Traceable(req[q].row)

\* Rows are well typed, what they stand for is there and traceable, and the
\* answers are about them.
RowsSound == TypeOK /\ MartsBacked /\ ExportsTraceable /\ AnswersSound

\* Retention removes no row before its time, and no one else removes any.
OnlyExpiredRemoved ==
    [][\A x \in exports \ exports' : x.at + ExportDays < now]_vars

\* The export of some publication with these bytes has passed its time.
Outlived(d) ==
    \E q \in Publications : /\ <<Mart[q], q>> \in derived /\ Digest(q) = d
                            /\ req[q].row.at + ExportDays < now

\* The dictionary is there and names a mart and a version with these bytes.
Described(d) ==
    /\ dictionary[d] \in Dictionary /\ dictionary[d].mart \in marts
    /\ Rendered[dictionary[d].mart][dictionary[d].version] = d

Published == {x.digest : x \in exports}
             \cup {Digest(q) : q \in {p \in Publications : req[p].pc = "ok"}}

\* However publications that share bytes, retentions and deaths interleave, the
\* file of a row or of an answered publication is missing only if an export
\* with the same bytes has outlived its time, and its dictionary is there and
\* describes the bytes.
ExportsHeld == \A d \in Published : (d \in files \/ Outlived(d)) /\ Described(d)

\* An expired export goes away when retention is applied again and again.
ExpiredGoAway ==
    \A q \in Publications :
        (\E x \in exports : x.id = q /\ Expired(x)) ~> (\A x \in exports : x.id # q)
==============================================================================

------------------------------- MODULE Schema -------------------------------
(* The tables of the database as the two places that describe them declare   *)
(* them: the frozen baseline migration (the order in which it creates them)  *)
(* and the application's models (what the code expects at the head). A table *)
(* is its name and the other tables its foreign keys refer to; columns and   *)
(* keys are left out, except the ones later migrations add or drop (a part). *)
EXTENDS Sequences, SequencesExt

Table(name, refs) == [name |-> name, refs |-> refs]

(* A table that only belongs to an organization.                             *)
Owned(name) == Table(name, {"organizations"})

OwnedAnd(name, refs) == Table(name, {"organizations"} \cup refs)

----------------------------------------------------------------------------
(* 0001, upgrade: the tables in the order of their creation.                 *)

BaselineIdentity == << Table("organizations", {}), Table("permissions", {}),
                       Table("roles", {}), Table("users", {}) >>

BaselineAssets == << Owned("assessment_definitions"), Owned("asset_runs"),
                     Owned("audit_events"), Owned("canonical_entity_versions") >>

BaselineDefinitions == << Owned("competency_definitions"), Owned("credential_definitions"),
                          Owned("data_mart_snapshots"), Owned("export_definitions") >>

BaselineReference == << Owned("learning_programs"), Owned("lineage_nodes"), Owned("lookup_tables"),
                        Owned("mapping_sets"), Owned("match_evaluations") >>

BaselinePeople == << Owned("match_rule_sets"), Owned("organization_units"), Owned("persons"),
                     Owned("probabilistic_models") >>

BaselineAccess == << Owned("retention_policies"),
                     Table("role_permissions", {"permissions", "roles"}),
                     Owned("source_systems"), OwnedAnd("user_organizations", {"users"}) >>

BaselineRules == << OwnedAnd("user_roles", {"roles", "users"}), Owned("validation_rules"),
                    OwnedAnd("assessment_attempts", {"assessment_definitions", "persons"}) >>

BaselineAwards == << OwnedAnd("competency_alignments", {"competency_definitions"}),
                     OwnedAnd("credential_awards", {"credential_definitions", "persons"}),
                     OwnedAnd("export_snapshots", {"export_definitions"}) >>

BaselineRuns == << OwnedAnd("external_identities", {"persons", "source_systems"}),
                   OwnedAnd("ingestion_runs", {"source_systems"}),
                   OwnedAnd("learning_offerings", {"learning_programs"}) >>

BaselineMatching == << OwnedAnd("lineage_edges", {"lineage_nodes"}),
                       Table("mapping_rules", {"mapping_sets"}),
                       OwnedAnd("match_candidates", {"match_rule_sets"}),
                       OwnedAnd("probabilistic_runs", {"probabilistic_models"}) >>

BaselineObjects == << OwnedAnd("role_assignments", {"organization_units", "persons"}),
                      Table("source_objects", {"source_systems"}),
                      OwnedAnd("assessment_results", {"assessment_attempts"}),
                      Table("data_contracts", {"source_objects"}) >>

BaselineEvents == << OwnedAnd("experience_events", {"learning_offerings", "persons", "source_systems"}),
                     OwnedAnd("match_decisions", {"match_candidates"}),
                     OwnedAnd("participations", {"learning_offerings", "persons"}) >>

BaselineSnapshots == << Table("raw_snapshots", {"ingestion_runs", "source_objects"}),
                        OwnedAnd("validation_results", {"ingestion_runs", "validation_rules"}),
                        OwnedAnd("mapping_executions", {"raw_snapshots"}) >>

BaselineQuarantine == << OwnedAnd("quarantine_records",
                                  {"ingestion_runs", "raw_snapshots", "validation_rules"}),
                         Table("schema_profiles", {"raw_snapshots"}) >>

BaselineErrors == << Table("mapping_errors", {"mapping_executions"}),
                     OwnedAnd("profile_comparisons", {"schema_profiles"}) >>

Baseline ==
    BaselineIdentity \o BaselineAssets \o BaselineDefinitions \o BaselineReference
        \o BaselinePeople \o BaselineAccess \o BaselineRules \o BaselineAwards
        \o BaselineRuns \o BaselineMatching \o BaselineObjects \o BaselineEvents
        \o BaselineSnapshots \o BaselineQuarantine \o BaselineErrors

(* 0001, downgrade: the list of the tables to drop is the reverse of the     *)
(* order in which they are created.                                          *)
DropOrder == Reverse([i \in DOMAIN Baseline |-> Baseline[i].name])

----------------------------------------------------------------------------
(* The application's models.                                                 *)

SecurityModels == { Table("users", {}), Table("roles", {}), Table("permissions", {}),
                    OwnedAnd("user_organizations", {"users"}),
                    OwnedAnd("user_roles", {"users", "roles"}),
                    Table("role_permissions", {"roles", "permissions"}) }

PeopleModels == { Table("organizations", {}), Owned("organization_units"), Owned("persons"),
                  OwnedAnd("external_identities", {"persons", "source_systems"}),
                  OwnedAnd("role_assignments", {"persons", "organization_units"}) }

LearningModels == { Owned("learning_programs"),
                    OwnedAnd("learning_offerings", {"learning_programs"}),
                    OwnedAnd("participations", {"persons", "learning_offerings"}),
                    OwnedAnd("experience_events",
                             {"source_systems", "persons", "learning_offerings"}) }

OutcomeModels == { Owned("assessment_definitions"),
                   OwnedAnd("assessment_attempts", {"assessment_definitions", "persons"}),
                   OwnedAnd("assessment_results", {"assessment_attempts"}),
                   Owned("competency_definitions"),
                   OwnedAnd("competency_alignments", {"competency_definitions"}),
                   Owned("credential_definitions"),
                   OwnedAnd("credential_awards", {"credential_definitions", "persons"}) }

SourceModels == { Owned("source_systems"), Table("source_objects", {"source_systems"}),
                  Table("data_contracts", {"source_objects"}),
                  OwnedAnd("ingestion_runs", {"source_systems"}),
                  Table("raw_snapshots", {"ingestion_runs", "source_objects"}),
                  Table("schema_profiles", {"raw_snapshots"}) }

RuleModels == { Owned("mapping_sets"), Table("mapping_rules", {"mapping_sets"}),
                Owned("validation_rules"),
                OwnedAnd("validation_results", {"ingestion_runs", "validation_rules"}),
                OwnedAnd("quarantine_records",
                         {"ingestion_runs", "validation_rules", "raw_snapshots"}) }

ReviewModels == { OwnedAnd("quarantine_resolutions", {"quarantine_records", "raw_snapshots"}),
                  Owned("match_rule_sets"), OwnedAnd("match_candidates", {"match_rule_sets"}),
                  OwnedAnd("match_decisions", {"match_candidates"}),
                  Owned("canonical_entity_versions") }

RecordModels == { Owned("lineage_nodes"), OwnedAnd("lineage_edges", {"lineage_nodes"}),
                  Owned("export_definitions"),
                  OwnedAnd("export_snapshots", {"export_definitions"}), Owned("audit_events"),
                  OwnedAnd("profile_comparisons", {"schema_profiles"}), Owned("lookup_tables"),
                  OwnedAnd("mapping_executions", {"raw_snapshots"}),
                  Table("mapping_errors", {"mapping_executions"}) }

OperationsModels == { Owned("match_evaluations"), Owned("probabilistic_models"),
                      OwnedAnd("probabilistic_runs", {"probabilistic_models"}),
                      Owned("data_mart_snapshots"), Owned("asset_runs"),
                      Owned("retention_policies") }

Models == SecurityModels \cup PeopleModels \cup LearningModels \cup OutcomeModels
          \cup SourceModels \cup RuleModels \cup ReviewModels \cup RecordModels
          \cup OperationsModels

(* Base.metadata.tables[name].                                               *)
ModelNamed(name) == CHOOSE t \in Models : t.name = name

----------------------------------------------------------------------------
(* The columns and keys that migrations 0002 to 0006 are about, each with its *)
(* table; those that are added one by one in the order of the migration.      *)

PartsOf(table, names) == [i \in DOMAIN names |-> <<table, names[i]>>]

(* 0002: resumption and failure of ingestion runs, one snapshot per content. *)
RunColumns == PartsOf("ingestion_runs", <<"resume_from_run_id", "attempt_number", "failure_code",
                                          "failure_summary">>)
RunKey == <<"ingestion_runs", "fk_resume_from_run_id">>
ContentKey == <<"raw_snapshots", "uq_snapshot_content">>
RunParts == RunColumns \o <<RunKey, ContentKey>>

(* 0003: the outcome of quarantine records.                                  *)
NoteColumn == <<"quarantine_records", "resolution_note">>
OutcomeColumns ==
    PartsOf("quarantine_records", <<"waiver_reason", "resolution_note", "resolved_at",
                                    "supersedes_quarantine_id", "corrected_snapshot_id">>)
OutcomeKeys == PartsOf("quarantine_records", <<"fk_supersedes_quarantine_id",
                                               "fk_corrected_snapshot_id">>)
OutcomeParts == OutcomeColumns \o OutcomeKeys

(* 0005 and 0006: the revisions of the two desks.                            *)
CandidateRevision == <<"match_candidates", "revision">>
CandidateKeys == Range(PartsOf("match_candidates", <<"ck_match_candidate_revision",
                                                     "ix_match_queue">>))
DecisionRevision == <<"match_decisions", "revision">>
DecisionKeys == Range(PartsOf("match_decisions", <<"ck_match_decision_revision",
                                                   "uq_match_decision_revision">>))
RecordRevision == <<"quarantine_records", "revision">>
RecordKeys == Range(PartsOf("quarantine_records", <<"ck_quarantine_revision",
                                                    "ix_quarantine_queue">>))

(* What the baseline creates of them, with its tables; what the models       *)
(* declare of them.                                                          *)
BaselineParts == Range(RunParts) \cup Range(OutcomeParts)

ModelParts == BaselineParts \cup {CandidateRevision, DecisionRevision, RecordRevision}
              \cup CandidateKeys \cup DecisionKeys \cup RecordKeys
=============================================================================

------------------------------ MODULE MCLineage ------------------------------
(* A mapping of two fields, two builds of one mart from two sources and an export of it. *)
EXTENDS Lineage

CONSTANTS raw1, raw2, job, field1, field2, mart, export,
          mapping, build1, build2, publish

MCSteps == [q \in Requests |->
              CASE q = mapping -> RecordMapping(raw1, job, <<field1, field2>>)
                [] q = build1 -> RecordMart(mart, raw1, job)
                [] q = build2 -> RecordMart(mart, raw2, None)
                [] q = publish -> RecordExport(mart, export)]

\* The id of a mart is known from the answer of its build.
MCAfter == [q \in Requests |-> IF q = publish THEN {build1} ELSE {}]
==============================================================================

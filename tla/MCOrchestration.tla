--------------------------- MODULE MCOrchestration ---------------------------
(* A small instance of the asset engine: a chain of three assets, the first of
   which returns more than is stored, and an asset with an unknown dependency. *)
EXTENDS Orchestration, TLC

CONSTANTS raw, profile, mart, report, missing,
          first, second, backfill,
          rawFull, rawStored, profiled, built,
          today

MCDependencies ==
    raw :> <<>> @@ profile :> <<raw>> @@ mart :> <<profile>>
    @@ report :> <<raw, missing>> @@ missing :> <<>>

MCMaxAttempts == [a \in Assets |-> IF a = profile THEN 2 ELSE 1]

MCAsset == [q \in Requests |-> IF q = backfill THEN report ELSE mart]

MCWatermark == [q \in Requests |-> today]

MCCompute ==
    raw :> {rawFull} @@ profile :> {profiled} @@ mart :> {built}
    @@ report :> {built} @@ missing :> {built}

MCSafe == [output \in Outputs |-> IF output = rawFull THEN rawStored ELSE output]
==============================================================================

----------------------------- MODULE MCIngestion -----------------------------
(* Small instances of ingestion. *)
EXTENDS Ingestion, TLC

CONSTANTS api, demo, fromDemo

\* All requests run in the API process, except the one named fromDemo.
MCProcessOf == [q \in Requests |-> IF q = fromDemo THEN demo ELSE api]

\* The last two rows share a value.
MCValue == [n \in 1..LastRow |-> IF n = 3 THEN 2 ELSE n]

\* No definition names a request other than fromDemo, or an object.
Symmetry == Permutations(Requests \ {fromDemo}) \cup Permutations(Objects)
==============================================================================

------------------------------ MODULE MCMatching ------------------------------
(* Four records. Exact rules: two trusted ones with disjoint values and one
   composite, or one and two; scores: two blocking rules. Values
   are interchangeable, so the first value met is always the smallest.       *)
EXTENDS Matching

MCRecords == 1..4

\* Keys in which every value appears after all smaller ones.
Canonical(values) ==
  {f \in [MCRecords -> values] :
     \A r \in MCRecords : \A v \in values :
       0 < v /\ v < f[r] => \E q \in MCRecords : q < r /\ f[q] = v}

\* A second rule of either sort; the values of the trusted one are its own.
Second(value) == [MCRecords -> {0, value}]

MCExactInputs ==
  {[trusted |-> <<a, b>>, composite |-> <<c>>] :
     a \in Canonical({0, 1, 2}), b \in Second(3), c \in Second(1)}
  \cup
  {[trusted |-> <<a>>, composite |-> <<c, d>>] :
     a \in Canonical({0, 1, 2}), c \in Second(1), d \in Canonical({0, 1, 2})}

MCEmployeeIds == Canonical({0, 1, 2})
MCBlockInputs == {<<a, b>> : a \in Canonical({0, 1, 2}), b \in Canonical({0, 1})}
================================================================================

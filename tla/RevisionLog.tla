----------------------------- MODULE RevisionLog -----------------------------
(***************************************************************************)
(* What both review desks promise a reviewer, with no sessions, locks or   *)
(* transactions: every item carries an append-only log of verdicts, a      *)
(* verdict is applied in one step together with its audit event, and only  *)
(* to the very status its author was looking at.                           *)
(***************************************************************************)
EXTENDS Naturals, Sequences

CONSTANTS Items,    \* match candidates, or quarantine records
          Statuses, \* every status an item may show
          None      \* the status of an item that does not exist yet

VARIABLES status,   \* the status an item shows now
          log,      \* item -> sequence of [from, to] verdicts
          trail     \* audit events <<item, revision, verdict>>

vars == <<status, log, trail>>

Init ==
    /\ status = [i \in Items |-> None]
    /\ log = [i \in Items |-> <<>>]
    /\ trail = {}

\* A matching or validation run commits a batch of new items.
Create ==
    \E S \in SUBSET Items :
        /\ \A i \in S : status[i] = None
        /\ \E st \in [S -> Statuses] :
               status' = [i \in Items |-> IF i \in S THEN st[i] ELSE status[i]]
        /\ UNCHANGED <<log, trail>>

\* One verdict takes effect on item i, whose status its author saw as "from".
Decide(i, from, to) ==
    /\ status[i] # None
    /\ from = status[i]
    /\ status' = [status EXCEPT ![i] = to]
    /\ log' = [log EXCEPT ![i] = Append(@, [from |-> from, to |-> to])]
    /\ trail' = trail \cup {<<i, Len(log[i]) + 1, to>>}

Next ==
    \/ Create
    \/ \E i \in Items, from, to \in Statuses : Decide(i, from, to)

Spec == Init /\ [][Next]_vars
==============================================================================

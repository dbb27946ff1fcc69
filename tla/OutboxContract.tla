--------------------------- MODULE OutboxContract ---------------------------
(***************************************************************************)
(* What the outbox promises whoever dispatched a run, as docs/automation.md*)
(* puts it: every row gets a bounded number of attempts, ends either       *)
(* delivered or in dead letters, and stays there.  Claims, leases, backoff *)
(* and the processes that do the work are not visible at this level.       *)
(***************************************************************************)
EXTENDS Integers

CONSTANTS
    Items,    \* the rows a worker is responsible for
    MaxTries  \* attempts a row may get

VARIABLES
    phase,  \* "absent", "pending", "delivered" or "dead_letter"
    tries   \* attempts recorded for a row

vars == <<phase, tries>>

Init ==
    /\ phase = [i \in Items |-> "absent"]
    /\ tries = [i \in Items |-> 0]

Submit(i) ==
    /\ phase[i] = "absent"
    /\ phase' = [phase EXCEPT ![i] = "pending"]
    /\ tries' = tries

\* One recorded attempt: the row is settled, or has attempts left.
Attempt(i, outcome) ==
    /\ phase[i] = "pending"
    /\ tries[i] < MaxTries
    /\ outcome = "pending" => tries[i] + 1 < MaxTries
    /\ phase' = [phase EXCEPT ![i] = outcome]
    /\ tries' = [tries EXCEPT ![i] = @ + 1]

Next ==
    \E i \in Items :
        \/ Submit(i)
        \/ \E outcome \in {"pending", "delivered", "dead_letter"} : Attempt(i, outcome)

Spec == Init /\ [][Next]_vars

\* Whatever is submitted is settled in the end.
Settles == \A i \in Items : phase[i] = "pending" ~> phase[i] \in {"delivered", "dead_letter"}
=============================================================================

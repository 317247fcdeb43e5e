---------------------------- MODULE QueryService ----------------------------
(***************************************************************************)
(* What x/interchainquery promises to the modules that use it: a request   *)
(* is open from its submission until it concludes, it concludes once, and  *)
(* the ways it may conclude depend on its timeout policy and on whether    *)
(* its id was forced to be unique.  No heights, proofs, ids or relayers.   *)
(***************************************************************************)
EXTENDS Integers

CONSTANTS
    Requests,     \* submissions made by other modules
    Key,          \* Key[r]: what a non-unique query id is computed from
    ForceUnique,  \* the requests submitted with forceUnique
    Policy        \* Policy[r]: "REJECT", "RETRY" or "EXECUTE"

VARIABLES
    open,     \* requests that wait for an answer
    outcome   \* outcome[r]: how r concluded, "none" before that

serviceVars == <<open, outcome>>

Init ==
    /\ open = {}
    /\ outcome = [r \in Requests |-> "none"]

\* Only a request whose id is not unique gives way to a new one of its kind.
Replaceable(q, r) ==
    /\ q \notin ForceUnique
    /\ r \notin ForceUnique
    /\ Key[q] = Key[r]

Submit(r) ==
    /\ r \notin open
    /\ outcome[r] = "none"
    /\ \E replaced \in SUBSET {q \in open : Replaceable(q, r)} :
         /\ open' = (open \ replaced) \cup {r}
         /\ outcome' = [q \in Requests |->
                          IF q \in replaced THEN "replaced" ELSE outcome[q]]

\* "answered": the callback ran on an answer in time; "late": it ran after the
\* timeout; "contentless" and "rejected": it never runs.
Outcomes(r) ==
    {"answered", "contentless"}
      \cup (IF Policy[r] = "REJECT" THEN {"rejected"} ELSE {})
      \cup (IF Policy[r] = "EXECUTE" THEN {"late"} ELSE {})

Conclude(r) ==
    /\ r \in open
    /\ open' = open \ {r}
    /\ \E o \in Outcomes(r) : outcome' = [outcome EXCEPT ![r] = o]

Next == \E r \in Requests : Submit(r) \/ Conclude(r)

Spec == Init /\ [][Next]_serviceVars
=============================================================================

------------------------- MODULE MCValidatorLedger -------------------------
(* Instances of ValidatorLedger for TLC. *)
EXTENDS ValidatorLedger

CONSTANTS v1, v2

Only(v, amount) == [w \in Validators |-> IF w = v THEN amount ELSE 0]
Message(kind, delta) == [kind |-> kind, delta |-> delta]

\* No two or three of these return a validator to an earlier delegation.
MCMessages ==
    {Message("delegate", Only(v1, 2)), Message("undelegate", Only(v1, -3)),
     Message("detokenize", Only(v2, 2)),
     Message("redelegate", [v \in Validators |-> IF v = v1 THEN -6 ELSE 6])}

\* One validator, which is never drained.
MCOneValidator ==
    {Message("delegate", Only(v1, 2)), Message("undelegate", Only(v1, -3))}
=============================================================================

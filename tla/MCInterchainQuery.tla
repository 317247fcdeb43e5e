-------------------------- MODULE MCInterchainQuery --------------------------
(* Instances of InterchainQuery: two balance queries of one account that    *)
(* share an id and are rejected when late, a delegation query that is       *)
(* retried, and a unique validator query that is executed when late.        *)
EXTENDS InterchainQuery, TLC

CONSTANTS balance1, balance2, shares, rate, k1, k2

MCKey ==
    balance1 :> k1 @@ balance2 :> k1 @@ shares :> k2 @@ rate :> k2

MCPolicy ==
    balance1 :> "REJECT" @@ balance2 :> "REJECT" @@ shares :> "RETRY"
      @@ rate :> "EXECUTE"
=============================================================================

CONSTANTS
    balance1 = balance1
    balance2 = balance2
    shares = shares
    rate = rate
    k1 = k1
    k2 = k2
    Requests = {balance1, balance2, shares, rate}
    ForceUnique = {rate}
    Key <- MCKey
    Policy <- MCPolicy
    MaxRequests = 2
    MaxLag = 2
    MaxHeight = 12
    MaxDelays = 1
SPECIFICATION FairSpec
INVARIANTS AnswersReflectKnowledge
PROPERTIES ServiceSpec QueriesConclude
CHECK_DEADLOCK FALSE

SPECIFICATION FairSpec
CONSTANTS
    Accounts = {1, 2}
    Contracts = {3}
    Networks = {testnet}
    Nonces = {nonce}
    Invocations = {root}
    MaxLedger = 1
    MaxDecodeDepth = 3
    Signers <- MCSigners
    Scopes <- MCScopes
    NotGiven = NotGiven
    NoAddress = NoAddress
    Malformed = Malformed
    NoNetwork = NoNetwork
    Jobs <- MCJobs
    MovedTo = {2, 3}
    MaxRotations = 1
INVARIANTS
    NoneLeftUnsigned
    ValidatedBeforeAsked
    ScheduleDoesNotMatter
PROPERTY
    CallReturns
\* The model is one call: after it has returned nothing is left to happen.
CHECK_DEADLOCK FALSE

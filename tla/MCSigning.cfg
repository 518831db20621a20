SPECIFICATION Spec
CONSTANTS
    Accounts = {1, 2}
    Contracts = {3}
    Networks = {pubnet, testnet}
    Nonces = {nonce}
    Invocations = {root}
    MaxLedger = 2
    MaxDecodeDepth = 3
    Received <- MCReceived
    DelegateTrees <- MCDelegateTrees
    Supplied <- MCSupplied
    Signers <- MCSigners
    Scopes <- MCScopes
    NotGiven = NotGiven
    NoAddress = NoAddress
    Malformed = Malformed
    NoNetwork = NoNetwork
INVARIANTS
    SignaturesCoverEntry
    EveryDepthFilled
    SignedOnlyWhenAcceptable
    VerifyAgrees
    WalletAgrees
PROPERTIES
    NoSilentOverwrite
    SharedPayloadPinned

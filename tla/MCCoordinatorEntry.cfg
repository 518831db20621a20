SPECIFICATION Spec
CONSTANTS
    Accounts = {1, 2}
    Contracts = {3}
    Networks = {testnet}
    Nonces = {nonce}
    Invocations = {root}
    MaxLedger = 2
    MaxDecodeDepth = 4
    Offered <- MCOffered
    Networked <- MCNetworked
    Signers <- MCSigners
    Scopes <- MCScopes
    NotGiven = NotGiven
    NoAddress = NoAddress
    Malformed = Malformed
    NoNetwork = NoNetwork
INVARIANT
    EntryCarriesRecorded

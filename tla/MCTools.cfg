SPECIFICATION Spec
CONSTANTS
  Subjects = {"canonical", "diff", "policy", "envelope", "attestation", "cli"}
  DepthLimit = 4
  Null = Null
  LedgerSpan = 16
  InputLimit = 3
  InspectEntry <- Inspect
  SignatureNodes <- SignatureNodesOf
  EnvelopeCalls <- MCEnvelopeCalls
  MaxCredentialIDLength = 2
  Registrations <- MCRegistrations
  MaxLedger = 15
  CommandLines <- MCCommandLines
INVARIANTS CanonicalFaithful DiffFindsStale PolicyFailsClosed EnvelopeAligned TrustIsEarned ExitTellsTruth CleanRunSucceeds OneDocument
CHECK_DEADLOCK FALSE

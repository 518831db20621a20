------------------------------- MODULE Policy -------------------------------
(***************************************************************************)
(* policy/: a signer that refuses what its rules do not allow.  It sees a  *)
(* preimage, not an entry, so it rebuilds what the preimage tells of one.  *)
(***************************************************************************)
EXTENDS Review

\* A legacy preimage does not say who signs: the entry gets source-account
\* credentials, and rules are told that they are not known.
extractEntryFromPreimage(preimage) ==
  CASE preimage.type = "authorization" ->
         {[entry |-> [credentials |-> [type |-> "source_account", v |-> 0],
                      root |-> preimage.invocation], known |-> FALSE]}
    [] preimage.type = "authorization_with_address" ->
         {[entry |-> [credentials |-> [type |-> "address_v2",
                        v |-> [address |-> preimage.address, nonce |-> preimage.nonce,
                               expiration |-> preimage.expiration,
                               signature |-> [type |-> "bool", v |-> FALSE]]],
                      root |-> preimage.invocation], known |-> TRUE]}
    [] OTHER -> {}

-----------------------------------------------------------------------------
\* The rules.  Each walks the invocation tree and looks at its contract calls;
\* creating a contract is no rule's business.

\* Mutant: the walk stops at the root.
Calls_RootOnly(inv) == IF inv.function.type = "contract_fn" THEN {inv.function.v} ELSE {}

\* The calls checkInvocation meets.
RECURSIVE Calls(_)
Calls(inv) ==
  (IF inv.function.type = "contract_fn" THEN {inv.function.v} ELSE {})
    \cup UNION {Calls(inv.subs[i]) : i \in DOMAIN inv.subs}

ContractNotAllowed(allowed, call) == call.contract.kind = "contract" /\ call.contract \notin allowed

RECURSIVE checkScVal(_, _)
checkScVal(max, val) ==
  CASE val.type \in {"u64", "i64"} -> val.v <= max
    [] val.type = "u128" -> val.v[1] = 0 /\ val.v[2] <= max
    [] val.type = "i128" -> val.v[1] < 0 \/ (val.v[1] = 0 /\ val.v[2] <= max)
    [] val.type = "vec" /\ ~val.v.nil -> \A i \in DOMAIN val.v.items : checkScVal(max, val.v.items[i])
    [] val.type = "map" /\ ~val.v.nil -> \A i \in DOMAIN val.v.items : checkScVal(max, val.v.items[i].val)
    [] OTHER -> TRUE

AmountTooLarge(max, call) == \E i \in DOMAIN call.args : ~checkScVal(max, call.args[i])

defaultSACAdminMethods == {"set_admin"}   \* six names in the code
AdminCalled(additional, call) == call.name \in defaultSACAdminMethods \cup additional

FunctionNotAllowed(allowed, call) == call.name \notin allowed

\* Only preimages that bind the address are known, and those are bound.
addressBound(entry, known) == known => entry.credentials.type # "address"

Evaluate(rule, entry, known) ==
  CASE rule.name = "contract_allowlist" ->
         \A c \in Calls(entry.root) : ~ContractNotAllowed(rule.allowed, c)
    [] rule.name = "max_amount" ->
         \A c \in Calls(entry.root) : ~AmountTooLarge(rule.max, c)
    [] rule.name = "forbidden_sac_admin" ->
         \A c \in Calls(entry.root) : ~AdminCalled(rule.additional, c)
    [] rule.name = "function_allowlist" ->
         \A c \in Calls(entry.root) : ~FunctionNotAllowed(rule.allowed, c)
    [] rule.name = "address_bound" -> addressBound(entry, known)

\* NewContractAllowlistRule refuses a list with a text that is no address.
NewContractAllowlistRule(addresses) ==
  IF \E a \in addresses : FormatAddress(a) = {} THEN {}
  ELSE {[name |-> "contract_allowlist", allowed |-> addresses]}

-----------------------------------------------------------------------------

DefaultRiskConfig ==
  [maxDelegateDepth |-> 3, maxTotalDelegates |-> 10, maxDelta |-> 10000, known |-> {},
   maxSubInvocations |-> 50, currentLedger |-> 0]

\* The rule that refuses, or "inner": what the wrapped signer answers is returned.
PolicySign(policy, preimage) ==
  IF policy.cancelled THEN "cancelled"
  ELSE IF extractEntryFromPreimage(preimage) = {} THEN "decode"
  ELSE LET x == CHOOSE e \in extractEntryFromPreimage(preimage) : TRUE
           findings == Analyze(x.entry, policy.cfg)
           refusing == {i \in DOMAIN policy.rules : ~Evaluate(policy.rules[i], x.entry, x.known)}
       IN CASE findings = {} -> "analyze"
            [] \E f \in findings : f \cap critical # {} -> "risk"
            [] \A f \in findings : f \cap critical = {} ->
                 IF refusing # {} THEN policy.rules[CHOOSE i \in refusing : \A j \in refusing : i <= j].name
                 ELSE IF policy.custom = "refuses" THEN "custom" ELSE "inner"
==============================================================================

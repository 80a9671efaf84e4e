SPECIFICATION ActivitySpec
CONSTANTS
  k1 = k1
  k2 = k2
  k3 = k3
  c1 = c1
  c2 = c2
  None = None
  Keys = {k1, k2, k3}
  Contracts = {c1, c2}
  Prefixes = {"OFFER-", "PERMIT-"}
  Payloads = {0, 1}
  ContractOf <- MCContractOf
  PrefixOf <- MCPrefixOf
  StartsAt <- MCStartsAt
  Claims = {None}
  MaxNumber = 3
  OfferKeys = {k1, k2}
  PayloadOf <- MCPayloadOf
  MaxLost = 0
  MaxRestarts = 0
CHECK_DEADLOCK FALSE
INVARIANTS DeclineVerifies

SPECIFICATION Spec
CONSTANTS
  k1 = k1
  k2 = k2
  k3 = k3
  c1 = c1
  c2 = c2
  None = None
  Keys = {k1, k2, k3}
  Contracts = {c1, c2}
  Prefixes = {"P", "Q"}
  p1 = p1
  p2 = p2
  Payloads = {p1, p2}
  ContractOf <- MCContractOf
  PrefixOf <- MCPrefixOf
  StartsAt <- MCStartsAt
  Claims <- MCClaims
  MaxNumber = 2
CHECK_DEADLOCK FALSE
SYMMETRY MCSymmetry
INVARIANTS TypeOK NumbersAccounted RegistersAgree AuditTellsRegistry GenuineVerifies VersionsChain

SPECIFICATION Spec
CONSTANTS
  k1 = k1
  k2 = k2
  k3 = k3
  a1 = a1
  a2 = a2
  a3 = a3
  r1 = r1
  r2 = r2
  r3 = r3
  p1 = p1
  p2 = p2
  Replica = {p1, p2}
  Request = {r1, r2, r3}
  ReplicaOf <- TwoProcesses
  Key = {k1, k2}
  Address = {a1, a2}
  AddressOf <- MCAddressOf
  NoKey = NoKey
  NoAddress = NoAddress
  NoRequest = NoRequest
  FetchesPublicKey = TRUE
  Ops = {"create", "delete"}
  FlawFound = {}
  MaxFaults = 2
INVARIANTS
  TypeOK
  OneCallPerProcess
  AliasFaithful
  OrphansBoundedByFaults
  DanglingAliasNeedsFault
PROPERTY
  OrphanIsForever

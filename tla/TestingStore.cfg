SPECIFICATION Spec
CONSTANTS
  Key = {k1, k2, k3}
  Chain = {"ethereum", "casper", "cosmos"}
  EthChainId = {1, 109, 110, 111, 137, 256}
  NoKey = NoKey
INVARIANTS SameKeys AlikeWithKeys SuccessCarriesOver
SYMMETRY Symmetry

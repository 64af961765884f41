SPECIFICATION Spec
CONSTANTS
  s1 = s1
  s2 = s2
  address1 = address1
  publicKey1 = publicKey1
  address2 = address2
  Chains = {"cosmos"}
  Name = {address1, publicKey1, address2}
  Signer = {s1, s2}
  SignerOf <- MCSignerOf
  NumberOf <- MCNumberOf
  EthChainId = {1}
  MaxKeys = 2
  MaxSequence = 1
  MaxSignatures = 1
INVARIANT
  DefaultsOnlyWhenAbsent

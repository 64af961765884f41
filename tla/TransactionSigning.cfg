SPECIFICATION FairSpec
CONSTANTS
  s1 = s1
  s2 = s2
  address1 = address1
  publicKey1 = publicKey1
  address2 = address2
  Chains = {"casper", "ethereum", "cosmos"}
  Name = {address1, publicKey1, address2}
  Signer = {s1, s2}
  SignerOf <- MCSignerOf
  NumberOf <- MCNumberOf
  EthChainId = {1, 110, 137}
  MaxKeys = 2
  MaxSequence = 2
  MaxSignatures = 2
INVARIANTS
  TypeOK
  AllOrNothing
  AnswerConsistent
  SequenceTimely
  RecoversChainId
PROPERTIES
  Answered
  WorkRunsOut

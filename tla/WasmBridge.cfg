SPECIFICATION Spec
CONSTANTS
  b1 = b1 b2 = b2 b3 = b3 b4 = b4 b5 = b5 s1 = s1 s2 = s2
  Block = {b1, b2, b3, b4, b5}
  String = {s1, s2}
  NoBlock = NoBlock
INVARIANTS TypeOK MemoryReturned AnswersItsArgument ExhaustionNeedsError
SYMMETRY Symmetry

SPECIFICATION Spec
CONSTANTS StackWords = 22 MaxDepth = 3 MaxCollections = 2 MaxArea = 3
  Moves = {{"a", "b", "stub"}, {"f", "C", "a"}}
INVARIANT StubIsCurrent

SPECIFICATION MCSpec
CONSTANTS
  NIL = NIL  NoOp = NoOp
INVARIANTS Compacted CopiesAgree Restored RootsFollowed BuffersAgree TypesConform
PROPERTY BytesInOrder
CHECK_DEADLOCK FALSE

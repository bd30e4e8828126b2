\* Insertion in the middle of a full Vec, with elements that never throw.
CONSTANTS
  r1 = r1
  r2 = r2
  Values <- TwoValues
  Default = Default
  None = None
  MaxCapacity = 4
  v1 = v1
  v2 = v2
  Elements <- TwoElements
  Moved = Moved
  Raw = Raw
  Bad = Bad
  Kinds <- Heap
  Throwing <- Nothing
  MaxCells = 3
  InlineCapacity = 2
  ByteBits = 2
  SizeLimit = 32
  MaxBits = 5
  Capacities = {1, 2, 3, 4, 6, 10}
  SpanBytes = 3
  Unit = 1
  ByteValues = {1, 6, 13}
  MaxBytes = 4
  SizeMax = 15
  Things = {10, 11, 20}
  Emptied = 0
  ArraySize = 4
  Octets = {1, 2}
  StoreSize = 5
  FarOffsets = {30, 31}
SPECIFICATION VecSpec
INVARIANT InsertIsSound
\* The end of a broken buffer is a step that changes nothing.
CHECK_DEADLOCK FALSE

\* Every container of the library, one at a time.
CONSTANTS
  r1 = r1
  r2 = r2
  Values <- TwoValues
  Default = Default
  None = None
  MaxCapacity = 4
  v1 = v1
  v2 = v2
  Elements <- TwoElements
  Moved = Moved
  Raw = Raw
  Bad = Bad
  Kinds <- AllKinds
  Throwing <- Anything
  MaxCells = 3
  InlineCapacity = 2
  ByteBits = 2
  SizeLimit = 32
  MaxBits = 5
  Capacities = {1, 2, 3, 4, 6, 10}
  SpanBytes = 3
  Unit = 1
  ByteValues = {1, 6, 13}
  MaxBytes = 4
  SizeMax = 15
  Things = {10, 11, 20}
  Emptied = 0
  ArraySize = 4
  Octets = {1, 2}
  StoreSize = 5
  FarOffsets = {30, 31}
SPECIFICATION ContainersSpec
INVARIANTS
  IndicesAgree
  CursorInStep
  LifetimesMatchSize
  VecCalls
  StrongGuarantee
  BitsAreExact
  ArrayBytes
  RangeLoops
PROPERTY ImplementsDeque
\* A view that runs past its memory, or a BitSet that writes past it, stops.
CHECK_DEADLOCK FALSE

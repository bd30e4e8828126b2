\* Two producers, two records each, two places, every overflow policy.
CONSTANTS
  p = p
  q = q
  Producers <- TwoProducers
  MaxRecords = 2
  MaxCapacity = 2
  Policies <- AllPolicies
SPECIFICATION FairSpec
INVARIANTS
  EachRecordOnce
  OrderPerProducer
PROPERTIES
  LostOnlyWhenFull
  QueuedIsProcessed

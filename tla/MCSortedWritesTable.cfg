SPECIFICATION MCSpec
CONSTANTS
  Keys <- MCKeys
  Values = {1, 2}
  Combine <- MCMin
  MaxTs = 2
  NoRow = NoRow
  NumShards = 2
  ShardOf <- MCShardOf
  Writers = {w1}
  BatchSize = 2
  RehashMin = 0
  RehashPart = 3
  MaxOps = 3
INVARIANTS HashExact OffsetsExact IndexExact
PROPERTIES ChangeReported ImplementsKeyedTable
CHECK_DEADLOCK FALSE

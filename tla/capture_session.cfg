SPECIFICATION Spec
CONSTANTS
  Lengths = {1, 2}
  FrameCounts = {1, 2}
  MaximumQueueBytes = 3
  MaximumBytes = 4
  FrameLimit = 3
  MaxFrames = 5
  NoRecord = NoRecord
INVARIANTS TypeOK PayloadIntact WithinBudget PublishedTiles NothingAfterRecord BoundIsReached
PROPERTY Returns

SPECIFICATION Spec
CONSTANTS
  Cores = {"mpsc"}
  RingSize = 2
  RingCalls <- MCRingCalls
  Producers = {th1, th2}
  QueueSize = 2
  QueueCalls <- MCQueueCalls
  Watchers = {th1}
  CellCalls <- MCCellCalls
  Readers = {th1, th2}
  SnapshotSlots = 2
  SnapshotCalls <- MCSnapshotCalls
  Pushers = {th1, th2}
  Nodes = {"n1", "n2", "n3"}
  StackCalls <- MCStackCalls
  Thieves = {th1, th2}
  DequeSize = 2
  DequeCalls <- MCDequeCalls
  th1 = th1
  th2 = th2
INVARIANT MpscNeverWedged
CHECK_DEADLOCK FALSE

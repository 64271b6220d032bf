CONSTANTS
  w1 = w1 w2 = w2 rpc = rpc load = load main = main s1 = s1 s2 = s2
  Worker = {w1, w2}
  Caller = {rpc, load}
  Loader = {load}
  Main = main
  Subscriber = {s1, s2}
  QueueLimit = 0
  MaxEvents = 3
  MaxEntries = 2
SPECIFICATION Spec
INVARIANTS CountExact
PROPERTIES NoneSkipped InOrder SyncReturns 

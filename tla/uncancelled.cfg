SPECIFICATION UncancelledSpec
CONSTANTS
  w1 = w1
  w2 = w2
  Tasks = {w1, w2}
  SpuriousWakeups = TRUE
  Features = {"std", "async"}
  Panics = {"drop_message", "clone", "drop_waker", "wake"}
  MaxCalls = 3
SYMMETRY AnyTask
INVARIANT NoUseAfterFree
INVARIANT NoLeak

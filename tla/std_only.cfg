SPECIFICATION Spec
CONSTANTS
  w1 = w1
  w2 = w2
  Tasks = {w1}
  SpuriousWakeups = TRUE
  Features = {"std"}
  Panics = {"drop_message", "clone", "drop_waker", "wake"}
  MaxCalls = 6
INVARIANT NoUseAfterFree
INVARIANT NoLeak

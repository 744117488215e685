SPECIFICATION Spec
CONSTANTS
  w1 = w1
  Tasks = {w1}
  SpuriousWakeups = FALSE
  Features = {"async"}
  Panics = {}
  MaxCalls = 1
INVARIANT NoUseAfterFree

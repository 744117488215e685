SPECIFICATION Spec
CONSTANTS
  Tasks = {}
  SpuriousWakeups = TRUE
  Features = {"std"}
  Panics = {}
  MaxCalls = 1
INVARIANT NoDataRace

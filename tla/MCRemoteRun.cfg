CONSTANTS
  count = count
  latency = latency
  log = log
  small = small
  large = large
  bad = bad
  stray = stray
  Counters = {count}
  Durations = {latency}
  Amounts = {0, 1, 3}
  Artifacts = {log}
  Documents = {small, large}
  Size <- MCSize
  Unencodable = bad
  Outputs <- MCOutputs
  StrayPort = stray
  InputDefs <- MCInputDefs
  ChunkMax = 2
  DefaultMax = 5
  MaxEffort = 5
SPECIFICATION Spec
CHECK_DEADLOCK FALSE
INVARIANTS NothingLeftOpen SecretsStay
PROPERTY RunsAsLocal

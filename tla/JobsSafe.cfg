SPECIFICATION Spec
CONSTANTS
  a = a
  b = b
  t = t
  k = k
  chat = chat
  code = code
  tts = tts
  gpt = gpt
  Models <- MCModels
  JobModel <- MCJobModel
  Provider <- MCProvider
  Priority <- Ranked
  Jobs = {a, t, k}
  Callbacks = {t}
  Delayed = {a}
  Settings = {"gpu"}
  Preempts = TRUE
  MaxQueued = 2
  MaxRestarts = 1
  None = None
INVARIANTS RunningHasTask AttemptsBounded CalledBackWhenFinished
PROPERTIES TableImplemented

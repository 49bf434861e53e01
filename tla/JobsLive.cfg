SPECIFICATION FairSpec
CONSTANTS
  a = a
  b = b
  t = t
  k = k
  chat = chat
  code = code
  tts = tts
  gpt = gpt
  Models <- MCModels
  JobModel <- MCJobModel
  Provider <- MCProvider
  Priority <- Equal
  Jobs = {a, b}
  Callbacks = {b}
  Delayed = {a}
  Settings = {"jobs"}
  Preempts = TRUE
  MaxQueued = 0
  MaxRestarts = 1
  None = None
PROPERTIES JobsEnd

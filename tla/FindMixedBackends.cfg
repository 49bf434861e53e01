SPECIFICATION Spec
CONSTANTS
  chat = chat
  code = code
  tts = tts
  ollama = ollama
  speech = speech
  c1 = c1
  d1 = d1
  t1 = t1
  j1 = j1
  Models <- TwoBackends
  Backends <- MCBackends
  Backend <- MCBackend
  ReqModel <- MCReqModel
  Req = {c1, j1, t1}
  Interactive = {c1, t1}
  Impatient = {t1}
  Returning = {}
  None = None
  ProbeSuspends = TRUE
  MaxKicks = 1
  MaxEvictTasks = 1
INVARIANT NeverSideBySide

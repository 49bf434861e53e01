SPECIFICATION FairSpec
CONSTANTS
  chat = chat
  code = code
  tts = tts
  ollama = ollama
  speech = speech
  c1 = c1
  d1 = d1
  t1 = t1
  j1 = j1
  Models <- OneOllama
  Backends <- MCBackends
  Backend <- MCBackend
  ReqModel <- MCReqModel
  Req = {c1, d1, j1}
  Interactive = {c1, d1}
  Impatient = {}
  Returning = {}
  None = None
  ProbeSuspends = TRUE
  MaxKicks = 1
  MaxEvictTasks = 1
PROPERTIES InteractiveServed

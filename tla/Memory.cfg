SPECIFICATION FairSpec
CONSTANTS
  qwen = qwen
  gemma = gemma
  tts = tts
  whisper = whisper
  speech = speech
  dictation = dictation
  Ollama = Ollama
  None = None
  Models <- MCModels
  Backends <- MCBackends
  BackendOf <- MCBackendOf
INVARIANTS OwnerAlone
PROPERTIES NobodyBlocked

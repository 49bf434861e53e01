---------------------------- MODULE MCCardMemory ----------------------------
(* Instances of CardMemory: Ollama with two models, and two GPU services.  *)
EXTENDS CardMemory, TLC

CONSTANTS qwen, gemma, tts, whisper, speech, dictation
MCModels == {qwen, gemma, tts, whisper}
MCBackends == {Ollama, speech, dictation}
MCBackendOf == qwen :> Ollama @@ gemma :> Ollama @@ tts :> speech @@ whisper :> dictation
=============================================================================

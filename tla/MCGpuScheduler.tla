--------------------------- MODULE MCGpuScheduler ---------------------------
(* Instances of GpuScheduler for TLC: two models of Ollama and one of a    *)
(* GPU service on the same card.                                           *)
EXTENDS GpuScheduler

CONSTANTS chat, code, tts      \* models
CONSTANTS ollama, speech       \* backends
CONSTANTS c1, d1, t1, j1       \* callers: of chat, of code, of tts, a queued job

MCModels == {chat, code, tts}
TwoBackends == {chat, tts}
OneOllama == {chat, code}
MCBackends == {ollama, speech}
MCBackend == [m \in Models |-> IF m = tts THEN speech ELSE ollama]
MCReqModel == [r \in Req |-> CASE r = c1 -> chat [] r = d1 -> code
                               [] r = t1 -> tts [] OTHER -> chat]
=============================================================================

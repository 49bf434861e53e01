----------------------------- MODULE CardMemory -----------------------------
(***************************************************************************)
(* What the scheduler believes of the card and what is in its memory:      *)
(* all_loaded (main.py 26-34) asks Ollama and then each GPU service what   *)
(* they hold, evict_backend (main.py 42-59) makes one of them let go and   *)
(* asks until it holds nothing, and every one of these calls may fail or   *)
(* never be answered.  GpuScheduler takes any answer of the probe and any  *)
(* end of an eviction; here they come from the memory.                     *)
(*                                                                         *)
(* The scheduler is reduced to what GpuCard promises: one owner, an        *)
(* eviction between two owners, nobody let in meanwhile.  The start of the *)
(* proxy is any state of the memory: what was running before it crashed,   *)
(* or what a service loaded by itself, is still there.  Afterwards a       *)
(* backend loads a model only while the proxy runs a request for it, and   *)
(* it may drop one that is not in use at any time (keep_alive).            *)
(***************************************************************************)
EXTENDS Integers, FiniteSets

CONSTANTS
    Models,
    Backends,       \* Ollama and the GPU services
    Ollama,
    BackendOf,      \* backend_of: by the patterns of the services, else Ollama
    None

(* A probe and an eviction under way.                                      *)
Probes == [model : Models, todo : SUBSET Backends, names : SUBSET Models]
Evictions == [slug : Backends, to : Models, at : {"ps", "unload", "wait"}, todo : SUBSET Models]

ASSUME CardMemoryAssumption ==
    /\ Ollama \in Backends
    /\ BackendOf \in [Models -> Backends]
    /\ None \notin Models \cup Backends \cup Probes \cup Evictions

VARIABLES
    memory,     \* the models a backend holds in VRAM
    answering,  \* the backends that answer calls at the moment
    admitted,   \* the model the card belongs to
    running,    \* models with requests in flight
    probe,      \* all_loaded on behalf of the first request: [model, todo, names]
    eviction,   \* evict_backend: [slug, to, at, todo]
    excuse      \* history: why a backend may hold memory though the card is not its own

vars == <<memory, answering, admitted, running, probe, eviction, excuse>>

Services == Backends \ {Ollama}
ModelsOf(b) == {m \in Models : BackendOf[m] = b}
Faults == {"failed",    \* its own probe or its own eviction went wrong
           "blind",     \* Ollama did not answer, so no service was asked
           "second"}    \* it was found, but another one was found first

Init ==
    /\ memory \in {mem \in [Backends -> SUBSET Models] : \A b \in Backends : mem[b] \subseteq ModelsOf(b)}
    /\ answering \in SUBSET Backends
    /\ admitted = None /\ running = {} /\ probe = None /\ eviction = None
    /\ excuse = [b \in Backends |-> {}]

-----------------------------------------------------------------------------
(* Ollama and the services.                                                *)
Loads(m) ==
    /\ m \in running
    /\ memory' = [memory EXCEPT ![BackendOf[m]] = @ \cup {m}]
    /\ UNCHANGED <<answering, admitted, running, probe, eviction, excuse>>

Drops(m) ==
    /\ m \notin running
    /\ memory' = [memory EXCEPT ![BackendOf[m]] = @ \ {m}]
    /\ memory' # memory
    /\ UNCHANGED <<answering, admitted, running, probe, eviction, excuse>>

Answers(b) ==
    /\ b \notin answering
    /\ answering' = answering \cup {b}
    /\ UNCHANGED <<memory, admitted, running, probe, eviction, excuse>>

FallsSilent(b) ==
    /\ b \in answering
    /\ answering' = answering \ {b}
    /\ UNCHANGED <<memory, admitted, running, probe, eviction, excuse>>

-----------------------------------------------------------------------------
(* The first request of all: _can_run asks what is loaded.                 *)
FirstRequest(m) ==
    /\ admitted = None /\ probe = None
    /\ probe' = [model |-> m, todo |-> Backends, names |-> {}]
    /\ UNCHANGED <<memory, answering, admitted, running, eviction, excuse>>

Excused(backends, why) == [b \in Backends |-> excuse[b] \cup IF b \in backends THEN {why} ELSE {}]

(* loaded() takes an exception of Ollama's /api/ps for an empty card.      *)
ProbeFails ==
    /\ probe # None /\ Ollama \in probe.todo
    /\ Ollama \notin answering
    /\ probe' = [probe EXCEPT !.todo = {}]
    /\ excuse' = [b \in Backends |-> excuse[b] \cup {IF b = Ollama THEN "failed" ELSE "blind"}]
    /\ UNCHANGED <<memory, answering, admitted, running, eviction>>

ProbeOllama ==
    /\ probe # None /\ Ollama \in probe.todo
    /\ Ollama \in answering
    /\ probe' = [probe EXCEPT !.todo = @ \ {Ollama}, !.names = @ \cup memory[Ollama]]
    /\ UNCHANGED <<memory, answering, admitted, running, eviction, excuse>>

(* A service that does not answer counts as empty.                         *)
ProbeService(b) ==
    /\ probe # None /\ Ollama \notin probe.todo /\ b \in probe.todo
    /\ IF b \in answering
       THEN /\ probe' = [probe EXCEPT !.todo = @ \ {b}, !.names = @ \cup memory[b]]
            /\ UNCHANGED excuse
       ELSE /\ probe' = [probe EXCEPT !.todo = @ \ {b}]
            /\ excuse' = Excused({b}, "failed")
    /\ UNCHANGED <<memory, answering, admitted, running, eviction>>

Foreign == {m \in probe.names : BackendOf[m] # BackendOf[probe.model]}

Eviction(slug, to) ==
    [slug |-> slug, to |-> to, at |-> IF slug = Ollama THEN "ps" ELSE "unload", todo |-> {}]

(* Nothing foreign: the request runs.                                      *)
CardIsFree ==
    /\ probe # None /\ probe.todo = {} /\ Foreign = {}
    /\ admitted' = probe.model
    /\ running' = {probe.model}
    /\ probe' = None
    /\ UNCHANGED <<memory, answering, eviction, excuse>>

(* One foreign model is taken for the owner and evicted.                   *)
CardIsForeign ==
    /\ probe # None /\ probe.todo = {}
    /\ \E name \in Foreign :
          /\ admitted' = name
          /\ eviction' = Eviction(BackendOf[name], probe.model)
          /\ excuse' = Excused({BackendOf[n] : n \in Foreign} \ {BackendOf[name]}, "second")
    /\ probe' = None
    /\ UNCHANGED <<memory, answering, running>>

-----------------------------------------------------------------------------
(* Later requests: the owner's backend, or a switch.                       *)
Enter(m) ==
    /\ admitted # None /\ eviction = None
    /\ BackendOf[m] = BackendOf[admitted]
    /\ admitted' = IF running = {} THEN m ELSE admitted
    /\ running' = running \cup {m}
    /\ UNCHANGED <<memory, answering, probe, eviction, excuse>>

Leave(m) ==
    /\ m \in running
    /\ running' = running \ {m}
    /\ UNCHANGED <<memory, answering, admitted, probe, eviction, excuse>>

BeginSwitch(m) ==
    /\ admitted # None /\ eviction = None /\ running = {}
    /\ BackendOf[m] # BackendOf[admitted]
    /\ eviction' = Eviction(BackendOf[admitted], m)
    /\ UNCHANGED <<memory, answering, admitted, running, probe, excuse>>

-----------------------------------------------------------------------------
(* evict_backend, and _evict_and_switch when it ends.                      *)
At(step) == eviction # None /\ eviction.at = step /\ eviction.slug \in answering
Goes(step, todo) == eviction' = [eviction EXCEPT !.at = step, !.todo = todo]

EvictPs ==
    /\ At("ps")
    /\ Goes("unload", memory[Ollama])
    /\ UNCHANGED <<memory, answering, admitted, running, probe, excuse>>

(* Ollama is told model by model; an embedding model answers the first     *)
(* call with an error and gets a second one. What is told may be done late.*)
EvictModel ==
    /\ At("unload") /\ eviction.slug = Ollama
    /\ \E name \in eviction.todo :
          /\ Goes("unload", eviction.todo \ {name})
          /\ \/ memory' = [memory EXCEPT ![Ollama] = @ \ {name}]
             \/ UNCHANGED memory
    /\ UNCHANGED <<answering, admitted, running, probe, excuse>>

EvictToldAll ==
    /\ At("unload") /\ eviction.slug = Ollama /\ eviction.todo = {}
    /\ Goes("wait", {})
    /\ UNCHANGED <<memory, answering, admitted, running, probe, excuse>>

EvictService ==
    /\ At("unload") /\ eviction.slug # Ollama
    /\ Goes("wait", {})
    /\ \/ memory' = [memory EXCEPT ![eviction.slug] = {}]
       \/ UNCHANGED memory
    /\ UNCHANGED <<answering, admitted, running, probe, excuse>>

(* The request it was done for waits without a timeout of its own.         *)
SwitchTo(m) ==
    /\ eviction' = None
    /\ admitted' = m
    /\ running' = {m}
    /\ UNCHANGED <<memory, answering, probe>>

\* Mutant: the answer to the call is believed
BelievesTheAnswer ==
    /\ At("wait")
    /\ excuse' = [excuse EXCEPT ![eviction.slug] = {}]
    /\ SwitchTo(eviction.to)

(* _wait_empty: the backend says itself that it holds nothing.             *)
EvictEmpty ==
    /\ At("wait")
    /\ memory[eviction.slug] = {}
    /\ excuse' = [excuse EXCEPT ![eviction.slug] = {}]
    /\ SwitchTo(eviction.to)

\* Mutant: only an error of a call ends an eviction
FailsByErrorOnly ==
    /\ eviction # None
    /\ eviction.slug \notin answering
    /\ excuse' = Excused({eviction.slug}, "failed")
    /\ SwitchTo(eviction.to)

(* An error of a call, or evict_timeout_s: switched all the same.          *)
EvictFails ==
    /\ eviction # None
    /\ excuse' = Excused({eviction.slug}, "failed")
    /\ SwitchTo(eviction.to)

Probing == ProbeFails \/ ProbeOllama \/ (\E b \in Services : ProbeService(b)) \/ CardIsFree \/ CardIsForeign
Evicting == EvictPs \/ EvictModel \/ EvictToldAll \/ EvictService \/ EvictEmpty \/ EvictFails

Next ==
    \/ \E m \in Models : Loads(m) \/ Drops(m) \/ FirstRequest(m) \/ Enter(m) \/ Leave(m) \/ BeginSwitch(m)
    \/ \E b \in Backends : Answers(b) \/ FallsSilent(b)
    \/ Probing \/ Evicting

(* Every call of a probe has a timeout of its own, 2 s or 5 s; wait_for    *)
(* ends an eviction.  Backends need not ever answer.                       *)
Spec == Init /\ [][Next]_vars
FairSpec == Spec /\ WF_vars(Probing) /\ WF_vars(EvictFails)

-----------------------------------------------------------------------------
(* The types; nothing runs while the card is emptied or looked at.         *)
TypeOK ==
    /\ memory \in [Backends -> SUBSET Models] /\ \A b \in Backends : memory[b] \subseteq ModelsOf(b)
    /\ excuse \in [Backends -> SUBSET Faults]
    /\ answering \subseteq Backends
    /\ admitted \in Models \cup {None} /\ running \subseteq Models
    /\ probe \in Probes \cup {None} /\ eviction \in Evictions \cup {None}
    /\ probe # None => admitted = None
    /\ eviction # None => /\ admitted # None /\ eviction.slug = BackendOf[admitted]
                          /\ eviction.at = "ps" => eviction.slug = Ollama
                          /\ eviction.todo \subseteq ModelsOf(eviction.slug)
                          /\ running = {}

Others(m) == Backends \ {BackendOf[m]}

(* scheduler.py 18-23, with its exceptions: while a request runs, another  *)
(* backend holds memory only if a call to it failed, if Ollama could not   *)
(* be asked when the proxy started, or if it was the second one found      *)
(* then.  No eviction that ended well leaves anything behind.              *)
BesideOnlyAfterFault ==
    \A m \in running : \A b \in Others(m) : memory[b] # {} => excuse[b] # {}

(* With the types, which say that nothing runs while the card is emptied.  *)
OwnerAlone == TypeOK /\ BesideOnlyAfterFault

(* The same, but a service is not to be forgotten because Ollama did not   *)
(* answer (main.py 27 excepts the service that is not available): false.   *)
AnsweringServiceIsSeen ==
    \A m \in running : \A b \in Others(m) : memory[b] # {} => excuse[b] \ {"blind"} # {}

(* The same, but all that are found in memory have to let go: false.       *)
AllForeignLetGo ==
    \A m \in running : \A b \in Others(m) : memory[b] # {} => excuse[b] \ {"second"} # {}

(* scheduler.py 21-23: a dead service must not block Ollama for good.      *)
(* Whoever does or does not answer, the request that waits for a probe or  *)
(* an eviction gets the card.                                              *)
NobodyBlocked ==
    /\ \A m \in Models : (probe # None /\ probe.model = m) ~> (m \in running)
    /\ \A m \in Models : (eviction # None /\ eviction.to = m) ~> (m \in running)
=============================================================================

-------------------------- MODULE CardMemoryProofs --------------------------
(* Whoever runs on the card is alone in its memory, but for the faults of  *)
(* the others: for any models, any services and any state of the memory    *)
(* the proxy finds when it starts.                                         *)
EXTENDS CardMemory, TLAPS

(* A backend that holds nothing, or has an excuse.                         *)
Clean(b) == memory[b] # {} => excuse[b] # {}

(* Before the first request is let in nothing runs; afterwards only models *)
(* of the owner's backend do.                                              *)
RunningIsOwners ==
    /\ admitted = None => running = {} /\ eviction = None
    /\ admitted # None => running \subseteq ModelsOf(BackendOf[admitted])

(* What a probe has asked is in the names it returns, or was not to be had.*)
(* The memory only shrinks meanwhile, because nothing runs.                *)
ProbeSeesAll ==
    probe # None => \A b \in Backends \ probe.todo : excuse[b] # {} \/ memory[b] \subseteq probe.names

(* Beside the owner, and beside the backend that gets the card next, all   *)
(* are clean.                                                              *)
OthersClean ==
    admitted # None =>
      \A b \in Others(admitted) : (eviction # None => b # BackendOf[eviction.to]) => Clean(b)

CardInv == TypeOK /\ RunningIsOwners /\ ProbeSeesAll /\ OthersClean

-----------------------------------------------------------------------------
(* No model, probe or eviction is None.                                    *)
LEMMA Distinct ==
    /\ BackendOf \in [Models -> Backends] /\ Ollama \in Backends
    /\ None \notin Models /\ None \notin Probes /\ None \notin Evictions
    BY CardMemoryAssumption

LEMMA InitCard == Init => CardInv
    BY DEF Init, CardInv, TypeOK, RunningIsOwners, ProbeSeesAll, OthersClean

-----------------------------------------------------------------------------
(* The backends. Only the backend of a model that runs fills its memory,   *)
(* and that is the owner's; what others drop makes nothing unclean.        *)
LEMMA LoadsKeeps ==
    ASSUME CardInv, NEW m \in Models, Loads(m)
    PROVE  CardInv'
<1>1. TypeOK'
    BY Distinct DEF CardInv, TypeOK, Loads, ModelsOf
<1>2. RunningIsOwners'
    BY DEF CardInv, RunningIsOwners, Loads
<1>3. ProbeSeesAll'
    BY DEF CardInv, TypeOK, RunningIsOwners, ProbeSeesAll, Loads
<1>4. OthersClean'
    BY DEF CardInv, RunningIsOwners, OthersClean, Others, Clean, Loads, ModelsOf
<1> QED
    BY <1>1, <1>2, <1>3, <1>4 DEF CardInv

LEMMA DropsKeeps ==
    ASSUME CardInv, NEW m \in Models, Drops(m)
    PROVE  CardInv'
<1>1. TypeOK'
    BY DEF CardInv, TypeOK, Drops
<1>2. RunningIsOwners'
    BY DEF CardInv, RunningIsOwners, Drops
<1>3. ProbeSeesAll'
    BY DEF CardInv, ProbeSeesAll, Drops
<1>4. OthersClean'
    BY DEF CardInv, OthersClean, Clean, Drops
<1> QED
    BY <1>1, <1>2, <1>3, <1>4 DEF CardInv

LEMMA AnsweringKeeps ==
    ASSUME CardInv, NEW b \in Backends, Answers(b) \/ FallsSilent(b)
    PROVE  CardInv'
<1>1. UNCHANGED <<memory, admitted, running, probe, eviction, excuse>>
    BY DEF Answers, FallsSilent
<1>2. answering' \subseteq Backends
    BY DEF CardInv, TypeOK, Answers, FallsSilent
<1> QED
    BY <1>1, <1>2
       DEF CardInv, TypeOK, RunningIsOwners, ProbeSeesAll, OthersClean, Clean

-----------------------------------------------------------------------------
(* The probe of the first request.                                         *)
LEMMA ProbeIs ==
    ASSUME CardInv, probe # None
    PROVE  /\ probe \in Probes /\ probe.model \in Models
           /\ probe.todo \subseteq Backends /\ probe.names \subseteq Models
           /\ admitted = None /\ eviction = None /\ running = {}
    BY DEF CardInv, TypeOK, RunningIsOwners, Probes

LEMMA FirstRequestKeeps ==
    ASSUME CardInv, NEW m \in Models, FirstRequest(m)
    PROVE  CardInv'
<1>1. TypeOK'
    BY DEF CardInv, TypeOK, FirstRequest, Probes
<1>2. RunningIsOwners'
    BY DEF CardInv, RunningIsOwners, FirstRequest
<1>3. ProbeSeesAll'
    BY DEF ProbeSeesAll, FirstRequest
<1>4. OthersClean'
    BY DEF OthersClean, FirstRequest
<1> QED
    BY <1>1, <1>2, <1>3, <1>4 DEF CardInv

(* One more answer, or one more failure, in the state of the probe.        *)
LEMMA AskedKeeps ==
    ASSUME CardInv, probe # None, probe' \in Probes, probe.names \subseteq probe'.names,
           excuse' \in [Backends -> SUBSET Faults],
           \A b \in Backends : excuse[b] \subseteq excuse'[b],
           \A b \in probe.todo \ probe'.todo :
              excuse'[b] # {} \/ memory[b] \subseteq probe'.names,
           UNCHANGED <<memory, answering, admitted, running, eviction>>
    PROVE  CardInv'
<1>1. admitted = None
    BY ProbeIs
<1>2. TypeOK' /\ RunningIsOwners' /\ OthersClean'
    BY DEF CardInv, TypeOK, RunningIsOwners, OthersClean
<1>3. ProbeSeesAll'
    BY DEF CardInv, ProbeSeesAll
<1> QED
    BY <1>2, <1>3 DEF CardInv

LEMMA ProbeFailsKeeps ==
    ASSUME CardInv, ProbeFails
    PROVE  CardInv'
<1>1. probe # None /\ UNCHANGED <<memory, answering, admitted, running, eviction>>
    BY DEF ProbeFails
<1>2. probe' \in Probes /\ probe'.names = probe.names
    BY ProbeIs DEF ProbeFails, Probes
<1>3. /\ excuse' \in [Backends -> SUBSET Faults]
      /\ \A b \in Backends : excuse[b] \subseteq excuse'[b] /\ excuse'[b] # {}
    BY DEF CardInv, TypeOK, ProbeFails, Faults
<1>4. probe.todo \subseteq Backends
    BY <1>1, ProbeIs
<1> QED
    BY <1>1, <1>2, <1>3, <1>4, AskedKeeps

LEMMA ProbeAnswersKeeps ==
    ASSUME CardInv, NEW b \in Backends, probe # None,
           probe' = [probe EXCEPT !.todo = @ \ {b}, !.names = @ \cup memory[b]],
           UNCHANGED <<memory, answering, admitted, running, eviction, excuse>>
    PROVE  CardInv'
<1>1. memory[b] \subseteq Models /\ excuse \in [Backends -> SUBSET Faults]
    BY DEF CardInv, TypeOK
<1>2. /\ probe' \in Probes
      /\ probe'.names = probe.names \cup memory[b] /\ probe'.todo = probe.todo \ {b}
    BY <1>1, ProbeIs DEF Probes
<1> QED
    BY <1>1, <1>2, AskedKeeps

LEMMA ProbeOllamaKeeps ==
    ASSUME CardInv, ProbeOllama
    PROVE  CardInv'
    BY Distinct, ProbeAnswersKeeps DEF ProbeOllama

LEMMA ProbeServiceKeeps ==
    ASSUME CardInv, NEW b \in Services, ProbeService(b)
    PROVE  CardInv'
<1>1. /\ probe # None /\ b \in Backends
      /\ UNCHANGED <<memory, answering, admitted, running, eviction>>
    BY DEF ProbeService, Services
<1>2. CASE b \in answering
    <2>1. /\ probe' = [probe EXCEPT !.todo = @ \ {b}, !.names = @ \cup memory[b]]
          /\ UNCHANGED excuse
        BY <1>2 DEF ProbeService
    <2> QED
        BY <1>1, <2>1, ProbeAnswersKeeps
<1>3. CASE b \notin answering
    <2>1. probe' \in Probes /\ probe'.names = probe.names /\ probe'.todo = probe.todo \ {b}
        BY <1>3, ProbeIs DEF ProbeService, Probes
    <2>2. /\ excuse' \in [Backends -> SUBSET Faults] /\ excuse'[b] # {}
          /\ \A c \in Backends : excuse[c] \subseteq excuse'[c]
        BY <1>1, <1>3 DEF CardInv, TypeOK, ProbeService, Excused, Faults
    <2> QED
        BY <1>1, <2>1, <2>2, AskedKeeps
<1> QED
    BY <1>2, <1>3

(* All were asked and no name is another backend's: whatever is in another *)
(* memory has an excuse.                                                   *)
LEMMA CardIsFreeKeeps ==
    ASSUME CardInv, CardIsFree
    PROVE  CardInv'
<1>1. /\ probe # None /\ probe.todo = {} /\ Foreign = {}
      /\ admitted' = probe.model /\ running' = {probe.model} /\ probe' = None
      /\ UNCHANGED <<memory, answering, eviction, excuse>>
    BY DEF CardIsFree
<1>2. probe.model \in Models /\ eviction = None
    BY <1>1, ProbeIs
<1>3. TypeOK'
    BY <1>1, <1>2 DEF CardInv, TypeOK
<1>4. RunningIsOwners' /\ ProbeSeesAll'
    BY <1>1, <1>2, Distinct DEF RunningIsOwners, ProbeSeesAll, ModelsOf
<1>5. OthersClean'
    <2> SUFFICES ASSUME NEW b \in Backends, b # BackendOf[probe.model], memory[b] # {}
                 PROVE  excuse[b] # {}
        BY <1>1 DEF OthersClean, Others, Clean
    <2>1. excuse[b] # {} \/ memory[b] \subseteq probe.names
        BY <1>1 DEF CardInv, ProbeSeesAll
    <2>2. \A n \in probe.names : BackendOf[n] # b
        BY <1>1 DEF Foreign
    <2>3. \A n \in memory[b] : BackendOf[n] = b
        BY DEF CardInv, TypeOK, ModelsOf
    <2> QED
        BY <2>1, <2>2, <2>3
<1> QED
    BY <1>3, <1>4, <1>5 DEF CardInv

(* One of the others becomes the owner and is emptied. Those that were     *)
(* found have the excuse of the second one; the backend of the request is  *)
(* the one that gets the card next.                                        *)
LEMMA CardIsForeignKeeps ==
    ASSUME CardInv, CardIsForeign
    PROVE  CardInv'
<1>1. /\ probe # None /\ probe.todo = {} /\ probe' = None
      /\ UNCHANGED <<memory, answering, running>>
    BY DEF CardIsForeign
<1>2. /\ probe.model \in Models /\ probe.names \subseteq Models
      /\ admitted = None /\ running = {}
    BY <1>1, ProbeIs
<1>3. PICK name \in Foreign :
        /\ admitted' = name
        /\ eviction' = Eviction(BackendOf[name], probe.model)
        /\ excuse' = Excused({BackendOf[n] : n \in Foreign} \ {BackendOf[name]}, "second")
    BY DEF CardIsForeign
<1>4. name \in Models /\ BackendOf[name] \in Backends
    BY <1>2, Distinct DEF Foreign
<1>5. /\ eviction' \in Evictions
      /\ eviction'.slug = BackendOf[name] /\ eviction'.to = probe.model /\ eviction'.todo = {}
      /\ eviction'.at = "ps" => eviction'.slug = Ollama
    BY <1>2, <1>3, <1>4 DEF Eviction, Evictions
<1>6. excuse' \in [Backends -> SUBSET Faults]
    BY <1>3 DEF CardInv, TypeOK, Excused, Faults
<1>7. TypeOK'
    BY <1>1, <1>2, <1>3, <1>4, <1>5, <1>6, Distinct DEF CardInv, TypeOK
<1>8. RunningIsOwners' /\ ProbeSeesAll'
    BY <1>1, <1>2, <1>3, <1>4, Distinct DEF RunningIsOwners, ProbeSeesAll
<1>9. OthersClean'
    <2> SUFFICES ASSUME NEW b \in Backends, b # BackendOf[name], b # BackendOf[probe.model],
                        memory[b] # {}
                 PROVE  excuse'[b] # {}
        BY <1>1, <1>3, <1>5, Distinct DEF OthersClean, Others, Clean
    <2>1. excuse[b] # {} \/ memory[b] \subseteq probe.names
        BY <1>1 DEF CardInv, ProbeSeesAll
    <2>2. CASE excuse[b] # {}
        BY <1>3, <2>2 DEF Excused
    <2>3. CASE memory[b] \subseteq probe.names
        <3>1. PICK n \in memory[b] : n \in probe.names /\ BackendOf[n] = b
            BY <2>3 DEF CardInv, TypeOK, ModelsOf
        <3>2. n \in Foreign
            BY <3>1 DEF Foreign
        <3> QED
            BY <1>3, <3>1, <3>2 DEF Excused
    <2> QED
        BY <2>1, <2>2, <2>3
<1> QED
    BY <1>7, <1>8, <1>9 DEF CardInv

-----------------------------------------------------------------------------
(* Later requests.                                                         *)
LEMMA EnterKeeps ==
    ASSUME CardInv, NEW m \in Models, Enter(m)
    PROVE  CardInv'
<1>1. TypeOK'
    BY DEF CardInv, TypeOK, Enter
<1>2. RunningIsOwners'
    BY Distinct DEF CardInv, RunningIsOwners, Enter, ModelsOf
<1>3. ProbeSeesAll'
    BY DEF CardInv, ProbeSeesAll, Enter
<1>4. OthersClean'
    BY DEF CardInv, OthersClean, Others, Clean, Enter
<1> QED
    BY <1>1, <1>2, <1>3, <1>4 DEF CardInv

LEMMA LeaveKeeps ==
    ASSUME CardInv, NEW m \in Models, Leave(m)
    PROVE  CardInv'
<1>1. TypeOK'
    BY DEF CardInv, TypeOK, Leave
<1>2. RunningIsOwners'
    BY DEF CardInv, RunningIsOwners, Leave
<1>3. ProbeSeesAll'
    BY DEF CardInv, ProbeSeesAll, Leave
<1>4. OthersClean'
    BY DEF CardInv, OthersClean, Clean, Leave
<1> QED
    BY <1>1, <1>2, <1>3, <1>4 DEF CardInv

(* The eviction of the owner begins: all others are clean already.         *)
LEMMA BeginSwitchKeeps ==
    ASSUME CardInv, NEW m \in Models, BeginSwitch(m)
    PROVE  CardInv'
<1>1. /\ admitted \in Models /\ running = {} /\ eviction = None /\ probe = None
      /\ UNCHANGED <<memory, answering, admitted, running, probe, excuse>>
    BY DEF CardInv, TypeOK, BeginSwitch
<1>2. /\ eviction' \in Evictions /\ eviction'.slug = BackendOf[admitted]
      /\ eviction'.to = m /\ eviction'.todo = {}
      /\ eviction'.at = "ps" => eviction'.slug = Ollama
    BY <1>1, Distinct DEF BeginSwitch, Eviction, Evictions
<1>3. TypeOK'
    BY <1>1, <1>2, Distinct DEF CardInv, TypeOK
<1>4. RunningIsOwners' /\ ProbeSeesAll'
    BY <1>1, Distinct DEF RunningIsOwners, ProbeSeesAll
<1>5. OthersClean'
    BY <1>1 DEF CardInv, OthersClean, Clean
<1> QED
    BY <1>3, <1>4, <1>5 DEF CardInv

-----------------------------------------------------------------------------
(* The eviction.                                                           *)
LEMMA EvictionIs ==
    ASSUME CardInv, eviction # None
    PROVE  /\ eviction \in Evictions /\ eviction.slug \in Backends /\ eviction.to \in Models
           /\ eviction.todo \subseteq ModelsOf(eviction.slug)
           /\ admitted \in Models /\ eviction.slug = BackendOf[admitted]
           /\ running = {} /\ probe = None
    BY DEF CardInv, TypeOK, Evictions

(* A call of an eviction: it goes on, and the memory can only shrink.      *)
LEMMA GoesKeeps ==
    ASSUME CardInv, eviction # None, NEW step \in {"unload", "wait"},
           NEW todo \in SUBSET ModelsOf(eviction.slug), Goes(step, todo),
           memory' \in [Backends -> SUBSET Models],
           \A b \in Backends : memory'[b] \subseteq memory[b],
           UNCHANGED <<answering, admitted, running, probe, excuse>>
    PROVE  CardInv'
<1>1. /\ eviction \in Evictions /\ eviction.slug = BackendOf[admitted] /\ running = {}
      /\ admitted \in Models /\ probe = None
    BY EvictionIs
<1>2. /\ eviction' \in Evictions /\ eviction'.slug = eviction.slug
      /\ eviction'.to = eviction.to /\ eviction'.todo = todo
      /\ eviction'.at = step
    BY <1>1 DEF Goes, Evictions, ModelsOf
<1>3. TypeOK'
    BY <1>2 DEF CardInv, TypeOK
<1>4. RunningIsOwners' /\ ProbeSeesAll'
    BY <1>1, Distinct DEF RunningIsOwners, ProbeSeesAll
<1>5. OthersClean'
    <2>1. \A b \in Others(admitted) : b # BackendOf[eviction.to] => Clean(b)
        BY <1>1, Distinct DEF CardInv, OthersClean
    <2> QED
        BY <1>2, <2>1, Distinct DEF OthersClean, Others, Clean
<1> QED
    BY <1>3, <1>4, <1>5 DEF CardInv

LEMMA CallsKeep ==
    ASSUME CardInv, EvictPs \/ EvictModel \/ EvictToldAll \/ EvictService
    PROVE  CardInv'
<1>1. eviction # None
    BY DEF EvictPs, EvictModel, EvictToldAll, EvictService, At
<1>2. /\ memory \in [Backends -> SUBSET Models] /\ memory[Ollama] \subseteq ModelsOf(Ollama)
      /\ eviction.slug \in Backends /\ eviction.todo \subseteq ModelsOf(eviction.slug)
    BY <1>1, Distinct DEF CardInv, TypeOK
<1>3. CASE EvictPs
    <2>1. eviction.slug = Ollama
        BY <1>3 DEF CardInv, TypeOK, EvictPs, At
    <2> QED
        BY <1>1, <1>2, <1>3, <2>1, GoesKeeps DEF EvictPs
<1>4. CASE EvictModel
    <2>1. PICK name \in eviction.todo : Goes("unload", eviction.todo \ {name})
        BY <1>4 DEF EvictModel
    <2>2. /\ memory' \in [Backends -> SUBSET Models]
          /\ \A b \in Backends : memory'[b] \subseteq memory[b]
        BY <1>2, <1>4 DEF EvictModel
    <2>3. eviction.todo \ {name} \in SUBSET ModelsOf(eviction.slug)
        BY <1>2
    <2> QED
        BY <1>1, <1>4, <2>1, <2>2, <2>3, GoesKeeps DEF EvictModel
<1>5. CASE EvictToldAll
    <2>1. {} \in SUBSET ModelsOf(eviction.slug)
        OBVIOUS
    <2> QED
        BY <1>1, <1>2, <1>5, GoesKeeps DEF EvictToldAll
<1>6. CASE EvictService
    <2>1. /\ memory' \in [Backends -> SUBSET Models]
          /\ \A b \in Backends : memory'[b] \subseteq memory[b]
        BY <1>2, <1>6 DEF EvictService
    <2>2. {} \in SUBSET ModelsOf(eviction.slug)
        OBVIOUS
    <2> QED
        BY <1>1, <1>6, <2>1, GoesKeeps DEF EvictService
<1> QED
    BY <1>3, <1>4, <1>5, <1>6

(* The end of an eviction leaves the old owner clean: it said that it      *)
(* holds nothing, or the failure is its excuse.                            *)
LEMMA SwitchKeeps ==
    ASSUME CardInv, EvictEmpty \/ EvictFails
    PROVE  CardInv'
<1>1. eviction # None /\ SwitchTo(eviction.to)
    BY DEF EvictEmpty, EvictFails, At
<1>2. /\ eviction.slug \in Backends /\ eviction.slug = BackendOf[admitted]
      /\ eviction.to \in Models /\ admitted \in Models /\ probe = None
    BY <1>1, EvictionIs
<1>3. /\ excuse' \in [Backends -> SUBSET Faults]
      /\ \A b \in Backends : b # eviction.slug => excuse'[b] = excuse[b]
      /\ memory[eviction.slug] # {} => excuse'[eviction.slug] # {}
    BY <1>2 DEF CardInv, TypeOK, EvictEmpty, EvictFails, Excused, Faults
<1>4. /\ eviction' = None /\ admitted' = eviction.to /\ running' = {eviction.to}
      /\ UNCHANGED <<memory, answering, probe>>
    BY <1>1 DEF SwitchTo
<1>5. TypeOK'
    BY <1>2, <1>3, <1>4 DEF CardInv, TypeOK
<1>6. RunningIsOwners' /\ ProbeSeesAll'
    BY <1>2, <1>4, Distinct DEF RunningIsOwners, ProbeSeesAll, ModelsOf
<1>7. OthersClean'
    <2>1. \A b \in Others(admitted) : b # BackendOf[eviction.to] => Clean(b)
        BY <1>2, Distinct DEF CardInv, OthersClean
    <2> QED
        BY <1>2, <1>3, <1>4, <2>1 DEF OthersClean, Others, Clean
<1> QED
    BY <1>5, <1>6, <1>7 DEF CardInv

-----------------------------------------------------------------------------
LEMMA StepKeeps == CardInv /\ [Next]_vars => CardInv'
<1> SUFFICES ASSUME CardInv, [Next]_vars PROVE CardInv'
    OBVIOUS
<1>1. ASSUME NEW m \in Models,
             Loads(m) \/ Drops(m) \/ FirstRequest(m) \/ Enter(m) \/ Leave(m) \/ BeginSwitch(m)
      PROVE  CardInv'
    BY <1>1, LoadsKeeps, DropsKeeps, FirstRequestKeeps, EnterKeeps, LeaveKeeps,
       BeginSwitchKeeps
<1>2. ASSUME NEW b \in Backends, Answers(b) \/ FallsSilent(b)
      PROVE  CardInv'
    BY <1>2, AnsweringKeeps
<1>3. CASE Probing
    BY <1>3, ProbeFailsKeeps, ProbeOllamaKeeps, ProbeServiceKeeps, CardIsFreeKeeps,
       CardIsForeignKeeps
       DEF Probing
<1>4. CASE Evicting
    BY <1>4, CallsKeep, SwitchKeeps DEF Evicting
<1>5. CASE UNCHANGED vars
    BY <1>5
       DEF vars, CardInv, TypeOK, RunningIsOwners, ProbeSeesAll, OthersClean, Clean
<1> QED
    BY <1>1, <1>2, <1>3, <1>4, <1>5 DEF Next

LEMMA CardInvOwner == CardInv => OwnerAlone
<1> SUFFICES ASSUME CardInv PROVE BesideOnlyAfterFault
    BY DEF CardInv, OwnerAlone
<1> SUFFICES ASSUME NEW m \in running, NEW b \in Others(m), memory[b] # {}
             PROVE  excuse[b] # {}
    BY DEF BesideOnlyAfterFault
<1>1. /\ admitted # None /\ eviction = None /\ BackendOf[m] = BackendOf[admitted]
    BY DEF CardInv, TypeOK, RunningIsOwners, ModelsOf
<1> QED
    BY <1>1 DEF CardInv, OthersClean, Others, Clean

(* For any models and services, whatever is in the memory when the proxy   *)
(* starts and whichever calls fail or are never answered: while a request  *)
(* runs, memory of another backend has an excuse (scheduler.py 18-23).     *)
THEOREM OwnerIsAlone == Spec => []OwnerAlone
<1>1. Spec => []CardInv
    BY InitCard, StepKeeps, PTL DEF Spec
<1> QED
    BY <1>1, CardInvOwner, PTL
=============================================================================

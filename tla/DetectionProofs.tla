--------------------------- MODULE DetectionProofs ---------------------------
(***************************************************************************)
(* Theorems about Detection, for any detectors and any number of worker    *)
(* threads.                                                                *)
(***************************************************************************)
EXTENDS Detection, TLAPS

\* Only before the shutdown is a detector being switched on, and one that is on, or about
\* to be, has its model.
Switching ==
  /\ switching # NoSwitch => ~leaving.begun
  /\ ~leaving.begun => enabled \subseteq loaded
  /\ switching.done => switching.det \in loaded \cap Detectors
  /\ ~switching.done => switching = NoSwitch \/ switching.det \in Detectors
  /\ ~leaving.begun => leaving.todo = {}

\* During a call the history says what a detector is as long as it did not change.
WasSo(w) ==
  run[w].pc # "out" => \A d \in Detectors : /\ was[w][d] = "on" => d \in enabled
                                            /\ was[w][d] = "off" => d \notin enabled

\* Nothing is answered, nor will be, for a detector that was off all the time.
NoneTooMany(w) ==
  run[w].pc # "out" =>
    \A d \in Detectors : was[w][d] = "off" => d \notin run[w].on /\ d \notin run[w].results

\* The loop has left behind no detector that was on all the time without its result.
SoFar(w) ==
  /\ run[w].pc = "out" => run[w].on = {} /\ run[w].results = {}
  /\ run[w].pc \in {"out", "person", "vehicle", "owner", "predict"} => run[w].at = 1
  /\ run[w].pc = "returns" => run[w].at = Len(Order) + 1
  /\ run[w].pc # "out" =>
       \A i \in 1..Len(Order) :
         i < run[w].at /\ was[w][Order[i]] = "on" => Order[i] \in run[w].results

Answering(w) == WasSo(w) /\ NoneTooMany(w) /\ SoFar(w)

DInv == DetectionTypeOK /\ Switching /\ \A w \in Workers : Answering(w)

-----------------------------------------------------------------------------

LEMMA OrderFacts ==
  /\ Len(Order) \in Nat
  /\ \A i \in 1..Len(Order) : Order[i] \in Detectors
  /\ \A d \in Detectors : \E i \in 1..Len(Order) : d = Order[i]
  /\ Person \in Detectors /\ Vehicle \in Detectors
  BY DetectionAssumption DEF Detectors, SharedPass, Range

LEMMA InitDetection == DetectionInit => DInv
  <1> SUFFICES ASSUME DetectionInit PROVE DInv
    OBVIOUS
  <1>1. DetectionTypeOK
    BY OrderFacts DEF DetectionInit, DetectionTypeOK, NoSwitch, NewRun, RunPCs
  <1>2. Switching
    BY DEF DetectionInit, Switching, NoSwitch
  <1>3. \A w \in Workers : Answering(w)
    BY DEF DetectionInit, Answering, WasSo, NoneTooMany, SoFar, NewRun
  <1> QED BY <1>1, <1>2, <1>3 DEF DInv

\* A flag that changes is noted in every history.
LEMMA FlagKeeps ==
  ASSUME DInv, NEW d \in Detectors, NEW on \in BOOLEAN, Flag(d, on), UNCHANGED run
  PROVE  /\ enabled' \in SUBSET Detectors
         /\ was' \in [Workers -> [Detectors -> {"on", "off", "changed"}]]
         /\ \A w \in Workers : Answering(w)'
  <1>1. /\ enabled' \in SUBSET Detectors
        /\ was' \in [Workers -> [Detectors -> {"on", "off", "changed"}]]
    BY DEF Flag, DInv, DetectionTypeOK
  <1>2. ASSUME NEW w \in Workers, NEW e \in Detectors
        PROVE  \/ was'[w][e] = "changed"
               \/ was'[w][e] = was[w][e] /\ (e \in enabled' <=> e \in enabled)
    BY DEF Flag, DInv, DetectionTypeOK
  <1>3. ASSUME NEW w \in Workers PROVE WasSo(w)' /\ NoneTooMany(w)'
    BY <1>2 DEF DInv, Answering, WasSo, NoneTooMany
  <1>4. ASSUME NEW w \in Workers PROVE SoFar(w)'
    BY <1>2, OrderFacts DEF DInv, Answering, SoFar
  <1> QED BY <1>1, <1>3, <1>4 DEF Answering

LEMMA RoutesKeep == ASSUME DInv, EventLoop PROVE DInv'
  <1> USE DEF DInv
  <1>1. CASE \E d \in Detectors : Enable(d)
    <2>1. DetectionTypeOK' BY <1>1 DEF Enable, DetectionTypeOK
    <2>2. Switching' BY <1>1 DEF Enable, Switching, NoSwitch
    <2>3. \A w \in Workers : Answering(w)'
      BY <1>1 DEF Enable, Answering, WasSo, NoneTooMany, SoFar
    <2> QED BY <2>1, <2>2, <2>3
  <1>2. CASE \E d \in Detectors : Disable(d)
    <2> PICK d \in Detectors : Disable(d) BY <1>2
    <2>1. /\ enabled' \in SUBSET Detectors
          /\ was' \in [Workers -> [Detectors -> {"on", "off", "changed"}]]
          /\ \A w \in Workers : Answering(w)'
      BY FlagKeeps DEF Disable
    <2>2. DetectionTypeOK' BY <2>1 DEF Disable, DetectionTypeOK
    <2>3. Switching' BY DEF Disable, Flag, Switching
    <2> QED BY <2>1, <2>2, <2>3
  <1>3. CASE \E d \in Detectors : Unloads(d)
    <2> PICK d \in Detectors : Unloads(d) BY <1>3
    <2>1. DetectionTypeOK' BY DEF Unloads, DetectionTypeOK
    <2>2. leaving.begun
      BY DEF Unloads, Switching
    <2>3. Switching' BY <2>2 DEF Unloads, Switching, NoSwitch, DetectionTypeOK
    <2>4. \A w \in Workers : Answering(w)'
      BY DEF Unloads, Answering, WasSo, NoneTooMany, SoFar
    <2> QED BY <2>1, <2>3, <2>4
  <1>4. CASE LoadsModel
    <2>1. DetectionTypeOK' BY <1>4 DEF LoadsModel, DetectionTypeOK, Switching, NoSwitch
    <2>2. Switching' BY <1>4 DEF LoadsModel, Switching, NoSwitch, DetectionTypeOK
    <2>3. \A w \in Workers : Answering(w)'
      BY <1>4 DEF LoadsModel, Answering, WasSo, NoneTooMany, SoFar
    <2> QED BY <2>1, <2>2, <2>3
  <1>5. CASE LoadFails
    <2>1. switching.det \in Detectors BY <1>5 DEF LoadFails, Switching, NoSwitch
    <2>2. /\ enabled' \in SUBSET Detectors
          /\ was' \in [Workers -> [Detectors -> {"on", "off", "changed"}]]
          /\ \A w \in Workers : Answering(w)'
      BY <1>5, <2>1, FlagKeeps DEF LoadFails
    <2>3. DetectionTypeOK' BY <1>5, <2>2 DEF LoadFails, DetectionTypeOK, NoSwitch
    <2>4. Switching' BY <1>5 DEF LoadFails, Flag, Switching, NoSwitch
    <2> QED BY <2>2, <2>3, <2>4
  <1>6. CASE Enabled
    <2>1. switching.det \in Detectors BY <1>6 DEF Enabled, Switching
    <2>2. /\ enabled' \in SUBSET Detectors
          /\ was' \in [Workers -> [Detectors -> {"on", "off", "changed"}]]
          /\ \A w \in Workers : Answering(w)'
      BY <1>6, <2>1, FlagKeeps DEF Enabled
    <2>3. DetectionTypeOK' BY <1>6, <2>2 DEF Enabled, DetectionTypeOK, NoSwitch
    <2>4. Switching' BY <1>6 DEF Enabled, Flag, Switching, NoSwitch
    <2> QED BY <2>2, <2>3, <2>4
  <1>7. CASE ShutdownBegins
    <2>1. DetectionTypeOK' BY <1>7 DEF ShutdownBegins, DetectionTypeOK
    <2>2. Switching' BY <1>7 DEF ShutdownBegins, Switching, NoSwitch
    <2>3. \A w \in Workers : Answering(w)'
      BY <1>7 DEF ShutdownBegins, Answering, WasSo, NoneTooMany, SoFar
    <2> QED BY <2>1, <2>2, <2>3
  <1> QED BY <1>1, <1>2, <1>3, <1>4, <1>5, <1>6, <1>7 DEF EventLoop

-----------------------------------------------------------------------------
(* The worker threads: a step of one is none of the others'. *)

RunType == [pc : RunPCs, on : SUBSET SharedPass, owner : SharedPass \cup {NoDetector},
            at : 1..(Len(Order) + 1), results : SUBSET Detectors]

LEMMA OneWorker ==
  ASSUME DInv, NEW w \in Workers,
         UNCHANGED <<enabled, loaded, switching, leaving>>,
         run' = [run EXCEPT ![w] = run'[w]], was' = [was EXCEPT ![w] = was'[w]],
         run'[w] \in RunType,
         was'[w] \in [Detectors -> {"on", "off", "changed"}],
         Answering(w)'
  PROVE  DInv'
  <1>1. DetectionTypeOK' BY DEF DInv, DetectionTypeOK, RunType
  <1>2. Switching' BY DEF DInv, Switching
  <1>3. ASSUME NEW v \in Workers \ {w} PROVE Answering(v)'
    <2>1. run'[v] = run[v] /\ was'[v] = was[v] BY DEF DInv, DetectionTypeOK
    <2> QED BY <2>1 DEF DInv, Answering, WasSo, NoneTooMany, SoFar
  <1> QED BY <1>1, <1>2, <1>3 DEF DInv

LEMMA RunFacts ==
  ASSUME DInv, NEW w \in Workers
  PROVE  /\ run[w] \in RunType
         /\ was[w] \in [Detectors -> {"on", "off", "changed"}]
         /\ WasSo(w) /\ NoneTooMany(w) /\ SoFar(w)
         /\ SharedPass \subseteq Detectors
         /\ Len(Order) \in Nat
  BY DetectionAssumption, OrderFacts DEF DInv, DetectionTypeOK, Answering, RunType

\* A step that changes neither what is answered nor where in the loop the worker is.
LEMMA MovesOn ==
  ASSUME DInv, NEW w \in Workers, UNCHANGED <<enabled, was>>, run[w].pc # "out",
         run'[w].pc \in {"vehicle", "owner", "predict", "loop"}, run'[w].at = 1,
         \A d \in Detectors : d \in run'[w].on \cup run'[w].results =>
           d \in run[w].on \cup run[w].results \cup enabled
  PROVE  Answering(w)'
  <1>1. WasSo(w)' BY RunFacts DEF WasSo
  <1>2. NoneTooMany(w)' BY RunFacts DEF WasSo, NoneTooMany
  <1>3. SoFar(w)' BY RunFacts DEF SoFar
  <1> QED BY <1>1, <1>2, <1>3 DEF Answering

LEMMA WorkersKeep == ASSUME DInv, NEW w \in Workers, Detecting(w) PROVE DInv'
  <1>a. /\ run[w] \in RunType
        /\ was[w] \in [Detectors -> {"on", "off", "changed"}]
        /\ WasSo(w) /\ NoneTooMany(w) /\ SoFar(w)
        /\ SharedPass \subseteq Detectors
        /\ Len(Order) \in Nat
    BY RunFacts
  <1>1. CASE Begins(w)
    <2>1. /\ run' = [run EXCEPT ![w] = run'[w]] /\ was' = [was EXCEPT ![w] = was'[w]]
          /\ run'[w] \in RunType /\ was'[w] \in [Detectors -> {"on", "off", "changed"}]
      BY <1>a, <1>1 DEF Begins, RunGoes, NewRun, DInv, DetectionTypeOK, RunType, RunPCs, SharedPass
    <2>2. /\ run'[w].pc = "person"
          /\ run'[w].on = run[w].on /\ run'[w].at = run[w].at /\ run'[w].results = run[w].results
      BY <1>1 DEF Begins, RunGoes, NewRun, DInv, DetectionTypeOK
    <2>b. was'[w] = [d \in Detectors |-> IF d \in enabled THEN "on" ELSE "off"]
      BY <1>1 DEF Begins, DInv, DetectionTypeOK
    <2>3. Answering(w)'
      BY <1>1, <2>2, <2>b, <1>a DEF Begins, Answering, WasSo, NoneTooMany, SoFar
    <2> QED BY <1>1, <2>1, <2>3, OneWorker DEF Begins
  <1>2. CASE ReadsPerson(w)
    <2>1. /\ run' = [run EXCEPT ![w] = run'[w]] /\ was' = [was EXCEPT ![w] = was'[w]]
          /\ run'[w] \in RunType /\ was'[w] \in [Detectors -> {"on", "off", "changed"}]
      BY <1>a, <1>2 DEF ReadsPerson, RunGoes, NewRun, DInv, DetectionTypeOK, RunType, RunPCs, SharedPass
    <2>2. /\ run'[w].pc = "vehicle" /\ run'[w].on = enabled \cap {Person}
          /\ run'[w].at = run[w].at /\ run'[w].results = run[w].results
      BY <1>2 DEF ReadsPerson, RunGoes, NewRun, DInv, DetectionTypeOK
    <2>3. Answering(w)' BY <1>2, <2>2, <1>a, MovesOn DEF ReadsPerson, SoFar
    <2> QED BY <1>2, <2>1, <2>3, OneWorker DEF ReadsPerson
  <1>3. CASE ReadsVehicle(w)
    <2>1. /\ run' = [run EXCEPT ![w] = run'[w]] /\ was' = [was EXCEPT ![w] = was'[w]]
          /\ run'[w] \in RunType /\ was'[w] \in [Detectors -> {"on", "off", "changed"}]
      BY <1>a, <1>3 DEF ReadsVehicle, RunGoes, NewRun, DInv, DetectionTypeOK, RunType, RunPCs, SharedPass
    <2>2. /\ run'[w].pc = "owner" /\ run'[w].on = run[w].on \cup (enabled \cap {Vehicle})
          /\ run'[w].at = run[w].at /\ run'[w].results = run[w].results
      BY <1>3 DEF ReadsVehicle, RunGoes, NewRun, DInv, DetectionTypeOK
    <2>3. Answering(w)' BY <1>3, <2>2, <1>a, MovesOn DEF ReadsVehicle, SoFar
    <2> QED BY <1>3, <2>1, <2>3, OneWorker DEF ReadsVehicle
  <1>4. CASE ChoosesModel(w)
    <2>1. /\ run' = [run EXCEPT ![w] = run'[w]] /\ was' = [was EXCEPT ![w] = was'[w]]
          /\ run'[w] \in RunType /\ was'[w] \in [Detectors -> {"on", "off", "changed"}]
      BY <1>a, <1>4 DEF ChoosesModel, RunGoes, NewRun, DInv, DetectionTypeOK, RunType, RunPCs, SharedPass
    <2>2. /\ run'[w].pc \in {"predict", "loop"}
          /\ run'[w].on = run[w].on /\ run'[w].at = run[w].at /\ run'[w].results = run[w].results
      BY <1>4 DEF ChoosesModel, RunGoes, NewRun, DInv, DetectionTypeOK
    <2>3. Answering(w)' BY <1>4, <2>2, <1>a, MovesOn DEF ChoosesModel, SoFar
    <2> QED BY <1>4, <2>1, <2>3, OneWorker DEF ChoosesModel
  <1>5. CASE Predicts(w)
    <2>1. /\ run' = [run EXCEPT ![w] = run'[w]] /\ was' = [was EXCEPT ![w] = was'[w]]
          /\ run'[w] \in RunType /\ was'[w] \in [Detectors -> {"on", "off", "changed"}]
      BY <1>a, <1>5 DEF Predicts, RunGoes, NewRun, DInv, DetectionTypeOK, RunType, RunPCs, SharedPass
    <2>2. /\ run'[w].pc = "loop" /\ run'[w].results = run[w].on
          /\ run'[w].on = run[w].on /\ run'[w].at = run[w].at
      BY <1>5 DEF Predicts, RunGoes, NewRun, DInv, DetectionTypeOK
    <2>3. Answering(w)' BY <1>5, <2>2, <1>a, MovesOn DEF Predicts, SoFar
    <2> QED BY <1>5, <2>1, <2>3, OneWorker DEF Predicts
  <1>6. CASE PredictFails(w)
    <2>1. /\ run' = [run EXCEPT ![w] = run'[w]] /\ was' = [was EXCEPT ![w] = was'[w]]
          /\ run'[w] \in RunType /\ was'[w] \in [Detectors -> {"on", "off", "changed"}]
      BY <1>a, <1>6 DEF PredictFails, RunGoes, NewRun, DInv, DetectionTypeOK, RunType, RunPCs, SharedPass
    <2>2. /\ run'[w].pc = "loop"
          /\ run'[w].on = run[w].on /\ run'[w].at = run[w].at /\ run'[w].results = run[w].results
      BY <1>6 DEF PredictFails, RunGoes, NewRun, DInv, DetectionTypeOK
    <2>3. Answering(w)' BY <1>6, <2>2, <1>a, MovesOn DEF PredictFails, SoFar
    <2> QED BY <1>6, <2>1, <2>3, OneWorker DEF PredictFails
  <1>7. CASE LoopsOn(w)
    <2> DEFINE d == Order[run[w].at]
               res == IF ~Answered(w, d) /\ d \in enabled THEN run[w].results \cup {d} ELSE run[w].results
    <2>a. run[w].at \in 1..Len(Order) /\ d \in Detectors
      BY <1>7, <1>a, OrderFacts DEF LoopsOn, RunType
    <2>f. res \in SUBSET Detectors /\ run[w].at + 1 \in 1..(Len(Order) + 1)
      BY <2>a, <1>a DEF RunType
    <2>g. run' = [run EXCEPT ![w].at = run[w].at + 1, ![w].results = res]
      BY <1>7 DEF LoopsOn
    <2>1. /\ run' = [run EXCEPT ![w] = run'[w]] /\ was' = [was EXCEPT ![w] = was'[w]]
          /\ run'[w] \in RunType /\ was'[w] \in [Detectors -> {"on", "off", "changed"}]
      <3>1. ASSUME NEW r \in SUBSET Detectors, NEW n \in 1..(Len(Order) + 1),
                   run' = [run EXCEPT ![w].at = n, ![w].results = r]
            PROVE  run' = [run EXCEPT ![w] = run'[w]] /\ run'[w] \in RunType
        BY <3>1, <1>a DEF DInv, DetectionTypeOK, RunType
      <3>2. UNCHANGED was BY <1>7 DEF LoopsOn
      <3>3. was' = [was EXCEPT ![w] = was'[w]] /\ was'[w] \in [Detectors -> {"on", "off", "changed"}]
        BY <3>2, <1>a DEF DInv, DetectionTypeOK
      <3> HIDE DEF res, d
      <3> QED BY <2>f, <2>g, <3>1, <3>3
    <2>2. /\ run'[w].pc = "loop" /\ run'[w].at = run[w].at + 1 /\ run'[w].results = res
          /\ run'[w].on = run[w].on
      BY <1>7 DEF LoopsOn, RunGoes, NewRun, DInv, DetectionTypeOK
    <2>b. was[w][d] = "on" => d \in res
      BY <1>7, <2>a, <1>a DEF LoopsOn, WasSo, Answered
    <2>c. WasSo(w)' BY <1>7, <2>2, <1>a DEF LoopsOn, WasSo
    <2>d. NoneTooMany(w)'
      BY <1>7, <2>2, <2>a, <1>a DEF LoopsOn, WasSo, NoneTooMany
    <2>e. SoFar(w)'
      <3>1. ASSUME NEW i \in 1..Len(Order), i < run'[w].at, was[w][Order[i]] = "on"
            PROVE  Order[i] \in res
        <4>1. CASE i = run[w].at BY <4>1, <2>b, <3>1
        <4>2. CASE i < run[w].at
          <5>1. Order[i] \in run[w].results BY <1>7, <3>1, <4>2, <1>a DEF LoopsOn, SoFar
          <5> QED BY <5>1
        <4> QED BY <3>1, <4>1, <4>2, <2>2, <2>a
      <3> QED BY <1>7, <2>2, <3>1 DEF LoopsOn, SoFar
    <2>3. Answering(w)' BY <2>c, <2>d, <2>e DEF Answering
    <2> QED BY <1>7, <2>1, <2>3, OneWorker DEF LoopsOn
  <1>8. CASE Returns(w)
    <2>1. /\ run' = [run EXCEPT ![w] = run'[w]] /\ was' = [was EXCEPT ![w] = was'[w]]
          /\ run'[w] \in RunType /\ was'[w] \in [Detectors -> {"on", "off", "changed"}]
      BY <1>a, <1>8 DEF Returns, RunGoes, NewRun, DInv, DetectionTypeOK, RunType, RunPCs, SharedPass
    <2>2. /\ run'[w].pc = "returns"
          /\ run'[w].on = run[w].on /\ run'[w].at = run[w].at /\ run'[w].results = run[w].results
      BY <1>8 DEF Returns, RunGoes, NewRun, DInv, DetectionTypeOK
    <2>3. Answering(w)'
      BY <1>8, <2>2, <1>a DEF Returns, Answering, WasSo, NoneTooMany, SoFar, RunType
    <2> QED BY <1>8, <2>1, <2>3, OneWorker DEF Returns
  <1>9. CASE Forgets(w)
    <2>1. /\ run' = [run EXCEPT ![w] = run'[w]] /\ was' = [was EXCEPT ![w] = was'[w]]
          /\ run'[w] \in RunType /\ was'[w] \in [Detectors -> {"on", "off", "changed"}]
      BY <1>a, <1>9 DEF Forgets, RunGoes, NewRun, DInv, DetectionTypeOK, RunType, RunPCs, SharedPass
    <2>2. /\ run'[w].pc = "out" /\ run'[w].on = {} /\ run'[w].at = 1 /\ run'[w].results = {}
      BY <1>9 DEF Forgets, RunGoes, NewRun, DInv, DetectionTypeOK
    <2>3. Answering(w)'
      BY <1>9, <2>2 DEF Forgets, Answering, WasSo, NoneTooMany, SoFar
    <2> QED BY <1>9, <2>1, <2>3, OneWorker DEF Forgets
  <1> QED BY <1>1, <1>2, <1>3, <1>4, <1>5, <1>6, <1>7, <1>8, <1>9 DEF Detecting

LEMMA NextDetection == DInv /\ [DetectionNext]_detectionVars => DInv'
  <1> SUFFICES ASSUME DInv, [DetectionNext]_detectionVars PROVE DInv'
    OBVIOUS
  <1>1. CASE EventLoop BY <1>1, RoutesKeep
  <1>2. CASE \E w \in Workers : Detecting(w) BY <1>2, WorkersKeep
  <1>3. CASE UNCHANGED detectionVars
    <2>1. DetectionTypeOK' /\ Switching'
      BY <1>3 DEF detectionVars, DInv, DetectionTypeOK, Switching
    <2>2. \A w \in Workers : Answering(w)'
      BY <1>3 DEF detectionVars, DInv, Answering, WasSo, NoneTooMany, SoFar
    <2> QED BY <2>1, <2>2 DEF DInv
  <1> QED BY <1>1, <1>2, <1>3 DEF DetectionNext, DetectionRests

LEMMA DetectionInvariance == DetectionSpec => []DInv
  BY InitDetection, NextDetection, PTL DEF DetectionSpec

-----------------------------------------------------------------------------

\* Every variable keeps its type.
THEOREM DetectionTypeCorrect == DetectionSpec => []DetectionTypeOK
  <1>1. DInv => DetectionTypeOK BY DEF DInv
  <1> QED BY <1>1, DetectionInvariance, PTL

\* "Run all enabled detectors on frame" (detection_pipeline.py:80): a detector that was on
\* during the whole call has its result, one that was off has none, whatever the event loop
\* switches meanwhile, for any number of detectors and worker threads.
THEOREM EnabledAreAnswered == DetectionSpec => []AnswersEnabled
  <1>1. ASSUME DInv, NEW w \in Workers, NEW d \in Detectors, run[w].pc = "returns"
        PROVE  /\ was[w][d] = "on" => d \in run[w].results
               /\ was[w][d] = "off" => d \notin run[w].results
    <2>1. PICK i \in 1..Len(Order) : d = Order[i] BY OrderFacts
    <2>2. i < run[w].at BY <1>1, RunFacts DEF SoFar
    <2> QED BY <1>1, <2>1, <2>2, RunFacts DEF SoFar, NoneTooMany
  <1>2. DInv => AnswersEnabled BY <1>1 DEF AnswersEnabled
  <1> QED BY <1>2, DetectionInvariance, PTL

\* enable_detector loads the model before it sets the flag (detection_pipeline.py:243-248):
\* until the shutdown no thread finds a detector on without its model.
THEOREM ModelsAreLoaded == DetectionSpec => []OnHasModel
  <1>1. DInv => OnHasModel BY DEF DInv, Switching, OnHasModel
  <1> QED BY <1>1, DetectionInvariance, PTL
=============================================================================

----------------------------- MODULE Detection -----------------------------
(***************************************************************************)
(* The backend's detectors: backend/services/detection_pipeline.py, with   *)
(* load_model and unload_model of the detectors, the routes that switch    *)
(* them on and off, and the shutdown of backend/main.py.                   *)
(*                                                                         *)
(* The routes run on the event loop, one at a time.  run_detections runs   *)
(* in worker threads, and reads detector.enabled again for every detector  *)
(* without a lock: person and vehicle once for the pass they share, and    *)
(* once more in the loop when that pass had no result for them.            *)
(*                                                                         *)
(* Of a result is kept whose it is.  run_detections_async is called by     *)
(* nobody and left out.                                                    *)
(***************************************************************************)
EXTENDS Naturals, Sequences, Functions

CONSTANTS
  Order,      \* the keys of self.detectors, in their order
  Person, Vehicle,
  Workers,    \* threads that run detections
  NoDetector  \* None

Detectors == Range(Order)
SharedPass == {Person, Vehicle}

ASSUME DetectionAssumption ==
  /\ Order \in Seq(Detectors)
  /\ SharedPass \subseteq Detectors /\ Person # Vehicle
  /\ NoDetector \notin Detectors

VARIABLES
  enabled,    \* the detectors that are on
  loaded,     \* those whose model is there
  switching,  \* the detector that enable_detector is loading, and whether it is loaded
  leaving,    \* the shutdown: not yet, or the detectors that are still to be unloaded
  run,        \* each worker's call of run_detections
  was         \* history: what each detector was during a worker's call

detectionVars == <<enabled, loaded, switching, leaving, run, was>>

\* person, vehicle: about to read that flag; owner: about to choose a model; predict: runs
\* the shared pass with the model of owner; loop: at the detector at; returns: done.
RunPCs == {"out", "person", "vehicle", "owner", "predict", "loop", "returns"}

NoSwitch == [det |-> NoDetector, done |-> FALSE]

NewRun == [pc |-> "out", on |-> {}, owner |-> NoDetector, at |-> 1, results |-> {}]

DetectionTypeOK ==
  /\ enabled \in SUBSET Detectors /\ loaded \in SUBSET Detectors
  /\ switching \in [det : Detectors \cup {NoDetector}, done : BOOLEAN]
  /\ leaving \in [begun : BOOLEAN, todo : SUBSET Detectors]
  /\ run \in [Workers -> [pc : RunPCs, on : SUBSET SharedPass, owner : SharedPass \cup {NoDetector},
                          at : 1..(Len(Order) + 1), results : SUBSET Detectors]]
  /\ was \in [Workers -> [Detectors -> {"on", "off", "changed"}]]

\* load_all_models has loaded what is configured, and disabled what failed to load.
DetectionInit ==
  /\ enabled \in SUBSET Detectors /\ loaded = enabled
  /\ switching = NoSwitch
  /\ leaving = [begun |-> FALSE, todo |-> {}]
  /\ run = [w \in Workers |-> NewRun]
  /\ was = [w \in Workers |-> [d \in Detectors |-> "off"]]

RunGoes(w, pc) == run' = [run EXCEPT ![w].pc = pc]

\* The flag of d becomes on.
Flag(d, on) ==
  /\ enabled' = IF on THEN enabled \cup {d} ELSE enabled \ {d}
  /\ was' = IF enabled' = enabled THEN was
            ELSE [w \in Workers |-> [was[w] EXCEPT ![d] = "changed"]]

-----------------------------------------------------------------------------
(* Mutated forms: what the properties below must notice. *)

\* The loop skips person and vehicle whatever the shared pass answered.
SkipsShared(w, d) == d \in SharedPass

-----------------------------------------------------------------------------
(* The event loop: the routes, and the shutdown. *)

\* enable_detector; one that is on is left alone.
Enable(d) ==
  /\ switching = NoSwitch /\ ~leaving.begun /\ d \notin enabled
  /\ switching' = [det |-> d, done |-> FALSE]
  /\ UNCHANGED <<enabled, loaded, leaving, run, was>>

LoadsModel ==
  /\ switching.det # NoDetector /\ ~switching.done
  /\ loaded' = loaded \cup {switching.det}
  /\ switching' = [switching EXCEPT !.done = TRUE]
  /\ UNCHANGED <<enabled, leaving, run, was>>

LoadFails ==
  /\ switching.det # NoDetector /\ ~switching.done
  /\ Flag(switching.det, FALSE)
  /\ switching' = NoSwitch
  /\ UNCHANGED <<loaded, leaving, run>>

Enabled ==
  /\ switching.done
  /\ Flag(switching.det, TRUE)
  /\ switching' = NoSwitch
  /\ UNCHANGED <<loaded, leaving, run>>

Disable(d) ==
  /\ switching = NoSwitch /\ ~leaving.begun
  /\ Flag(d, FALSE)
  /\ UNCHANGED <<loaded, switching, leaving, run>>

\* unload_all_models: the flags stay, and calls in worker threads go on.
ShutdownBegins ==
  /\ switching = NoSwitch /\ ~leaving.begun
  /\ leaving' = [begun |-> TRUE, todo |-> Detectors]
  /\ UNCHANGED <<enabled, loaded, switching, run, was>>

Unloads(d) ==
  /\ d \in leaving.todo
  /\ leaving' = [leaving EXCEPT !.todo = @ \ {d}]
  /\ loaded' = loaded \ {d}
  /\ UNCHANGED <<enabled, switching, run, was>>

-----------------------------------------------------------------------------
(* run_detections. *)

Begins(w) ==
  /\ run[w].pc = "out" /\ ~leaving.begun
  /\ RunGoes(w, "person")
  /\ was' = [was EXCEPT ![w] = [d \in Detectors |-> IF d \in enabled THEN "on" ELSE "off"]]
  /\ UNCHANGED <<enabled, loaded, switching, leaving>>

ReadsPerson(w) ==
  /\ run[w].pc = "person"
  /\ run' = [run EXCEPT ![w].pc = "vehicle", ![w].on = enabled \cap {Person}]
  /\ UNCHANGED <<enabled, loaded, switching, leaving, was>>

ReadsVehicle(w) ==
  /\ run[w].pc = "vehicle"
  /\ run' = [run EXCEPT ![w].pc = "owner", ![w].on = @ \cup (enabled \cap {Vehicle})]
  /\ UNCHANGED <<enabled, loaded, switching, leaving, was>>

\* person's model, or else vehicle's; without one there is no shared pass.
ChoosesModel(w) ==
  LET has == run[w].on \cap loaded
      own == IF Person \in has THEN Person ELSE IF Vehicle \in has THEN Vehicle ELSE NoDetector IN
  /\ run[w].pc = "owner"
  /\ run' = [run EXCEPT ![w].owner = own, ![w].pc = IF own = NoDetector THEN "loop" ELSE "predict"]
  /\ UNCHANGED <<enabled, loaded, switching, leaving, was>>

\* One pass answers for both that were on; unloaded in between, the model is None.
Predicts(w) ==
  /\ run[w].pc = "predict" /\ run[w].owner \in loaded
  /\ run' = [run EXCEPT ![w].pc = "loop", ![w].results = run[w].on]
  /\ UNCHANGED <<enabled, loaded, switching, leaving, was>>

\* "Shared person/vehicle inference failed, falling back"
PredictFails(w) ==
  /\ run[w].pc = "predict"
  /\ RunGoes(w, "loop")
  /\ UNCHANGED <<enabled, loaded, switching, leaving, was>>

\* if name in ("person", "vehicle") and name in results
Answered(w, d) == d \in SharedPass /\ d \in run[w].results

\* detect() answers with an empty result when it fails, is off by now, or has no model.
LoopsOn(w) ==
  /\ run[w].pc = "loop" /\ run[w].at <= Len(Order)
  /\ LET d == Order[run[w].at] IN
     run' = [run EXCEPT ![w].at = @ + 1,
       ![w].results = IF ~Answered(w, d) /\ d \in enabled THEN @ \cup {d} ELSE @]
  /\ UNCHANGED <<enabled, loaded, switching, leaving, was>>

Returns(w) ==
  /\ run[w].pc = "loop" /\ run[w].at > Len(Order)
  /\ RunGoes(w, "returns")
  /\ UNCHANGED <<enabled, loaded, switching, leaving, was>>

Forgets(w) ==
  /\ run[w].pc = "returns"
  /\ run' = [run EXCEPT ![w] = NewRun]
  /\ UNCHANGED <<enabled, loaded, switching, leaving, was>>

Detecting(w) ==
  \/ Begins(w) \/ ReadsPerson(w) \/ ReadsVehicle(w) \/ ChoosesModel(w) \/ Predicts(w)
  \/ PredictFails(w) \/ LoopsOn(w) \/ Returns(w) \/ Forgets(w)

EventLoop ==
  \/ \E d \in Detectors : Enable(d) \/ Disable(d) \/ Unloads(d)
  \/ LoadsModel \/ LoadFails \/ Enabled \/ ShutdownBegins

\* The backend is down.
DetectionRests ==
  /\ leaving.begun /\ leaving.todo = {} /\ \A w \in Workers : run[w].pc = "out"
  /\ UNCHANGED detectionVars

DetectionNext == EventLoop \/ (\E w \in Workers : Detecting(w)) \/ DetectionRests

DetectionSpec == DetectionInit /\ [][DetectionNext]_detectionVars

-----------------------------------------------------------------------------
(* Properties. *)

\* "Run all enabled detectors on frame" (detection_pipeline.py:80): whatever is switched
\* on and off meanwhile, and also when the shared pass fails or finds no model, a detector
\* that was on from the call to the return has its result, and one that was off has none.
AnswersEnabled ==
  \A w \in Workers, d \in Detectors :
    run[w].pc = "returns" => /\ was[w][d] = "on" => d \in run[w].results
                             /\ was[w][d] = "off" => d \notin run[w].results

\* Until the shutdown a detector that is on has its model, at every moment a worker thread
\* may look: otherwise it answers that there is nothing to see.
OnHasModel == ~leaving.begun => enabled \subseteq loaded
=============================================================================

------------------------------ MODULE MCSafety ------------------------------
(***************************************************************************)
(* The parts whose properties ask for no fairness: the cameras and the     *)
(* detectors of the backend, the names of streams, and the preloads and    *)
(* publications of go2rtc.  They share no state, so a behaviour is one of  *)
(* a single part (focus), chosen at its beginning.                         *)
(***************************************************************************)
EXTENDS MCCameraManager, Detection, Registry

CONSTANTS person, vehicle, face, back, a1, a2, p1, p2, q1, q2, q3

ThreeDetectors == <<person, vehicle, face>>

\* door and yard are names of streams too, yard that of a source; back is the url of a stream of
\* go2rtc's own RTSP server.
OwnServer == door :> NoKey @@ yard :> NoKey @@ back :> door

Same == SameSources \cup Permutations(Askers) \cup Permutations(PreloadCalls) \cup Permutations(Probes)

VARIABLE focus

SafetyInit ==
  /\ focus \in {"cameras", "detectors", "names", "preloads"}
  /\ Init /\ DetectionInit /\ RegistryInit
  /\ focus # "detectors" => enabled = {}

\* Only one name is put and deleted while preloads and publications go on.
Hub ==
  \/ focus = "names" /\ Naming
  \/ focus = "preloads" /\ (Put(door) \/ Delete(door) \/ Preloading \/ Publishing)

SafetyNext ==
  /\ UNCHANGED focus
  /\ \/ focus = "cameras" /\ Next /\ UNCHANGED <<detectionVars, registryVars>>
     \/ focus = "detectors" /\ DetectionNext /\ UNCHANGED <<vars, registryVars>>
     \/ Hub /\ UNCHANGED <<vars, detectionVars>>

SafetySpec == SafetyInit /\ [][SafetyNext]_<<focus, vars, detectionVars, registryVars>>
=============================================================================

---------------------------- MODULE CameraProofs ----------------------------
(***************************************************************************)
(* What holds of the camera processes for any number of cameras, processes *)
(* and viewers, and what holds of them when the event loop alone calls the *)
(* manager.                                                                *)
(***************************************************************************)
EXTENDS CameraManager, TLAPS, FiniteSetTheorems

\* A call that has marked its camera and not yet taken the mark away.
Marking == {"spawn", "probe", "publish", "fail", "finally"}

Marked == \A c \in starting : \E t \in Threads : Cam(t) = c /\ PC(t) \in Marking

-----------------------------------------------------------------------------
(* Steps of one thread. *)

Alone(t) == \A u \in Threads \ {t} : thread'[u] = thread[u]

\* A thread that only moves on keeps its other variables.
LEMMA GoesOn ==
  ASSUME TypeOK, NEW t \in Threads, NEW pc \in PCs, Goes(t, pc)
  PROVE  /\ thread' \in [Threads -> Thread]
         /\ Alone(t)
         /\ thread'[t] = [thread[t] EXCEPT !.pc = pc]
<1>1. thread[t] \in Thread
  BY DEF TypeOK
<1>2. [thread[t] EXCEPT !.pc = pc] \in Thread
  BY <1>1 DEF Thread
<1>3. thread' = [thread EXCEPT ![t] = [thread[t] EXCEPT !.pc = pc]]
  BY DEF TypeOK, Goes
<1>. QED  BY <1>2, <1>3 DEF TypeOK, Alone

\* So does a thread that moves on with another source in hand.
LEMMA GoesOnWith ==
  ASSUME TypeOK, NEW t \in Threads, NEW pc \in PCs, NEW s \in Sources \cup {NoSource},
         thread' = [thread EXCEPT ![t].pc = pc, ![t].src = s]
  PROVE  /\ thread' \in [Threads -> Thread]
         /\ Alone(t)
         /\ thread'[t] = [thread[t] EXCEPT !.pc = pc, !.src = s]
<1>. DEFINE r == [thread[t] EXCEPT !.pc = pc, !.src = s]
<1>1. thread[t] \in Thread
  BY DEF TypeOK
<1>2. r \in Thread
  BY <1>1 DEF Thread
<1>3. thread' = [thread EXCEPT ![t] = r]
  BY DEF TypeOK
<1>. QED  BY <1>2, <1>3 DEF TypeOK, Alone

\* Where a call that returns goes on.
LEMMA Returning ==
  ASSUME TypeOK, NEW t \in Threads, Started(t) \/ Stopped(t) \/ Looked(t)
  PROVE  \E pc \in PCs :
           /\ thread' = [thread EXCEPT ![t].pc = pc, ![t].src = NoSource]
           /\ Started(t) => pc \in {"idle", "again"}
           /\ Looked(t) => pc \in {"idle", "look"}
<1>1. thread[t].then \in PCs
  BY DEF TypeOK, Thread
<1>. QED  BY <1>1 DEF Started, Stopped, Looked, PCs

\* A step of a thread that has marked nothing takes no mark from others.
LEMMA OtherMarks ==
  ASSUME Marked, NEW t \in Threads, Alone(t), PC(t) \notin Marking, starting' \subseteq starting
  PROVE  Marked'
<1>. SUFFICES ASSUME NEW c \in starting'
              PROVE  \E u \in Threads : thread'[u].cam = c /\ thread'[u].pc \in Marking
  BY DEF Marked, Cam, PC
<1>1. PICK u \in Threads : thread[u].cam = c /\ thread[u].pc \in Marking
  BY DEF Marked, Cam, PC
<1>2. u # t
  BY <1>1 DEF PC
<1>. QED  BY <1>1, <1>2 DEF Alone

\* A step that stays between the mark and its removal keeps the mark.
LEMMA ItsMark ==
  ASSUME Marked, NEW t \in Threads, Alone(t),
         thread'[t].cam = Cam(t), thread'[t].pc \in Marking,
         starting' \subseteq starting \cup {Cam(t)}
  PROVE  Marked'
<1>. SUFFICES ASSUME NEW c \in starting'
              PROVE  \E u \in Threads : thread'[u].cam = c /\ thread'[u].pc \in Marking
  BY DEF Marked, Cam, PC
<1>1. CASE c = Cam(t)
  BY <1>1
<1>2. CASE c # Cam(t)
  <2>1. PICK u \in Threads : thread[u].cam = c /\ thread[u].pc \in Marking
    BY <1>2 DEF Marked, Cam, PC
  <2>. QED  BY <1>2, <2>1 DEF Alone, Cam
<1>. QED  BY <1>1, <1>2

-----------------------------------------------------------------------------
(* The invariant, action by action. *)

MarkInv == TypeOK /\ Marked

\* A call that returns to its caller, from where it had no mark.
LEMMA ReturnKeeps ==
  ASSUME MarkInv, NEW t \in Threads, Started(t) \/ Stopped(t) \/ Looked(t)
  PROVE  /\ thread' \in [Threads -> Thread]
         /\ Alone(t)
BY Returning, GoesOnWith DEF MarkInv

\* What a call writes to a status is one.
LEMMA SaysType ==
  ASSUME TypeOK, NEW c \in Cams, NEW s \in {"starting", "running", "stopped"}, Says(c, s)
  PROVE  status' \in [Cams -> {"absent", "idle", "starting", "running", "stopped"}]
BY DEF TypeOK, Says

\* A thread's camera and source are a camera and a source.
LEMMA InHand ==
  ASSUME TypeOK, NEW t \in Threads
  PROVE  /\ Cam(t) \in Cams
         /\ Src(t) \in Sources \cup {NoSource}
         /\ PC(t) \in PCs
         /\ thread[t] \in Thread
BY DEF TypeOK, Thread, Cam, Src, PC

\* A process that is terminated is gone, and no other changes.
LEMMA TerminatedType ==
  ASSUME TypeOK, NEW s, Terminated(s)
  PROVE  proc' \in [Sources -> {"free", "up", "gone"}] /\ running' \in SUBSET Sources
BY DEF TypeOK, Terminated

LEMMA StartKeeps ==
  ASSUME MarkInv, NEW t \in Threads,
         Refuse(t) \/ Check(t) \/ MarkRaises(t) \/ Mark(t) \/ Spawn(t)
  PROVE  MarkInv'
<1>. USE DEF MarkInv, manager, processes
<1>1. CASE Refuse(t)
  BY <1>1, ReturnKeeps, OtherMarks DEF Refuse, TypeOK, Marking
<1>2. CASE Check(t)
  <2>1. thread' \in [Threads -> Thread] /\ Alone(t)
    BY <1>2, GoesOn DEF Check, PCs, StartPCs
  <2>2. proc' \in [Sources -> {"free", "up", "gone"}] /\ running' \in SUBSET Sources
    BY <1>2, TerminatedType DEF Check, TypeOK
  <2>3. TypeOK'
    BY <1>2, <2>1, <2>2, InHand DEF Check, TypeOK
  <2>. QED  BY <1>2, <2>1, <2>3, OtherMarks DEF Check, Marking
<1>3. CASE MarkRaises(t)
  <2>1. CASE Started(t) /\ UNCHANGED starting
    BY <1>3, <2>1, ReturnKeeps, OtherMarks DEF MarkRaises, TypeOK, Marking
  <2>2. CASE Goes(t, "fail") /\ starting' = starting \cup {Cam(t)}
    <3>1. thread' \in [Threads -> Thread] /\ Alone(t)
          /\ thread'[t] = [thread[t] EXCEPT !.pc = "fail"]
      BY <2>2, GoesOn DEF PCs, StartPCs
    <3>2. thread'[t].pc = "fail" /\ thread'[t].cam = Cam(t)
      BY <3>1, InHand DEF Thread, Cam
    <3>3. TypeOK'
      BY <1>3, <2>2, <3>1, InHand DEF MarkRaises, TypeOK
    <3>. QED  BY <2>2, <3>1, <3>2, <3>3, ItsMark DEF Marking
  <2>. QED  BY <1>3, <2>1, <2>2 DEF MarkRaises
<1>4. CASE Mark(t)
  <2>1. thread' \in [Threads -> Thread] /\ Alone(t)
        /\ thread'[t] = [thread[t] EXCEPT !.pc = "spawn"]
    BY <1>4, GoesOn DEF Mark, PCs, StartPCs
  <2>2. thread'[t].pc = "spawn" /\ thread'[t].cam = Cam(t)
    BY <2>1, InHand DEF Thread, Cam
  <2>3. TypeOK'
    BY <1>4, <2>1, InHand, SaysType DEF Mark, TypeOK
  <2>. QED  BY <1>4, <2>1, <2>2, <2>3, ItsMark DEF Mark, Marking
<1>5. CASE Spawn(t)
  <2>1. PICK s \in Sources :
          /\ proc[s] = "free"
          /\ proc' = [proc EXCEPT ![s] = "up"]
          /\ running' = running \cup {s}
          /\ thread' = [thread EXCEPT ![t].pc = "probe", ![t].src = s]
    BY <1>5 DEF Spawn
  <2>2. thread' \in [Threads -> Thread] /\ Alone(t)
        /\ thread'[t] = [thread[t] EXCEPT !.pc = "probe", !.src = s]
    BY <2>1, GoesOnWith DEF PCs, StartPCs
  <2>3. thread'[t].pc = "probe" /\ thread'[t].cam = Cam(t)
    BY <2>2, InHand DEF Thread, Cam
  <2>4. TypeOK'
    BY <1>5, <2>1, <2>2 DEF Spawn, TypeOK
  <2>. QED  BY <1>5, <2>2, <2>3, <2>4, ItsMark DEF Spawn, Marking
<1>. QED  BY <1>1, <1>2, <1>3, <1>4, <1>5

LEMMA StartedKeeps ==
  ASSUME MarkInv, NEW t \in Threads,
         SpawnFails(t) \/ Probe(t) \/ Publish(t) \/ Fail(t) \/ Finally(t)
  PROVE  MarkInv'
<1>. USE DEF MarkInv, manager, processes
<1>1. ASSUME NEW pc \in {"fail", "publish", "finally"}, Goes(t, pc), starting' = starting
      PROVE  Marked' /\ thread' \in [Threads -> Thread]
  <2>1. thread' \in [Threads -> Thread] /\ Alone(t)
        /\ thread'[t] = [thread[t] EXCEPT !.pc = pc]
    BY <1>1, GoesOn DEF PCs, StartPCs
  <2>2. thread'[t].pc = pc /\ thread'[t].cam = Cam(t)
    BY <2>1, InHand DEF Thread, Cam
  <2>. QED  BY <1>1, <2>1, <2>2, ItsMark DEF Marking
<1>2. CASE SpawnFails(t)
  BY <1>2, <1>1 DEF SpawnFails, TypeOK
<1>3. CASE Probe(t)
  BY <1>3, <1>1 DEF Probe, TypeOK
<1>4. CASE Publish(t)
  BY <1>4, <1>1, InHand, SaysType DEF Publish, TypeOK
<1>5. CASE Fail(t)
  BY <1>5, <1>1, InHand, SaysType DEF Fail, TypeOK
<1>6. CASE Finally(t)
  <2>1. thread' \in [Threads -> Thread] /\ Alone(t)
    BY <1>6, ReturnKeeps DEF Finally
  <2>2. TypeOK'
    BY <1>6, <2>1 DEF Finally, TypeOK
  <2>3. Marked'
    <3>. SUFFICES ASSUME NEW c \in starting'
                  PROVE  \E u \in Threads : thread'[u].cam = c /\ thread'[u].pc \in Marking
      BY DEF Marked, Cam, PC
    <3>1. PICK u \in Threads : thread[u].cam = c /\ thread[u].pc \in Marking
      BY <1>6 DEF Finally, Marked, Cam, PC
    <3>2. u # t
      BY <1>6, <3>1 DEF Finally, Cam
    <3>. QED  BY <2>1, <3>1, <3>2 DEF Alone
  <2>. QED  BY <2>2, <2>3
<1>. QED  BY <1>2, <1>3, <1>4, <1>5, <1>6

LEMMA StopKeeps ==
  ASSUME MarkInv, NEW t \in Threads,
         NothingToStop(t) \/ Stop(t) \/ Kill(t) \/ Pop(t)
  PROVE  MarkInv'
<1>. USE DEF MarkInv, manager, processes
<1>1. CASE NothingToStop(t)
  BY <1>1, ReturnKeeps, OtherMarks DEF NothingToStop, TypeOK, Marking
<1>2. CASE Stop(t)
  <2>1. sources[Cam(t)] \in Sources \cup {NoSource}
    BY InHand DEF TypeOK
  <2>2. thread' \in [Threads -> Thread] /\ Alone(t)
    BY <1>2, <2>1, GoesOnWith DEF Stop, PCs, StartPCs
  <2>. QED  BY <1>2, <2>2, OtherMarks DEF Stop, TypeOK, Marking
<1>3. CASE Kill(t)
  <2>1. thread' \in [Threads -> Thread] /\ Alone(t)
    BY <1>3, GoesOn DEF Kill, PCs, StartPCs
  <2>2. TypeOK'
    BY <1>3, <2>1, TerminatedType DEF Kill, TypeOK
  <2>. QED  BY <1>3, <2>1, <2>2, OtherMarks DEF Kill, Marking
<1>4. CASE Pop(t)
  <2>1. thread' \in [Threads -> Thread] /\ Alone(t)
    BY <1>4, ReturnKeeps DEF Pop
  <2>2. TypeOK'
    BY <1>4, <2>1, InHand, SaysType DEF Pop, TypeOK
  <2>. QED  BY <1>4, <2>1, <2>2, OtherMarks DEF Pop, Marking
<1>. QED  BY <1>1, <1>2, <1>3, <1>4

LEMMA LookKeeps ==
  ASSUME MarkInv, NEW t \in Threads, Look(t) \/ LookAgain(t) \/ LookAlive(t)
  PROVE  MarkInv'
<1>. USE DEF MarkInv, manager, processes
<1>1. CASE Look(t)
  <2>1. Goes(t, "again") \/ Goes(t, "check") \/ Looked(t)
    BY <1>1 DEF Look
  <2>2. thread' \in [Threads -> Thread] /\ Alone(t)
    BY <2>1, ReturnKeeps, GoesOn DEF PCs, StartPCs
  <2>. QED  BY <1>1, <2>2, OtherMarks DEF Look, TypeOK, Marking
<1>2. CASE LookAgain(t)
  <2>1. sources[Cam(t)] \in Sources \cup {NoSource}
    BY InHand DEF TypeOK
  <2>2. \/ Looked(t)
        \/ thread' = [thread EXCEPT ![t].pc = "alive", ![t].src = sources[Cam(t)]]
    BY <1>2 DEF LookAgain
  <2>3. thread' \in [Threads -> Thread] /\ Alone(t)
    BY <2>1, <2>2, ReturnKeeps, GoesOnWith DEF PCs, StartPCs
  <2>. QED  BY <1>2, <2>3, OtherMarks DEF LookAgain, TypeOK, Marking
<1>3. CASE LookAlive(t)
  <2>1. thread' \in [Threads -> Thread] /\ Alone(t)
    BY <1>3, ReturnKeeps DEF LookAlive
  <2>2. status' \in [Cams -> {"absent", "idle", "starting", "running", "stopped"}]
    BY <1>3, InHand, SaysType DEF LookAlive, TypeOK
  <2>3. TypeOK'
    BY <1>3, <2>1, <2>2 DEF LookAlive, TypeOK
  <2>. QED  BY <1>3, <2>1, <2>3, OtherMarks DEF LookAlive, Marking
<1>. QED  BY <1>1, <1>2, <1>3

\* The loop's thread as a request, a reload or a shutdown leaves it.
LEMMA LoopType ==
  ASSUME TypeOK, NEW r \in Thread, thread' = [thread EXCEPT ![Loop] = r]
  PROVE  thread' \in [Threads -> Thread] /\ Alone(Loop) /\ thread'[Loop] = r
BY DEF TypeOK, Alone, Threads

\* The event loop between two calls of the manager.
LEMMA LoopMoves ==
  ASSUME TypeOK, Request \/ NextToStop \/ GoOn \/ Count \/ Swap
  PROVE  /\ \E r \in Thread : thread' = [thread EXCEPT ![Loop] = r]
         /\ PC(Loop) \notin Marking
         /\ starting' = starting
<1>. USE DEF manager, Marking
<1>. DEFINE l == thread[Loop]
<1>0. l \in Thread /\ thread \in [Threads -> Thread] /\ Loop \in Threads
  BY DEF TypeOK, Threads
<1>1. ASSUME NEW c \in Cams, RequestStart(c) \/ RequestDetect(c) \/ RequestStop(c)
      PROVE  \E pc \in {"check", "look", "stop"} :
               thread' = [thread EXCEPT ![Loop] = [l EXCEPT !.pc = pc, !.cam = c, !.then = "idle"]]
  BY <1>1, <1>0 DEF RequestStart, RequestDetect, RequestStop, Serves
<1>2. CASE \E c \in Cams : RequestStart(c) \/ RequestDetect(c) \/ RequestStop(c)
  <2>1. PICK c \in Cams : RequestStart(c) \/ RequestDetect(c) \/ RequestStop(c)
    BY <1>2
  <2>2. PICK pc \in {"check", "look", "stop"} :
          thread' = [thread EXCEPT ![Loop] = [l EXCEPT !.pc = pc, !.cam = c, !.then = "idle"]]
    BY <2>1, <1>1
  <2>3. [l EXCEPT !.pc = pc, !.cam = c, !.then = "idle"] \in Thread
    BY <1>0 DEF Thread, PCs, StartPCs
  <2>4. PC(Loop) = "idle" /\ starting' = starting
    BY <2>1 DEF RequestStart, RequestDetect, RequestStop
  <2>. QED  BY <2>2, <2>3, <2>4
<1>3. ASSUME NEW todo \in SUBSET Cams, NEW new \in SUBSET Cams,
             NEW then \in {"count", "down"}, StopsAll(todo, then, new)
      PROVE  LET r == [l EXCEPT !.pc = "next", !.todo = todo, !.then = then, !.new = new] IN
             r \in Thread /\ thread' = [thread EXCEPT ![Loop] = r]
  BY <1>3, <1>0 DEF StopsAll, Thread, PCs, StartPCs
<1>4. CASE RequestReload
  <2>1. config \in SUBSET Cams
    BY CameraAssumption DEF TypeOK
  <2>2. {c \in Cams : Known(c)} \ config \in SUBSET Cams
    OBVIOUS
  <2>. QED  BY <1>4, <1>3, <2>1, <2>2 DEF RequestReload
<1>5. CASE Shutdown
  <2>1. {c \in Cams : sources[c] # NoSource} \in SUBSET Cams /\ {} \in SUBSET Cams
    OBVIOUS
  <2>. QED  BY <1>5, <1>3, <2>1 DEF Shutdown
<1>6. CASE NextToStop
  <2>1. CASE l.todo = {}
    <3>1. [l EXCEPT !.pc = l.then] \in Thread
      BY <1>0 DEF Thread
    <3>2. thread' = [thread EXCEPT ![Loop] = [l EXCEPT !.pc = l.then]]
      BY <1>6, <2>1, <1>0 DEF NextToStop, Goes
    <3>. QED  BY <1>6, <3>1, <3>2 DEF NextToStop
  <2>2. CASE l.todo # {}
    <3>1. PICK c \in l.todo :
            thread' = [thread EXCEPT ![Loop].pc = "stop", ![Loop].cam = c,
                                     ![Loop].todo = @ \ {c}]
      BY <1>6, <2>2 DEF NextToStop
    <3>. DEFINE r == [l EXCEPT !.pc = "stop", !.cam = c, !.todo = @ \ {c}]
    <3>2. c \in Cams
      BY <1>0 DEF Thread
    <3>3. r \in Thread
      BY <1>0, <3>2 DEF Thread, PCs
    <3>4. thread' = [thread EXCEPT ![Loop] = r]
      BY <1>0, <3>1
    <3>. QED  BY <1>6, <3>3, <3>4 DEF NextToStop
  <2>. QED  BY <2>1, <2>2
<1>7. CASE GoOn
  <2>1. [l EXCEPT !.pc = "next"] \in Thread
    BY <1>0 DEF Thread, PCs
  <2>2. thread' = [thread EXCEPT ![Loop] = [l EXCEPT !.pc = "next"]]
    BY <1>7, <1>0 DEF GoOn, Goes
  <2>. QED  BY <1>7, <2>1, <2>2 DEF GoOn
<1>8. CASE Count
  <2>. DEFINE kept == {c \in l.new : sources[c] # NoSource}
              r == [l EXCEPT !.pc = "swap", !.kept = kept]
  <2>1. kept \in SUBSET Cams
    BY <1>0 DEF Thread
  <2>2. r \in Thread
    BY <1>0, <2>1 DEF Thread, PCs
  <2>3. thread' = [thread EXCEPT ![Loop] = r]
    BY <1>8, <1>0 DEF Count
  <2>. QED  BY <1>8, <2>2, <2>3 DEF Count
<1>9. CASE Swap
  <2>1. Resting("idle", Cam(Loop)) \in Thread
    BY <1>0, InHand DEF Resting, Thread, PCs
  <2>. QED  BY <1>9, <2>1 DEF Swap
<1>. QED  BY <1>2, <1>4, <1>5, <1>6, <1>7, <1>8, <1>9 DEF Request

LEMMA LoopKeeps ==
  ASSUME MarkInv, Request \/ NextToStop \/ GoOn \/ Count \/ Swap
  PROVE  MarkInv'
<1>1. thread' \in [Threads -> Thread] /\ Alone(Loop)
  BY LoopMoves, LoopType DEF MarkInv
<1>2. Marked'
  BY <1>1, LoopMoves, OtherMarks DEF MarkInv, Threads
<1>3. /\ UNCHANGED <<config, sources, processes>>
      /\ status' \in [Cams -> {"absent", "idle", "starting", "running", "stopped"}]
  BY DEF MarkInv, TypeOK, manager, Request, RequestStart, RequestDetect, RequestStop,
         RequestReload, Shutdown, NextToStop, GoOn, Count, Swap
<1>. QED  BY <1>1, <1>2, <1>3, LoopMoves DEF MarkInv, TypeOK, processes

\* FFmpeg and the configuration file leave the threads alone.
LEMMA EnvironmentKeeps ==
  ASSUME MarkInv, EditConfig \/ (\E s \in Sources : Exits(s) \/ ReaderEnds(s))
  PROVE  MarkInv'
<1>1. UNCHANGED <<thread, starting>>
  BY DEF EditConfig, Exits, ReaderEnds, manager
<1>2. Marked'
  BY <1>1 DEF MarkInv, Marked, Cam, PC
<1>3. TypeOK'
  BY <1>1 DEF MarkInv, TypeOK, EditConfig, Exits, ReaderEnds, manager, processes
<1>. QED  BY <1>2, <1>3 DEF MarkInv

LEMMA MarkInvariant == Spec => []MarkInv
<1>1. Init => MarkInv
  <2>. SUFFICES ASSUME Init PROVE MarkInv
    OBVIOUS
  <2>1. \A t \in Threads :
          Resting("idle", CHOOSE c \in Cams : TRUE) \in Thread
          /\ (t # Loop => Resting("look", Watched[t]) \in Thread)
    BY CameraAssumption DEF Resting, Thread, PCs, Threads
  <2>2. TypeOK
    BY <2>1, CameraAssumption DEF Init, TypeOK
  <2>. QED  BY <2>2 DEF Init, MarkInv, Marked
<1>2. MarkInv /\ [Next]_vars => MarkInv'
  <2>. SUFFICES ASSUME MarkInv, [Next]_vars PROVE MarkInv'
    OBVIOUS
  <2>1. ASSUME NEW t \in Threads, Call(t) PROVE MarkInv'
    BY <2>1, StartKeeps, StartedKeeps, StopKeeps, LookKeeps DEF Call
  <2>2. CASE Request \/ NextToStop \/ GoOn \/ Count \/ Swap
    BY <2>2, LoopKeeps
  <2>3. CASE EditConfig \/ (\E s \in Sources : Exits(s) \/ ReaderEnds(s))
    BY <2>3, EnvironmentKeeps
  <2>4. CASE UNCHANGED vars
    BY <2>4 DEF vars, MarkInv, TypeOK, Marked, Cam, PC
  <2>. QED  BY <2>1, <2>2, <2>3, <2>4 DEF Next
<1>. QED  BY <1>1, <1>2, PTL DEF Spec

\* Every variable of the manager keeps its type.
THEOREM CamerasTypeCorrect == Spec => []TypeOK
BY MarkInvariant, PTL DEF MarkInv

\* start_camera leaves no mark in _starting_cameras behind, whatever raises and
\* however many threads start the camera: a mark has a call that will take it away.
THEOREM MarksAreCleaned == Spec => []NoLeftovers
<1>1. Marked => NoLeftovers
  BY DEF Marked, NoLeftovers, Marking, StartPCs
<1>. QED  BY <1>1, MarkInvariant, PTL DEF MarkInv

-----------------------------------------------------------------------------
(* The backend without /detect-stream viewers, when the event loop alone   *)
(* calls the manager: no FFmpeg process is lost, the status of a camera is *)
(* true, and a shutdown ends every process.                                *)

L == thread[Loop]

\* A process that runs is known to its FrameSource, and frame_sources holds spawned
\* processes, each under one name.
Processes ==
  /\ \A s \in Sources : proc[s] = "up" => s \in running
  /\ \A c \in Cams : sources[c] # NoSource => proc[sources[c]] # "free"
  /\ \A c, d \in Cams : sources[c] # NoSource /\ sources[c] = sources[d] => c = d

\* start_camera has popped the old source before it spawns a new one.
Starting ==
  /\ L.pc = "check" => status[L.cam] # "running"
  /\ L.pc \in {"mark", "spawn", "probe", "publish", "fail"} => sources[L.cam] = NoSource
  /\ L.pc \in {"spawn", "probe", "publish"} => Known(L.cam)
  /\ L.pc \in {"probe", "publish"} =>
       /\ L.src \in Sources
       /\ proc[L.src] # "free"
       /\ \A c \in Cams : sources[c] # L.src

\* stop_camera and get_frame hold the source that is still in frame_sources.
Stopping ==
  /\ L.pc \in {"kill", "pop", "alive"} => L.src = sources[L.cam] /\ L.src # NoSource
  /\ L.pc = "pop" => proc[L.src] = "gone"

Statuses ==
  /\ \A c \in Cams : sources[c] # NoSource => Known(c)
  /\ \A c \in Cams : Alive(c) => status[c] = "running"
  /\ \A c \in Cams : status[c] = "running" => sources[c] # NoSource

\* The cameras a reload or a shutdown has still to stop.
Remaining(c) == c \in L.todo \/ (L.pc \in {"stop", "kill", "pop"} /\ L.cam = c)

InTurn == L.pc \in {"next", "stop", "kill", "pop", "count", "down"}

\* What a reload or a shutdown does not have to stop is listed, or has no source.
Reloading ==
  /\ L.then \in {"idle", "count", "down"}
  /\ L.pc \in {"count", "down"} => L.then = L.pc
  /\ InTurn /\ L.then = "count" =>
       \A c \in Cams : sources[c] # NoSource => c \in L.new \/ Remaining(c)
  /\ InTurn /\ L.then = "down" =>
       \A c \in Cams : sources[c] # NoSource => Remaining(c)
  /\ L.pc = "swap" =>
       /\ L.kept = {c \in L.new : sources[c] # NoSource}
       /\ \A c \in Cams : sources[c] # NoSource => c \in L.new

\* An FFmpeg process that runs is in frame_sources, or about to get there.
Found ==
  \A s \in Sources : proc[s] = "up" =>
    \/ \E c \in Cams : s = sources[c]
    \/ L.pc \in {"probe", "publish"} /\ s = L.src

SoleInv == Processes /\ Starting /\ Stopping /\ Statuses /\ Reloading /\ Found

-----------------------------------------------------------------------------
(* The loop's thread after a step. *)

Keeps(r) ==
  r.cam = L.cam /\ r.todo = L.todo /\ r.new = L.new /\ r.kept = L.kept /\ r.then = L.then

LEMMA LoopGoes ==
  ASSUME TypeOK, NEW pc, Goes(Loop, pc)
  PROVE  L'.pc = pc /\ L'.src = L.src /\ Keeps(L')
<1>1. L \in Thread /\ thread \in [Threads -> Thread] /\ Loop \in Threads
  BY DEF TypeOK, L, Threads
<1>2. L' = [L EXCEPT !.pc = pc]
  BY <1>1 DEF Goes, L
<1>. QED  BY <1>1, <1>2 DEF Thread, Keeps

LEMMA LoopGoesWith ==
  ASSUME TypeOK, NEW pc, NEW s, thread' = [thread EXCEPT ![Loop].pc = pc, ![Loop].src = s]
  PROVE  L'.pc = pc /\ L'.src = s /\ Keeps(L')
<1>1. L \in Thread /\ thread \in [Threads -> Thread] /\ Loop \in Threads
  BY DEF TypeOK, L, Threads
<1>2. L' = [L EXCEPT !.pc = pc, !.src = s]
  BY <1>1 DEF L
<1>. QED  BY <1>1, <1>2 DEF Thread, Keeps

\* The loop's calls return to the loop.
LEMMA LoopReturns ==
  ASSUME TypeOK
  PROVE  /\ Started(Loop) => L'.pc = "idle" /\ L'.src = NoSource /\ Keeps(L')
         /\ Looked(Loop) => L'.pc = "idle" /\ L'.src = NoSource /\ Keeps(L')
         /\ Stopped(Loop) => L'.pc = L.then /\ L'.src = NoSource /\ Keeps(L')
BY LoopGoesWith DEF Started, Looked, Stopped, L

\* A process that is terminated, if there is one, is gone.
LEMMA Gone ==
  ASSUME TypeOK, NEW x, Terminated(x) \/ (x = NoSource /\ UNCHANGED processes)
  PROVE  /\ \A s \in Sources : proc'[s] = IF s = x THEN "gone" ELSE proc[s]
         /\ running' = running \ {x}
BY CameraAssumption DEF TypeOK, Terminated, processes

\* A status that is written is the one written, unless the camera is absent.
LEMMA Said ==
  ASSUME TypeOK, NEW c \in Cams, NEW s, Says(c, s)
  PROVE  \A d \in Cams :
           status'[d] = IF d = c /\ status[c] # "absent" THEN s ELSE status[d]
BY DEF TypeOK, Says

\* Steps that change the loop's thread alone.
LEMMA OnlyTheThread ==
  ASSUME SoleInv, UNCHANGED <<status, sources, proc, running>>
  PROVE  Processes' /\ Statuses'
BY DEF SoleInv, Processes, Statuses, Alive, Known

-----------------------------------------------------------------------------
(* start_camera. *)

LEMMA SoleStart ==
  ASSUME TypeOK, SoleInv, Refuse(Loop) \/ Check(Loop) \/ MarkRaises(Loop) \/ Mark(Loop)
  PROVE  SoleInv'
<1>. USE DEF PC, Cam, Src, manager, processes, L
<1>0. L.cam \in Cams /\ Loop \in Threads
  BY InHand DEF Threads
<1>1. CASE Refuse(Loop)
  <2>1. L'.pc = "idle" /\ Keeps(L')
    BY <1>1, LoopReturns DEF Refuse
  <2>2. UNCHANGED <<status, sources, proc, running>>
    BY <1>1 DEF Refuse
  <2>3. Starting' /\ Stopping'
    BY <2>1 DEF Starting, Stopping
  <2>4. Reloading'
    BY <2>1, <2>2 DEF SoleInv, Reloading, InTurn, Keeps
  <2>5. Found'
    BY <1>1, <2>1, <2>2 DEF SoleInv, Found, Refuse
  <2>. QED  BY <2>2, <2>3, <2>4, <2>5, OnlyTheThread DEF SoleInv
<1>2. CASE Check(Loop)
  <2>1. L'.pc = "mark" /\ Keeps(L') /\ L.pc = "check"
    BY <1>2, LoopGoes DEF Check
  <2>2. /\ status' = status
        /\ \A c \in Cams : sources'[c] = IF c = L.cam THEN NoSource ELSE sources[c]
    BY <1>2 DEF Check, TypeOK
  <2>3. /\ \A s \in Sources : proc'[s] = IF s = sources[L.cam] THEN "gone" ELSE proc[s]
        /\ running' = running \ {sources[L.cam]}
    BY <1>2, Gone DEF Check
  <2>4. Processes'
    BY <2>2, <2>3 DEF SoleInv, Processes, TypeOK
  <2>5. Starting' /\ Stopping'
    BY <1>0, <2>1, <2>2 DEF Starting, Stopping, Keeps
  <2>6. Statuses'
    BY <1>0, <2>1, <2>2, <2>3, CameraAssumption
       DEF SoleInv, Statuses, Starting, Alive, Known, TypeOK
  <2>7. Reloading'
    BY <2>1 DEF SoleInv, Reloading, InTurn, Keeps
  <2>8. Found'
    BY <1>0, <2>1, <2>2, <2>3 DEF SoleInv, Found
  <2>. QED  BY <2>4, <2>5, <2>6, <2>7, <2>8 DEF SoleInv
<1>3. CASE MarkRaises(Loop)
  <2>1. L'.pc \in {"idle", "fail"} /\ Keeps(L') /\ L.pc = "mark"
    BY <1>3, LoopGoes, LoopReturns DEF MarkRaises
  <2>2. UNCHANGED <<status, sources, proc, running>>
    BY <1>3 DEF MarkRaises
  <2>3. Starting' /\ Stopping'
    BY <2>1, <2>2 DEF SoleInv, Starting, Stopping, Keeps
  <2>4. Reloading'
    BY <2>1, <2>2 DEF SoleInv, Reloading, InTurn, Keeps
  <2>5. Found'
    BY <2>1, <2>2 DEF SoleInv, Found
  <2>. QED  BY <2>2, <2>3, <2>4, <2>5, OnlyTheThread DEF SoleInv
<1>4. CASE Mark(Loop)
  <2>1. L'.pc = "spawn" /\ Keeps(L') /\ L.pc = "mark"
    BY <1>4, LoopGoes DEF Mark
  <2>2. UNCHANGED <<sources, proc, running>> /\ Known(L.cam)
    BY <1>4 DEF Mark
  <2>3. \A c \in Cams : status'[c] = IF c = L.cam THEN "starting" ELSE status[c]
    BY <1>0, <1>4, <2>2, Said DEF Mark, Known
  <2>4. Processes'
    BY <2>2 DEF SoleInv, Processes
  <2>5. Starting' /\ Stopping'
    BY <1>0, <2>1, <2>2, <2>3 DEF SoleInv, Starting, Stopping, Keeps, Known
  <2>6. Statuses'
    BY <1>0, <2>1, <2>2, <2>3, CameraAssumption
       DEF SoleInv, Statuses, Starting, Alive, Known, TypeOK
  <2>7. Reloading'
    BY <2>1 DEF SoleInv, Reloading, InTurn, Keeps
  <2>8. Found'
    BY <2>1, <2>2 DEF SoleInv, Found
  <2>. QED  BY <2>4, <2>5, <2>6, <2>7, <2>8 DEF SoleInv
<1>. QED  BY <1>1, <1>2, <1>3, <1>4

LEMMA SoleSpawn ==
  ASSUME TypeOK, SoleInv, Spawn(Loop) \/ SpawnFails(Loop) \/ Probe(Loop)
  PROVE  SoleInv'
<1>. USE DEF PC, Cam, Src, manager, processes, L
<1>0. L.cam \in Cams /\ Loop \in Threads
  BY InHand DEF Threads
<1>1. CASE Spawn(Loop)
  <2>1. PICK s \in Sources :
          /\ proc[s] = "free"
          /\ proc' = [proc EXCEPT ![s] = "up"]
          /\ running' = running \cup {s}
          /\ thread' = [thread EXCEPT ![Loop].pc = "probe", ![Loop].src = s]
    BY <1>1 DEF Spawn
  <2>2. L'.pc = "probe" /\ L'.src = s /\ Keeps(L') /\ L.pc = "spawn"
    BY <1>1, <2>1, LoopGoesWith DEF Spawn
  <2>3. UNCHANGED <<status, sources>>
    BY <1>1 DEF Spawn
  <2>4. \A c \in Cams : sources[c] # s
    BY <2>1, CameraAssumption DEF SoleInv, Processes, TypeOK
  <2>5. \A r \in Sources : proc'[r] = IF r = s THEN "up" ELSE proc[r]
    BY <2>1 DEF TypeOK
  <2>6. Processes'
    BY <2>1, <2>3, <2>5 DEF SoleInv, Processes, TypeOK
  <2>7. Starting' /\ Stopping'
    BY <2>2, <2>3, <2>4, <2>5 DEF SoleInv, Starting, Stopping, Keeps, Known
  <2>8. Statuses'
    BY <2>1, <2>3, <2>4 DEF SoleInv, Statuses, Alive, Known
  <2>9. Reloading'
    BY <2>2 DEF SoleInv, Reloading, InTurn, Keeps
  <2>10. Found'
    BY <2>2, <2>3, <2>5 DEF SoleInv, Found
  <2>. QED  BY <2>6, <2>7, <2>8, <2>9, <2>10 DEF SoleInv
<1>2. CASE SpawnFails(Loop)
  <2>1. L'.pc = "fail" /\ Keeps(L') /\ L.pc = "spawn"
    BY <1>2, LoopGoes DEF SpawnFails
  <2>2. UNCHANGED <<status, sources, proc, running>>
    BY <1>2 DEF SpawnFails
  <2>3. Starting' /\ Stopping'
    BY <2>1, <2>2 DEF SoleInv, Starting, Stopping, Keeps
  <2>4. Reloading'
    BY <2>1 DEF SoleInv, Reloading, InTurn, Keeps
  <2>5. Found'
    BY <2>1, <2>2 DEF SoleInv, Found
  <2>. QED  BY <2>2, <2>3, <2>4, <2>5, OnlyTheThread DEF SoleInv
<1>3. CASE Probe(Loop)
  <2>1. /\ \/ L'.pc = "fail" /\ proc[L.src] = "gone" /\ running' = running \ {L.src}
           \/ L'.pc = "publish" /\ running' = running
        /\ Keeps(L') /\ L'.src = L.src /\ L.pc = "probe"
    BY <1>3, LoopGoes DEF Probe
  <2>2. UNCHANGED <<status, sources, proc>>
    BY <1>3 DEF Probe
  <2>3. Processes'
    BY <2>1, <2>2 DEF SoleInv, Processes, TypeOK
  <2>4. Starting' /\ Stopping'
    BY <2>1, <2>2 DEF SoleInv, Starting, Stopping, Keeps, Known
  <2>5. Statuses'
    BY <2>1, <2>2 DEF SoleInv, Statuses, Alive, Known
  <2>6. Reloading'
    BY <2>1 DEF SoleInv, Reloading, InTurn, Keeps
  <2>7. Found'
    BY <2>1, <2>2 DEF SoleInv, Found
  <2>. QED  BY <2>3, <2>4, <2>5, <2>6, <2>7 DEF SoleInv
<1>. QED  BY <1>1, <1>2, <1>3

LEMMA SoleEnd ==
  ASSUME TypeOK, SoleInv, Publish(Loop) \/ Fail(Loop) \/ Finally(Loop)
  PROVE  SoleInv'
<1>. USE DEF PC, Cam, Src, manager, processes, L
<1>0. L.cam \in Cams /\ Loop \in Threads
  BY InHand DEF Threads
<1>1. CASE Publish(Loop)
  <2>1. L'.pc = "finally" /\ Keeps(L') /\ L.pc = "publish"
    BY <1>1, LoopGoes DEF Publish
  <2>2. /\ UNCHANGED <<proc, running>>
        /\ \A c \in Cams : sources'[c] = IF c = L.cam THEN L.src ELSE sources[c]
    BY <1>1 DEF Publish, TypeOK
  <2>3. \A c \in Cams : status'[c] = IF c = L.cam THEN "running" ELSE status[c]
    BY <1>0, <1>1, <2>1, Said DEF SoleInv, Starting, Publish, Known
  <2>4. /\ L.src \in Sources /\ proc[L.src] # "free"
        /\ \A c \in Cams : sources[c] # L.src
        /\ sources[L.cam] = NoSource
    BY <2>1 DEF SoleInv, Starting
  <2>5. Processes'
    BY <2>2, <2>4 DEF SoleInv, Processes
  <2>6. Starting' /\ Stopping'
    BY <2>1 DEF Starting, Stopping
  <2>7. Statuses'
    BY <2>2, <2>3, <2>4, CameraAssumption DEF SoleInv, Statuses, Alive, Known
  <2>8. Reloading'
    BY <2>1 DEF SoleInv, Reloading, InTurn, Keeps
  <2>9. Found'
    BY <1>0, <2>1, <2>2, <2>4, CameraAssumption DEF SoleInv, Found
  <2>. QED  BY <2>5, <2>6, <2>7, <2>8, <2>9 DEF SoleInv
<1>2. CASE Fail(Loop)
  <2>1. L'.pc = "finally" /\ Keeps(L') /\ L.pc = "fail"
    BY <1>2, LoopGoes DEF Fail
  <2>2. UNCHANGED <<sources, proc, running>>
    BY <1>2 DEF Fail
  <2>3. \A c \in Cams :
          status'[c] = IF c = L.cam /\ status[c] # "absent" THEN "stopped" ELSE status[c]
    BY <1>0, <1>2, Said DEF Fail
  <2>4. Processes'
    BY <2>2 DEF SoleInv, Processes
  <2>5. Starting' /\ Stopping'
    BY <2>1 DEF Starting, Stopping
  <2>6. Statuses'
    BY <1>0, <2>1, <2>2, <2>3, CameraAssumption
       DEF SoleInv, Statuses, Starting, Alive, Known, TypeOK
  <2>7. Reloading'
    BY <2>1 DEF SoleInv, Reloading, InTurn, Keeps
  <2>8. Found'
    BY <2>1, <2>2 DEF SoleInv, Found
  <2>. QED  BY <2>4, <2>5, <2>6, <2>7, <2>8 DEF SoleInv
<1>3. CASE Finally(Loop)
  <2>1. L'.pc = "idle" /\ Keeps(L') /\ L.pc = "finally"
    BY <1>3, LoopReturns DEF Finally
  <2>2. UNCHANGED <<status, sources, proc, running>>
    BY <1>3 DEF Finally
  <2>3. Starting' /\ Stopping'
    BY <2>1 DEF Starting, Stopping
  <2>4. Reloading'
    BY <2>1 DEF SoleInv, Reloading, InTurn, Keeps
  <2>5. Found'
    BY <2>1, <2>2 DEF SoleInv, Found
  <2>. QED  BY <2>2, <2>3, <2>4, <2>5, OnlyTheThread DEF SoleInv
<1>. QED  BY <1>1, <1>2, <1>3

-----------------------------------------------------------------------------
(* stop_camera and get_frame. *)

LEMMA SoleStop ==
  ASSUME TypeOK, SoleInv, NothingToStop(Loop) \/ Stop(Loop) \/ Kill(Loop) \/ Pop(Loop)
  PROVE  SoleInv'
<1>. USE DEF PC, Cam, Src, manager, processes, L
<1>0. L.cam \in Cams /\ Loop \in Threads
  BY InHand DEF Threads
<1>1. CASE NothingToStop(Loop)
  <2>1. L'.pc = L.then /\ Keeps(L') /\ L.pc = "stop" /\ sources[L.cam] = NoSource
    BY <1>1, LoopReturns DEF NothingToStop
  <2>2. UNCHANGED <<status, sources, proc, running>>
    BY <1>1 DEF NothingToStop
  <2>3. L'.pc \in {"idle", "count", "down"}
    BY <2>1 DEF SoleInv, Reloading
  <2>4. Starting' /\ Stopping'
    BY <2>3 DEF Starting, Stopping
  <2>5. Reloading'
    BY <2>1, <2>2, <2>3 DEF SoleInv, Reloading, InTurn, Remaining, Keeps
  <2>6. Found'
    BY <2>1, <2>2 DEF SoleInv, Found
  <2>. QED  BY <2>2, <2>4, <2>5, <2>6, OnlyTheThread DEF SoleInv
<1>2. CASE Stop(Loop)
  <2>1. L'.pc = "kill" /\ L'.src = sources[L.cam] /\ Keeps(L')
        /\ L.pc = "stop" /\ sources[L.cam] # NoSource
    BY <1>2, LoopGoesWith DEF Stop
  <2>2. UNCHANGED <<status, sources, proc, running>>
    BY <1>2 DEF Stop
  <2>3. Starting' /\ Stopping'
    BY <2>1, <2>2 DEF Starting, Stopping, Keeps
  <2>4. Reloading'
    BY <2>1, <2>2 DEF SoleInv, Reloading, InTurn, Remaining, Keeps
  <2>5. Found'
    BY <2>1, <2>2 DEF SoleInv, Found
  <2>. QED  BY <2>2, <2>3, <2>4, <2>5, OnlyTheThread DEF SoleInv
<1>3. CASE Kill(Loop)
  <2>1. L'.pc = "pop" /\ L'.src = L.src /\ Keeps(L') /\ L.pc = "kill"
    BY <1>3, LoopGoes DEF Kill
  <2>2. UNCHANGED <<status, sources>>
    BY <1>3 DEF Kill
  <2>3. /\ \A s \in Sources : proc'[s] = IF s = L.src THEN "gone" ELSE proc[s]
        /\ running' = running \ {L.src}
    BY <1>3, Gone DEF Kill
  <2>4. L.src = sources[L.cam] /\ L.src # NoSource /\ L.src \in Sources
    BY <1>0, <2>1 DEF SoleInv, Stopping, TypeOK
  <2>5. Processes'
    BY <2>2, <2>3 DEF SoleInv, Processes, TypeOK
  <2>6. Starting' /\ Stopping'
    BY <2>1, <2>2, <2>3, <2>4 DEF Starting, Stopping, Keeps
  <2>7. Statuses'
    BY <2>2, <2>3 DEF SoleInv, Statuses, Alive, Known
  <2>8. Reloading'
    BY <2>1, <2>2 DEF SoleInv, Reloading, InTurn, Remaining, Keeps
  <2>9. Found'
    BY <2>1, <2>2, <2>3 DEF SoleInv, Found
  <2>. QED  BY <2>5, <2>6, <2>7, <2>8, <2>9 DEF SoleInv
<1>4. CASE Pop(Loop)
  <2>1. L'.pc = L.then /\ Keeps(L') /\ L.pc = "pop"
    BY <1>4, LoopReturns DEF Pop
  <2>2. /\ UNCHANGED <<proc, running>>
        /\ \A c \in Cams : sources'[c] = IF c = L.cam THEN NoSource ELSE sources[c]
    BY <1>4 DEF Pop, TypeOK
  <2>3. \A c \in Cams :
          status'[c] = IF c = L.cam /\ status[c] # "absent" THEN "stopped" ELSE status[c]
    BY <1>0, <1>4, Said DEF Pop
  <2>4. L.src = sources[L.cam] /\ proc[sources[L.cam]] = "gone"
    BY <2>1 DEF SoleInv, Stopping
  <2>5. L'.pc \in {"idle", "count", "down"}
    BY <2>1 DEF SoleInv, Reloading
  <2>6. Processes'
    BY <2>2 DEF SoleInv, Processes
  <2>7. Starting' /\ Stopping'
    BY <2>5 DEF Starting, Stopping
  <2>8. Statuses'
    BY <1>0, <2>2, <2>3, CameraAssumption DEF SoleInv, Statuses, Alive, Known, TypeOK
  <2>9. Reloading'
    BY <2>1, <2>2, <2>5 DEF SoleInv, Reloading, InTurn, Remaining, Keeps
  <2>10. Found'
    BY <1>0, <2>1, <2>2, <2>4 DEF SoleInv, Found
  <2>. QED  BY <2>6, <2>7, <2>8, <2>9, <2>10 DEF SoleInv
<1>. QED  BY <1>1, <1>2, <1>3, <1>4

LEMMA SoleLook ==
  ASSUME TypeOK, SoleInv, Look(Loop) \/ LookAgain(Loop) \/ LookAlive(Loop)
  PROVE  SoleInv'
<1>. USE DEF PC, Cam, Src, manager, processes, L
<1>0. L.cam \in Cams /\ Loop \in Threads
  BY InHand DEF Threads
<1>1. CASE Look(Loop) \/ LookAgain(Loop)
  <2>1. /\ L'.pc \in {"idle", "again", "alive"} /\ Keeps(L') /\ L.pc \in {"look", "again"}
        /\ L'.pc = "alive" => L'.src = sources[L.cam] /\ sources[L.cam] # NoSource
    BY <1>1, LoopGoes, LoopGoesWith, LoopReturns DEF Look, LookAgain
  <2>2. UNCHANGED <<status, sources, proc, running>>
    BY <1>1 DEF Look, LookAgain
  <2>3. Starting' /\ Stopping'
    BY <2>1, <2>2 DEF Starting, Stopping, Keeps
  <2>4. Reloading'
    BY <2>1, <2>2 DEF SoleInv, Reloading, InTurn, Keeps
  <2>5. Found'
    BY <2>1, <2>2 DEF SoleInv, Found
  <2>. QED  BY <2>2, <2>3, <2>4, <2>5, OnlyTheThread DEF SoleInv
<1>2. CASE LookAlive(Loop)
  <2>1. L'.pc = "idle" /\ Keeps(L') /\ L.pc = "alive"
    BY <1>2, LoopReturns DEF LookAlive
  <2>2. UNCHANGED <<sources, proc, running>>
    BY <1>2 DEF LookAlive
  <2>3. \/ status' = status
        \/ /\ L.src \notin running
           /\ \A c \in Cams : status'[c] = IF c = L.cam /\ status[c] # "absent"
                                           THEN "stopped" ELSE status[c]
    BY <1>0, <1>2, Said DEF LookAlive
  <2>4. L.src = sources[L.cam]
    BY <2>1 DEF SoleInv, Stopping
  <2>5. Processes'
    BY <2>2 DEF SoleInv, Processes
  <2>6. Starting' /\ Stopping'
    BY <2>1 DEF Starting, Stopping
  <2>7. Statuses'
    BY <2>2, <2>3, <2>4 DEF SoleInv, Statuses, Alive, Known
  <2>8. Reloading'
    BY <2>1 DEF SoleInv, Reloading, InTurn, Keeps
  <2>9. Found'
    BY <2>1, <2>2 DEF SoleInv, Found
  <2>. QED  BY <2>5, <2>6, <2>7, <2>8, <2>9 DEF SoleInv
<1>. QED  BY <1>1, <1>2

-----------------------------------------------------------------------------
(* The requests, and what the loop does between two cameras. *)

LEMMA SoleRequest ==
  ASSUME TypeOK, SoleInv, Request
  PROVE  SoleInv'
<1>. USE DEF PC, manager, processes, L
<1>0. L \in Thread /\ thread \in [Threads -> Thread] /\ Loop \in Threads
  BY DEF TypeOK, Threads
<1>1. UNCHANGED <<status, sources, proc, running>> /\ L.pc = "idle"
  BY DEF Request, RequestStart, RequestDetect, RequestStop, RequestReload, Shutdown
<1>2. ASSUME NEW pc, NEW c, Serves(pc, c)
      PROVE  L'.pc = pc /\ L'.cam = c /\ L'.then = "idle"
  <2>1. L' = [L EXCEPT !.pc = pc, !.cam = c, !.then = "idle"]
    BY <1>0, <1>2 DEF Serves
  <2>. QED  BY <1>0, <2>1 DEF Thread
<1>3. ASSUME NEW todo, NEW then, NEW new, StopsAll(todo, then, new)
      PROVE  L'.pc = "next" /\ L'.todo = todo /\ L'.then = then /\ L'.new = new
  <2>1. L' = [L EXCEPT !.pc = "next", !.todo = todo, !.then = then, !.new = new]
    BY <1>0, <1>3 DEF StopsAll
  <2>. QED  BY <1>0, <2>1 DEF Thread
<1>4. ASSUME NEW c \in Cams, RequestStart(c) \/ RequestDetect(c) \/ RequestStop(c)
      PROVE  Starting' /\ Stopping' /\ Reloading' /\ Found'
  <2>1. /\ L'.pc \in {"check", "look", "stop"} /\ L'.then = "idle" /\ L'.cam = c
        /\ L'.pc = "check" => status[c] # "running"
    BY <1>2, <1>4 DEF RequestStart, RequestDetect, RequestStop
  <2>2. Starting' /\ Stopping'
    BY <1>1, <2>1 DEF Starting, Stopping
  <2>3. Reloading'
    BY <2>1 DEF Reloading, InTurn
  <2>4. Found'
    BY <1>1, <2>1 DEF SoleInv, Found
  <2>. QED  BY <2>2, <2>3, <2>4
<1>5. ASSUME NEW todo, NEW then \in {"count", "down"}, NEW new, StopsAll(todo, then, new),
             \A c \in Cams : sources[c] # NoSource => c \in todo \/ (then = "count" /\ c \in new)
      PROVE  Starting' /\ Stopping' /\ Reloading' /\ Found'
  <2>1. L'.pc = "next" /\ L'.todo = todo /\ L'.then = then /\ L'.new = new
    BY <1>3, <1>5
  <2>2. Starting' /\ Stopping'
    BY <2>1 DEF Starting, Stopping
  <2>3. Reloading'
    BY <1>1, <1>5, <2>1 DEF Reloading, Remaining
  <2>4. Found'
    BY <1>1, <2>1 DEF SoleInv, Found
  <2>. QED  BY <2>2, <2>3, <2>4
<1>6. CASE RequestReload
  <2>1. \A c \in Cams : sources[c] # NoSource =>
          c \in {d \in Cams : Known(d)} \ config \/ c \in config
    BY DEF SoleInv, Statuses
  <2>2. Starting' /\ Stopping' /\ Reloading' /\ Found'
    BY <1>5, <1>6, <2>1 DEF RequestReload
  <2>. QED  BY <1>1, <2>2, OnlyTheThread DEF SoleInv
<1>7. CASE Shutdown
  <2>1. Starting' /\ Stopping' /\ Reloading' /\ Found'
    BY <1>5, <1>7 DEF Shutdown
  <2>. QED  BY <1>1, <2>1, OnlyTheThread DEF SoleInv
<1>. QED  BY <1>1, <1>4, <1>6, <1>7, OnlyTheThread DEF SoleInv, Request

LEMMA SoleTurn ==
  ASSUME TypeOK, SoleInv, NextToStop \/ GoOn \/ Count
  PROVE  SoleInv'
<1>. USE DEF PC, manager, processes, L
<1>0. L \in Thread /\ thread \in [Threads -> Thread] /\ Loop \in Threads
  BY DEF TypeOK, Threads
<1>1. UNCHANGED <<status, sources, proc, running>>
  BY DEF NextToStop, GoOn, Count
<1>2. CASE NextToStop /\ L.todo = {}
  <2>1. L'.pc = L.then /\ Keeps(L') /\ L.pc = "next"
    BY <1>2, LoopGoes DEF NextToStop
  <2>2. L'.pc \in {"idle", "count", "down"}
    BY <2>1 DEF SoleInv, Reloading
  <2>3. Starting' /\ Stopping'
    BY <2>2 DEF Starting, Stopping
  <2>4. Reloading'
    BY <1>1, <2>1, <2>2 DEF SoleInv, Reloading, InTurn, Remaining, Keeps
  <2>5. Found'
    BY <1>1, <2>1 DEF SoleInv, Found
  <2>. QED  BY <1>1, <2>3, <2>4, <2>5, OnlyTheThread DEF SoleInv
<1>3. CASE NextToStop /\ L.todo # {}
  <2>1. PICK c \in L.todo :
          thread' = [thread EXCEPT ![Loop].pc = "stop", ![Loop].cam = c,
                                   ![Loop].todo = @ \ {c}]
    BY <1>3 DEF NextToStop
  <2>2. L' = [L EXCEPT !.pc = "stop", !.cam = c, !.todo = @ \ {c}]
    BY <1>0, <2>1
  <2>3. /\ L'.pc = "stop" /\ L'.cam = c /\ L'.todo = L.todo \ {c}
        /\ L'.then = L.then /\ L'.new = L.new /\ L.pc = "next"
    BY <1>0, <1>3, <2>2 DEF Thread, NextToStop
  <2>4. Starting' /\ Stopping'
    BY <2>3 DEF Starting, Stopping
  <2>5. Reloading'
    BY <1>1, <2>3 DEF SoleInv, Reloading, InTurn, Remaining
  <2>6. Found'
    BY <1>1, <2>3 DEF SoleInv, Found
  <2>. QED  BY <1>1, <2>4, <2>5, <2>6, OnlyTheThread DEF SoleInv
<1>4. CASE GoOn
  <2>1. L'.pc = "next" /\ Keeps(L') /\ L.pc \in {"count", "down"}
    BY <1>4, LoopGoes DEF GoOn
  <2>2. Starting' /\ Stopping'
    BY <2>1 DEF Starting, Stopping
  <2>3. Reloading'
    BY <1>1, <2>1 DEF SoleInv, Reloading, InTurn, Remaining, Keeps
  <2>4. Found'
    BY <1>1, <2>1 DEF SoleInv, Found
  <2>. QED  BY <1>1, <2>2, <2>3, <2>4, OnlyTheThread DEF SoleInv
<1>5. CASE Count
  <2>1. L' = [L EXCEPT !.pc = "swap", !.kept = {c \in L.new : sources[c] # NoSource}]
    BY <1>0, <1>5 DEF Count
  <2>2. /\ L'.pc = "swap" /\ L'.kept = {c \in L.new : sources[c] # NoSource}
        /\ L'.then = L.then /\ L'.new = L.new /\ L.pc = "count" /\ L.todo = {}
    BY <1>0, <1>5, <2>1 DEF Thread, Count
  <2>3. Starting' /\ Stopping'
    BY <2>2 DEF Starting, Stopping
  <2>4. Reloading'
    BY <1>1, <2>2 DEF SoleInv, Reloading, InTurn, Remaining
  <2>5. Found'
    BY <1>1, <2>2 DEF SoleInv, Found
  <2>. QED  BY <1>1, <2>3, <2>4, <2>5, OnlyTheThread DEF SoleInv
<1>. QED  BY <1>2, <1>3, <1>4, <1>5

LEMMA SoleSwap ==
  ASSUME TypeOK, SoleInv, Swap
  PROVE  SoleInv'
<1>. USE DEF PC, Cam, processes, L
<1>0. L \in Thread /\ thread \in [Threads -> Thread] /\ Loop \in Threads
  BY DEF TypeOK, Threads
<1>1. L'.pc = "idle" /\ L'.then = "idle" /\ L.pc = "swap"
  BY <1>0 DEF Swap, Resting
<1>2. /\ UNCHANGED <<sources, proc, running>>
      /\ \A c \in Cams : status'[c] = IF c \in L.kept THEN "running"
                                      ELSE IF c \in L.new THEN "idle" ELSE "absent"
  BY DEF Swap
<1>3. \A c \in Cams : c \in L.kept <=> sources[c] # NoSource
  BY <1>1 DEF SoleInv, Reloading
<1>4. Processes'
  BY <1>2 DEF SoleInv, Processes
<1>5. Starting' /\ Stopping'
  BY <1>1 DEF Starting, Stopping
<1>6. Statuses'
  BY <1>2, <1>3, CameraAssumption DEF Statuses, Alive, Known, TypeOK
<1>7. Reloading'
  BY <1>1 DEF Reloading, InTurn
<1>8. Found'
  BY <1>1, <1>2 DEF SoleInv, Found
<1>. QED  BY <1>4, <1>5, <1>6, <1>7, <1>8 DEF SoleInv

LEMMA SoleEnvironment ==
  ASSUME TypeOK, SoleInv, EditConfig \/ (\E s \in Sources : Exits(s) \/ ReaderEnds(s))
  PROVE  SoleInv'
<1>. USE DEF manager, processes
<1>1. UNCHANGED <<status, sources, thread>>
  BY DEF EditConfig, Exits, ReaderEnds
<1>2. /\ \A s \in Sources : proc'[s] = proc[s] \/ (proc[s] = "up" /\ proc'[s] = "gone")
      /\ running' \subseteq running
      /\ \A s \in running : s \in running' \/ proc'[s] = "gone"
  BY DEF EditConfig, Exits, ReaderEnds, TypeOK
<1>3. Processes'
  BY <1>1, <1>2 DEF SoleInv, Processes, TypeOK
<1>4. Starting' /\ Stopping'
  <2>1. L.src \in Sources \cup {NoSource} /\ L' = L
    BY <1>1, InHand DEF L, Src, Threads
  <2>2. Starting'
    BY <1>1, <1>2, <2>1 DEF SoleInv, Starting, Known
  <2>3. Stopping'
    BY <1>1, <1>2, <2>1 DEF SoleInv, Stopping
  <2>. QED  BY <2>2, <2>3
<1>5. Statuses'
  BY <1>1, <1>2 DEF SoleInv, Statuses, Alive, Known
<1>6. Reloading'
  BY <1>1 DEF SoleInv, Reloading, InTurn, Remaining, L
<1>7. Found'
  BY <1>1, <1>2 DEF SoleInv, Found, L
<1>. QED  BY <1>3, <1>4, <1>5, <1>6, <1>7 DEF SoleInv

-----------------------------------------------------------------------------
(* The theorems. *)

LEMMA SoleInvariant ==
  ASSUME Viewers = {}
  PROVE  Spec => []SoleInv
<1>1. Init => SoleInv
  <2>. SUFFICES ASSUME Init PROVE SoleInv
    OBVIOUS
  <2>1. L.pc = "idle" /\ L.then = "idle"
    BY DEF Init, L, Threads, Resting
  <2>2. /\ \A c \in Cams : sources[c] = NoSource /\ status[c] # "running"
        /\ \A s \in Sources : proc[s] = "free"
        /\ running = {}
    BY DEF Init
  <2>3. Processes /\ Statuses /\ Found
    BY <2>2 DEF Processes, Statuses, Found, Alive
  <2>. QED  BY <2>1, <2>3 DEF SoleInv, Starting, Stopping, Reloading, InTurn
<1>2. TypeOK /\ SoleInv /\ [Next]_vars => SoleInv'
  <2>. SUFFICES ASSUME TypeOK, SoleInv, [Next]_vars PROVE SoleInv'
    OBVIOUS
  <2>1. CASE \E t \in Threads : Call(t)
    <3>1. Call(Loop)
      BY <2>1 DEF Threads
    <3>. QED  BY <3>1, SoleStart, SoleSpawn, SoleEnd, SoleStop, SoleLook DEF Call
  <2>2. CASE Request \/ NextToStop \/ GoOn \/ Count \/ Swap
    BY <2>2, SoleRequest, SoleTurn, SoleSwap
  <2>3. CASE EditConfig \/ (\E s \in Sources : Exits(s) \/ ReaderEnds(s))
    BY <2>3, SoleEnvironment
  <2>4. CASE UNCHANGED vars
    BY <2>4 DEF vars, SoleInv, Processes, Starting, Stopping, Statuses, Reloading, Found,
                Alive, Known, InTurn, Remaining, L
  <2>. QED  BY <2>1, <2>2, <2>3, <2>4 DEF Next
<1>. QED  BY <1>1, <1>2, CamerasTypeCorrect, PTL DEF Spec

\* No FFmpeg process is lost while the event loop alone calls the manager: one that
\* runs is in frame_sources, or the start_camera that spawned it is about to put it there.
THEOREM NoneIsLost ==
  ASSUME Viewers = {}
  PROVE  Spec => []NoOrphan
<1>1. TypeOK /\ SoleInv => NoOrphan
  <2>. SUFFICES ASSUME TypeOK, SoleInv, NEW s \in Sources, proc[s] = "up"
                PROVE  \E c \in Cams : s \in Of(c)
    BY DEF NoOrphan
  <2>1. CASE \E c \in Cams : s = sources[c]
    BY <2>1 DEF Of
  <2>2. CASE L.pc \in {"probe", "publish"} /\ s = L.src
    BY <2>2, InHand DEF Of, L, PC, Cam, Src, Threads
  <2>. QED  BY <2>1, <2>2 DEF SoleInv, Found
<1>. QED  BY <1>1, SoleInvariant, CamerasTypeCorrect, PTL

\* Between two requests the status the routes answer with is the truth.
THEOREM StatusesAreTrue ==
  ASSUME Viewers = {}
  PROVE  Spec => []StatusTrue
<1>1. SoleInv => StatusTrue
  BY DEF SoleInv, Statuses, StatusTrue
<1>. QED  BY <1>1, SoleInvariant, PTL

\* A shutdown that has gone through the cameras leaves no FFmpeg process.
THEOREM ShutdownIsComplete ==
  ASSUME Viewers = {}
  PROVE  Spec => []ShutdownStops
<1>1. TypeOK /\ SoleInv => ShutdownStops
  BY CameraAssumption
     DEF SoleInv, Found, Reloading, Remaining, InTurn, ShutdownStops, L, PC, TypeOK
<1>. QED  BY <1>1, SoleInvariant, CamerasTypeCorrect, PTL
-----------------------------------------------------------------------------
(* The loop's cameras implement Lease. *)

Spawning == L.pc \in {"probe", "publish"}

Owns(c, s) == proc[s] = "up" /\ (s = sources[c] \/ (Spawning /\ L.cam = c /\ L.src = s))

\* What a camera holds is the one process it owns.
HeldIs ==
  \A c \in Cams : /\ \A s \in Sources : Held(c) = s <=> Owns(c, s)
                 /\ Held(c) \in Sources \cup {NoSource}

\* A process that runs has one owner.
LEMMA OneOwner ==
  ASSUME TypeOK, SoleInv
  PROVE  /\ \A s \in Sources : proc[s] = "up" => \E c \in Cams : Owns(c, s)
         /\ \A c, d \in Cams, s \in Sources : Owns(c, s) /\ Owns(d, s) => c = d
         /\ \A c \in Cams, s, r \in Sources : Owns(c, s) /\ Owns(c, r) => s = r
<1>1. L.cam \in Cams
  BY InHand DEF L, Cam, Threads
<1>2. \A s \in Sources : proc[s] = "up" => \E c \in Cams : Owns(c, s)
  BY <1>1 DEF SoleInv, Found, Owns, Spawning
<1>3. ASSUME NEW c \in Cams, NEW d \in Cams, NEW s \in Sources, Owns(c, s), Owns(d, s)
      PROVE  c = d
  BY <1>3, CameraAssumption DEF SoleInv, Processes, Starting, Owns, Spawning
<1>4. ASSUME NEW c \in Cams, NEW s \in Sources, NEW r \in Sources, Owns(c, s), Owns(c, r)
      PROVE  s = r
  BY <1>4, CameraAssumption DEF SoleInv, Starting, Owns, Spawning
<1>. QED  BY <1>2, <1>3, <1>4

\* With the loop alone, the running sources of a camera are those it owns.
LEMMA OfOwned ==
  ASSUME Viewers = {}, NEW c \in Cams
  PROVE  \A s \in Sources : (s \in Of(c) /\ proc[s] = "up") <=> Owns(c, s)
BY DEF Of, Owns, Spawning, L, PC, Cam, Src, Threads

LEMMA HeldInvariant ==
  ASSUME Viewers = {}
  PROVE  Spec => []HeldIs
<1>1. TypeOK /\ SoleInv => HeldIs
  <2>. SUFFICES ASSUME TypeOK, SoleInv, NEW c \in Cams
                PROVE  /\ \A s \in Sources : Held(c) = s <=> Owns(c, s)
                       /\ Held(c) \in Sources \cup {NoSource}
    BY DEF HeldIs
  <2>1. Of(c) \subseteq Sources
    BY DEF Of
  <2>2. CASE \E s \in Of(c) : proc[s] = "up"
    <3>1. Held(c) \in Of(c) /\ proc[Held(c)] = "up"
      BY <2>2 DEF Held
    <3>2. Held(c) \in Sources /\ Owns(c, Held(c))
      BY <2>1, <3>1, OfOwned
    <3>. QED  BY <3>2, OneOwner
  <2>3. CASE ~\E s \in Of(c) : proc[s] = "up"
    <3>1. Held(c) = NoSource
      BY <2>3 DEF Held
    <3>2. \A s \in Sources : ~Owns(c, s)
      BY <2>3, OfOwned
    <3>. QED  BY <3>1, <3>2, CameraAssumption
  <2>. QED  BY <2>2, <2>3
<1>. QED  BY <1>1, SoleInvariant, CamerasTypeCorrect, PTL

\* A step after which everybody owns what it owned is no step of Lease.
LEMMA LeaseStays ==
  ASSUME HeldIs, HeldIs',
         \A s \in Sources : (proc'[s] = "up" <=> proc[s] = "up")
                           /\ (proc'[s] = "free" <=> proc[s] = "free"),
         \A c \in Cams, s \in Sources : Owns(c, s)' <=> Owns(c, s)
  PROVE  UNCHANGED LeaseOf!vars
<1>1. \A c \in Cams : Held(c)' = Held(c)
  BY CameraAssumption DEF HeldIs
<1>2. [c \in Cams |-> Held(c)]' = [c \in Cams |-> Held(c)]
  BY <1>1
<1>. QED  BY <1>2 DEF LeaseOf!vars

\* The end of a process is a step of Lease.
LEMMA LeaseEnds ==
  ASSUME TypeOK, SoleInv, HeldIs, HeldIs', NEW x \in Sources, proc[x] = "up",
         \A s \in Sources : proc'[s] = IF s = x THEN "gone" ELSE proc[s],
         \A c \in Cams, s \in Sources : Owns(c, s)' <=> Owns(c, s) /\ s # x
  PROVE  LeaseOf!Next
<1>1. PICK c \in Cams : Owns(c, x)
  BY OneOwner
<1>2. Held(c) = x /\ Held(c)' = NoSource
  BY <1>1, OneOwner DEF HeldIs
<1>3. \A d \in Cams : d # c => Held(d)' = Held(d)
  BY <1>1, OneOwner, CameraAssumption DEF HeldIs
<1>4. [d \in Cams |-> Held(d)]' = [[d \in Cams |-> Held(d)] EXCEPT ![c] = NoSource]
  BY <1>2, <1>3
<1>5. LeaseOf!Release(c)
  BY <1>2, <1>4 DEF LeaseOf!Release
<1>. QED  BY <1>5 DEF LeaseOf!Next
\* So is the start of one.
LEMMA LeaseBegins ==
  ASSUME TypeOK, SoleInv, HeldIs, HeldIs', NEW x \in Sources, NEW c \in Cams,
         proc[x] = "free", \A s \in Sources : ~Owns(c, s),
         \A s \in Sources : proc'[s] = IF s = x THEN "up" ELSE proc[s],
         \A d \in Cams, s \in Sources : Owns(d, s)' <=> Owns(d, s) \/ (d = c /\ s = x)
  PROVE  LeaseOf!Next
<1>1. Held(c) = NoSource /\ Held(c)' = x
  BY DEF HeldIs
<1>2. \A d \in Cams : d # c => Held(d)' = Held(d)
  BY CameraAssumption DEF HeldIs
<1>3. [d \in Cams |-> Held(d)]' = [[d \in Cams |-> Held(d)] EXCEPT ![c] = x]
  BY <1>1, <1>2
<1>4. LeaseOf!Acquire(c, x)
  BY <1>1, <1>3 DEF LeaseOf!Acquire
<1>. QED  BY <1>4 DEF LeaseOf!Next

\* A step away from where a call has a source of its own in hand.
LEMMA NotSpawning ==
  ASSUME HeldIs, HeldIs', ~Spawning, ~Spawning', UNCHANGED <<sources, proc>>
  PROVE  UNCHANGED LeaseOf!vars
BY LeaseStays DEF Owns

\* start_camera: the process it spawns is the camera's, until it is gone.
LEMMA StartLease ==
  ASSUME TypeOK, SoleInv, HeldIs, HeldIs',
         Check(Loop) \/ Spawn(Loop) \/ Probe(Loop) \/ Publish(Loop)
  PROVE  [LeaseOf!Next]_(LeaseOf!vars)
<1>. USE DEF PC, Cam, Src, manager, processes, L
<1>0. L.cam \in Cams /\ Loop \in Threads
  BY InHand DEF Threads
<1>1. CASE Check(Loop)
  <2>1. L'.pc = "mark" /\ L.pc = "check"
    BY <1>1, LoopGoes DEF Check
  <2>2. \A c \in Cams : sources'[c] = IF c = L.cam THEN NoSource ELSE sources[c]
    BY <1>1 DEF Check, TypeOK
  <2>3. \A s \in Sources : proc'[s] = IF s = sources[L.cam] THEN "gone" ELSE proc[s]
    BY <1>1, Gone DEF Check
  <2>4. sources[L.cam] # NoSource => proc[sources[L.cam]] = "gone"
    BY <1>0, <1>1 DEF Check, Alive, SoleInv, Processes, TypeOK
  <2>5. \A s \in Sources : proc'[s] = proc[s]
    BY <2>3, <2>4, CameraAssumption
  <2>6. \A c \in Cams, s \in Sources : Owns(c, s)' <=> Owns(c, s)
    BY <2>1, <2>2, <2>4, <2>5, CameraAssumption DEF Owns, Spawning
  <2>. QED  BY <2>5, <2>6, LeaseStays
<1>2. CASE Spawn(Loop)
  <2>1. PICK x \in Sources :
          /\ proc[x] = "free"
          /\ proc' = [proc EXCEPT ![x] = "up"]
          /\ thread' = [thread EXCEPT ![Loop].pc = "probe", ![Loop].src = x]
    BY <1>2 DEF Spawn
  <2>2. L'.pc = "probe" /\ L'.src = x /\ L'.cam = L.cam /\ L.pc = "spawn"
    <3>1. L'.pc = "probe" /\ L'.src = x /\ Keeps(L') /\ L.pc = "spawn"
      BY <1>2, <2>1, LoopGoesWith DEF Spawn
    <3>. QED  BY <3>1 DEF Keeps
  <2>3. sources' = sources /\ sources[L.cam] = NoSource
    BY <1>2, <2>2 DEF Spawn, SoleInv, Starting
  <2>4. \A s \in Sources : proc'[s] = IF s = x THEN "up" ELSE proc[s]
    BY <2>1 DEF TypeOK
  <2>5. \A c \in Cams : sources[c] # x
    BY <2>1, CameraAssumption DEF SoleInv, Processes, TypeOK
  <2>6. \A s \in Sources : ~Owns(L.cam, s)
    BY <2>2, <2>3, CameraAssumption DEF Owns, Spawning
  <2>7. \A d \in Cams, s \in Sources : Owns(d, s)' <=> Owns(d, s) \/ (d = L.cam /\ s = x)
    BY <2>1, <2>2, <2>3, <2>4, <2>5 DEF Owns, Spawning
  <2>. QED  BY <1>0, <2>1, <2>4, <2>6, <2>7, LeaseBegins
<1>3. CASE Probe(Loop)
  <2>1. /\ L'.pc = "publish" \/ (L'.pc = "fail" /\ proc[L.src] = "gone")
        /\ L'.src = L.src /\ L'.cam = L.cam /\ L.pc = "probe"
    <3>1. /\ L'.pc = "publish" \/ (L'.pc = "fail" /\ proc[L.src] = "gone")
          /\ L'.src = L.src /\ Keeps(L') /\ L.pc = "probe"
      BY <1>3, LoopGoes DEF Probe
    <3>. QED  BY <3>1 DEF Keeps
  <2>2. UNCHANGED <<sources, proc>>
    BY <1>3 DEF Probe
  <2>3. \A c \in Cams, s \in Sources : Owns(c, s)' <=> Owns(c, s)
    BY <2>1, <2>2 DEF Owns, Spawning
  <2>. QED  BY <2>2, <2>3, LeaseStays
<1>4. CASE Publish(Loop)
  <2>1. L'.pc = "finally" /\ L.pc = "publish" /\ sources[L.cam] = NoSource
    BY <1>4, LoopGoes DEF Publish, SoleInv, Starting
  <2>2. /\ proc' = proc
        /\ \A c \in Cams : sources'[c] = IF c = L.cam THEN L.src ELSE sources[c]
    BY <1>4 DEF Publish, TypeOK
  <2>3. \A c \in Cams, s \in Sources : Owns(c, s)' <=> Owns(c, s)
    BY <2>1, <2>2, CameraAssumption DEF Owns, Spawning
  <2>. QED  BY <2>2, <2>3, LeaseStays
<1>. QED  BY <1>1, <1>2, <1>3, <1>4

\* stop_camera: the process ends before the camera forgets it.
LEMMA StopLease ==
  ASSUME TypeOK, SoleInv, HeldIs, HeldIs', Kill(Loop) \/ Pop(Loop)
  PROVE  [LeaseOf!Next]_(LeaseOf!vars)
<1>. USE DEF PC, Cam, Src, manager, processes, L
<1>0. L.cam \in Cams /\ Loop \in Threads
  BY InHand DEF Threads
<1>1. CASE Kill(Loop)
  <2>1. L'.pc = "pop" /\ L.pc = "kill" /\ sources' = sources
    BY <1>1, LoopGoes DEF Kill
  <2>2. L.src = sources[L.cam] /\ L.src \in Sources /\ proc[L.src] # "free"
    BY <1>0, <2>1 DEF SoleInv, Stopping, Processes, TypeOK
  <2>3. \A s \in Sources : proc'[s] = IF s = L.src THEN "gone" ELSE proc[s]
    BY <1>1, Gone DEF Kill
  <2>4. \A c \in Cams, s \in Sources : Owns(c, s)' <=> Owns(c, s) /\ s # L.src
    BY <2>1, <2>3 DEF Owns, Spawning
  <2>5. CASE proc[L.src] = "up"
    BY <2>2, <2>3, <2>4, <2>5, LeaseEnds
  <2>6. CASE proc[L.src] # "up"
    <3>1. \A s \in Sources : proc'[s] = "up" <=> proc[s] = "up"
      BY <2>3, <2>6
    <3>2. \A s \in Sources : proc'[s] = "free" <=> proc[s] = "free"
      BY <2>2, <2>3
    <3>3. \A c \in Cams, s \in Sources : Owns(c, s)' <=> Owns(c, s)
      BY <2>4, <2>6 DEF Owns
    <3>. QED  BY <3>1, <3>2, <3>3, LeaseStays
  <2>. QED  BY <2>5, <2>6
<1>2. CASE Pop(Loop)
  <2>1. L'.pc = L.then /\ L.pc = "pop" /\ proc' = proc
    BY <1>2, LoopReturns DEF Pop
  <2>2. L.then \in {"idle", "count", "down"} /\ proc[sources[L.cam]] = "gone"
    BY <2>1 DEF SoleInv, Reloading, Stopping
  <2>3. \A c \in Cams : sources'[c] = IF c = L.cam THEN NoSource ELSE sources[c]
    BY <1>2 DEF Pop, TypeOK
  <2>4. \A c \in Cams, s \in Sources : Owns(c, s)' <=> Owns(c, s)
    BY <2>1, <2>2, <2>3, CameraAssumption DEF Owns, Spawning
  <2>. QED  BY <2>1, <2>4, LeaseStays
<1>. QED  BY <1>1, <1>2

\* The other steps of a call neither spawn nor end a process.
LEMMA OtherLease ==
  ASSUME TypeOK, SoleInv, HeldIs, HeldIs',
         \/ Refuse(Loop) \/ MarkRaises(Loop) \/ Mark(Loop) \/ SpawnFails(Loop)
         \/ Fail(Loop) \/ Finally(Loop) \/ NothingToStop(Loop) \/ Stop(Loop)
         \/ Look(Loop) \/ LookAgain(Loop) \/ LookAlive(Loop)
  PROVE  UNCHANGED LeaseOf!vars
<1>. USE DEF PC, manager, processes
<1>1. UNCHANGED <<sources, proc>> /\ ~Spawning
  BY DEF Refuse, MarkRaises, Mark, SpawnFails, Fail, Finally, NothingToStop, Stop,
         Look, LookAgain, LookAlive, Spawning, L
<1>2. L.then \in {"idle", "count", "down"}
  BY DEF SoleInv, Reloading
<1>3. \/ Started(Loop) \/ Looked(Loop) \/ Stopped(Loop)
      \/ \E pc \in {"fail", "spawn", "finally", "again"} : Goes(Loop, pc)
      \/ \E pc \in {"kill", "alive"}, s \in {sources[Cam(Loop)]} :
           thread' = [thread EXCEPT ![Loop].pc = pc, ![Loop].src = s]
  BY DEF Refuse, MarkRaises, Mark, SpawnFails, Fail, Finally, NothingToStop, Stop,
         Look, LookAgain, LookAlive
<1>4. L'.pc \notin {"probe", "publish"}
  BY <1>2, <1>3, LoopReturns, LoopGoes, LoopGoesWith
<1>. QED  BY <1>1, <1>4, NotSpawning DEF Spawning
\* What the loop does between two calls leaves the processes alone.
LEMMA LoopLease ==
  ASSUME TypeOK, SoleInv, HeldIs, HeldIs', Request \/ NextToStop \/ GoOn \/ Count \/ Swap
  PROVE  UNCHANGED LeaseOf!vars
<1>. USE DEF PC, manager, processes, L
<1>0. L \in Thread /\ thread \in [Threads -> Thread] /\ Loop \in Threads
  BY DEF TypeOK, Threads
<1>1. UNCHANGED <<sources, proc>> /\ ~Spawning
  BY DEF Request, RequestStart, RequestDetect, RequestStop, RequestReload, Shutdown,
         NextToStop, GoOn, Count, Swap, Spawning
<1>2. ASSUME NEW pc, NEW c, Serves(pc, c)
      PROVE  L'.pc = pc
  BY <1>0, <1>2 DEF Serves, Thread
<1>3. ASSUME NEW todo, NEW then, NEW new, StopsAll(todo, then, new)
      PROVE  L'.pc = "next"
  BY <1>0, <1>3 DEF StopsAll, Thread
<1>4. ASSUME Request PROVE ~Spawning'
  BY <1>2, <1>3, <1>4 DEF Spawning,
     Request, RequestStart, RequestDetect, RequestStop, RequestReload, Shutdown
<1>5. ASSUME NextToStop \/ GoOn PROVE ~Spawning'
  <2>1. CASE \E pc \in {"idle", "count", "down", "next"} : Goes(Loop, pc)
    BY <2>1, LoopGoes DEF Spawning
  <2>2. CASE \E c \in L.todo : thread' = [thread EXCEPT ![Loop].pc = "stop", ![Loop].cam = c,
                                                       ![Loop].todo = @ \ {c}]
    BY <1>0, <2>2 DEF Thread, Spawning
  <2>. QED  BY <1>5, <2>1, <2>2 DEF NextToStop, GoOn, SoleInv, Reloading
<1>6. ASSUME Count \/ Swap PROVE ~Spawning'
  BY <1>0, <1>6 DEF Count, Swap, Resting, Thread, Spawning
<1>. QED  BY <1>1, <1>4, <1>5, <1>6, NotSpawning
\* An FFmpeg process that exits gives itself back.
LEMMA EnvironmentLease ==
  ASSUME TypeOK, SoleInv, HeldIs, HeldIs',
         EditConfig \/ (\E s \in Sources : Exits(s) \/ ReaderEnds(s))
  PROVE  [LeaseOf!Next]_(LeaseOf!vars)
<1>. USE DEF manager, processes
<1>1. ASSUME NEW s \in Sources, Exits(s)
      PROVE  LeaseOf!Next
  <2>1. /\ UNCHANGED <<sources, thread>> /\ proc[s] = "up"
        /\ \A r \in Sources : proc'[r] = IF r = s THEN "gone" ELSE proc[r]
    BY <1>1 DEF Exits, TypeOK
  <2>2. \A c \in Cams, r \in Sources : Owns(c, r)' <=> Owns(c, r) /\ r # s
    BY <2>1 DEF Owns, Spawning, L
  <2>. QED  BY <2>1, <2>2, LeaseEnds
<1>2. CASE EditConfig \/ (\E s \in Sources : ReaderEnds(s))
  <2>1. UNCHANGED <<sources, proc, thread>>
    BY <1>2 DEF EditConfig, ReaderEnds
  <2>. QED  BY <2>1, LeaseStays DEF Owns, Spawning, L
<1>. QED  BY <1>1, <1>2

\* The cameras keep the promise of Lease while the event loop alone calls the manager: a
\* process is spawned for a camera that holds none, is held while it runs, and is not
\* forgotten before it is gone.
THEOREM LoopImplementsLease ==
  ASSUME Viewers = {}
  PROVE  Spec => KeepsLease
<1>1. Init => LeaseOf!Init
  <2>. SUFFICES ASSUME Init PROVE LeaseOf!Init
    OBVIOUS
  <2>1. \A s \in Sources : proc[s] = "free"
    BY DEF Init
  <2>2. \A c \in Cams : Held(c) = NoSource
    BY <2>1 DEF Held, Of
  <2>. QED  BY <2>1, <2>2 DEF LeaseOf!Init
<1>2. TypeOK /\ SoleInv /\ HeldIs /\ HeldIs' /\ [Next]_vars => [LeaseOf!Next]_(LeaseOf!vars)
  <2>. SUFFICES ASSUME TypeOK, SoleInv, HeldIs, HeldIs', [Next]_vars
                PROVE  [LeaseOf!Next]_(LeaseOf!vars)
    OBVIOUS
  <2>1. CASE \E t \in Threads : Call(t)
    <3>1. Call(Loop)
      BY <2>1 DEF Threads
    <3>. QED  BY <3>1, StartLease, StopLease, OtherLease DEF Call
  <2>2. CASE Request \/ NextToStop \/ GoOn \/ Count \/ Swap
    BY <2>2, LoopLease
  <2>3. CASE EditConfig \/ (\E s \in Sources : Exits(s) \/ ReaderEnds(s))
    BY <2>3, EnvironmentLease
  <2>4. CASE UNCHANGED vars
    BY <2>4, LeaseStays DEF vars, Owns, Spawning, L
  <2>. QED  BY <2>1, <2>2, <2>3, <2>4 DEF Next
<1>3. Spec => LeaseOf!Spec
  BY <1>1, <1>2, HeldInvariant, SoleInvariant, CamerasTypeCorrect, PTL DEF Spec, LeaseOf!Spec
<1>. QED  BY <1>3 DEF KeepsLease

\* "don't spawn duplicate FFmpeg processes" (camera_manager.py:154) holds of the event
\* loop by itself: it takes a viewer's thread to break it.
THEOREM LoopNeverDuplicates ==
  ASSUME Viewers = {}
  PROVE  Spec => []NoDuplicate
<1>1. TypeOK /\ SoleInv => NoDuplicate
  <2>. SUFFICES ASSUME TypeOK, SoleInv, NEW c \in Cams
                PROVE  Cardinality({s \in Of(c) : proc[s] = "up"}) <= 1
    BY DEF NoDuplicate
  <2>. DEFINE up == {s \in Of(c) : proc[s] = "up"}
  <2>1. \A s \in up : s \in Sources /\ Owns(c, s)
    BY OfOwned DEF Of
  <2>2. CASE up = {}
    BY <2>2, FS_EmptySet
  <2>3. CASE up # {}
    <3>1. PICK s \in up : TRUE
      BY <2>3
    <3>2. up = {s}
      BY <2>1, <3>1, OneOwner
    <3>3. Cardinality(up) = 1
      BY <3>2, FS_Singleton
    <3>. QED  BY <3>3
  <2>. QED  BY <2>2, <2>3
<1>. QED  BY <1>1, SoleInvariant, CamerasTypeCorrect, PTL
=============================================================================

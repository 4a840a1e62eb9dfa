---------------------------- MODULE CameraManager ----------------------------
(***************************************************************************)
(* The camera processes of the Python backend: services/camera_manager.py  *)
(* over core/frame_source.py.                                              *)
(*                                                                         *)
(* The routes are `async def` and call the manager without an await, so    *)
(* they are served one after the other by the event loop, the thread Loop. *)
(* A /detect-stream response is a plain generator that a worker thread     *)
(* runs: each of them, the Viewers, calls get_frame(auto_start=True) again *)
(* and again and so starts cameras beside the loop.  A step is one section *)
(* under _sources_lock, or what a thread does between two of them that     *)
(* others can see.                                                         *)
(***************************************************************************)
EXTENDS Naturals, FiniteSets

CONSTANTS
  Cams,        \* camera names
  Configs,     \* the sets of cameras go2rtc.yaml may list
  Sources,     \* FrameSource objects, each with the FFmpeg process it spawns
  NoSource,    \* Python's None
  Loop,        \* the event loop
  Viewers,     \* the threads of the /detect-stream responses
  Watched      \* the camera of a viewer

ASSUME CameraAssumption ==
  /\ Cams # {}
  /\ Configs \subseteq SUBSET Cams
  /\ NoSource \notin Sources
  /\ Loop \notin Viewers
  /\ Watched \in [Viewers -> Cams]

Threads == {Loop} \cup Viewers

VARIABLES
  config,      \* what go2rtc.yaml lists
  status,      \* cameras[c]["status"], "absent" for a c not in self.cameras
  sources,     \* frame_sources
  starting,    \* _starting_cameras
  proc,        \* the FFmpeg process of a source: not spawned, up, or gone
  running,     \* the sources whose _running is True
  thread       \* what each thread is at

vars == <<config, status, sources, starting, proc, running, thread>>
manager == <<config, status, sources, starting>>
processes == <<proc, running>>

StartPCs == {"check", "mark", "spawn", "probe", "publish", "fail", "finally"}
PCs == StartPCs \cup {"idle", "look", "again", "alive", "stop", "kill", "pop",
                      "next", "count", "swap", "down"}

\* cam and src: camera_name and source of the call; todo: the cameras a reload or a
\* shutdown still has to stop; new, kept: the cameras of the parsed file and those of
\* them that run; then: where stop_camera returns to, and a reload or shutdown ends.
Thread == [pc : PCs, cam : Cams, src : Sources \cup {NoSource}, todo : SUBSET Cams,
           new : SUBSET Cams, kept : SUBSET Cams, then : PCs]

TypeOK ==
  /\ config \in Configs
  /\ status \in [Cams -> {"absent", "idle", "starting", "running", "stopped"}]
  /\ sources \in [Cams -> Sources \cup {NoSource}]
  /\ starting \in SUBSET Cams
  /\ proc \in [Sources -> {"free", "up", "gone"}]
  /\ running \in SUBSET Sources
  /\ thread \in [Threads -> Thread]

Resting(pc, c) == [pc |-> pc, cam |-> c, src |-> NoSource, todo |-> {},
                   new |-> {}, kept |-> {}, then |-> "idle"]

Init ==
  /\ config \in Configs
  /\ status = [c \in Cams |-> IF c \in config THEN "idle" ELSE "absent"]
  /\ sources = [c \in Cams |-> NoSource]
  /\ starting = {}
  /\ proc = [s \in Sources |-> "free"]
  /\ running = {}
  /\ thread = [t \in Threads |->
                 IF t = Loop THEN Resting("idle", CHOOSE c \in Cams : TRUE)
                 ELSE Resting("look", Watched[t])]

PC(t) == thread[t].pc
Cam(t) == thread[t].cam
Src(t) == thread[t].src

Goes(t, pc) == thread' = [thread EXCEPT ![t].pc = pc]

\* A write to cameras[c]["status"] that a test `c in self.cameras` guards.
Says(c, s) == status' = [status EXCEPT ![c] = IF @ = "absent" THEN @ ELSE s]

\* FrameSource.stop: the process is terminated, or killed, and waited for.
Terminated(s) == proc' = [proc EXCEPT ![s] = "gone"] /\ running' = running \ {s}

-----------------------------------------------------------------------------
(* Mutated forms: what the properties below must notice. *)

\* start_camera without the finally of its try.
FailLeaves(t) ==
  /\ thread[t].pc = "fail"
  /\ Says(thread[t].cam, "stopped")
  /\ thread' = [thread EXCEPT ![t].pc = IF t = Loop THEN "idle" ELSE "again", ![t].src = NoSource]
  /\ UNCHANGED <<config, sources, starting, processes>>

\* stop_camera without source.stop().
StopOnlyPops(t) ==
  /\ thread[t].pc = "stop" /\ sources[thread[t].cam] # NoSource
  /\ thread' = [thread EXCEPT ![t].pc = "pop", ![t].src = sources[thread[t].cam]]
  /\ UNCHANGED <<manager, processes>>

\* FrameSource.stop without self.proc.terminate().
KillSpares(t) ==
  /\ thread[t].pc = "kill"
  /\ running' = running \ {thread[t].src}
  /\ Goes(t, "pop")
  /\ UNCHANGED <<manager, proc>>

\* reload_config without "preserve running status".
CountNone ==
  /\ thread[Loop].pc = "count" /\ thread[Loop].todo = {}
  /\ thread' = [thread EXCEPT ![Loop].pc = "swap"]
  /\ UNCHANGED <<manager, processes>>

\* reload_config that keeps no entry for the cameras the file does not list.
SwapShrinks ==
  /\ thread[Loop].pc = "swap"
  /\ status' = [c \in thread[Loop].new |-> "idle"]
  /\ Goes(Loop, "idle")
  /\ UNCHANGED <<config, sources, starting, processes>>

-----------------------------------------------------------------------------
(* start_camera. *)

\* It returns to get_frame, or answers the request.
Started(t) ==
  thread' = [thread EXCEPT ![t].pc = IF t = Loop THEN "idle" ELSE "again",
                           ![t].src = NoSource]

Known(c) == status[c] # "absent"
Alive(c) == sources[c] \in running

Refuse(t) ==
  /\ PC(t) = "check"
  /\ ~Known(Cam(t)) \/ Cam(t) \in starting \/ Alive(Cam(t))
  /\ Started(t)
  /\ UNCHANGED <<manager, processes>>

\* A stale source is stopped and forgotten.
Check(t) ==
  LET c == Cam(t) IN
  /\ PC(t) = "check"
  /\ Known(c) /\ c \notin starting /\ ~Alive(c)
  /\ IF sources[c] = NoSource THEN UNCHANGED processes ELSE Terminated(sources[c])
  /\ sources' = [sources EXCEPT ![c] = NoSource]
  /\ Goes(t, "mark")
  /\ UNCHANGED <<config, status, starting>>

\* self.cameras[camera_name] of a camera that a reload has removed: the KeyError ends
\* the call, or, inside the try, makes it fail.
MarkRaises(t) ==
  /\ PC(t) = "mark" /\ ~Known(Cam(t))
  /\ \/ Started(t) /\ UNCHANGED starting
     \/ Goes(t, "fail") /\ starting' = starting \cup {Cam(t)}
  /\ UNCHANGED <<config, status, sources, processes>>

Mark(t) ==
  /\ PC(t) = "mark" /\ Known(Cam(t))
  /\ starting' = starting \cup {Cam(t)}
  /\ Says(Cam(t), "starting")
  /\ Goes(t, "spawn")
  /\ UNCHANGED <<config, sources, processes>>

Spawn(t) ==
  /\ PC(t) = "spawn"
  /\ \E s \in Sources :
       /\ proc[s] = "free"
       /\ proc' = [proc EXCEPT ![s] = "up"]
       /\ running' = running \cup {s}
       /\ thread' = [thread EXCEPT ![t].pc = "probe", ![t].src = s]
  /\ UNCHANGED manager

\* FFmpeg is not there.
SpawnFails(t) ==
  /\ PC(t) = "spawn"
  /\ Goes(t, "fail")
  /\ UNCHANGED <<manager, processes>>

\* 0.2 s later: did the process exit at once?
Probe(t) ==
  /\ PC(t) = "probe"
  /\ IF proc[Src(t)] = "gone" THEN Goes(t, "fail") /\ running' = running \ {Src(t)}
     ELSE Goes(t, "publish") /\ UNCHANGED running
  /\ UNCHANGED <<manager, proc>>

Publish(t) ==
  /\ PC(t) = "publish"
  /\ sources' = [sources EXCEPT ![Cam(t)] = Src(t)]
  /\ Says(Cam(t), "running")
  /\ Goes(t, "finally")
  /\ UNCHANGED <<config, starting, processes>>

Fail(t) ==
  /\ PC(t) = "fail"
  /\ Says(Cam(t), "stopped")
  /\ Goes(t, "finally")
  /\ UNCHANGED <<config, sources, starting, processes>>

Finally(t) ==
  /\ PC(t) = "finally"
  /\ starting' = starting \ {Cam(t)}
  /\ Started(t)
  /\ UNCHANGED <<config, status, sources, processes>>

-----------------------------------------------------------------------------
(* stop_camera. *)

Stopped(t) ==
  thread' = [thread EXCEPT ![t].pc = thread[t].then, ![t].src = NoSource]

NothingToStop(t) ==
  /\ PC(t) = "stop" /\ sources[Cam(t)] = NoSource
  /\ Stopped(t)
  /\ UNCHANGED <<manager, processes>>

Stop(t) ==
  /\ PC(t) = "stop" /\ sources[Cam(t)] # NoSource
  /\ thread' = [thread EXCEPT ![t].pc = "kill", ![t].src = sources[Cam(t)]]
  /\ UNCHANGED <<manager, processes>>

Kill(t) ==
  /\ PC(t) = "kill"
  /\ Terminated(Src(t))
  /\ Goes(t, "pop")
  /\ UNCHANGED manager

Pop(t) ==
  /\ PC(t) = "pop"
  /\ sources' = [sources EXCEPT ![Cam(t)] = NoSource]
  /\ starting' = starting \ {Cam(t)}
  /\ Says(Cam(t), "stopped")
  /\ Stopped(t)
  /\ UNCHANGED <<config, processes>>

-----------------------------------------------------------------------------
(* get_frame. *)

\* Where a call of get_frame ends: a viewer calls it again.
Looked(t) ==
  thread' = [thread EXCEPT ![t].pc = IF t = Loop THEN "idle" ELSE "look", ![t].src = NoSource]

\* The first look; a viewer starts the camera that has no source.
Look(t) ==
  LET c == Cam(t) IN
  /\ PC(t) = "look"
  /\ IF sources[c] # NoSource THEN Goes(t, "again")
     ELSE IF t # Loop /\ Known(c) THEN Goes(t, "check") ELSE Looked(t)
  /\ UNCHANGED <<manager, processes>>

LookAgain(t) ==
  /\ PC(t) = "again"
  /\ IF sources[Cam(t)] = NoSource THEN Looked(t)
     ELSE thread' = [thread EXCEPT ![t].pc = "alive", ![t].src = sources[Cam(t)]]
  /\ UNCHANGED <<manager, processes>>

\* A dead source marks its camera, unless that raises a KeyError.
LookAlive(t) ==
  /\ PC(t) = "alive"
  /\ IF Src(t) \in running THEN UNCHANGED status ELSE Says(Cam(t), "stopped")
  /\ Looked(t)
  /\ UNCHANGED <<config, sources, starting, processes>>

-----------------------------------------------------------------------------
(* The requests the event loop serves. *)

Serves(pc, c) == thread' = [thread EXCEPT ![Loop].pc = pc, ![Loop].cam = c,
                                          ![Loop].then = "idle"]

\* /start, /stream, /detect-stream and, when there is no frame, /detect.
RequestStart(c) ==
  /\ PC(Loop) = "idle" /\ status[c] # "running"
  /\ Serves("check", c)
  /\ UNCHANGED <<manager, processes>>

\* /detect asks for a frame first.
RequestDetect(c) ==
  /\ PC(Loop) = "idle" /\ Known(c)
  /\ Serves("look", c)
  /\ UNCHANGED <<manager, processes>>

RequestStop(c) ==
  /\ PC(Loop) = "idle" /\ status[c] = "running"
  /\ Serves("stop", c)
  /\ UNCHANGED <<manager, processes>>

\* reload_config and stop_all_cameras stop cameras one by one, then go on.
StopsAll(todo, then, new) ==
  thread' = [thread EXCEPT ![Loop].pc = "next", ![Loop].todo = todo,
                           ![Loop].then = then, ![Loop].new = new]

RequestReload ==
  /\ PC(Loop) = "idle"
  /\ StopsAll({c \in Cams : Known(c)} \ config, "count", config)
  /\ UNCHANGED <<manager, processes>>

Shutdown ==
  /\ PC(Loop) = "idle"
  /\ StopsAll({c \in Cams : sources[c] # NoSource}, "down", {})
  /\ UNCHANGED <<manager, processes>>

NextToStop ==
  /\ PC(Loop) = "next"
  /\ IF thread[Loop].todo = {} THEN Goes(Loop, thread[Loop].then)
     ELSE \E c \in thread[Loop].todo :
            thread' = [thread EXCEPT ![Loop].pc = "stop", ![Loop].cam = c,
                                     ![Loop].todo = @ \ {c}]
  /\ UNCHANGED <<manager, processes>>

\* stop_camera has returned and there may be more to stop.
GoOn ==
  /\ PC(Loop) \in {"count", "down"} /\ thread[Loop].todo # {}
  /\ Goes(Loop, "next")
  /\ UNCHANGED <<manager, processes>>

Count ==
  /\ PC(Loop) = "count" /\ thread[Loop].todo = {}
  /\ thread' = [thread EXCEPT ![Loop].pc = "swap",
                  ![Loop].kept = {c \in thread[Loop].new : sources[c] # NoSource}]
  /\ UNCHANGED <<manager, processes>>

Swap ==
  /\ PC(Loop) = "swap"
  /\ status' = [c \in Cams |-> IF c \in thread[Loop].kept THEN "running"
                               ELSE IF c \in thread[Loop].new THEN "idle" ELSE "absent"]
  /\ thread' = [thread EXCEPT ![Loop] = Resting("idle", Cam(Loop))]
  /\ UNCHANGED <<config, sources, starting, processes>>

-----------------------------------------------------------------------------
(* What happens by itself. *)

EditConfig == config' \in Configs /\ UNCHANGED <<status, sources, starting, processes, thread>>

Exits(s) ==
  /\ proc[s] = "up"
  /\ proc' = [proc EXCEPT ![s] = "gone"]
  /\ UNCHANGED <<manager, running, thread>>

\* The reader thread reads the end of FFmpeg's output.
ReaderEnds(s) ==
  /\ proc[s] = "gone" /\ s \in running
  /\ running' = running \ {s}
  /\ UNCHANGED <<manager, proc, thread>>

Call(t) ==
  \/ Refuse(t) \/ Check(t) \/ MarkRaises(t) \/ Mark(t) \/ Spawn(t) \/ SpawnFails(t)
  \/ Probe(t) \/ Publish(t) \/ Fail(t) \/ Finally(t)
  \/ NothingToStop(t) \/ Stop(t) \/ Kill(t) \/ Pop(t)
  \/ Look(t) \/ LookAgain(t) \/ LookAlive(t)

Request ==
  \/ \E c \in Cams : RequestStart(c) \/ RequestDetect(c) \/ RequestStop(c)
  \/ RequestReload \/ Shutdown

Next ==
  \/ \E t \in Threads : Call(t)
  \/ Request \/ NextToStop \/ GoOn \/ Count \/ Swap
  \/ EditConfig \/ \E s \in Sources : Exits(s) \/ ReaderEnds(s)

Spec == Init /\ [][Next]_vars

\* A call that can go on goes on; requests and exits need not come.
FairSpec == Spec /\ \A t \in Threads : WF_vars(Call(t))

-----------------------------------------------------------------------------
(* Properties. *)

\* The sources of a camera: the one in frame_sources and those about to get there.
Of(c) == {s \in Sources : s = sources[c] \/ \E t \in Threads :
            PC(t) \in {"probe", "publish"} /\ Cam(t) = c /\ Src(t) = s}

\* Every FFmpeg process that runs is one the manager can find and stop.
NoOrphan == \A s \in Sources : proc[s] = "up" => \E c \in Cams : s \in Of(c)

\* Between two requests a camera is said to run if its source runs, so that /stop
\* does not answer "already_stopped", and only if it has a source to stop.
StatusTrue ==
  PC(Loop) = "idle" =>
    \A c \in Cams : /\ Alive(c) => status[c] = "running"
                    /\ status[c] = "running" => sources[c] # NoSource

\* "Stop all active camera frame sources" (camera_manager.py:284): the backend that
\* has shut down leaves no FFmpeg process.
ShutdownStops == PC(Loop) = "down" /\ thread[Loop].todo = {} => \A s \in Sources : proc[s] # "up"

\* The cameras as owners of FFmpeg processes; one that exits gives itself back.
Held(c) ==
  IF \E s \in Of(c) : proc[s] = "up" THEN CHOOSE s \in Of(c) : proc[s] = "up" ELSE NoSource

LeaseOf == INSTANCE Lease WITH
  Holders <- Cams, Leases <- Sources, None <- NoSource, held <- [c \in Cams |-> Held(c)],
  open <- {s \in Sources : proc[s] = "up"}, used <- {s \in Sources : proc[s] # "free"}

KeepsLease == LeaseOf!Spec

\* A camera is marked as starting only while somebody starts it, whatever fails: a
\* mark that stayed would make every later start return at once.
NoLeftovers ==
  \A c \in starting : \E t \in Threads : Cam(t) = c /\ PC(t) \in StartPCs

\* And nobody starts it for ever.
StartsEnd == \A c \in Cams : c \in starting ~> c \notin starting

\* "If already running, don't spawn duplicate FFmpeg processes" (camera_manager.py:154).
NoDuplicate ==
  \A c \in Cams : Cardinality({s \in Of(c) : proc[s] = "up"}) <= 1
=============================================================================

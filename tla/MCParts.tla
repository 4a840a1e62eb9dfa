------------------------------ MODULE MCParts ------------------------------
(***************************************************************************)
(* The small parts of go2rtc, each by itself: they share no state, so a    *)
(* behaviour is one of a single part (focus), chosen at its beginning, and *)
(* the others stay as they are initially.  No fair action of a part is     *)
(* enabled initially, so the fairness of the others asks for nothing.      *)
(***************************************************************************)
EXTENDS Waiter, Socket, Exec, Hls, TLC

CONSTANTS Parts, g1, g2, n1, m1, r1

VARIABLE focus

partVars == <<focus, waiterVars, socketAll, execVars, hlsVars>>

PartsInit ==
  focus \in Parts /\ WaiterInit /\ SocketInit /\ ExecInit /\ HlsInit

Only(part) == focus = part /\ UNCHANGED focus

\* Of an HLS behaviour the focus is the one session it has.
OneSession == focus \in Sessions /\ \A s \in Sessions \ {focus} : alive'[s] = "unset"

PartsNext ==
  \/ Only("waiter") /\ WaiterNext /\ UNCHANGED <<socketAll, execVars, hlsVars>>
  \/ Only("buffer") /\ BufferNext /\ UNCHANGED <<waiterVars, socketVars, execVars, hlsVars>>
  \/ Only("socket") /\ SocketNext /\ UNCHANGED <<waiterVars, execVars, hlsVars>>
  \/ Only("exec") /\ ExecNext /\ UNCHANGED <<waiterVars, socketAll, hlsVars>>
  \/ HlsNext /\ OneSession /\ UNCHANGED <<focus, waiterVars, socketAll, execVars>>

PartsSpec ==
  /\ PartsInit /\ [][PartsNext]_partVars
  /\ WaiterFairness /\ SocketFairness /\ ExecFairness /\ HlsFairness
=============================================================================

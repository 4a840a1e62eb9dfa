-------------------------------- MODULE Exec --------------------------------
(***************************************************************************)
(* Sources that are programs: internal/exec/exec.go, with pkg/shell's      *)
(* Command and the end of tcpHandler (internal/rtsp/rtsp.go).              *)
(*                                                                         *)
(* A call of execHandle starts a child.  A child of the pipe flow is read  *)
(* from its output.  A child of the RTSP flow connects back to go2rtc's    *)
(* own RTSP server at a path made of the hash of the source's url; the     *)
(* call puts a channel under that path in the map waiters, and sleeps      *)
(* until the server hands it a connection, the child ends, or 30 seconds   *)
(* are over.  The goroutine of the server looks the channel up and sends   *)
(* into it in two steps.                                                   *)
(*                                                                         *)
(* A call, its child and the child's connection have one name.  A name is  *)
(* used again when nothing of the earlier call is left.                    *)
(***************************************************************************)
EXTENDS Naturals, FiniteSets

CONSTANTS
  ExecCalls,   \* calls of execHandle, with their children
  Paths,       \* hashes of urls; two streams may have the same url
  Pipe,        \* no path: the pipe flow
  NoCall       \* nil

ASSUME ExecAssumption == Pipe \notin Paths /\ NoCall \notin ExecCalls

VARIABLES
  xpc,         \* where a call is
  xpath,       \* its path
  waiters,     \* for each path the call whose channel waits there
  mailbox,     \* the channel of each call: one connection, or nil
  child,       \* the process
  link,        \* the child's connection
  target,      \* the channel the server has looked up for a connection
  got          \* the connection a call returned and its producer holds

execVars == <<xpc, xpath, waiters, mailbox, child, link, target, got>>

\* undo: the deferred delete; fail: cmd.Close() of execHandle.
ExecPCs == {"out", "register", "start", "open", "select", "undo", "fail"}

\* killed: its context is cancelled. accepted: the RTSP server has read RECORD; found:
\* it has the channel; queued: in the channel; held: some call returned it.
ChildStates == {"none", "runs", "killed", "gone"}
LinkStates == {"none", "accepted", "found", "queued", "held", "closed"}

ExecTypeOK ==
  /\ xpc \in [ExecCalls -> ExecPCs]
  /\ xpath \in [ExecCalls -> Paths \cup {Pipe}]
  /\ waiters \in [Paths -> ExecCalls \cup {NoCall}]
  /\ mailbox \in [ExecCalls -> ExecCalls \cup {NoCall}]
  /\ child \in [ExecCalls -> ChildStates]
  /\ link \in [ExecCalls -> LinkStates]
  /\ target \in [ExecCalls -> ExecCalls \cup {NoCall}]
  /\ got \in [ExecCalls -> ExecCalls \cup {NoCall}]

ExecInit ==
  /\ xpc = [k \in ExecCalls |-> "out"]
  /\ xpath = [k \in ExecCalls |-> Pipe]
  /\ waiters = [p \in Paths |-> NoCall]
  /\ mailbox = [k \in ExecCalls |-> NoCall]
  /\ child = [k \in ExecCalls |-> "none"]
  /\ link = [k \in ExecCalls |-> "none"]
  /\ target = [k \in ExecCalls |-> NoCall]
  /\ got = [k \in ExecCalls |-> NoCall]

ExecGoes(k, pc) == xpc' = [xpc EXCEPT ![k] = pc]

\* cmd.Close() cancels the context, which kills the child.
Killed(k) == [child EXCEPT ![k] = IF @ = "runs" THEN "killed" ELSE @]

\* Nothing of the call named k is left: its name may stand for a new one.
Forgotten(k) ==
  /\ xpc[k] = "out" /\ got[k] = NoCall /\ mailbox[k] = NoCall
  /\ child[k] \in {"none", "gone"}
  /\ link[k] \in {"none", "closed"}
  /\ \A j \in ExecCalls : target[j] # k /\ mailbox[j] # k

-----------------------------------------------------------------------------
(* Mutated forms: what the properties below must notice. *)

\* A timeout that leaves the child alone.
TimeoutSpares(k) ==
  /\ xpc[k] = "undo"
  /\ waiters' = [waiters EXCEPT ![xpath[k]] = NoCall]
  /\ ExecGoes(k, "out")
  /\ UNCHANGED <<xpath, mailbox, child, link, target, got>>

\* The server hands a connection to any call that waits.
LooksAnywhere(k) ==
  /\ link[k] = "accepted"
  /\ \E p \in Paths :
       /\ waiters[p] # NoCall
       /\ target' = [target EXCEPT ![k] = waiters[p]]
       /\ link' = [link EXCEPT ![k] = "found"]
  /\ UNCHANGED <<xpc, xpath, waiters, mailbox, child, got>>

\* A select without the timer.
NoTimer(k) ==
  /\ xpc[k] = "select" /\ child[k] = "gone"
  /\ ExecGoes(k, "undo")
  /\ UNCHANGED <<xpath, waiters, mailbox, child, link, target, got>>

\* A server that looks again after it has handed a connection over.
SendsAgain(k) ==
  /\ link[k] = "found"
  /\ IF mailbox[target[k]] = NoCall
     THEN mailbox' = [mailbox EXCEPT ![target[k]] = k] /\ link' = [link EXCEPT ![k] = "accepted"]
     ELSE UNCHANGED mailbox /\ link' = [link EXCEPT ![k] = "closed"]
  /\ target' = [target EXCEPT ![k] = NoCall]
  /\ UNCHANGED <<xpc, xpath, waiters, child, got>>

-----------------------------------------------------------------------------
(* execHandle, handlePipe and handleRTSP. *)

Called(k, p) ==
  /\ Forgotten(k)
  /\ xpath' = [xpath EXCEPT ![k] = p]
  /\ ExecGoes(k, IF p = Pipe THEN "start" ELSE "register")
  /\ child' = [child EXCEPT ![k] = "none"]
  /\ link' = [link EXCEPT ![k] = "none"]
  /\ UNCHANGED <<waiters, mailbox, target, got>>

\* The channel is new; one that is under the path already is lost from the map.
Registers(k) ==
  /\ xpc[k] = "register"
  /\ waiters' = [waiters EXCEPT ![xpath[k]] = k]
  /\ ExecGoes(k, "start")
  /\ UNCHANGED <<xpath, mailbox, child, link, target, got>>

Starts(k) ==
  /\ xpc[k] = "start"
  /\ child' = [child EXCEPT ![k] = "runs"]
  /\ ExecGoes(k, IF xpath[k] = Pipe THEN "open" ELSE "select")
  /\ UNCHANGED <<xpath, waiters, mailbox, link, target, got>>

StartFails(k) ==
  /\ xpc[k] = "start"
  /\ ExecGoes(k, IF xpath[k] = Pipe THEN "fail" ELSE "undo")
  /\ UNCHANGED <<xpath, waiters, mailbox, child, link, target, got>>

\* magic.Open finds a format in what the child writes, or does not.
PipeOpens(k) ==
  /\ xpc[k] = "open"
  /\ got' = [got EXCEPT ![k] = k]
  /\ link' = [link EXCEPT ![k] = "held"]
  /\ ExecGoes(k, "out")
  /\ UNCHANGED <<xpath, waiters, mailbox, child, target>>

PipeFails(k) ==
  /\ xpc[k] = "open"
  /\ ExecGoes(k, "fail")
  /\ UNCHANGED <<xpath, waiters, mailbox, child, link, target, got>>

\* The select of handleRTSP: the timeout may always come; when several cases are ready
\* any one is taken.
TimesOut(k) ==
  /\ xpc[k] = "select"
  /\ ExecGoes(k, "undo")
  /\ UNCHANGED <<xpath, waiters, mailbox, child, link, target, got>>

ChildIsDone(k) ==
  /\ xpc[k] = "select" /\ child[k] = "gone"
  /\ ExecGoes(k, "undo")
  /\ UNCHANGED <<xpath, waiters, mailbox, child, link, target, got>>

\* The connection's OnClose is the Close of this call's own command.
Receives(k) ==
  /\ xpc[k] = "select" /\ mailbox[k] # NoCall
  /\ got' = [got EXCEPT ![k] = mailbox[k]]
  /\ link' = [link EXCEPT ![mailbox[k]] = "held"]
  /\ mailbox' = [mailbox EXCEPT ![k] = NoCall]
  /\ ExecGoes(k, "undo")
  /\ UNCHANGED <<xpath, waiters, child, target>>

\* delete(waiters, path), whoever's channel is there by now.
Unregisters(k) ==
  /\ xpc[k] = "undo"
  /\ waiters' = [waiters EXCEPT ![xpath[k]] = NoCall]
  /\ ExecGoes(k, IF got[k] = NoCall THEN "fail" ELSE "out")
  /\ UNCHANGED <<xpath, mailbox, child, link, target, got>>

Fails(k) ==
  /\ xpc[k] = "fail"
  /\ child' = Killed(k)
  /\ ExecGoes(k, "out")
  /\ UNCHANGED <<xpath, waiters, mailbox, link, target, got>>

-----------------------------------------------------------------------------
(* The children, their connections, and the producer that stops. *)

ChildEnds(k) ==
  /\ child[k] \in {"runs", "killed"}
  /\ child' = [child EXCEPT ![k] = "gone"]
  /\ UNCHANGED <<xpc, xpath, waiters, mailbox, link, target, got>>

Connects(k) ==
  /\ child[k] = "runs" /\ xpath[k] # Pipe /\ link[k] = "none"
  /\ link' = [link EXCEPT ![k] = "accepted"]
  /\ UNCHANGED <<xpc, xpath, waiters, mailbox, child, target, got>>

\* waiters[conn.URL.Path]; without one tcpHandler closes the connection.
Looks(k) ==
  /\ link[k] = "accepted"
  /\ LET w == waiters[xpath[k]] IN
     /\ target' = [target EXCEPT ![k] = w]
     /\ link' = [link EXCEPT ![k] = IF w = NoCall THEN "closed" ELSE "found"]
  /\ UNCHANGED <<xpc, xpath, waiters, mailbox, child, got>>

\* The send does not block: a second connection for one channel is closed.
Sends(k) ==
  /\ link[k] = "found"
  /\ IF mailbox[target[k]] = NoCall
     THEN mailbox' = [mailbox EXCEPT ![target[k]] = k] /\ link' = [link EXCEPT ![k] = "queued"]
     ELSE UNCHANGED mailbox /\ link' = [link EXCEPT ![k] = "closed"]
  /\ target' = [target EXCEPT ![k] = NoCall]
  /\ UNCHANGED <<xpc, xpath, waiters, child, got>>

\* Producer.stop: the connection is closed, and OnClose ends this call's child.
StopsProducer(k) ==
  /\ xpc[k] = "out" /\ got[k] # NoCall
  /\ link' = [link EXCEPT ![got[k]] = "closed"]
  /\ got' = [got EXCEPT ![k] = NoCall]
  /\ child' = Killed(k)
  /\ UNCHANGED <<xpc, xpath, waiters, mailbox, target>>

\* A channel nobody reads any more is collected, with the connection in it, whose
\* child is gone.
Collected(k) ==
  /\ xpc[k] = "out" /\ mailbox[k] # NoCall /\ child[mailbox[k]] = "gone"
  /\ \A j \in ExecCalls : target[j] # k
  /\ link' = [link EXCEPT ![mailbox[k]] = "closed"]
  /\ mailbox' = [mailbox EXCEPT ![k] = NoCall]
  /\ UNCHANGED <<xpc, xpath, waiters, child, target, got>>

-----------------------------------------------------------------------------

InExec(k) ==
  \/ Registers(k) \/ Starts(k) \/ StartFails(k) \/ PipeOpens(k) \/ PipeFails(k)
  \/ TimesOut(k) \/ ChildIsDone(k) \/ Receives(k) \/ Unregisters(k) \/ Fails(k)

OfChild(k) == ChildEnds(k) \/ Connects(k) \/ Looks(k) \/ Sends(k)

ExecNext ==
  \E k \in ExecCalls :
    \/ \E p \in Paths \cup {Pipe} : Called(k, p)
    \/ InExec(k) \/ OfChild(k) \/ StopsProducer(k) \/ Collected(k)

ExecSpec == ExecInit /\ [][ExecNext]_execVars

\* A call that is inside goes on (the timer fires), and a killed child dies.  A child
\* need not connect, nor end by itself, and no producer need stop.
ExecFairness ==
  \A k \in ExecCalls : /\ WF_execVars(InExec(k))
                       /\ WF_execVars(child[k] = "killed" /\ ChildEnds(k))

-----------------------------------------------------------------------------
(* Properties. *)

\* `if err != nil { _ = cmd.Close() }` (exec.go:116) and prod.OnClose: no child runs on
\* for nobody. Whatever came first of timeout, exit and connection, a child that still
\* runs belongs to a call that is under way, or to one whose producer holds a connection.
NoStrayChild ==
  \A k \in ExecCalls : child[k] = "runs" => xpc[k] # "out" \/ got[k] # NoCall

\* A source gets the connection of its own child, or, when another source has the same
\* url, of a child of that url: never one of another source.
OwnUrl ==
  \A k \in ExecCalls : got[k] \notin {NoCall, k} => xpath[got[k]] = xpath[k] /\ xpath[k] # Pipe

\* One connection has one holder, also when two calls wait at one path.
HeldByOne ==
  \A j, k \in ExecCalls : got[j] # NoCall /\ got[j] = got[k] => j = k

\* A call ends with a producer or with its child's end.
CallsSettle ==
  \A k \in ExecCalls : xpc[k] = "select" ~> got[k] # NoCall \/ child[k] = "gone"
=============================================================================

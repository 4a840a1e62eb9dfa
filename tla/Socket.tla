------------------------------- MODULE Socket -------------------------------
(***************************************************************************)
(* One websocket of the API and the viewers it brings: apiWS and Transport *)
(* of internal/api/ws/ws.go, with the handlers of internal/mp4/ws.go and   *)
(* internal/mjpeg/init.go, over the write buffers of the viewers.          *)
(*                                                                         *)
(* Four kinds of goroutines meet: the read loop, the ping loop, one        *)
(* handler per message, and one WriteTo per viewer.  The read loop and the *)
(* ping loop both call Transport.Close, which runs every callback of       *)
(* OnClose while it holds t.mx; the first callback closes the channel that *)
(* ends the ping loop.                                                     *)
(***************************************************************************)
EXTENDS WriteBuffer, Sequences, Functions

CONSTANTS
  Messages,    \* the viewers asked for over this websocket
  ReadLoop, PingLoop,
  NoCloser,    \* t.mx is free
  StopPing     \* the callback that closes the channel stop

ASSUME SocketAssumption ==
  /\ Messages \subseteq Buffers \ Closable
  /\ ReadLoop # PingLoop /\ {ReadLoop, PingLoop} \cap Messages = {}
  /\ NoCloser \notin {ReadLoop, PingLoop} \cup Messages
  /\ StopPing \notin Buffers

Closers == {ReadLoop, PingLoop}

VARIABLES
  sockOpen,    \* the websocket
  closed,      \* t.closed
  tmx,         \* who holds t.mx across a step
  onClose,     \* t.onClose
  stopped,     \* the channel stop is closed
  loop,        \* where each closer is
  at,          \* the callback a closer is running
  viewer,      \* the handler of each message, which has one viewer
  attached,    \* the viewers among the stream's consumers
  removals     \* calls of RemoveConsumer per viewer

socketVars == <<sockOpen, closed, tmx, onClose, stopped, loop, at, viewer, attached, removals>>
socketAll == <<bufferVars, socketVars>>

\* runs: reads, or pings; close: on its way to Transport.Close; calls: runs the
\* callbacks; inside: between the two halves of a viewer's Stop.
LoopPCs == {"runs", "close", "calls", "inside", "ended", "panic"}

\* idle: no message yet; add: AddConsumer; open: go WriteTo; register: OnClose;
\* direct: OnClose found the transport closed and runs the callback itself.
ViewerPCs == {"idle", "add", "open", "register", "direct", "done"}

TransportType ==
  /\ sockOpen \in BOOLEAN /\ closed \in BOOLEAN /\ stopped \in BOOLEAN
  /\ tmx \in Closers \cup Messages \cup {NoCloser}
  /\ onClose \in Seq(Messages \cup {StopPing})
  /\ loop \in [Closers -> LoopPCs]
  /\ at \in [Closers -> Nat]
  /\ viewer \in [Messages -> ViewerPCs]
  /\ attached \in SUBSET Messages
  /\ removals \in [Messages -> Nat]

SocketTypeOK == BufferTypeOK /\ TransportType

\* apiWS has registered the callback that ends the ping loop.
SocketInit ==
  /\ BufferInit
  /\ sockOpen = TRUE /\ closed = FALSE /\ stopped = FALSE
  /\ tmx = NoCloser
  /\ onClose = <<StopPing>>
  /\ loop = [c \in Closers |-> "runs"]
  /\ at = [c \in Closers |-> 1]
  /\ viewer = [m \in Messages |-> "idle"]
  /\ attached = {}
  /\ removals = [m \in Messages |-> 0]

LoopGoes(c, pc) == loop' = [loop EXCEPT ![c] = pc]
ViewerGoes(m, pc) == viewer' = [viewer EXCEPT ![m] = pc]

-----------------------------------------------------------------------------
(* Mutated forms: what the properties below must notice. *)

\* OnClose that only remembers the callback, also when the transport is closed.
RegisterLate(m) ==
  /\ viewer[m] = "register" /\ tmx = NoCloser
  /\ onClose' = Append(onClose, m)
  /\ ViewerGoes(m, "done")
  /\ UNCHANGED <<bufferVars, sockOpen, closed, tmx, stopped, loop, at, attached, removals>>

\* Close that runs the callbacks from the last to the first: the viewers' before the
\* one that closes the channel.
CallbackBackwards(c) == onClose[Len(onClose) + 1 - at[c]]

-----------------------------------------------------------------------------
(* The read loop and the handlers. *)

\* A message starts a handler in a goroutine of its own.
Message(m) ==
  /\ loop[ReadLoop] = "runs" /\ viewer[m] = "idle"
  /\ ViewerGoes(m, "add")
  /\ UNCHANGED <<bufferVars, sockOpen, closed, tmx, onClose, stopped, loop, at, attached, removals>>

\* The peer leaves, or a read finds the websocket closed.
ReadFails ==
  /\ loop[ReadLoop] = "runs"
  /\ sockOpen' = FALSE
  /\ LoopGoes(ReadLoop, "close")
  /\ UNCHANGED <<bufferVars, closed, tmx, onClose, stopped, at, viewer, attached, removals>>

HandlerAdds(m) ==
  /\ viewer[m] = "add"
  /\ attached' = attached \cup {m}
  /\ ViewerGoes(m, "open")
  /\ UNCHANGED <<bufferVars, sockOpen, closed, tmx, onClose, stopped, loop, at, removals>>

HandlerFails(m) ==
  /\ viewer[m] = "add"
  /\ ViewerGoes(m, "done")
  /\ UNCHANGED <<bufferVars, sockOpen, closed, tmx, onClose, stopped, loop, at, attached, removals>>

\* go cons.WriteTo(tr.Writer()): from here on the goroutine may run.
HandlerOpens(m) ==
  /\ viewer[m] = "open"
  /\ ViewerGoes(m, "register")
  /\ UNCHANGED <<bufferVars, sockOpen, closed, tmx, onClose, stopped, loop, at, attached, removals>>

\* tr.OnClose: remembered, or run at once (with t.mx) when the transport is closed.
Register(m) ==
  /\ viewer[m] = "register" /\ tmx = NoCloser
  /\ IF closed
     THEN tmx' = m /\ ViewerGoes(m, "direct") /\ UNCHANGED onClose
     ELSE onClose' = Append(onClose, m) /\ ViewerGoes(m, "done") /\ UNCHANGED tmx
  /\ UNCHANGED <<bufferVars, sockOpen, closed, stopped, loop, at, attached, removals>>

\* RemoveConsumer: cons.Stop() closes the senders, ...
StopSenders(m) == IF feed[m] = "on" THEN CloseSenders(m) ELSE UNCHANGED bufferVars

\* ... then the buffer, and the viewer leaves the stream.
Removes(m) ==
  /\ Close(m)
  /\ attached' = attached \ {m}
  /\ removals' = [removals EXCEPT ![m] = @ + 1]

DirectStops(m) ==
  /\ viewer[m] = "direct" /\ feed[m] = "on"
  /\ StopSenders(m)
  /\ UNCHANGED socketVars

DirectRemoves(m) ==
  /\ viewer[m] = "direct" /\ feed[m] # "on"
  /\ Removes(m)
  /\ tmx' = NoCloser
  /\ ViewerGoes(m, "done")
  /\ UNCHANGED <<sockOpen, closed, onClose, stopped, loop, at>>

-----------------------------------------------------------------------------
(* The ping loop, and Transport.Close. *)

PingEnds ==
  /\ loop[PingLoop] = "runs" /\ stopped
  /\ LoopGoes(PingLoop, "ended")
  /\ UNCHANGED <<bufferVars, sockOpen, closed, tmx, onClose, stopped, at, viewer, attached, removals>>

\* The ticker and stop may both be ready, and then either case is taken.
PingFails ==
  /\ loop[PingLoop] = "runs"
  /\ sockOpen' = FALSE
  /\ LoopGoes(PingLoop, "close")
  /\ UNCHANGED <<bufferVars, closed, tmx, onClose, stopped, at, viewer, attached, removals>>

CloseLocks(c) ==
  /\ loop[c] = "close" /\ tmx = NoCloser
  /\ tmx' = c
  /\ LoopGoes(c, "calls")
  /\ at' = [at EXCEPT ![c] = 1]
  /\ UNCHANGED <<bufferVars, sockOpen, closed, onClose, stopped, viewer, attached, removals>>

Callback(c) == onClose[at[c]]

Calling(c) == loop[c] = "calls" /\ at[c] <= Len(onClose)

\* close(stop): closing it again panics, with t.mx held.
CallStop(c) ==
  /\ Calling(c) /\ Callback(c) = StopPing
  /\ IF stopped THEN LoopGoes(c, "panic") /\ UNCHANGED <<stopped, at>>
     ELSE stopped' = TRUE /\ at' = [at EXCEPT ![c] = @ + 1] /\ UNCHANGED loop
  /\ UNCHANGED <<bufferVars, sockOpen, closed, tmx, onClose, viewer, attached, removals>>

CallViewer(c) ==
  /\ Calling(c) /\ Callback(c) # StopPing
  /\ StopSenders(Callback(c))
  /\ LoopGoes(c, "inside")
  /\ UNCHANGED <<sockOpen, closed, tmx, onClose, stopped, at, viewer, attached, removals>>

CallRemoves(c) ==
  /\ loop[c] = "inside"
  /\ Removes(Callback(c))
  /\ LoopGoes(c, "calls")
  /\ at' = [at EXCEPT ![c] = @ + 1]
  /\ UNCHANGED <<sockOpen, closed, tmx, onClose, stopped, viewer>>

CloseUnlocks(c) ==
  /\ loop[c] = "calls" /\ at[c] > Len(onClose)
  /\ closed' = TRUE
  /\ tmx' = NoCloser
  /\ LoopGoes(c, "ended")
  /\ UNCHANGED <<bufferVars, sockOpen, onClose, stopped, at, viewer, attached, removals>>

-----------------------------------------------------------------------------

\* A panic in the ping loop's goroutine ends the program; in the read loop, which is
\* an HTTP handler, net/http recovers it and t.mx stays locked.
Crashed == loop[PingLoop] = "panic"

\* A viewer's buffer fills from its AddConsumer on; its WriteTo runs once the handler
\* has started it. Nothing reaches the peer through a closed websocket.
Viewing(m) ==
  /\ \/ Write(m) /\ (m \in attached \/ feed[m] = "ends")
        /\ (wbuf[m].out = "reader" /\ ~sockOpen => wbuf'[m].err)
     \/ viewer[m] \notin {"idle", "add", "open"} /\ (Reset(m) \/ WriteToFails(m))
     \/ WriteToReturns(m) \/ SenderEnds(m)
  /\ UNCHANGED socketVars

Handler(m) == \/ HandlerAdds(m) \/ HandlerFails(m) \/ HandlerOpens(m) \/ Register(m)
              \/ DirectStops(m) \/ DirectRemoves(m)

Closing(c) == CloseLocks(c) \/ CallStop(c) \/ CallViewer(c) \/ CallRemoves(c) \/ CloseUnlocks(c)

\* The websocket is closed and both loops are over, or the program is.
SocketRests ==
  /\ Crashed \/ \A c \in Closers : loop[c] \in {"ended", "panic"}
  /\ UNCHANGED socketAll

SocketNext ==
  \/ /\ ~Crashed
     /\ \/ \E m \in Messages : Message(m) \/ Handler(m) \/ Viewing(m)
        \/ \E c \in Closers : Closing(c)
        \/ ReadFails \/ PingEnds \/ PingFails
  \/ SocketRests

SocketSpec == SocketInit /\ [][SocketNext]_socketAll

\* Goroutines run, and sync.Mutex hands itself to who waits for it.  No message need
\* come, no ping fail, no write succeed.
SocketFairness ==
  /\ \A m \in Messages :
       /\ WF_socketAll(~Crashed /\ Handler(m))
       /\ SF_socketAll(~Crashed /\ Register(m))
       /\ WF_socketAll(~Crashed /\ WriteToReturns(m) /\ UNCHANGED socketVars)
  /\ \A c \in Closers :
       /\ WF_socketAll(~Crashed /\ Closing(c))
       /\ SF_socketAll(~Crashed /\ CloseLocks(c))

-----------------------------------------------------------------------------
(* Properties. *)

\* A viewer leaves its stream once: RemoveConsumer runs stopProducers, and would close
\* the consumer again, for each callback that is run a second time.
LeavesOnce == \A m \in Messages : removals[m] <= 1

\* "ensure cleanup handlers are called" (ws.go:217): when a loop is about to close the
\* transport, every viewer that is registered leaves the stream, and so does one that
\* OnClose has let in since.
RegisteredLeave ==
  \A m \in Messages :
    m \in Range(onClose) /\ (\E c \in Closers : loop[c] = "close") ~> m \notin attached

\* A viewer that is being stopped while its WriteTo sleeps has it back: the goroutine
\* does not stay behind.
StoppedReturns ==
  \A m \in Messages :
    m \in attached /\ feed[m] # "on" /\ drain[m] = "sleep" ~> drain[m] = "out" \/ Crashed

\* "if ping fails, close transport which triggers cleanup" (ws.go:171): it does, and
\* no more than that.
CleanupNeverPanics == \A c \in Closers : loop[c] # "panic"
=============================================================================

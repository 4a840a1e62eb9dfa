----------------------------- MODULE CoreProofs -----------------------------
(***************************************************************************)
(* Theorems about the parts that connections are made of: Waiter, for any  *)
(* number of goroutines, errors and tasks, WriteBuffer, for any number of  *)
(* buffers, and Socket, for any number of viewers of one websocket.        *)
(***************************************************************************)
EXTENDS Waiter, Socket, TLAPS

-----------------------------------------------------------------------------
(* Waiter. *)

\* w.mu is held by the goroutine that is inside Done.
LockIsDone ==
  /\ \A g \in Callers : caller[g].pc = "done" => wlock = g
  /\ wlock # NotLocked => caller[wlock].pc = "done"

\* A waiter that is not started has nobody in Wait, but for the moment between the two
\* halves of the Done that finishes it: then w.mu keeps everybody out.
NobodyEarly ==
  wstate = 0 /\ wlock = NotLocked => \A g \in Callers : caller[g].pc \notin {"sleep", "wake"}

WInv == WaiterTypeOK /\ wstate >= -1 /\ CounterIsState /\ LockIsDone /\ NobodyEarly

-----------------------------------------------------------------------------

LEMMA InitWaiter == WaiterInit => WInv
  BY WaiterAssumption
     DEF WaiterInit, WInv, WaiterTypeOK, CounterIsState, LockIsDone, NobodyEarly, Out, CallerPCs

\* Where a goroutine goes the others stay where they are.
LEMMA GoesTyped ==
  ASSUME WaiterTypeOK, NEW g \in Callers, NEW pc \in CallerPCs, CallerGoes(g, pc)
  PROVE  /\ caller' \in [Callers -> [pc : CallerPCs, err : Errors]]
         /\ caller'[g].pc = pc
         /\ \A h \in Callers \ {g} : caller'[h] = caller[h]
  BY DEF WaiterTypeOK, CallerGoes

LEMMA AddKeeps == ASSUME WInv, NEW g \in Callers, Add(g) PROVE WInv'
  BY DEF Add, Calls, WInv, WaiterTypeOK, CounterIsState, LockIsDone, NobodyEarly

LEMMA WaitKeeps == ASSUME WInv, NEW g \in Callers, Wait(g) PROVE WInv'
  <1> USE DEF WInv
  <1>1. /\ caller' \in [Callers -> [pc : CallerPCs, err : Errors]]
        /\ caller'[g].pc = "sleep"
        /\ \A h \in Callers \ {g} : caller'[h] = caller[h]
    BY GoesTyped DEF Wait, CallerPCs
  <1>2. WaiterTypeOK' BY <1>1 DEF Wait, WaiterTypeOK
  <1>3. wstate' >= -1 /\ wstate' # 0 /\ CounterIsState'
    BY DEF Wait, WaiterTypeOK, CounterIsState
  <1>4. LockIsDone'
    BY <1>1 DEF Wait, Calls, LockIsDone, WaiterTypeOK
  <1>5. NobodyEarly' BY <1>3 DEF NobodyEarly
  <1> QED BY <1>2, <1>3, <1>4, <1>5

LEMMA WakesKeeps == ASSUME WInv, NEW g \in Callers, Wakes(g) PROVE WInv'
  <1> USE DEF WInv
  <1>1. /\ caller' \in [Callers -> [pc : CallerPCs, err : Errors]]
        /\ caller'[g].pc = "wake"
        /\ \A h \in Callers \ {g} : caller'[h] = caller[h]
    BY GoesTyped DEF Wakes, CallerPCs
  <1>2. WaiterTypeOK' /\ wstate' >= -1 /\ CounterIsState'
    BY <1>1 DEF Wakes, WaiterTypeOK, CounterIsState
  <1>3. LockIsDone'
    BY <1>1, WaiterAssumption DEF Wakes, LockIsDone, WaiterTypeOK
  <1>4. NobodyEarly'
    BY <1>1 DEF Wakes, NobodyEarly
  <1> QED BY <1>2, <1>3, <1>4

LEMMA ReturnedKeeps == ASSUME WInv, NEW g \in Callers, Returned(g) PROVE WInv'
  <1> USE DEF WInv
  <1>1. /\ caller' \in [Callers -> [pc : CallerPCs, err : Errors]]
        /\ caller'[g].pc = "out"
        /\ \A h \in Callers \ {g} : caller'[h] = caller[h]
    BY GoesTyped DEF Returned, CallerPCs
  <1>2. WaiterTypeOK' /\ wstate' >= -1 /\ CounterIsState'
    BY <1>1 DEF Returned, WaiterTypeOK, CounterIsState
  <1>3. LockIsDone'
    BY <1>1, WaiterAssumption DEF Returned, LockIsDone, WaiterTypeOK
  <1>4. NobodyEarly'
    BY <1>1 DEF Returned, NobodyEarly
  <1> QED BY <1>2, <1>3, <1>4

LEMMA DoneCountsKeeps ==
  ASSUME WInv, NEW g \in Callers, NEW e \in Errors, DoneCounts(g, e)
  PROVE  WInv'
  <1> USE DEF WInv
  <1>1. /\ caller' \in [Callers -> [pc : CallerPCs, err : Errors]]
        /\ caller'[g].pc = "done"
        /\ \A h \in Callers \ {g} : caller'[h] = caller[h]
    BY DEF DoneCounts, WaiterTypeOK, CallerPCs
  <1>2. WaiterTypeOK' /\ wstate' >= -1 /\ CounterIsState'
    BY <1>1 DEF DoneCounts, WaiterTypeOK, CounterIsState
  <1>3. LockIsDone'
    BY <1>1, WaiterAssumption DEF DoneCounts, Calls, LockIsDone, WaiterTypeOK
  <1>4. NobodyEarly'
    BY WaiterAssumption DEF DoneCounts, NobodyEarly
  <1> QED BY <1>2, <1>3, <1>4

LEMMA DoneFinishesKeeps == ASSUME WInv, NEW g \in Callers, DoneFinishes(g) PROVE WInv'
  <1> USE DEF WInv
  <1>1. /\ caller' \in [Callers -> [pc : CallerPCs, err : Errors]]
        /\ caller'[g].pc = "out"
        /\ \A h \in Callers \ {g} : caller'[h] = caller[h]
    BY WaiterAssumption DEF DoneFinishes, WaiterTypeOK, CallerPCs, Out
  <1>2. WaiterTypeOK' /\ wstate' >= -1 /\ wstate' # 0 /\ CounterIsState'
    BY <1>1 DEF DoneFinishes, WaiterTypeOK, CounterIsState
  <1>3. LockIsDone'
    BY <1>1, WaiterAssumption DEF DoneFinishes, LockIsDone, WaiterTypeOK
  <1>4. NobodyEarly' BY <1>2 DEF NobodyEarly
  <1> QED BY <1>2, <1>3, <1>4

LEMMA NextWaiter == WInv /\ [WaiterNext]_waiterVars => WInv'
  <1> SUFFICES ASSUME WInv, [WaiterNext]_waiterVars PROVE WInv'
    OBVIOUS
  <1>1. CASE WaiterNext
    BY <1>1, AddKeeps, WaitKeeps, WakesKeeps, ReturnedKeeps, DoneCountsKeeps, DoneFinishesKeeps
       DEF WaiterNext, WaiterStep
  <1>2. CASE UNCHANGED waiterVars
    BY <1>2 DEF waiterVars, WInv, WaiterTypeOK, CounterIsState, LockIsDone, NobodyEarly
  <1> QED BY <1>1, <1>2

LEMMA WaiterInvariance == WaiterSpec => []WInv
  BY InitWaiter, NextWaiter, PTL DEF WaiterSpec

-----------------------------------------------------------------------------

\* Every variable keeps its type, whatever calls meet.
THEOREM WaiterTypeCorrect == WaiterSpec => []WaiterTypeOK
  <1>1. WInv => WaiterTypeOK BY DEF WInv
  <1> QED BY <1>1, WaiterInvariance, PTL

\* The counter of the WaitGroup (waiter.go:22,32,47) is the number of open tasks, and so
\* never negative, however many goroutines call Done how often.
THEOREM NeverBelowZero == WaiterSpec => []CounterIsState
  <1>1. WInv => CounterIsState BY DEF WInv
  <1> QED BY <1>1, WaiterInvariance, PTL

\* The WaitGroup is not used again before every Wait has returned (waiter.go:29-36).
THEOREM UsedOnce == WaiterSpec => NeverReused
  <1>1. ASSUME WInv, [WaiterNext]_waiterVars, wgroup = 0, wgroup' > 0
        PROVE  \A g \in Callers : caller[g].pc \notin {"sleep", "wake"}
    <2>1. PICK g \in Callers : \/ Add(g) \/ Wait(g) \/ WaiterStep(g)
                               \/ \E e \in Errors : DoneCounts(g, e)
      BY <1>1 DEF WaiterNext, waiterVars
    <2>2. Add(g) \/ Wait(g)
      BY <1>1, <2>1 DEF WaiterStep, Wakes, Returned, DoneFinishes, DoneCounts, WInv, WaiterTypeOK,
         CounterIsState
    <2>3. wstate = 0 /\ wlock = NotLocked
      BY <1>1, <2>2 DEF Add, Wait, Calls, WInv, WaiterTypeOK, CounterIsState
    <2> QED BY <1>1, <2>3 DEF WInv, NobodyEarly
  <1> QED BY <1>1, WaiterInvariance, PTL DEF WaiterSpec, NeverReused

\* A waiter finishes once: later calls of Add, Wait and Done change neither the state nor
\* the error (waiter.go:50-54).
THEOREM FinishedOnce == WaiterSpec => VerdictStands
  <1>1. ASSUME WInv, [WaiterNext]_waiterVars, wstate = -1
        PROVE  wstate' = -1 /\ werr' = werr
    BY <1>1 DEF WaiterNext, WaiterStep, Add, Wait, Wakes, Returned, DoneCounts, DoneFinishes, waiterVars
  <1> QED BY <1>1, WaiterInvariance, PTL DEF WaiterSpec, VerdictStands

-----------------------------------------------------------------------------
(* WriteBuffer. *)

\* A buffer that keeps its promises; the counter of its WaitGroup is told by its state.
Sound(r) ==
  /\ r \in WriteBufferType
  /\ r.count = IF r.state = "start" THEN 1 ELSE 0
  /\ r.out = "reader" => ~r.held

BInv == BufferTypeOK /\ \A b \in Buffers : Sound(wbuf[b])

-----------------------------------------------------------------------------

LEMMA AddedSound == ASSUME NEW r, Sound(r) PROVE Sound(Added(r))
  <1>1. r.count \in Int BY DEF Sound, WriteBufferType
  <1>2. CASE r.state = "none"
    <2>1. ASSUME NEW n \in Int, n = r.count + 1
          PROVE  Sound([r EXCEPT !.state = "start", !.count = n])
      <3>1. n = 1 BY <1>2, <2>1 DEF Sound
      <3> QED BY <3>1, <2>1 DEF Sound, WriteBufferType
    <2>2. r.count + 1 \in Int BY <1>1
    <2>3. Added(r) = [r EXCEPT !.state = "start", !.count = r.count + 1]
      BY <1>2, Zenon DEF Added
    <2> QED BY <2>1, <2>2, <2>3, Zenon
  <1>3. CASE r.state # "none"
    BY <1>3, Zenon DEF Added
  <1> QED BY <1>2, <1>3

LEMMA SettledSound == ASSUME NEW r, Sound(r) PROVE Sound(Settled(r))
  <1>1. r.count \in Int BY DEF Sound, WriteBufferType
  <1>2. CASE r.state = "start"
    <2>1. ASSUME NEW n \in Int, n = r.count - 1
          PROVE  Sound([r EXCEPT !.state = "end", !.count = n])
      <3>1. n = 0 BY <1>2, <2>1 DEF Sound
      <3> QED BY <3>1, <2>1 DEF Sound, WriteBufferType
    <2>2. r.count - 1 \in Int BY <1>1
    <2>3. Settled(r) = [r EXCEPT !.state = "end", !.count = r.count - 1]
      BY <1>2, Zenon DEF Settled
    <2> QED BY <2>1, <2>2, <2>3, Zenon
  <1>3. CASE r.state # "start"
    BY <1>3, Zenon DEF Settled
  <1> QED BY <1>2, <1>3

LEMMA BrokeSound == ASSUME NEW r, Sound(r) PROVE Sound(Broke(r))
  <1>1. Sound([r EXCEPT !.err = TRUE]) BY DEF Sound, WriteBufferType
  <1> QED BY <1>1, SettledSound, Zenon DEF Broke

LEMMA PassedSound ==
  ASSUME NEW r, Sound(r)
  PROVE  Sound([r EXCEPT !.out = "reader", !.held = FALSE])
  BY DEF Sound, WriteBufferType

LEMMA DeadSound == ASSUME NEW r, Sound(r) PROVE Sound([r EXCEPT !.dead = TRUE])
  BY DEF Sound, WriteBufferType

LEMMA HeldSound ==
  ASSUME NEW r, Sound(r), NEW h \in BOOLEAN, r.out = "reader" => ~h
  PROVE  Sound([r EXCEPT !.held = h])
  BY DEF Sound, WriteBufferType

\* A step changes one buffer.
LEMMA OneBuffer ==
  ASSUME BInv, NEW b \in Buffers, NEW r, Sound(r), wbuf' = [wbuf EXCEPT ![b] = r]
  PROVE  /\ wbuf' \in [Buffers -> WriteBufferType]
         /\ \A c \in Buffers : Sound(wbuf'[c])
  BY DEF BInv, BufferTypeOK, Sound

-----------------------------------------------------------------------------

LEMMA InitBuffer == BufferInit => BInv
  BY DEF BufferInit, BInv, BufferTypeOK, Sound, NewWriteBuffer, WriteBufferType

LEMMA WriteKeeps == ASSUME BInv, NEW b \in Buffers, Write(b) PROVE BInv'
  <1>1. Sound(wbuf[b]) BY DEF BInv
  <1>2. /\ wbuf' \in [Buffers -> WriteBufferType]
        /\ \A c \in Buffers : Sound(wbuf'[c])
    <2>1. CASE UNCHANGED wbuf BY <2>1 DEF BInv, BufferTypeOK
    <2>2. CASE wbuf' = [wbuf EXCEPT ![b].held = @ \/ wbuf[b].out = "buffer"]
      <3>1. wbuf[b].held \in BOOLEAN BY <1>1 DEF Sound, WriteBufferType
      <3>2. PICK h \in BOOLEAN : h = (wbuf[b].held \/ wbuf[b].out = "buffer") BY <3>1
      <3>3. wbuf[b].out = "reader" => ~h BY <1>1, <3>2 DEF Sound
      <3>4. Sound([wbuf[b] EXCEPT !.held = h]) BY <1>1, <3>3, HeldSound
      <3>5. wbuf' = [wbuf EXCEPT ![b] = [wbuf[b] EXCEPT !.held = h]] BY <2>2, <3>2, Zenon
      <3> QED BY <3>4, <3>5, OneBuffer
    <2>3. CASE wbuf' = [wbuf EXCEPT ![b] = Broke(wbuf[b])]
      <3>1. Sound(Broke(wbuf[b])) BY <1>1, BrokeSound
      <3> QED BY <2>3, <3>1, OneBuffer
    <2> QED BY <2>1, <2>2, <2>3, Zenon DEF Write
  <1> QED BY <1>2 DEF Write, BInv, BufferTypeOK

LEMMA ResetKeeps == ASSUME BInv, NEW b \in Buffers, Reset(b) PROVE BInv'
  <1>1. Sound(wbuf[b]) BY DEF BInv
  <1>2. Sound(Added(wbuf[b])) BY <1>1, AddedSound
  <1>3. Sound(Broke(Added(wbuf[b]))) BY <1>2, BrokeSound
  <1>4. PICK r \in {Added(wbuf[b]), Broke(Added(wbuf[b]))} :
          wbuf' = [wbuf EXCEPT ![b] = [r EXCEPT !.out = "reader", !.held = FALSE]]
    BY Zenon DEF Reset
  <1>5. Sound([r EXCEPT !.out = "reader", !.held = FALSE]) BY <1>2, <1>3, PassedSound
  <1>6. /\ wbuf' \in [Buffers -> WriteBufferType]
        /\ \A c \in Buffers : Sound(wbuf'[c])
    BY <1>4, <1>5, OneBuffer, Zenon
  <1>7. UNCHANGED <<feed, closing>> /\ drain' = [drain EXCEPT ![b] = "sleep"]
    BY DEF Reset
  <1> QED BY <1>6, <1>7 DEF BInv, BufferTypeOK

LEMMA CloseKeeps ==
  ASSUME BInv, NEW b \in Buffers, Close(b) \/ CloseLooks(b) \/ CloseSettles(b)
  PROVE  BInv'
  <1>1. Sound(wbuf[b]) BY DEF BInv
  <1>2. Sound(Settled(wbuf[b])) BY <1>1, SettledSound
  <1>3. Sound([wbuf[b] EXCEPT !.dead = TRUE]) BY <1>1, DeadSound
  <1>4. PICK r : Sound(r) /\ wbuf' = [wbuf EXCEPT ![b] = r]
    <2>1. CASE wbuf' = [wbuf EXCEPT ![b] = Settled(wbuf[b])] BY <1>2, <2>1
    <2>2. CASE wbuf' = [wbuf EXCEPT ![b] = [wbuf[b] EXCEPT !.dead = TRUE]] BY <1>3, <2>2, Zenon
    <2>3. CASE UNCHANGED wbuf
      <3>1. wbuf' = [wbuf EXCEPT ![b] = wbuf[b]] BY <2>3 DEF BInv, BufferTypeOK
      <3> QED BY <1>1, <3>1
    <2> QED BY <2>1, <2>2, <2>3, Zenon DEF Close, CloseLooks, CloseSettles
  <1>5. /\ wbuf' \in [Buffers -> WriteBufferType]
        /\ \A c \in Buffers : Sound(wbuf'[c])
    BY <1>4, OneBuffer
  <1>6. UNCHANGED <<drain, feed>> /\ closing' \in SUBSET Closable
    BY DEF Close, CloseLooks, CloseSettles, BInv, BufferTypeOK
  <1> QED BY <1>5, <1>6 DEF BInv, BufferTypeOK

LEMMA NextBuffer == BInv /\ [BufferNext]_bufferVars => BInv'
  <1> SUFFICES ASSUME BInv, [BufferNext]_bufferVars PROVE BInv'
    OBVIOUS
  <1>1. ASSUME NEW b \in Buffers,
               WriteToFails(b) \/ WriteToReturns(b) \/ CloseSenders(b) \/ SenderEnds(b)
        PROVE  BInv'
    BY <1>1 DEF WriteToFails, WriteToReturns, CloseSenders, SenderEnds, BInv, BufferTypeOK
  <1>2. CASE UNCHANGED bufferVars BY <1>2 DEF bufferVars, BInv, BufferTypeOK
  <1> QED BY <1>1, <1>2, WriteKeeps, ResetKeeps, CloseKeeps DEF BufferNext

LEMMA BufferInvariance == BufferSpec => []BInv
  BY InitBuffer, NextBuffer, PTL DEF BufferSpec

-----------------------------------------------------------------------------

\* The WaitGroup of a buffer is counted down as often as up (writebuffer.go:78-90), for any
\* order of writes that fail, of WriteTo and of Close.
THEOREM CountedOnce == BufferSpec => []SettledOnce
  <1>1. BInv => SettledOnce BY DEF BInv, Sound, SettledOnce
  <1> QED BY <1>1, BufferInvariance, PTL

\* Bytes that were kept before WriteTo do not stay behind those that follow
\* (writebuffer.go:12,61-68).
THEOREM NothingStaysBehind == BufferSpec => []InOrder
  <1>1. BInv => InOrder BY DEF BInv, Sound, InOrder
  <1> QED BY <1>1, BufferInvariance, PTL

-----------------------------------------------------------------------------
(* Socket. *)


\* The callbacks of OnClose: the first ends the ping loop, each of the others is a viewer
\* whose handler is through, and none is there twice.
CallbacksOnce ==
  /\ Len(onClose) >= 1 /\ onClose[1] = StopPing
  /\ \A i, j \in 1 .. Len(onClose) : onClose[i] = onClose[j] => i = j
  /\ \A i \in 1 .. Len(onClose) : onClose[i] \in Messages => viewer[onClose[i]] = "done"

\* t.mx is held by who is inside Close or OnClose, or died there.
TransportLock ==
  /\ \A c \in Closers : tmx = c <=> loop[c] \in {"calls", "inside", "panic"}
  /\ \A m \in Messages : tmx = m <=> viewer[m] = "direct"

Runs(c) == loop[c] \in {"calls", "inside"}

\* Only one closer comes past the first callback, which closes the channel, and it is the
\* one that closes the transport; whoever comes later finds the channel closed.
OneRun ==
  /\ \A c \in Closers : Runs(c) => at[c] >= 1 /\ (at[c] > 1 => stopped /\ ~closed)
  /\ \A c \in Closers : loop[c] = "inside" => 1 < at[c] /\ at[c] <= Len(onClose)
  /\ \A c \in Closers : loop[c] = "panic" => closed
  /\ \A m \in Messages : viewer[m] = "direct" => closed
  /\ closed => stopped
  /\ stopped /\ ~closed => \E c \in Closers : Runs(c) /\ at[c] > 1

\* The i-th callback has been run.
Ran(i) == closed \/ \E c \in Closers : Runs(c) /\ i < at[c]

\* A viewer is taken out of its stream by the callback that stands for it, or by OnClose
\* itself; it has joined before, and does not come back.
Departures ==
  /\ \A m \in Messages : viewer[m] \in {"idle", "add"} => m \notin attached
  /\ \A m \in Messages : viewer[m] # "done" => removals[m] = 0
  /\ \A i \in 1 .. Len(onClose) :
       onClose[i] \in Messages => removals[onClose[i]] = IF Ran(i) THEN 1 ELSE 0
  /\ \A m \in Messages : removals[m] \in {0, 1}
  /\ \A m \in Messages : removals[m] = 1 => m \notin attached
  /\ \A m \in Messages :
       viewer[m] = "done" /\ m \in attached => \E i \in 1 .. Len(onClose) : onClose[i] = m

SInv == TransportType /\ CallbacksOnce /\ TransportLock /\ OneRun /\ Departures


-----------------------------------------------------------------------------

LEMMA SocketInitInv == SocketInit => SInv
<1>. SUFFICES ASSUME SocketInit PROVE SInv
  OBVIOUS
<1>1. onClose \in Seq(Messages \cup {StopPing}) /\ Len(onClose) = 1 /\ onClose[1] = StopPing
  BY DEF SocketInit
<1>2. TransportType
  BY <1>1, SocketAssumption DEF SocketInit, TransportType, LoopPCs, ViewerPCs
<1>3. CallbacksOnce
  BY <1>1, SocketAssumption DEF CallbacksOnce
<1>4. TransportLock /\ OneRun
  BY SocketAssumption DEF SocketInit, TransportLock, OneRun, Runs, Closers
<1>5. Departures
  BY <1>1, SocketAssumption DEF SocketInit, Departures
<1>. QED  BY <1>2, <1>3, <1>4, <1>5 DEF SInv

\* A message and its handler, up to OnClose.
LEMMA HandlerKeeps ==
  ASSUME SInv, NEW m \in Messages,
         Message(m) \/ HandlerAdds(m) \/ HandlerFails(m) \/ HandlerOpens(m)
  PROVE  SInv'
<1>. USE DEF SInv
<1>1. /\ viewer[m] \in {"idle", "add", "open"}
      /\ \E pc \in {"add", "open", "done", "register"} : viewer' = [viewer EXCEPT ![m] = pc]
      /\ viewer'[m] # "direct"
      /\ \A k \in Messages : k # m => viewer'[k] = viewer[k]
      /\ viewer' \in [Messages -> ViewerPCs]
      /\ UNCHANGED <<sockOpen, closed, tmx, onClose, stopped, loop, at, removals>>
  BY DEF Message, HandlerAdds, HandlerFails, HandlerOpens, ViewerGoes, TransportType, ViewerPCs
<1>2. /\ attached' \in SUBSET Messages /\ \A k \in Messages : k # m => (k \in attached' <=> k \in attached)
      /\ viewer'[m] \in {"add", "done"} => m \notin attached'
  BY DEF Message, HandlerAdds, HandlerFails, HandlerOpens, ViewerGoes, TransportType, ViewerPCs,
     Departures
<1>3. TransportType'
  BY <1>1, <1>2 DEF TransportType
<1>4. CallbacksOnce'
  BY <1>1 DEF CallbacksOnce
<1>5. TransportLock' /\ OneRun'
  BY <1>1 DEF TransportLock, OneRun, Runs
<1>6. Departures'
  <2>1. \A i \in 1 .. Len(onClose) : Ran(i)' = Ran(i)
    BY <1>1 DEF Ran, Runs
  <2>2. removals[m] = 0 /\ (viewer'[m] = "idle" => FALSE)
    BY <1>1 DEF Departures
  <2>. QED  BY <1>1, <1>2, <2>1, <2>2 DEF Departures
<1>. QED  BY <1>3, <1>4, <1>5, <1>6

LEMMA RegisterKeeps == ASSUME SInv, NEW m \in Messages, Register(m) PROVE SInv'
<1>. USE DEF SInv
<1>0. UNCHANGED <<sockOpen, closed, stopped, loop, at, attached, removals>> /\ viewer[m] = "register"
      /\ tmx = NoCloser
  BY DEF Register
<1>1. CASE closed
  <2>1. /\ tmx' = m /\ onClose' = onClose /\ viewer'[m] = "direct"
        /\ \A k \in Messages : k # m => viewer'[k] = viewer[k]
        /\ viewer' \in [Messages -> ViewerPCs]
    BY <1>1 DEF Register, ViewerGoes, TransportType, ViewerPCs
  <2>2. TransportType'
    BY <1>0, <2>1 DEF TransportType
  <2>3. CallbacksOnce'
    BY <1>0, <2>1 DEF CallbacksOnce
  <2>4. TransportLock' /\ OneRun'
    BY <1>0, <1>1, <2>1, SocketAssumption DEF TransportLock, OneRun, Runs, Closers, TransportType
  <2>5. Departures'
    <3>1. \A i \in 1 .. Len(onClose) : Ran(i)' = Ran(i)
      BY <1>0 DEF Ran, Runs
    <3>. QED  BY <1>0, <2>1, <3>1 DEF Departures
  <2>. QED  BY <2>2, <2>3, <2>4, <2>5
<1>2. CASE ~closed
  <2>. DEFINE n == Len(onClose)
  <2>1. /\ tmx' = tmx /\ viewer'[m] = "done"
        /\ \A k \in Messages : k # m => viewer'[k] = viewer[k]
        /\ viewer' \in [Messages -> ViewerPCs]
    BY <1>2 DEF Register, ViewerGoes, TransportType, ViewerPCs
  <2>2. /\ onClose' \in Seq(Messages \cup {StopPing}) /\ n \in Nat
        /\ Len(onClose') = n + 1 /\ onClose'[n + 1] = m
        /\ \A i \in 1 .. n : onClose'[i] = onClose[i]
    <3>1. onClose' = Append(onClose, m) /\ m \in Messages \cup {StopPing}
      BY <1>2 DEF Register
    <3>2. onClose \in Seq(Messages \cup {StopPing})
      BY DEF TransportType
    <3>. QED  BY <3>1, <3>2
  <2>. HIDE DEF n
  <2>10. /\ n >= 1 /\ onClose[1] = StopPing
         /\ \A i, j \in 1 .. n : onClose[i] = onClose[j] => i = j
         /\ \A i \in 1 .. n : onClose[i] \in Messages => viewer[onClose[i]] = "done"
    BY DEF CallbacksOnce, n
  <2>3. TransportType'
    BY <1>0, <2>1, <2>2 DEF TransportType
  <2>4. \A i \in 1 .. n : onClose[i] # m
    BY <1>0, <2>10
  <2>5. CallbacksOnce'
    <3>1. Len(onClose') >= 1 /\ onClose'[1] = StopPing
      BY <2>2, <2>10
    <3>2. \A i, j \in 1 .. (n + 1) : onClose'[i] = onClose'[j] => i = j
      BY <2>2, <2>10, <2>4
    <3>3. \A i \in 1 .. (n + 1) : onClose'[i] \in Messages => viewer'[onClose'[i]] = "done"
      BY <2>1, <2>2, <2>10, <2>4
    <3>. QED  BY <2>2, <3>1, <3>2, <3>3 DEF CallbacksOnce
  <2>6. \A c \in Closers : ~Runs(c)
    BY <1>0, SocketAssumption DEF TransportLock, Runs, Closers
  <2>7. TransportLock' /\ OneRun'
    BY <1>0, <1>2, <2>1, <2>6 DEF TransportLock, OneRun, Runs
  <2>8. \A i \in 1 .. (n + 1) : Ran(i)' = FALSE /\ Ran(i) = FALSE
    BY <1>0, <1>2, <2>6 DEF Ran, Runs
  <2>9. Departures'
    <3>1. removals[m] = 0
      BY <1>0 DEF Departures
    <3>2. \A i \in 1 .. (n + 1) : onClose'[i] \in Messages => removals'[onClose'[i]] = IF Ran(i)' THEN 1 ELSE 0
      <4>1. \A i \in 1 .. n : onClose[i] \in Messages => removals[onClose[i]] = 0
        BY <2>8, <2>2 DEF Departures, n
      <4>. QED  BY <1>0, <2>2, <2>8, <3>1, <4>1
    <3>3. \A k \in Messages :
             viewer'[k] = "done" /\ k \in attached' => \E i \in 1 .. (n + 1) : onClose'[i] = k
      <4>1. ASSUME NEW k \in Messages, k # m, viewer'[k] = "done", k \in attached'
            PROVE  \E i \in 1 .. (n + 1) : onClose'[i] = k
        <5>1. PICK i \in 1 .. n : onClose[i] = k
          BY <1>0, <2>1, <4>1 DEF Departures, n
        <5>2. i \in 1 .. (n + 1) /\ onClose'[i] = k
          BY <2>2, <5>1
        <5>. QED  BY <5>2
      <4>2. n + 1 \in 1 .. (n + 1)
        BY <2>2
      <4>. QED  BY <2>2, <4>1, <4>2, Zenon
    <3>. QED  BY <1>0, <2>1, <2>2, <3>1, <3>2, <3>3 DEF Departures
  <2>. QED  BY <2>3, <2>5, <2>7, <2>9
<1>. QED  BY <1>1, <1>2

LEMMA DirectKeeps == ASSUME SInv, NEW m \in Messages, DirectRemoves(m) PROVE SInv'
<1>. USE DEF SInv
<1>1. /\ UNCHANGED <<sockOpen, closed, onClose, stopped, loop, at>>
      /\ viewer[m] = "direct" /\ tmx' = NoCloser
      /\ viewer'[m] = "done" /\ \A k \in Messages : k # m => viewer'[k] = viewer[k]
      /\ viewer' \in [Messages -> ViewerPCs]
      /\ attached' = attached \ {m}
  BY DEF DirectRemoves, ViewerGoes, Removes, TransportType, ViewerPCs
<1>2. tmx = m /\ closed /\ stopped /\ removals[m] = 0
  BY <1>1 DEF TransportLock, OneRun, Departures
<1>3. /\ removals' \in [Messages -> Nat] /\ removals'[m] = 1
      /\ \A k \in Messages : k # m => removals'[k] = removals[k]
  BY <1>2 DEF DirectRemoves, Removes, TransportType
<1>4. TransportType'
  BY <1>1, <1>3 DEF TransportType
<1>5. CallbacksOnce'
  BY <1>1 DEF CallbacksOnce
<1>6. TransportLock' /\ OneRun'
  BY <1>1, <1>2, SocketAssumption DEF TransportLock, OneRun, Runs, Closers
<1>7. Departures'
  <2>1. \A i \in 1 .. Len(onClose) : onClose[i] # m
    BY <1>1 DEF CallbacksOnce
  <2>2. \A i \in 1 .. Len(onClose) : Ran(i)' = Ran(i)
    BY <1>1 DEF Ran, Runs
  <2>. QED  BY <1>1, <1>3, <2>1, <2>2 DEF Departures
<1>. QED  BY <1>4, <1>5, <1>6, <1>7

-----------------------------------------------------------------------------

LEMMA LoopMoves ==
  ASSUME TransportType, NEW c \in Closers, NEW pc \in LoopPCs, LoopGoes(c, pc)
  PROVE  /\ loop' \in [Closers -> LoopPCs] /\ loop'[c] = pc
         /\ \A d \in Closers : d # c => loop'[d] = loop[d]
  BY DEF TransportType, LoopGoes

\* A loop ends, or finds the websocket broken: nothing of the transport changes yet.
LEMMA LoopEndsKeeps ==
  ASSUME SInv, NEW c \in Closers, NEW pc \in {"close", "ended"},
         loop[c] = "runs", LoopGoes(c, pc), sockOpen' \in BOOLEAN,
         UNCHANGED <<closed, tmx, onClose, stopped, at, viewer, attached, removals>>
  PROVE  SInv'
<1>. USE DEF SInv
<1>1. /\ loop' \in [Closers -> LoopPCs] /\ loop'[c] = pc
      /\ \A d \in Closers : d # c => loop'[d] = loop[d]
  BY LoopMoves DEF LoopPCs
<1>2. \A d \in Closers : (Runs(d)' <=> Runs(d)) /\ (loop'[d] = "inside" <=> loop[d] = "inside")
                         /\ (loop'[d] = "panic" <=> loop[d] = "panic")
  BY <1>1 DEF Runs
<1>3. TransportType'
  BY <1>1 DEF TransportType
<1>4. CallbacksOnce'
  BY DEF CallbacksOnce
<1>5. TransportLock'
  BY <1>2 DEF TransportLock, Runs
<1>6. OneRun'
  BY <1>2 DEF OneRun
<1>7. Departures'
  <2>1. \A i \in 1 .. Len(onClose) : Ran(i)' = Ran(i)
    BY <1>2 DEF Ran
  <2>. QED  BY <2>1 DEF Departures
<1>. QED  BY <1>3, <1>4, <1>5, <1>6, <1>7

LEMMA LocksKeeps == ASSUME SInv, NEW c \in Closers, CloseLocks(c) PROVE SInv'
<1>. USE DEF SInv
<1>1. /\ loop' \in [Closers -> LoopPCs] /\ loop'[c] = "calls" /\ loop[c] = "close"
      /\ \A d \in Closers : d # c => loop'[d] = loop[d]
      /\ at' \in [Closers -> Nat] /\ at'[c] = 1 /\ \A d \in Closers : d # c => at'[d] = at[d]
      /\ tmx = NoCloser /\ tmx' = c
      /\ UNCHANGED <<sockOpen, closed, onClose, stopped, viewer, attached, removals>>
  BY LoopMoves DEF CloseLocks, LoopPCs, TransportType
<1>2. (\A d \in Closers : ~Runs(d) /\ loop[d] # "panic") /\ \A m \in Messages : viewer[m] # "direct"
  BY <1>1, SocketAssumption DEF TransportLock, Runs, Closers
<1>3. TransportType'
  BY <1>1 DEF TransportType
<1>4. CallbacksOnce'
  BY <1>1 DEF CallbacksOnce
<1>5. TransportLock'
  BY <1>1, <1>2, SocketAssumption DEF TransportLock, Runs, Closers
<1>6. OneRun'
  BY <1>1, <1>2 DEF OneRun, Runs
<1>7. Departures'
  <2>1. \A i \in 1 .. Len(onClose) : Ran(i)' = Ran(i)
    <3>1. Len(onClose) \in Nat
      BY DEF TransportType
    <3>. QED  BY <1>1, <1>2, <3>1 DEF Ran, Runs
  <2>. QED  BY <1>1, <2>1 DEF Departures
<1>. QED  BY <1>3, <1>4, <1>5, <1>6, <1>7

\* Who runs the callbacks is alone.
LEMMA RunsAlone ==
  ASSUME SInv, NEW c \in Closers, Runs(c)
  PROVE  /\ tmx = c /\ \A d \in Closers : d # c => ~Runs(d) /\ loop[d] # "panic"
         /\ \A m \in Messages : viewer[m] # "direct"
  BY SocketAssumption DEF SInv, TransportLock, Runs, Closers

LEMMA CallStopKeeps == ASSUME SInv, NEW c \in Closers, CallStop(c) PROVE SInv'
<1>. USE DEF SInv
<1>1. /\ Runs(c) /\ loop[c] = "calls" /\ at[c] \in Nat /\ at[c] >= 1 /\ at[c] <= Len(onClose)
      /\ onClose[at[c]] = StopPing /\ Len(onClose) \in Nat
      /\ UNCHANGED <<sockOpen, closed, tmx, onClose, viewer, attached, removals>>
  BY DEF CallStop, Calling, Callback, Runs, OneRun, TransportType
<1>2. at[c] = 1
  BY <1>1 DEF CallbacksOnce
<1>3. /\ tmx = c /\ \A d \in Closers : d # c => ~Runs(d) /\ loop[d] # "panic"
  BY <1>1, RunsAlone
<1>4. CallbacksOnce'
  BY <1>1 DEF CallbacksOnce
<1>5. CASE stopped
  <2>1. closed
    BY <1>2, <1>3, <1>5 DEF OneRun
  <2>2. /\ loop' \in [Closers -> LoopPCs] /\ loop'[c] = "panic" /\ stopped' = stopped /\ at' = at
        /\ \A d \in Closers : d # c => loop'[d] = loop[d]
    BY <1>5, LoopMoves DEF CallStop, LoopPCs
  <2>3. TransportType'
    BY <1>1, <2>2 DEF TransportType
  <2>4. TransportLock' /\ OneRun'
    BY <1>1, <1>3, <2>1, <2>2 DEF TransportLock, OneRun, Runs
  <2>5. Departures'
    BY <1>1, <2>1 DEF Departures, Ran
  <2>. QED  BY <1>4, <2>3, <2>4, <2>5
<1>6. CASE ~stopped
  <2>1. ~closed
    BY <1>6 DEF OneRun
  <2>2. /\ at' \in [Closers -> Nat] /\ at'[c] = 2 /\ stopped' = TRUE /\ loop' = loop
        /\ \A d \in Closers : d # c => at'[d] = at[d]
    <3>1. at' = [at EXCEPT ![c] = at[c] + 1] /\ stopped' = TRUE /\ loop' = loop
      BY <1>6 DEF CallStop
    <3>. QED  BY <1>1, <1>2, <3>1 DEF TransportType
  <2>3. TransportType'
    BY <1>1, <2>2 DEF TransportType
  <2>4. TransportLock' /\ OneRun'
    BY <1>1, <1>3, <2>1, <2>2 DEF TransportLock, OneRun, Runs
  <2>5. Departures'
    <3>1. \A i \in 1 .. Len(onClose) : onClose[i] \in Messages => i # 1
      BY <1>1, <1>2, SocketAssumption DEF CallbacksOnce
    <3>2. \A i \in 1 .. Len(onClose) : i # 1 => (Ran(i)' <=> Ran(i))
      BY <1>1, <1>2, <1>3, <2>1, <2>2 DEF Ran, Runs
    <3>. QED  BY <1>1, <3>1, <3>2 DEF Departures
  <2>. QED  BY <1>4, <2>3, <2>4, <2>5
<1>. QED  BY <1>5, <1>6

\* A callback that is not the first is a viewer's.
LEMMA CallbackIsViewer ==
  ASSUME SInv, NEW c \in Closers,
         \/ Calling(c) /\ Callback(c) # StopPing
         \/ loop[c] = "inside"
  PROVE  /\ Callback(c) \in Messages /\ Runs(c) /\ at[c] \in Nat /\ Len(onClose) \in Nat
         /\ at[c] > 1 /\ at[c] <= Len(onClose) /\ stopped /\ ~closed
<1>1. /\ Runs(c) /\ at[c] \in Nat /\ Len(onClose) \in Nat
      /\ at[c] > 1 /\ at[c] <= Len(onClose) /\ stopped /\ ~closed
  BY DEF SInv, OneRun, Runs, Calling, Callback, CallbacksOnce, TransportType
<1>2. onClose[at[c]] # StopPing
  BY <1>1 DEF SInv, CallbacksOnce
<1>. QED  BY <1>1, <1>2 DEF SInv, TransportType, Callback

LEMMA CallViewerKeeps == ASSUME SInv, NEW c \in Closers, CallViewer(c) PROVE SInv'
<1>. USE DEF SInv
<1>1. /\ Runs(c) /\ at[c] \in Nat /\ Len(onClose) \in Nat
      /\ at[c] > 1 /\ at[c] <= Len(onClose) /\ stopped /\ ~closed
  BY CallbackIsViewer DEF CallViewer
<1>2. /\ loop' \in [Closers -> LoopPCs] /\ loop'[c] = "inside"
      /\ \A d \in Closers : d # c => loop'[d] = loop[d]
      /\ UNCHANGED <<sockOpen, closed, tmx, onClose, stopped, at, viewer, attached, removals>>
  BY LoopMoves DEF CallViewer, LoopPCs
<1>3. \A d \in Closers : (Runs(d)' <=> Runs(d)) /\ (loop'[d] = "panic" <=> loop[d] = "panic")
  BY <1>1, <1>2 DEF Runs
<1>4. TransportType'
  BY <1>2 DEF TransportType
<1>5. CallbacksOnce'
  BY <1>2 DEF CallbacksOnce
<1>6. TransportLock'
  BY <1>2, <1>3 DEF TransportLock, Runs
<1>7. OneRun'
  BY <1>1, <1>2, <1>3 DEF OneRun
<1>8. Departures'
  <2>1. \A i \in 1 .. Len(onClose) : Ran(i)' = Ran(i)
    BY <1>2, <1>3 DEF Ran
  <2>. QED  BY <1>2, <2>1 DEF Departures
<1>. QED  BY <1>4, <1>5, <1>6, <1>7, <1>8

LEMMA CallRemovesKeeps == ASSUME SInv, NEW c \in Closers, CallRemoves(c) PROVE SInv'
<1>. USE DEF SInv
<1>1. PICK m \in Messages, k \in Nat : m = onClose[k] /\ k = at[c] /\ m = Callback(c)
  BY CallbackIsViewer DEF CallRemoves, Callback
<1>2. Runs(c) /\ k > 1 /\ k <= Len(onClose) /\ Len(onClose) \in Nat /\ stopped /\ ~closed
  BY <1>1, CallbackIsViewer DEF CallRemoves
<1>3. /\ loop' \in [Closers -> LoopPCs] /\ loop'[c] = "calls" /\ loop[c] = "inside"
      /\ \A d \in Closers : d # c => loop'[d] = loop[d]
      /\ UNCHANGED <<sockOpen, closed, tmx, onClose, stopped, viewer>>
      /\ attached' = attached \ {m}
  BY <1>1, LoopMoves DEF CallRemoves, Removes, LoopPCs
<1>4. /\ at' \in [Closers -> Nat] /\ at'[c] = k + 1
      /\ \A d \in Closers : d # c => at'[d] = at[d]
  <2>1. at' = [at EXCEPT ![c] = k + 1]
    BY <1>1 DEF CallRemoves
  <2>. QED  BY <2>1 DEF TransportType
<1>5. \A d \in Closers : d # c => ~Runs(d) /\ loop[d] # "panic"
  BY <1>2, RunsAlone
<1>6. \A i \in 1 .. Len(onClose) : Ran(i) <=> i < k
  BY <1>1, <1>2, <1>5 DEF Ran
<1>7. \A i \in 1 .. Len(onClose) : Ran(i)' <=> i < k + 1
  BY <1>2, <1>3, <1>4, <1>5 DEF Ran, Runs
<1>8. viewer[m] = "done" /\ removals[m] = 0
  BY <1>1, <1>2, <1>6 DEF CallbacksOnce, Departures
<1>9. /\ removals' \in [Messages -> Nat] /\ removals'[m] = 1
      /\ \A j \in Messages : j # m => removals'[j] = removals[j]
  BY <1>1, <1>8 DEF CallRemoves, Removes, TransportType
<1>10. TransportType'
  BY <1>3, <1>4, <1>9 DEF TransportType
<1>11. CallbacksOnce'
  BY <1>3 DEF CallbacksOnce
<1>12. TransportLock' /\ OneRun'
  BY <1>2, <1>3, <1>4, <1>5 DEF TransportLock, OneRun, Runs
<1>13. Departures'
  <2>1. \A i \in 1 .. Len(onClose) :
          onClose[i] \in Messages => removals'[onClose[i]] = IF i < k + 1 THEN 1 ELSE 0
    <3>1. ASSUME NEW i \in 1 .. Len(onClose), onClose[i] \in Messages, i = k
          PROVE  removals'[onClose[i]] = 1
      BY <1>1, <1>9, <3>1
    <3>2. ASSUME NEW i \in 1 .. Len(onClose), onClose[i] \in Messages, i # k
          PROVE  removals'[onClose[i]] = IF i < k THEN 1 ELSE 0
      <4>1. onClose[i] # m
        BY <1>1, <1>2, <3>2 DEF CallbacksOnce
      <4>. QED  BY <1>6, <1>9, <3>2, <4>1 DEF Departures
    <3>. QED  BY <1>2, <3>1, <3>2
  <2>. QED  BY <1>3, <1>7, <1>8, <1>9, <2>1 DEF Departures
<1>. QED  BY <1>10, <1>11, <1>12, <1>13

LEMMA UnlocksKeeps == ASSUME SInv, NEW c \in Closers, CloseUnlocks(c) PROVE SInv'
<1>. USE DEF SInv
<1>1. /\ loop' \in [Closers -> LoopPCs] /\ loop'[c] = "ended" /\ loop[c] = "calls" /\ Runs(c)
      /\ \A d \in Closers : d # c => loop'[d] = loop[d]
      /\ closed' = TRUE /\ tmx' = NoCloser /\ at[c] > Len(onClose)
      /\ UNCHANGED <<sockOpen, onClose, stopped, at, viewer, attached, removals>>
  BY LoopMoves DEF CloseUnlocks, LoopPCs, Runs
<1>2. at[c] \in Nat /\ Len(onClose) \in Nat /\ at[c] > 1 /\ stopped /\ ~closed
  BY <1>1 DEF TransportType, CallbacksOnce, OneRun
<1>3. /\ \A d \in Closers : d # c => ~Runs(d) /\ loop[d] # "panic"
      /\ \A m \in Messages : viewer[m] # "direct"
  BY <1>1, RunsAlone
<1>4. TransportType'
  BY <1>1 DEF TransportType
<1>5. CallbacksOnce'
  BY <1>1 DEF CallbacksOnce
<1>6. TransportLock' /\ OneRun'
  BY <1>1, <1>2, <1>3, SocketAssumption DEF TransportLock, OneRun, Runs, Closers
<1>7. Departures'
  <2>1. \A i \in 1 .. Len(onClose) : Ran(i) /\ Ran(i)'
    BY <1>1, <1>2 DEF Ran
  <2>. QED  BY <1>1, <2>1 DEF Departures
<1>. QED  BY <1>4, <1>5, <1>6, <1>7

-----------------------------------------------------------------------------

LEMMA SocketStutters == ASSUME SInv, UNCHANGED socketVars PROVE SInv'
  BY DEF SInv, socketVars, TransportType, CallbacksOnce, TransportLock, OneRun, Runs, Departures, Ran

LEMMA SocketNextInv == SInv /\ [SocketNext]_socketAll => SInv'
<1>. SUFFICES ASSUME SInv, [SocketNext]_socketAll PROVE SInv'
  OBVIOUS
<1>1. CASE UNCHANGED socketVars
  BY <1>1, SocketStutters
<1>2. ASSUME NEW m \in Messages, Message(m) \/ Handler(m) \/ Viewing(m)
      PROVE  SInv'
  BY <1>2, HandlerKeeps, RegisterKeeps, DirectKeeps, SocketStutters DEF Handler, Viewing, DirectStops
<1>3. ASSUME NEW c \in Closers, Closing(c)
      PROVE  SInv'
  BY <1>3, LocksKeeps, CallStopKeeps, CallViewerKeeps, CallRemovesKeeps, UnlocksKeeps DEF Closing
<1>4. CASE ReadFails \/ PingEnds \/ PingFails
  <2>1. ReadLoop \in Closers /\ PingLoop \in Closers /\ sockOpen \in BOOLEAN
    BY DEF Closers, SInv, TransportType
  <2>. QED  BY <1>4, <2>1, LoopEndsKeeps DEF ReadFails, PingEnds, PingFails
<1>. QED
  BY <1>1, <1>2, <1>3, <1>4 DEF SocketNext, SocketRests, socketAll

LEMMA SocketInvariance == SocketSpec => []SInv
  BY SocketInitInv, SocketNextInv, PTL DEF SocketSpec

\* A viewer leaves its stream once (ws.go:185-204), whoever closes the transport, when, and
\* however late its handler asks for the callback.
THEOREM RemovedOnce == SocketSpec => []LeavesOnce
<1>1. SInv => LeavesOnce
  <2>. SUFFICES ASSUME SInv, NEW m \in Messages PROVE removals[m] <= 1
    BY DEF LeavesOnce
  <2>1. removals[m] \in {0, 1}
    BY DEF SInv, Departures
  <2>. QED  BY <2>1
<1>. QED  BY <1>1, SocketInvariance, PTL

\* When the transport is closed no viewer whose handler is through is left in its stream,
\* and a panic of the second Close comes only after that.
ClosedIsEmpty ==
  /\ closed => \A m \in Messages : viewer[m] = "done" => m \notin attached
  /\ \A c \in Closers : loop[c] = "panic" => closed

\* The callbacks are all run before t.closed is set, and OnClose does by itself what it is
\* asked afterwards (ws.go:185-213): a closed websocket leaves nobody behind, also when
\* Close runs a second time and its panic is recovered.
THEOREM NobodyLeftBehind == SocketSpec => []ClosedIsEmpty
<1>1. SInv => ClosedIsEmpty
  <2>. SUFFICES ASSUME SInv, closed, NEW m \in Messages, viewer[m] = "done", m \in attached
                PROVE FALSE
    BY DEF SInv, OneRun, ClosedIsEmpty
  <2>1. PICK i \in 1 .. Len(onClose) : onClose[i] = m
    BY DEF SInv, Departures
  <2>2. removals[m] = 1
    BY <2>1 DEF SInv, Departures, Ran
  <2>. QED  BY <2>2 DEF SInv, Departures
<1>. QED  BY <1>1, SocketInvariance, PTL

\* What a websocket does to the buffers of its viewers is what a buffer provides for.
LEMMA StepOfBuffers == SInv /\ [SocketNext]_socketAll => [BufferNext]_bufferVars
<1>. SUFFICES ASSUME SInv, [SocketNext]_socketAll PROVE [BufferNext]_bufferVars
  OBVIOUS
<1>0. Messages \subseteq Buffers
  BY SocketAssumption
<1>1. ASSUME NEW m \in Messages, StopSenders(m) \/ Close(m)
      PROVE  [BufferNext]_bufferVars
  BY <1>0, <1>1 DEF StopSenders, BufferNext
<1>2. ASSUME NEW m \in Messages, Message(m) \/ Handler(m) \/ Viewing(m)
      PROVE  [BufferNext]_bufferVars
  <2>1. CASE Viewing(m)
    BY <1>0, <2>1 DEF Viewing, BufferNext
  <2>2. CASE DirectStops(m) \/ DirectRemoves(m)
    BY <1>1, <2>2 DEF DirectStops, DirectRemoves, Removes
  <2>. QED
    BY <1>2, <2>1, <2>2 DEF Message, Handler, HandlerAdds, HandlerFails, HandlerOpens, Register
<1>3. ASSUME NEW c \in Closers, Closing(c)
      PROVE  [BufferNext]_bufferVars
  <2>1. CASE CallViewer(c)
    BY <1>1, <2>1, CallbackIsViewer DEF CallViewer
  <2>2. CASE CallRemoves(c)
    BY <1>1, <2>2, CallbackIsViewer DEF CallRemoves, Removes
  <2>. QED  BY <1>3, <2>1, <2>2 DEF Closing, CloseLocks, CallStop, CloseUnlocks
<1>. QED
  BY <1>2, <1>3 DEF SocketNext, SocketRests, socketAll, ReadFails, PingEnds, PingFails

\* The viewers of a websocket use their buffers as WriteBuffer lets them be used: whatever
\* BufferSpec promises holds here.
THEOREM SocketImplementsBuffers == SocketSpec => BufferSpec
<1>1. SocketInit => BufferInit
  BY DEF SocketInit
<1>. QED  BY <1>1, SocketInvariance, StepOfBuffers, PTL DEF SocketSpec, BufferSpec

\* So no viewer's WaitGroup is counted down twice by a write that fails while the callbacks
\* stop the viewer (ws.go:254-261), and nothing is sent out of order.
THEOREM ViewersSettleOnce == SocketSpec => []SettledOnce /\ []InOrder
  BY SocketImplementsBuffers, CountedOnce, NothingStaysBehind

\* Every variable of a websocket and of its viewers' buffers keeps its type.
THEOREM SocketTypeCorrect == SocketSpec => []SocketTypeOK
<1>1. SInv /\ BInv => SocketTypeOK
  BY DEF SInv, BInv, TransportType, SocketTypeOK
<1>. QED  BY <1>1, SocketInvariance, SocketImplementsBuffers, BufferInvariance, PTL
=============================================================================

----------------------------- MODULE WriteBuffer -----------------------------
(***************************************************************************)
(* The buffers between a consumer's senders and the one who reads them:    *)
(* pkg/core/writebuffer.go, with the goroutines of pkg/core/track.go that  *)
(* write and the Connection.Stop (pkg/core/connection.go) that closes.     *)
(*                                                                         *)
(* MP4, FLV, MPEG-TS, MJPEG and AAC consumers write into a byte buffer     *)
(* until somebody calls WriteTo; WriteTo passes on what was kept, lets     *)
(* later writes through to its own writer, and sleeps until a write fails  *)
(* or the consumer is stopped.  Every method is one section under w.mu;    *)
(* WriteTo is two: Reset, and the sleep on the WaitGroup.                  *)
(***************************************************************************)
EXTENDS Integers

CONSTANTS
  Buffers,     \* the write buffers, one per consumer
  Closable     \* those whose reader is an io.Closer (an RTMP connection)

ASSUME BufferAssumption == Closable \subseteq Buffers

VARIABLES
  wbuf,        \* the buffer: state, the WaitGroup's counter, err, where it writes
  drain,       \* the goroutine that calls WriteTo
  feed,        \* the senders: running, told to end, ended
  closing      \* Close has seen that the buffer writes to no io.Closer, and waits for w.mu

bufferVars == <<wbuf, drain, feed, closing>>

\* held: bytes are kept; dead: the reader's connection is closed.
WriteBufferType ==
  [state : {"none", "start", "end"}, count : Int, err : BOOLEAN,
   out : {"buffer", "reader"}, held : BOOLEAN, dead : BOOLEAN]

BufferTypeOK ==
  /\ wbuf \in [Buffers -> WriteBufferType]
  /\ drain \in [Buffers -> {"new", "sleep", "out"}]
  /\ feed \in [Buffers -> {"on", "ends", "off"}]
  /\ closing \in SUBSET Closable

NewWriteBuffer == [state |-> "none", count |-> 0, err |-> FALSE,
                   out |-> "buffer", held |-> FALSE, dead |-> FALSE]

BufferInit ==
  /\ wbuf = [b \in Buffers |-> NewWriteBuffer]
  /\ drain = [b \in Buffers |-> "new"]
  /\ feed = [b \in Buffers |-> "on"]
  /\ closing = {}

\* Mutated form: done() without the test of the state.
SettledAlways(r) == [r EXCEPT !.state = "end", !.count = @ - 1]

\* add() and done(): the WaitGroup goes up once and down once.
Added(r) == IF r.state = "none" THEN [r EXCEPT !.state = "start", !.count = @ + 1] ELSE r
Settled(r) == IF r.state = "start" THEN [r EXCEPT !.state = "end", !.count = @ - 1] ELSE r
Broke(r) == Settled([r EXCEPT !.err = TRUE])

-----------------------------------------------------------------------------
(* Mutated form: what StoppedReturns of Socket must notice. *)

\* Close without done().
CloseUnsettled(b) ==
  /\ b \notin Closable /\ feed[b] # "on"
  /\ UNCHANGED bufferVars

-----------------------------------------------------------------------------

\* A write to the byte buffer cannot fail, one to the reader can, and fails when the
\* reader's connection is closed; after a failure nothing is written any more.
Write(b) ==
  /\ feed[b] # "off"
  /\ \/ wbuf[b].err /\ UNCHANGED wbuf
     \/ /\ ~wbuf[b].err /\ ~wbuf[b].dead
        /\ wbuf' = [wbuf EXCEPT ![b].held = @ \/ wbuf[b].out = "buffer"]
     \/ /\ ~wbuf[b].err /\ wbuf[b].out = "reader"
        /\ wbuf' = [wbuf EXCEPT ![b] = Broke(@)]
  /\ UNCHANGED <<drain, feed, closing>>

\* WriteTo: Reset copies what was kept to the reader, which may fail; the bytes are
\* gone from the buffer either way.
Reset(b) ==
  /\ drain[b] = "new"
  /\ \/ wbuf' = [wbuf EXCEPT ![b] = [Added(@) EXCEPT !.out = "reader", !.held = FALSE]]
     \/ /\ wbuf[b].held
        /\ wbuf' = [wbuf EXCEPT ![b] =
             [Broke(Added(@)) EXCEPT !.out = "reader", !.held = FALSE]]
  /\ drain' = [drain EXCEPT ![b] = "sleep"]
  /\ UNCHANGED <<feed, closing>>

\* The consumer's WriteTo gives up before Reset: the codec's header cannot be made or
\* written.
WriteToFails(b) ==
  /\ drain[b] = "new"
  /\ drain' = [drain EXCEPT ![b] = "out"]
  /\ UNCHANGED <<wbuf, feed, closing>>

WriteToReturns(b) ==
  /\ drain[b] = "sleep" /\ wbuf[b].count = 0
  /\ drain' = [drain EXCEPT ![b] = "out"]
  /\ UNCHANGED <<wbuf, feed, closing>>

\* Connection.Stop closes the senders: their goroutines write what is queued and end.
CloseSenders(b) ==
  /\ feed[b] = "on"
  /\ feed' = [feed EXCEPT ![b] = "ends"]
  /\ UNCHANGED <<wbuf, drain, closing>>

SenderEnds(b) ==
  /\ feed[b] = "ends"
  /\ feed' = [feed EXCEPT ![b] = "off"]
  /\ UNCHANGED <<wbuf, drain, closing>>

\* Connection.Stop closes the buffer, whose reader is no io.Closer.
Close(b) ==
  /\ b \notin Closable /\ feed[b] # "on"
  /\ wbuf' = [wbuf EXCEPT ![b] = Settled(@)]
  /\ UNCHANGED <<drain, feed, closing>>

\* If it is one, Close looks without the lock: it closes the reader, and leaves the
\* sleeper to the next write, or it goes on to done(), whatever Reset does meanwhile.
CloseLooks(b) ==
  /\ b \in Closable \ closing /\ feed[b] # "on"
  /\ IF wbuf[b].out = "reader"
     THEN wbuf' = [wbuf EXCEPT ![b].dead = TRUE] /\ UNCHANGED closing
     ELSE closing' = closing \cup {b} /\ UNCHANGED wbuf
  /\ UNCHANGED <<drain, feed>>

CloseSettles(b) ==
  /\ b \in closing
  /\ wbuf' = [wbuf EXCEPT ![b] = Settled(@)]
  /\ closing' = closing \ {b}
  /\ UNCHANGED <<drain, feed>>

BufferNext ==
  \E b \in Buffers :
    \/ Write(b) \/ Reset(b) \/ WriteToFails(b) \/ WriteToReturns(b)
    \/ CloseSenders(b) \/ SenderEnds(b)
    \/ Close(b) \/ CloseLooks(b) \/ CloseSettles(b)

BufferSpec == BufferInit /\ [][BufferNext]_bufferVars

-----------------------------------------------------------------------------
(* Properties. *)

\* The WaitGroup is counted down as often as up, however often writes fail and the
\* buffer is closed: a second Done would panic in whoever writes or closes.
SettledOnce == \A b \in Buffers : wbuf[b].count = IF wbuf[b].state = "start" THEN 1 ELSE 0

\* "Reset will flush current buffer data to new writer" (writebuffer.go:12): when
\* writes reach the reader nothing older is left behind.
InOrder == \A b \in Buffers : wbuf[b].out = "reader" => ~wbuf[b].held
=============================================================================

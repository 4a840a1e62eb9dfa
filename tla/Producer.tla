------------------------------ MODULE Producer ------------------------------
(***************************************************************************)
(* One source of a stream: internal/streams/producer.go.                   *)
(*                                                                         *)
(* A Producer dials its url when the first consumer asks, hands out tracks *)
(* of the connection, runs the connection in a goroutine ("worker"), dials *)
(* again when the connection ends, and stops it when nobody reads.  Every  *)
(* method holds p.mu from its first to its last line, so each is one       *)
(* action; the worker between two of its lock sections, and the retry      *)
(* timer, are the members of `workers`.                                    *)
(*                                                                         *)
(* pkg/core supplies the track graph a reconnection rewires: a receiver's  *)
(* children are the consumers' senders that get its packets.               *)
(***************************************************************************)
EXTENDS Integers, Sequences, FiniteSets, Functions

CONSTANTS
  Producers,   \* Producer objects
  Pushed,      \* those made by AddProducer and AddInternalProducer
  Conns,       \* connections: every dial or push makes a new one
  NoConn,      \* Go's nil connection
  SourceOf,    \* the producer a connection is made for
  Medias,      \* positions of the medias a source can offer
  Sendonly,    \* those that take sound from us (two-way audio)
  Flaky,       \* those whose GetTrack can fail during a reconnection
  CodecName,   \* the codec of a media, as MatchCodec compares it
  Subs         \* consumers

ASSUME ProducerAssumption ==
  /\ Pushed \subseteq Producers
  /\ NoConn \notin Conns
  /\ SourceOf \in [Conns -> Producers]
  /\ Medias \subseteq Nat
  /\ Sendonly \subseteq Medias /\ Flaky \subseteq Medias

\* A connection's media list is finite, so the loop over it has a last turn.
ASSUME MediasAreListed ==
  \A ms \in SUBSET Medias : ms # {} => \E m \in ms : \A n \in ms : n <= m

States == {"None", "Medias", "Tracks", "Start", "External", "Internal"}

\* A *core.Codec: GetTrack compares pointers, so a codec is known by the
\* connection whose GetMedias listed it.
Codecs == [of : Conns, media : Medias]

\* A *core.Receiver of a connection.
Tracks == [conn : Conns, codec : Codecs]

Own(c, m) == [conn |-> c, codec |-> [of |-> c, media |-> m]]

Name(t) == CodecName[t.codec.media]

\* A worker goroutine in conn.Start ("run"), on its way to reconnect
\* ("reconnect"), or replaced by the timer of a failed attempt ("wait").
Workers == [prod : Producers, conn : Conns, id : Nat,
            pc : {"run", "reconnect", "wait"}]

VARIABLES
  pstate,      \* Producer.state
  conn,        \* Producer.conn
  receivers,   \* Producer.receivers
  senders,     \* Producer.senders: the consumers whose sound it takes
  workerID,    \* Producer.workerID
  workers,     \* the goroutines and timers that are alive
  life,        \* a connection is free (not made yet), open or closed
  offers,      \* the medias a connection lists
  childs,      \* Node.childs of each track
  talks        \* the connections that play a consumer's sound

vars == <<pstate, conn, receivers, senders, workerID, workers,
          life, offers, childs, talks>>
graph == <<childs, talks>>

TypeOK ==
  /\ pstate \in [Producers -> States]
  /\ conn \in [Producers -> Conns \cup {NoConn}]
  /\ receivers \in [Producers -> Seq(Tracks)]
  /\ senders \in [Producers -> SUBSET Subs]
  /\ workerID \in [Producers -> Nat]
  /\ workers \in SUBSET Workers
  /\ life \in [Conns -> {"free", "open", "closed"}]
  /\ offers \in [Conns -> SUBSET Medias]
  /\ childs \in [Tracks -> Seq(Subs)]
  /\ talks \in [Subs -> SUBSET Conns]

Init ==
  /\ pstate = [p \in Producers |-> "None"]
  /\ conn = [p \in Producers |-> NoConn]
  /\ receivers = [p \in Producers |-> <<>>]
  /\ senders = [p \in Producers |-> {}]
  /\ workerID = [p \in Producers |-> 0]
  /\ workers = {}
  /\ life = [c \in Conns |-> "free"]
  /\ offers = [c \in Conns |-> {}]
  /\ childs = [t \in Tracks |-> <<>>]
  /\ talks = [k \in Subs |-> {}]

-----------------------------------------------------------------------------
(* Mutated forms: what the properties below must notice. *)

\* conn.Stop() detaches the consumers and leaves the transport open.
StopConnKeepsTransport(c, lf, ch, tk) ==
  /\ life' = lf
  /\ childs' = [t \in Tracks |-> IF t.conn = c THEN <<>> ELSE ch[t]]
  /\ talks' = [k \in Subs |-> tk[k] \ {c}]

\* GetTrack and AddTrack without the test of stateNone.
UsableAlways(p) == TRUE

\* GetTrack and AddTrack without p.state = stateTracks.
StaysMedias(p) == pstate

\* stop without workerID++.
KeepWorker(p) == workerID[p]

\* stop without p.state = stateNone.
ForgetsAllButState(p) ==
  /\ conn' = [conn EXCEPT ![p] = NoConn]
  /\ receivers' = [receivers EXCEPT ![p] = <<>>]
  /\ senders' = [senders EXCEPT ![p] = {}]
  /\ UNCHANGED pstate

\* reconnect without the test of workerID.
NeverStale(w) == FALSE

\* reconnect without receiver.Replace(track).
NoReplace(rs, ms, c) == childs

\* reconnect without conn.AddTrack(media, codec, sender).
NoMovedTalks(p, ms, c) == talks

-----------------------------------------------------------------------------
(* Connections (pkg/core). *)

\* A closing receiver walks its children while each of them takes itself
\* out of the same array: the walk jumps over every second child, unless
\* that child is the last one.
Unclosed(s) ==
  IF s = <<>> THEN <<>> ELSE [i \in 1 .. ((Len(s) - 1) \div 2) |-> s[2 * i]]

\* conn.Stop(): the transport closes, the receivers lose their children and the
\* senders leave the consumers whose sound they play; lf, ch and tk are life,
\* childs and talks as the calls before left them.
StopConn(c, lf, ch, tk) ==
  /\ life' = [d \in Conns |-> IF d = c THEN "closed" ELSE lf[d]]
  /\ childs' = [t \in Tracks |-> IF t.conn = c THEN Unclosed(ch[t]) ELSE ch[t]]
  /\ talks' = [k \in Subs |-> tk[k] \ {c}]

\* GetProducer(url) made a connection that lists the medias ms.
Opened(c, p, ms) ==
  /\ life[c] = "free" /\ SourceOf[c] = p
  /\ ms # {}
  /\ offers' = [offers EXCEPT ![c] = ms]

-----------------------------------------------------------------------------
(* The methods consumers call. *)

Dial(p) ==
  /\ pstate[p] = "None" /\ p \notin Pushed
  /\ \E c \in Conns, ms \in SUBSET Medias :
       /\ Opened(c, p, ms)
       /\ life' = [life EXCEPT ![c] = "open"]
       /\ conn' = [conn EXCEPT ![p] = c]
  /\ pstate' = [pstate EXCEPT ![p] = "Medias"]
  /\ UNCHANGED <<receivers, senders, workerID, workers, graph>>

\* GetProducer fails, as it always does for the url of a pushed producer.
DialFails(p) == pstate[p] = "None" /\ UNCHANGED vars

\* get track from none state, add track from none state
Usable(p) == pstate[p] # "None"

\* The track for a codec is there already, or the connection makes one.
Listed(p, k) == \E i \in DOMAIN receivers[p] : receivers[p][i].codec = k

TrackFor(p, k) ==
  IF Listed(p, k)
  THEN receivers[p][CHOOSE i \in DOMAIN receivers[p] : receivers[p][i].codec = k]
  ELSE [conn |-> conn[p], codec |-> k]

Touched(p) == [pstate EXCEPT ![p] = IF @ = "Medias" THEN "Tracks" ELSE @]

GetTrack(p, k) ==
  /\ Usable(p)
  /\ \/ Listed(p, k) /\ UNCHANGED <<pstate, receivers>>
     \/ /\ ~Listed(p, k)
        /\ receivers' = [receivers EXCEPT ![p] = Append(@, TrackFor(p, k))]
        /\ pstate' = Touched(p)
  /\ UNCHANGED <<conn, senders, workerID, workers, life, offers, graph>>

\* Two-way audio: the connection takes the sound of consumer k.
AddTrack(p, k) ==
  /\ Usable(p)
  /\ talks' = [talks EXCEPT ![k] = @ \cup {conn[p]}]
  /\ senders' = [senders EXCEPT ![p] = @ \cup {k}]
  /\ pstate' = Touched(p)
  /\ UNCHANGED <<conn, receivers, workerID, workers, life, offers, childs>>

Start(p) ==
  /\ pstate[p] = "Tracks"
  /\ pstate' = [pstate EXCEPT ![p] = "Start"]
  /\ workerID' = [workerID EXCEPT ![p] = @ + 1]
  /\ workers' = workers \cup
       {[prod |-> p, conn |-> conn[p], id |-> workerID[p] + 1, pc |-> "run"]}
  /\ UNCHANGED <<conn, receivers, senders, life, offers, graph>>

NextWorker(p) == IF pstate[p] = "Start" THEN workerID[p] + 1 ELSE workerID[p]

Forgets(p) ==
  /\ conn' = [conn EXCEPT ![p] = NoConn]
  /\ pstate' = [pstate EXCEPT ![p] = "None"]
  /\ receivers' = [receivers EXCEPT ![p] = <<>>]
  /\ senders' = [senders EXCEPT ![p] = {}]

Stop(p) ==
  /\ pstate[p] \notin {"External", "None"}
  /\ workerID' = [workerID EXCEPT ![p] = NextWorker(p)]
  /\ StopConn(conn[p], life, childs, talks)
  /\ Forgets(p)
  /\ UNCHANGED <<workers, offers>>

-----------------------------------------------------------------------------
(* Producers whose connection comes from outside (stream.go, play.go): a    *)
(* pushed one, and the source of a playback to the camera.                  *)

Push(p, kind) ==
  /\ p \in Pushed /\ pstate[p] = "None"
  /\ \E c \in Conns, ms \in SUBSET Medias :
       /\ Opened(c, p, ms)
       /\ life' = [life EXCEPT ![c] = "open"]
       /\ conn' = [conn EXCEPT ![p] = c]
  /\ pstate' = [pstate EXCEPT ![p] = kind]
  /\ UNCHANGED <<receivers, senders, workerID, workers, graph>>

\* RemoveProducer finds the producer by its connection, which its owner closes.
Remove(p) ==
  /\ p \in Pushed /\ conn[p] # NoConn
  /\ life' = [life EXCEPT ![conn[p]] = "closed"]
  /\ Forgets(p)
  /\ UNCHANGED <<workerID, workers, offers, graph>>

-----------------------------------------------------------------------------
(* The worker goroutine and the retry timer. *)

Stale(w) == w.id # workerID[w.prod]

\* Replace a goroutine by what it goes on to do.
At(w, pc) == [prod |-> w.prod, conn |-> w.conn, id |-> w.id, pc |-> pc]

Becomes(w, pc) == workers' = (workers \ {w}) \cup {At(w, pc)}

Ends(w) == workers' = workers \ {w}

\* conn.Start returned nil: the source ended, or somebody stopped it.
WorkerEnds(w) ==
  /\ w.pc = "run"
  /\ Becomes(w, "reconnect")
  /\ UNCHANGED <<pstate, conn, receivers, senders, workerID, life, offers, graph>>

\* conn.Start returned an error: a worker of a stopped producer ends here.
WorkerFails(w) ==
  /\ w.pc = "run"
  /\ IF Stale(w) THEN Ends(w) ELSE Becomes(w, "reconnect")
  /\ UNCHANGED <<pstate, conn, receivers, senders, workerID, life, offers, graph>>

ReconnectStops(w) ==
  /\ w.pc = "reconnect" /\ Stale(w)
  /\ Ends(w)
  /\ UNCHANGED <<pstate, conn, receivers, senders, workerID, life, offers, graph>>

\* GetProducer failed: time.AfterFunc, later the longer it has failed.
ReconnectFails(w) ==
  /\ w.pc = "reconnect" /\ ~Stale(w)
  /\ Becomes(w, "wait")
  /\ UNCHANGED <<pstate, conn, receivers, senders, workerID, life, offers, graph>>

TimerFires(w) ==
  /\ w.pc = "wait"
  /\ Becomes(w, "reconnect")
  /\ UNCHANGED <<pstate, conn, receivers, senders, workerID, life, offers, graph>>

\* The loop over the new connection's medias moves, for each media, the first
\* receiver whose codec matches: the first receiver of a codec ends at the
\* last media of that codec, and no other receiver of it moves.
Last(ms) == CHOOSE m \in ms : \A n \in ms : n <= m

Matching(ms, t) == {m \in ms : CodecName[m] = Name(t)}

Moves(rs, ms, i) ==
  /\ Matching(ms, rs[i]) # {}
  /\ \A j \in 1 .. (i - 1) : Name(rs[j]) # Name(rs[i])

Moved(rs, ms, c) ==
  [i \in DOMAIN rs |-> IF Moves(rs, ms, i)
                       THEN Own(c, Last(Matching(ms, rs[i]))) ELSE rs[i]]

\* receiver.Replace(track): the track takes over the receiver's children.
MovedChilds(rs, ms, c) ==
  [t \in Tracks |->
     IF \E i \in DOMAIN rs : Moves(rs, ms, i) /\ Moved(rs, ms, c)[i] = t
     THEN childs[rs[CHOOSE i \in DOMAIN rs :
                      Moves(rs, ms, i) /\ Moved(rs, ms, c)[i] = t]]
     ELSE IF \E i \in DOMAIN rs : Moves(rs, ms, i) /\ rs[i] = t THEN <<>>
     ELSE childs[t]]

\* conn.AddTrack for every sender the new connection has a media for.
MovedTalks(p, ms, c) ==
  [k \in Subs |-> IF k \in senders[p] /\ ms \cap Sendonly # {}
                  THEN talks[k] \cup {c} ELSE talks[k]]

Reconnect(w) ==
  /\ w.pc = "reconnect" /\ ~Stale(w)
  /\ \E c \in Conns, ms \in SUBSET Medias, failed \in SUBSET Flaky :
       LET p == w.prod
           ok == (ms \ Sendonly) \ failed IN
       /\ Opened(c, p, ms)
       /\ receivers' = [receivers EXCEPT ![p] = Moved(@, ok, c)]
       /\ StopConn(conn[p], [life EXCEPT ![c] = "open"],
                   MovedChilds(receivers[p], ok, c), MovedTalks(p, ms, c))
       /\ conn' = [conn EXCEPT ![p] = c]
       /\ workers' = (workers \ {w}) \cup
            {[prod |-> p, conn |-> c, id |-> w.id, pc |-> "run"]}
  /\ UNCHANGED <<pstate, senders, workerID>>

-----------------------------------------------------------------------------
(* What the consumers' goroutines do between their calls. *)

\* A sender becomes, or stops being, a child of a track its consumer got.
AppendChild(t, k) ==
  /\ childs' = [childs EXCEPT ![t] = Append(@, k)]
  /\ UNCHANGED <<pstate, conn, receivers, senders, workerID, workers,
                 life, offers, talks>>

\* Where the elements of s that are not k are, and the n-th smallest of such places.
Kept(s, k) == {i \in DOMAIN s : s[i] # k}

Nth(S, n) == CHOOSE i \in S : Cardinality({h \in S : h <= i}) = n

\* Node.RemoveChild, for every sender the consumer has on a track: the others stay as
\* they are, in their order.  (SelectSeq in a form that can be reasoned about.)
RemoveChild(s, k) == [n \in 1 .. Cardinality(Kept(s, k)) |-> s[Nth(Kept(s, k), n)]]

\* cons.Stop(): the consumer's senders leave, its sound ends.
StopConsumer(k) ==
  /\ childs' = [t \in Tracks |-> RemoveChild(childs[t], k)]
  /\ talks' = [talks EXCEPT ![k] = {}]
  /\ UNCHANGED <<pstate, conn, receivers, senders, workerID, workers, life, offers>>

\* A codec a consumer knows: of the connection, or of one before it.
Known(p) ==
  {k \in Codecs : SourceOf[k.of] = p /\ k.media \in offers[k.of] \ Sendonly}

\* A consumer has seen a media of the producer that takes its sound; the connection
\* that listed it may be gone by the time of AddTrack.
HadSpeaker(p) == \E c \in Conns : SourceOf[c] = p /\ offers[c] \cap Sendonly # {}

Method(p) ==
  \/ Dial(p) \/ DialFails(p) \/ Start(p) \/ Stop(p)
  \/ \E k \in Known(p) : GetTrack(p, k)
  \/ HadSpeaker(p) /\ \E k \in Subs : AddTrack(p, k)
  \/ \E kind \in {"External", "Internal"} : Push(p, kind)
  \/ Remove(p)

Worker(w) ==
  \/ WorkerEnds(w) \/ WorkerFails(w) \/ TimerFires(w)
  \/ ReconnectStops(w) \/ ReconnectFails(w) \/ Reconnect(w)

\* What GetTrack may have handed out: a consumer may still hold a track of a
\* connection that is gone.
HandedOut(t) ==
  /\ life[t.conn] # "free" /\ t.codec.media \in offers[t.codec.of]
  /\ SourceOf[t.codec.of] = SourceOf[t.conn]

Consumer(k) ==
  \/ \E t \in Tracks : HandedOut(t) /\ AppendChild(t, k)
  \/ StopConsumer(k)

Next ==
  \/ \E p \in Producers : Method(p)
  \/ \E w \in workers : Worker(w)
  \/ \E k \in Subs : Consumer(k)

Spec == Init /\ [][Next]_vars

\* A stopped connection makes Start return, a goroutine that can run does run,
\* and a timer fires; a source that works need not end.
WorkerOf(c) == \E w \in workers : w.conn = c /\ (w.pc = "run" => life[c] = "closed")
                                  /\ Worker(w)

FairSpec == Spec /\ \A c \in Conns : WF_vars(WorkerOf(c))
-----------------------------------------------------------------------------
(* Properties. *)

Current(p) == {w \in workers : w.prod = p /\ ~Stale(w)}

\* A started producer is watched by exactly one goroutine or timer, which will
\* dial again when the source ends; any other producer is watched by none.
\* (start, stop and reconnect count on workerID for that.)
OneWatcher ==
  \A p \in Producers :
    IF pstate[p] = "Start"
    THEN \E w \in Current(p) : Current(p) = {w} /\ w.conn = conn[p]
    ELSE Current(p) = {}

\* No method runs into a nil connection: p.conn is nil in stateNone only.
ConnUnlessNone == \A p \in Producers : (pstate[p] = "None") <=> (conn[p] = NoConn)

\* "fix ghost exec/ffmpeg": a connection that is open is the connection of its
\* producer, so the next stop ends it.
NoGhost == \A c \in Conns : life[c] = "open" => conn[SourceOf[c]] = c

Swaps(p) == conn[p] # NoConn /\ conn'[p] \notin {conn[p], NoConn}

\* One connection takes the place of another only in a started producer, by the
\* worker that watches it: never under consumers that are still choosing tracks.
OnlyTheWatcherSwaps ==
  [][\A p \in Producers :
       Swaps(p) => /\ pstate[p] = "Start" /\ pstate'[p] = "Start"
                   /\ workerID'[p] = workerID[p]]_vars

\* The next connection offers the codec of the i-th receiver.
OfferedAgain(p, i) ==
  \E m \in offers'[conn'[p]] \ (Sendonly \cup Flaky) : CodecName[m] = Name(receivers[p][i])

Alone(p, i) ==
  \A j \in DOMAIN receivers[p] : Name(receivers[p][j]) = Name(receivers[p][i]) => j = i

\* A reconnection keeps the consumers: a track whose codec the source still offers
\* is on the new connection, with the same senders in the same order.  (When
\* no other receiver has that codec: a second one of it stays behind.)
TracksFollow ==
  [][\A p \in Producers : Swaps(p) =>
       \A i \in DOMAIN receivers[p] : Alone(p, i) /\ OfferedAgain(p, i) =>
         /\ receivers'[p][i].conn = conn'[p]
         /\ childs'[receivers'[p][i]] = childs[receivers[p][i]]]_vars

\* A reconnection keeps two-way audio: who spoke to the old connection speaks to the
\* new one, if it listens, and to the old one no more.
TalkersFollow ==
  [][\A p \in Producers : Swaps(p) =>
       \A k \in Subs :
         /\ conn[p] \notin talks'[k]
         /\ conn[p] \in talks[k] /\ offers'[conn'[p]] \cap Sendonly # {} =>
              conn'[p] \in talks'[k]]_vars

\* A goroutine whose connection is stopped ends: no worker outlives its stop, and
\* no retry timer keeps a stopped source alive.
WorkersEnd == \A c \in Conns : life[c] = "closed" ~> \A w \in workers : w.conn # c

\* The producers, as owners of connections.
LeaseOf == INSTANCE Lease WITH
  Holders <- Producers, Leases <- Conns, None <- NoConn, held <- conn,
  open <- {c \in Conns : life[c] = "open"}, used <- {c \in Conns : life[c] # "free"}

KeepsLease == LeaseOf!Spec
=============================================================================

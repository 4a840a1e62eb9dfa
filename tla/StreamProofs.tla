---------------------------- MODULE StreamProofs ----------------------------
(***************************************************************************)
(* What holds of a stream for any number of producers and consumers,       *)
(* however their calls meet.                                               *)
(***************************************************************************)
EXTENDS Stream, ProducerProofs

\* A goroutine and its local variables.
Atts ==
  [pc : PCs, i : Nat, j : Nat \ {0}, len : Nat, errs : SUBSET Nat, view : Seq(Producers),
   todo : SUBSET Codecs, track : SUBSET Tracks, starts : SUBSET Producers,
   s : Nat \ {0}, then : {"idle", "append"}]

\* Outside of AddConsumer there is nothing left to start.
Through(a) ==
  \/ a.pc \in {"idle", "on", "remove"}
  \/ a.pc \in {"check", "lock", "scan", "halt"} /\ a.then = "idle"

\* The inner loop of AddConsumer is at a producer while it is in its body.
Steady(a) ==
  /\ a \in Atts
  /\ a.pc \in {"medias", "match", "add"} => a.j <= Len(a.view)
  /\ Through(a) => a.starts = {}

\* The goroutines s.pending counts.
InAdd == {"dial", "medias", "match", "add", "release", "panic"}

Coming == {k \in Subs : PC(k) \in InAdd}

Counted == pending = Cardinality(Coming)

\* s.mu is held by the goroutine that is in the loop of stopProducers.
InLoop == {"scan", "halt"}

LoopHoldsMu == \A k \in Subs : PC(k) \in InLoop <=> mu = k

AtOneOfTheList == \A k \in Subs : PC(k) = "halt" => att[k].s <= Len(list)

Players ==
  /\ playing \in {"idle", "search"}
  /\ plays \in SUBSET [prod : Pushed, conn : Conns]
  /\ hung \in SUBSET Conns

Calls ==
  /\ att \in [Subs -> Atts]
  /\ \A k \in Subs : Steady(att[k])
  /\ list \in Seq(Producers)
  /\ mu \in Subs \cup {Nobody}
  /\ consumers \in SUBSET Subs
  /\ LoopHoldsMu /\ AtOneOfTheList

\* Only a connection from outside puts a producer into stateExternal or stateInternal.
FromOutside == \A p \in Producers : pstate[p] \in {"External", "Internal"} => p \in Pushed

\* A producer's receivers are of connections it made; it has none before GetTrack.
OwnReceivers ==
  \A p \in Producers :
    /\ receivers[p] # <<>> => pstate[p] \notin {"None", "Medias"}
    /\ \A i \in DOMAIN receivers[p] :
         LET c == receivers[p][i].conn IN SourceOf[c] = p /\ life[c] # "free"

\* Consumer k has a track of connection c, or speaks to it.
Reads(k, c) == c \in talks[k] \/ \E t \in Tracks : t.conn = c /\ k \in Range(childs[t])

\* A camera connection that is open belongs to a producer that is started, or that
\* waits for it with tracks.
Serves(c) ==
  life[c] = "open" /\ SourceOf[c] \notin Pushed => pstate[SourceOf[c]] \in {"Tracks", "Start"}

\* The track a consumer is about to attach to.
InHand ==
  \A k \in Subs : PC(k) = "add" =>
    \A t \in att[k].track :
      SourceOf[t.conn] = This(k) /\ life[t.conn] # "free" /\ Serves(t.conn)

\* Whoever reads from a source that is not started yet is going to start it.
Served ==
  \A k \in Subs, c \in Conns : Reads(k, c) =>
    /\ life[c] # "free" /\ Serves(c)
    /\ life[c] = "open" /\ pstate[SourceOf[c]] = "Tracks" => SourceOf[c] \in att[k].starts

SInv ==
  /\ IInv /\ Calls /\ Counted /\ Players
  /\ FromOutside /\ OwnReceivers /\ InHand /\ Served

-----------------------------------------------------------------------------
(* What the steps of producers do to those who read from them. *)

\* A step that makes no connection free or open again, and takes no source from those
\* who read from it without closing their connection.
Keeps ==
  /\ \A c \in Conns : life[c] # "free" =>
       life'[c] # "free" /\ (life'[c] = "open" => life[c] = "open")
  /\ \A c \in Conns : life[c] = "open" /\ life'[c] = "open" /\ SourceOf[c] \notin Pushed =>
       /\ pstate[SourceOf[c]] \in {"Tracks", "Start"} =>
            pstate'[SourceOf[c]] \in {"Tracks", "Start"}
       /\ pstate[SourceOf[c]] = "Start" => pstate'[SourceOf[c]] = "Start"

\* And gives nobody a connection but one that is started.
Gentle ==
  /\ \A k \in Subs, c \in Conns :
       Reads(k, c)' => Reads(k, c) \/ (pstate'[SourceOf[c]] = "Start" /\ life'[c] # "free")
  /\ Keeps

Owned == FromOutside /\ OwnReceivers

\* Where the graph and the connections stay, nobody reads more.
LEMMA SameReads ==
  ASSUME UNCHANGED graph, NEW k \in Subs, NEW c \in Conns
  PROVE  Reads(k, c)' <=> Reads(k, c)
  BY DEF Reads, graph

LEMMA UnclosedRange ==
  ASSUME NEW s \in Seq(Subs)
  PROVE  Range(Unclosed(s)) \subseteq Range(s)
<1>1. CASE s = <<>>
  BY <1>1 DEF Unclosed
<1>2. CASE s # <<>>
  <2>1. \A i \in 1 .. ((Len(s) - 1) \div 2) : 2 * i \in 1 .. Len(s)
    BY <1>2
  <2>. QED  BY <1>2, <2>1 DEF Unclosed, Range
<1>. QED  BY <1>1, <1>2

LEMMA RemoveChildRange ==
  ASSUME NEW s \in Seq(Subs), NEW k
  PROVE  /\ Range(RemoveChild(s, k)) \subseteq Range(s)
         /\ k \notin Range(RemoveChild(s, k))
  BY RemoveChildType DEF Range

\* Only the new connection's tracks gain children in a reconnection.
LEMMA MovedRange ==
  ASSUME IInv, NEW rs \in Seq(Tracks), NEW ms \in SUBSET Medias, NEW c \in Conns,
         NEW t \in Tracks, t.conn # c
  PROVE  Range(MovedChilds(rs, ms, c)[t]) \subseteq Range(childs[t])
<1>1. ~ \E i \in DOMAIN rs : Moves(rs, ms, i) /\ Moved(rs, ms, c)[i] = t
  BY DEF Moved, Own
<1>2. Range(<<>>) = {}
  BY DEF Range
<1>. QED  BY <1>1, <1>2 DEF MovedChilds

\* A stopped connection loses readers, and no other gains any.
LEMMA StopConnReads ==
  ASSUME NEW d \in Conns, NEW lf \in [Conns -> {"free", "open", "closed"}],
         NEW ch \in [Tracks -> Seq(Subs)], NEW tk \in [Subs -> SUBSET Conns],
         StopConn(d, lf, ch, tk)
  PROVE  /\ \A t \in Tracks : Range(childs'[t]) \subseteq Range(ch[t])
         /\ \A k \in Subs : talks'[k] \subseteq tk[k]
<1>1. \A t \in Tracks : Range(childs'[t]) \subseteq Range(ch[t])
  BY UnclosedRange DEF StopConn
<1>2. \A k \in Subs : talks'[k] \subseteq tk[k]
  BY DEF StopConn
<1>. QED  BY <1>1, <1>2

\* Fewer children and fewer talkers are fewer readers.
LEMMA FewerReads ==
  ASSUME \A t \in Tracks : Range(childs'[t]) \subseteq Range(childs[t]),
         \A k \in Subs : talks'[k] \subseteq talks[k]
  PROVE  \A k \in Subs, c \in Conns : Reads(k, c)' => Reads(k, c)
<1>. SUFFICES ASSUME NEW k \in Subs, NEW c \in Conns, Reads(k, c)' PROVE Reads(k, c)
  OBVIOUS
<1>1. CASE c \in talks'[k]
  BY <1>1 DEF Reads
<1>2. CASE \E t \in Tracks : t.conn = c /\ k \in Range(childs'[t])
  BY <1>2 DEF Reads
<1>. QED  BY <1>1, <1>2 DEF Reads

LEMMA ReceiverType ==
  ASSUME IInv, NEW p \in Producers, NEW i \in DOMAIN receivers[p]
  PROVE  receivers[p][i] \in Tracks /\ receivers[p][i].conn \in Conns
<1>1. receivers[p] \in Seq(Tracks)
  BY DEF IInv, TypeOK
<1>2. receivers[p][i] \in Tracks
  BY <1>1
<1>. QED  BY <1>2 DEF Tracks

LEMMA DialGentle ==
  ASSUME IInv, Owned, NEW p \in Producers, Dial(p)
  PROVE  Gentle /\ Owned'
<1>. PICK c \in Conns, ms \in SUBSET Medias :
       /\ Opened(c, p, ms)
       /\ life' = [life EXCEPT ![c] = "open"]
       /\ conn' = [conn EXCEPT ![p] = c]
  BY DEF Dial
<1>1. Gentle
  BY SameReads DEF Gentle, Keeps, Dial, Opened, IInv, TypeOK
<1>2. Owned'
  BY DEF Owned, FromOutside, OwnReceivers, Dial, Opened, IInv, TypeOK
<1>. QED  BY <1>1, <1>2

LEMMA PushGentle ==
  ASSUME IInv, Owned, NEW p \in Producers, NEW kind \in {"External", "Internal"}, Push(p, kind)
  PROVE  Gentle /\ Owned'
<1>. PICK c \in Conns, ms \in SUBSET Medias :
       /\ Opened(c, p, ms)
       /\ life' = [life EXCEPT ![c] = "open"]
       /\ conn' = [conn EXCEPT ![p] = c]
  BY DEF Push
<1>1. Gentle
  BY SameReads DEF Gentle, Keeps, Push, Opened, IInv, TypeOK
<1>2. Owned'
  BY DEF Owned, FromOutside, OwnReceivers, Push, Opened, IInv, TypeOK
<1>. QED  BY <1>1, <1>2

LEMMA StartGentle ==
  ASSUME IInv, Owned, NEW p \in Producers, Start(p)
  PROVE  Gentle /\ Owned'
<1>1. Gentle
  BY SameReads DEF Gentle, Keeps, Start, IInv, TypeOK
<1>2. Owned'
  BY DEF Owned, FromOutside, OwnReceivers, Start, IInv, TypeOK
<1>. QED  BY <1>1, <1>2

LEMMA StopGentle ==
  ASSUME IInv, Owned, NEW p \in Producers, Stop(p)
  PROVE  Gentle /\ Owned'
<1>1. StopConn(conn[p], life, childs, talks) /\ Forgets(p)
  BY DEF Stop
<1>2. \A k \in Subs, c \in Conns : Reads(k, c)' => Reads(k, c)
  <2>1. /\ conn[p] \in Conns
        /\ life \in [Conns -> {"free", "open", "closed"}]
        /\ childs \in [Tracks -> Seq(Subs)] /\ talks \in [Subs -> SUBSET Conns]
    BY DEF IInv, TypeOK, ConnUnlessNone, Stop
  <2>2. /\ \A t \in Tracks : Range(childs'[t]) \subseteq Range(childs[t])
        /\ \A k \in Subs : talks'[k] \subseteq talks[k]
    BY <1>1, <2>1, StopConnReads
  <2>. QED  BY <2>2, FewerReads
<1>3. life' = [c \in Conns |-> IF c = conn[p] THEN "closed" ELSE life[c]]
  BY <1>1 DEF StopConn
<1>4. \A c \in Conns : life'[c] = "open" => SourceOf[c] # p
  BY <1>3 DEF IInv, NoGhost
<1>5. Gentle
  BY <1>1, <1>2, <1>3, <1>4, ProducerAssumption DEF Gentle, Keeps, Forgets, IInv, TypeOK
<1>6. Owned'
  <2>1. FromOutside'
    BY <1>1 DEF Owned, FromOutside, Forgets, IInv, TypeOK
  <2>2. \A q \in Producers : receivers'[q] = IF q = p THEN <<>> ELSE receivers[q]
    BY <1>1 DEF Forgets, IInv, TypeOK
  <2>3. \A q \in Producers : q # p => pstate'[q] = pstate[q]
    BY <1>1 DEF Forgets, IInv, TypeOK
  <2>4. \A q \in Producers : \A i \in DOMAIN receivers[q] : receivers[q][i].conn \in Conns
    BY ReceiverType
  <2>5. OwnReceivers'
    BY <1>3, <2>2, <2>3, <2>4 DEF Owned, OwnReceivers
  <2>. QED  BY <2>1, <2>5 DEF Owned
<1>. QED  BY <1>5, <1>6

LEMMA RemoveGentle ==
  ASSUME IInv, Owned, NEW p \in Producers, Remove(p)
  PROVE  Gentle /\ Owned'
<1>1. p \in Pushed /\ conn[p] \in Conns /\ Forgets(p)
  BY DEF Remove, IInv, TypeOK
<1>3. life' = [c \in Conns |-> IF c = conn[p] THEN "closed" ELSE life[c]]
  BY <1>1 DEF Remove, IInv, TypeOK
<1>5. Gentle
  BY <1>1, <1>3, SameReads, ProducerAssumption DEF Gentle, Keeps, Remove, Forgets, IInv, TypeOK
<1>6. Owned'
  <2>1. FromOutside'
    BY <1>1 DEF Owned, FromOutside, Forgets, IInv, TypeOK
  <2>2. \A q \in Producers : receivers'[q] = IF q = p THEN <<>> ELSE receivers[q]
    BY <1>1 DEF Forgets, IInv, TypeOK
  <2>3. \A q \in Producers : q # p => pstate'[q] = pstate[q]
    BY <1>1 DEF Forgets, IInv, TypeOK
  <2>4. \A q \in Producers : \A i \in DOMAIN receivers[q] : receivers[q][i].conn \in Conns
    BY ReceiverType
  <2>5. OwnReceivers'
    BY <1>3, <2>2, <2>3, <2>4 DEF Owned, OwnReceivers
  <2>. QED  BY <2>1, <2>5 DEF Owned
<1>. QED  BY <1>5, <1>6

LEMMA Appended ==
  ASSUME NEW S, NEW s \in Seq(S), NEW e \in S, NEW i \in DOMAIN Append(s, e)
  PROVE  Append(s, e)[i] = e \/ (i \in DOMAIN s /\ Append(s, e)[i] = s[i])
  OBVIOUS

LEMMA GetTrackGentle ==
  ASSUME IInv, Owned, NEW p \in Producers, NEW x \in Codecs, GetTrack(p, x)
  PROVE  Gentle /\ Owned'
<1>1. conn[p] \in Conns /\ SourceOf[conn[p]] = p /\ life[conn[p]] = "open"
  BY DEF IInv, TypeOK, ConnUnlessNone, HeldIsOpen, GetTrack, Usable
<1>2. \A q \in Producers : pstate'[q] # pstate[q] =>
        pstate[q] = "Medias" /\ pstate'[q] = "Tracks"
  BY DEF IInv, TypeOK, GetTrack, Touched
<1>3. Gentle
  BY <1>2, SameReads, ProducerAssumption DEF Gentle, Keeps, GetTrack
<1>4. FromOutside'
  BY <1>2 DEF Owned, FromOutside
<1>5. OwnReceivers'
  <2>1. CASE Listed(p, x) /\ UNCHANGED <<pstate, receivers>>
    BY <2>1 DEF Owned, OwnReceivers, GetTrack
  <2>2. CASE ~Listed(p, x)
    <3>1. /\ receivers' = [receivers EXCEPT ![p] = Append(receivers[p], TrackFor(p, x))]
          /\ pstate' = Touched(p) /\ UNCHANGED life
      BY <2>2 DEF GetTrack
    <3>2. TrackFor(p, x).conn = conn[p]
      BY <2>2 DEF TrackFor
    <3>3. pstate'[p] \notin {"None", "Medias"}
      BY <3>1 DEF GetTrack, Usable, Touched, IInv, TypeOK
    <3>4. receivers[p] \in Seq(Tracks)
      BY DEF IInv, TypeOK
    <3>5. \A i \in DOMAIN receivers'[p] :
            receivers'[p][i] = TrackFor(p, x) \/ (i \in DOMAIN receivers[p] /\ receivers'[p][i] = receivers[p][i])
      <4>1. TrackFor(p, x) \in Tracks
        BY <1>1, <2>2 DEF TrackFor, Tracks
      <4>2. receivers'[p] = Append(receivers[p], TrackFor(p, x))
        BY <3>1 DEF IInv, TypeOK
      <4>. QED  BY <3>4, <4>1, <4>2, Appended
    <3>6. \A q \in Producers : q # p => receivers'[q] = receivers[q] /\ pstate'[q] = pstate[q]
      BY <3>1 DEF Touched, IInv, TypeOK
    <3>. QED  BY <1>1, <3>1, <3>2, <3>3, <3>5, <3>6 DEF Owned, OwnReceivers
  <2>. QED  BY <2>1, <2>2 DEF GetTrack
<1>. QED  BY <1>3, <1>4, <1>5 DEF Owned

\* A reconnection gives the readers of a producer the connection it has started.
LEMMA ReconnectGentle ==
  ASSUME IInv, Owned, NEW w \in workers, Reconnect(w)
  PROVE  Gentle /\ Owned'
<1>. DEFINE p == w.prod
<1>1. PICK c \in Conns, ms \in SUBSET Medias, failed \in SUBSET Flaky :
        /\ Opened(c, p, ms)
        /\ receivers' = [receivers EXCEPT
                           ![p] = Moved(receivers[p], (ms \ Sendonly) \ failed, c)]
        /\ StopConn(conn[p], [life EXCEPT ![c] = "open"],
                    MovedChilds(receivers[p], (ms \ Sendonly) \ failed, c),
                    MovedTalks(p, ms, c))
  BY DEF Reconnect
<1>. DEFINE ok == (ms \ Sendonly) \ failed
<1>2. p \in Producers /\ pstate[p] = "Start" /\ UNCHANGED pstate
  BY DEF IInv, TypeOK, Workers, WorkerServes, Reconnect, Stale
<1>3. conn[p] \in Conns /\ life[conn[p]] = "open" /\ SourceOf[conn[p]] = p
  BY <1>2 DEF IInv, TypeOK, ConnUnlessNone, HeldIsOpen
<1>4. life[c] = "free" /\ SourceOf[c] = p /\ c # conn[p]
  BY <1>1, <1>3 DEF Opened
<1>5. life' = [d \in Conns |-> IF d = conn[p] THEN "closed"
                               ELSE IF d = c THEN "open" ELSE life[d]]
  BY <1>1 DEF StopConn, IInv, TypeOK
<1>6. ASSUME NEW k \in Subs, NEW d \in Conns, Reads(k, d)', d # c
      PROVE  Reads(k, d)
  <2>1. /\ MovedChilds(receivers[p], ok, c) \in [Tracks -> Seq(Subs)]
        /\ MovedTalks(p, ms, c) \in [Subs -> SUBSET Conns]
        /\ receivers[p] \in Seq(Tracks)
        /\ [life EXCEPT ![c] = "open"] \in [Conns -> {"free", "open", "closed"}]
    BY <1>2, MovedChildsType DEF IInv, TypeOK, MovedTalks
  <2>2. /\ \A t \in Tracks :
             Range(childs'[t]) \subseteq Range(MovedChilds(receivers[p], ok, c)[t])
        /\ \A l \in Subs : talks'[l] \subseteq MovedTalks(p, ms, c)[l]
    BY <1>1, <1>3, <2>1, StopConnReads
  <2>3. CASE d \in talks'[k]
    BY <1>6, <2>2, <2>3 DEF MovedTalks, Reads
  <2>4. ASSUME NEW t \in Tracks, t.conn = d, k \in Range(childs'[t])
        PROVE  k \in Range(childs[t])
    BY <1>6, <2>1, <2>2, <2>4, MovedRange
  <2>. QED  BY <1>6, <2>3, <2>4 DEF Reads
<1>7. Gentle
  BY <1>2, <1>4, <1>5, <1>6 DEF Gentle, Keeps
<1>8. OwnReceivers'
  <2>1. receivers[p] \in Seq(Tracks)
    BY <1>2 DEF IInv, TypeOK
  <2>2. \A i \in DOMAIN receivers'[p] : /\ i \in DOMAIN receivers[p]
                                        /\ receivers'[p][i].conn \in {c, receivers[p][i].conn}
    BY <1>1, <1>2, <2>1 DEF IInv, TypeOK, Moved, Own
  <2>3. \A q \in Producers : q # p => receivers'[q] = receivers[q]
    BY <1>1, <1>2 DEF IInv, TypeOK
  <2>4. \A q \in Producers : \A i \in DOMAIN receivers[q] : receivers[q][i].conn \in Conns
    BY ReceiverType
  <2>5. \A d \in Conns : life[d] # "free" => life'[d] # "free"
    BY <1>5
  <2>6. life'[c] # "free"
    BY <1>4, <1>5
  <2>7. ASSUME NEW q \in Producers
        PROVE  /\ receivers'[q] # <<>> => pstate'[q] \notin {"None", "Medias"}
               /\ \A i \in DOMAIN receivers'[q] :
                    SourceOf[receivers'[q][i].conn] = q /\ life'[receivers'[q][i].conn] # "free"
    <3>1. CASE q = p
      BY <1>2, <1>4, <2>2, <2>4, <2>5, <2>6, <3>1 DEF Owned, OwnReceivers
    <3>2. CASE q # p
      BY <1>2, <2>3, <2>4, <2>5, <3>2 DEF Owned, OwnReceivers
    <3>. QED  BY <3>1, <3>2
  <2>. QED  BY <2>7 DEF OwnReceivers
<1>9. FromOutside'
  BY <1>2 DEF Owned, FromOutside
<1>. QED  BY <1>7, <1>8, <1>9 DEF Owned

LEMMA SameGentle ==
  ASSUME IInv, Owned, UNCHANGED <<pstate, receivers, life, graph>>
  PROVE  Gentle /\ Owned'
<1>1. Gentle
  BY SameReads DEF Gentle, Keeps
<1>2. Owned'
  BY DEF Owned, FromOutside, OwnReceivers
<1>. QED  BY <1>1, <1>2

LEMMA WorkerGentle ==
  ASSUME IInv, Owned, NEW w \in workers, Worker(w)
  PROVE  Gentle /\ Owned'
<1>1. CASE Reconnect(w)
  BY <1>1, ReconnectGentle
<1>2. CASE ~Reconnect(w)
  BY <1>2, SameGentle DEF Worker, WorkerEnds, WorkerFails, TimerFires, ReconnectStops,
                          ReconnectFails
<1>. QED  BY <1>1, <1>2

LEMMA StopConsumerGentle ==
  ASSUME IInv, Owned, NEW k \in Subs, StopConsumer(k)
  PROVE  Gentle /\ Owned'
<1>1. \A l \in Subs, c \in Conns : Reads(l, c)' => Reads(l, c)
  <2>1. \A t \in Tracks : Range(childs'[t]) \subseteq Range(childs[t])
    BY RemoveChildRange DEF StopConsumer, IInv, TypeOK
  <2>2. \A l \in Subs : talks'[l] \subseteq talks[l]
    BY DEF StopConsumer, IInv, TypeOK
  <2>. QED  BY <2>1, <2>2, FewerReads
<1>2. UNCHANGED <<pstate, receivers, life>>
  BY DEF StopConsumer
<1>3. Gentle
  BY <1>1, <1>2 DEF Gentle, Keeps
<1>4. Owned'
  BY <1>2 DEF Owned, FromOutside, OwnReceivers
<1>. QED  BY <1>3, <1>4

\* Two-way audio: consumer k speaks to the connection at hand.
LEMMA AddTrackKeeps ==
  ASSUME IInv, Owned, NEW p \in Producers, NEW k \in Subs, AddTrack(p, k)
  PROVE  /\ Keeps /\ Owned'
         /\ \A l \in Subs, c \in Conns : Reads(l, c)' => Reads(l, c) \/ (l = k /\ c = conn[p])
         /\ conn[p] \in Conns /\ SourceOf[conn[p]] = p /\ life'[conn[p]] = "open"
         /\ p \notin Pushed => pstate'[p] \in {"Tracks", "Start"}
<1>1. conn[p] \in Conns /\ SourceOf[conn[p]] = p /\ life[conn[p]] = "open"
  BY DEF IInv, TypeOK, ConnUnlessNone, HeldIsOpen, AddTrack, Usable
<1>2. \A q \in Producers : pstate'[q] # pstate[q] =>
        pstate[q] = "Medias" /\ pstate'[q] = "Tracks"
  BY DEF IInv, TypeOK, AddTrack, Touched
<1>3. UNCHANGED <<receivers, life, childs>>
  BY DEF AddTrack
<1>4. Keeps
  BY <1>2, <1>3, ProducerAssumption DEF Keeps
<1>5. Owned'
  BY <1>2, <1>3 DEF Owned, FromOutside, OwnReceivers
<1>6. ASSUME NEW l \in Subs, NEW c \in Conns, Reads(l, c)', ~(l = k /\ c = conn[p])
      PROVE  Reads(l, c)
  <2>1. CASE c \in talks'[l]
    BY <1>6, <2>1 DEF AddTrack, Reads, IInv, TypeOK
  <2>2. CASE \E t \in Tracks : t.conn = c /\ l \in Range(childs'[t])
    BY <1>3, <2>2 DEF Reads
  <2>. QED  BY <1>6, <2>1, <2>2 DEF Reads
<1>7. p \notin Pushed => pstate'[p] \in {"Tracks", "Start"}
  BY DEF AddTrack, Usable, Touched, IInv, TypeOK, States, Owned, FromOutside
<1>. QED  BY <1>1, <1>3, <1>4, <1>5, <1>6, <1>7

LEMMA AppendChildKeeps ==
  ASSUME IInv, Owned, NEW t \in Tracks, NEW k \in Subs, AppendChild(t, k)
  PROVE  /\ Keeps /\ Owned'
         /\ \A l \in Subs, c \in Conns : Reads(l, c)' => Reads(l, c) \/ (l = k /\ c = t.conn)
<1>1. UNCHANGED <<pstate, receivers, life, talks>>
  BY DEF AppendChild
<1>2. Keeps /\ Owned'
  BY <1>1 DEF Keeps, Owned, FromOutside, OwnReceivers
<1>3. ASSUME NEW u \in Tracks, NEW l \in Subs, l \in Range(childs'[u]), ~(u = t /\ l = k)
      PROVE  l \in Range(childs[u])
  <2>1. CASE u # t
    BY <1>3, <2>1 DEF AppendChild, IInv, TypeOK
  <2>2. CASE u = t
    <3>1. childs[t] \in Seq(Subs) /\ childs'[t] = Append(childs[t], k)
      BY DEF AppendChild, IInv, TypeOK
    <3>2. PICK i \in DOMAIN Append(childs[t], k) : Append(childs[t], k)[i] = l
      BY <1>3, <2>2, <3>1 DEF Range
    <3>3. i \in DOMAIN childs[t] /\ childs[t][i] = l
      BY <1>3, <2>2, <3>1, <3>2, Appended
    <3>. QED  BY <2>2, <3>3 DEF Range
  <2>. QED  BY <2>1, <2>2
<1>4. ASSUME NEW l \in Subs, NEW c \in Conns, Reads(l, c)', ~(l = k /\ c = t.conn)
      PROVE  Reads(l, c)
  <2>1. CASE c \in talks'[l]
    BY <1>1, <2>1 DEF Reads
  <2>2. CASE \E u \in Tracks : u.conn = c /\ l \in Range(childs'[u])
    BY <1>3, <1>4, <2>2 DEF Reads
  <2>. QED  BY <1>4, <2>1, <2>2 DEF Reads
<1>. QED  BY <1>2, <1>4

-----------------------------------------------------------------------------
(* What is served stays served, by any step that keeps what the readers rely on. *)

LEMMA ServedKept ==
  ASSUME IInv', Served, Keeps,
         \A k \in Subs : \A p \in att[k].starts : p \in att'[k].starts \/ pstate'[p] # "Tracks",
         \A k \in Subs, c \in Conns : Reads(k, c)' =>
           \/ Reads(k, c)
           \/ pstate'[SourceOf[c]] = "Start" /\ life'[c] # "free"
           \/ life'[c] # "free" /\ Serves(c)' /\ SourceOf[c] \in att'[k].starts
  PROVE  Served'
<1>. SUFFICES ASSUME NEW k \in Subs, NEW c \in Conns, Reads(k, c)'
     PROVE  /\ life'[c] # "free" /\ Serves(c)'
            /\ life'[c] = "open" /\ pstate'[SourceOf[c]] = "Tracks" =>
                 SourceOf[c] \in att'[k].starts
  BY DEF Served
<1>1. SourceOf[c] \in Pushed => pstate'[SourceOf[c]] # "Tracks"
  BY DEF IInv, PushedNeverStarts
<1>2. CASE Reads(k, c)
  <2>1. /\ life[c] # "free" /\ Serves(c)
        /\ life[c] = "open" /\ pstate[SourceOf[c]] = "Tracks" => SourceOf[c] \in att[k].starts
    BY <1>2 DEF Served
  <2>2. life'[c] # "free" /\ Serves(c)'
    BY <2>1 DEF Keeps, Serves
  <2>. QED  BY <1>1, <2>1, <2>2 DEF Keeps, Serves
<1>3. CASE pstate'[SourceOf[c]] = "Start" /\ life'[c] # "free"
  BY <1>3 DEF Serves
<1>4. CASE life'[c] # "free" /\ Serves(c)' /\ SourceOf[c] \in att'[k].starts
  BY <1>4
<1>. QED  BY <1>2, <1>3, <1>4

LEMMA InHandKept ==
  ASSUME att \in [Subs -> Atts], InHand, Keeps,
         \A k \in Subs : att'[k].pc = "add" => att'[k] = att[k]
  PROVE  InHand'
<1>. SUFFICES ASSUME NEW k \in Subs, att'[k].pc = "add", NEW t \in att[k].track
     PROVE  SourceOf[t.conn] = This(k)' /\ life'[t.conn] # "free" /\ Serves(t.conn)'
  BY DEF InHand, PC
<1>1. att'[k] = att[k] /\ PC(k) = "add"
  BY DEF PC
<1>2. t.conn \in Conns
  BY DEF Atts, Tracks
<1>3. SourceOf[t.conn] = This(k) /\ life[t.conn] # "free" /\ Serves(t.conn)
  BY <1>1 DEF InHand
<1>4. This(k)' = This(k)
  BY <1>1 DEF This
<1>. QED  BY <1>2, <1>3, <1>4 DEF Keeps, Serves

-----------------------------------------------------------------------------
(* A step of a goroutine sets its own program counter and variables. *)

LEMMA SetsOne ==
  ASSUME att \in [Subs -> Atts], NEW k \in Subs, NEW a \in Atts, Sets(k, a)
  PROVE  /\ att' \in [Subs -> Atts] /\ att'[k] = a
         /\ \A l \in Subs : l # k => att'[l] = att[l]
  BY DEF Sets

\* Outside of the loop of stopProducers, and where it goes on, s.mu stays with its holder.
LEMMA CallsKept ==
  ASSUME Calls, NEW k \in Subs, NEW a, Steady(a), Sets(k, a),
         UNCHANGED <<list, mu>>, consumers' \in SUBSET Subs,
         a.pc \in InLoop <=> PC(k) \in InLoop, a.pc = "halt" => a.s <= Len(list)
  PROVE  Calls'
<1>1. /\ att' \in [Subs -> Atts] /\ att'[k] = a
      /\ \A l \in Subs : l # k => att'[l] = att[l]
  BY SetsOne DEF Calls, Steady
<1>2. \A l \in Subs : Steady(att'[l])
  BY <1>1 DEF Calls
<1>3. LoopHoldsMu'
  BY <1>1 DEF Calls, LoopHoldsMu, PC
<1>4. AtOneOfTheList'
  BY <1>1 DEF Calls, AtOneOfTheList, PC
<1>5. list' \in Seq(Producers) /\ mu' \in Subs \cup {Nobody}
  BY DEF Calls
<1>6. (\A l \in Subs : Steady(att[l]))'
  BY <1>2 DEF Steady, Through
<1>. QED  BY <1>1, <1>3, <1>4, <1>5, <1>6 DEF Calls

LEMMA CountedKept ==
  ASSUME Calls, Counted, NEW k \in Subs, NEW a, Steady(a), Sets(k, a), UNCHANGED pending,
         a.pc \in InAdd <=> PC(k) \in InAdd
  PROVE  Counted'
<1>1. att'[k] = a /\ \A l \in Subs : l # k => att'[l] = att[l]
  BY SetsOne DEF Calls, Steady
<1>2. Coming' = Coming
  BY <1>1 DEF Coming, PC
<1>. QED  BY <1>2 DEF Counted

LEMMA PlayersKept == ASSUME Players, UNCHANGED player PROVE Players'
  BY DEF Players, player

\* A goroutine's step that gives it no reading.
LEMMA StepKept ==
  ASSUME SInv, IInv', Gentle, Owned', Calls', Counted', Players',
         NEW k \in Subs, NEW a \in Atts, Sets(k, a), a.pc # "add",
         \A p \in att[k].starts : p \in a.starts \/ pstate'[p] # "Tracks"
  PROVE  SInv'
<1>1. att'[k] = a /\ \A l \in Subs : l # k => att'[l] = att[l]
  BY SetsOne DEF SInv, Calls
<1>2. Served'
  <2>1. \A l \in Subs : \A p \in att[l].starts : p \in att'[l].starts \/ pstate'[p] # "Tracks"
    BY <1>1
  <2>. QED  BY <2>1, ServedKept DEF SInv, Gentle
<1>3. InHand'
  BY <1>1, InHandKept DEF SInv, Calls, Gentle
<1>. QED  BY <1>2, <1>3 DEF SInv, Owned

\* Such a step of AddConsumer, RemoveConsumer or stopProducers that touches no
\* variable of the stream.
LEMMA LocalStep ==
  ASSUME SInv, IInv', Gentle, Owned', NEW k \in Subs, NEW a, Sets(k, a), UNCHANGED others,
         Steady(a), a.pc # "add",
         a.pc \in InLoop <=> PC(k) \in InLoop, a.pc = "halt" => a.s <= Len(list),
         a.pc \in InAdd <=> PC(k) \in InAdd,
         \A p \in att[k].starts : p \in a.starts \/ pstate'[p] # "Tracks"
  PROVE  SInv'
<1>1. UNCHANGED <<list, mu, pending, consumers>> /\ UNCHANGED player
  BY DEF others
<1>2. consumers' \in SUBSET Subs
  BY <1>1 DEF SInv, Calls
<1>3. Calls'
  BY <1>1, <1>2, CallsKept DEF SInv
<1>4. Counted' /\ Players'
  BY <1>1, CountedKept, PlayersKept DEF SInv
<1>5. a \in Atts
  BY DEF Steady
<1>. QED  BY <1>3, <1>4, <1>5, StepKept

\* Nothing happens to the producers.
LEMMA StutterGentle ==
  ASSUME IInv, Owned, UNCHANGED vars
  PROVE  IInv' /\ Gentle /\ Owned'
<1>1. UNCHANGED <<pstate, receivers, life, graph>>
  BY DEF vars, graph
<1>. QED  BY <1>1, StutterIInv, SameGentle

LEMMA NextMediaSets ==
  ASSUME list \in Seq(Producers), NEW k \in Subs, NEW a \in Atts, NextMedia(k, a)
  PROVE  \E b : /\ Sets(k, b) /\ Steady(b)
                /\ b.pc \in {"dial", "release"} /\ b.starts = a.starts /\ b.s = a.s
<1>1. CASE a.i < Len(ConsMedias[k])
  <2>. DEFINE b == [a EXCEPT !.pc = "dial", !.i = @ + 1, !.j = 1, !.view = list]
  <2>1. a.i + 1 \in Nat
    BY DEF Atts
  <2>2. ASSUME NEW i \in Nat, NEW j \in Nat \ {0}, NEW view \in Seq(Producers)
        PROVE  Steady([a EXCEPT !.pc = "dial", !.i = i, !.j = j, !.view = view])
    BY DEF Steady, Atts, PCs, Through
  <2>3. Steady(b)
    <3>1. 1 \in Nat \ {0}
      OBVIOUS
    <3>. QED  BY <2>1, <2>2, <3>1, Zenon
  <2>4. b.pc = "dial" /\ b.starts = a.starts /\ b.s = a.s
    BY DEF Atts
  <2>. QED  BY <1>1, <2>3, <2>4 DEF NextMedia
<1>2. CASE ~(a.i < Len(ConsMedias[k]))
  <2>. DEFINE b == [a EXCEPT !.pc = "release", !.todo = {}, !.track = {}, !.view = <<>>]
  <2>1. ASSUME NEW view \in Seq(Producers)
        PROVE  Steady([a EXCEPT !.pc = "release", !.todo = {}, !.track = {}, !.view = view])
    BY DEF Steady, Atts, PCs, Through
  <2>2. Steady(b)
    <3>1. <<>> \in Seq(Producers)
      OBVIOUS
    <3>. QED  BY <2>1, <3>1, Zenon
  <2>3. b.pc = "release" /\ b.starts = a.starts /\ b.s = a.s
    BY DEF Atts
  <2>. QED  BY <1>2, <2>2, <2>3 DEF NextMedia
<1>. QED  BY <1>1, <1>2

LEMMA FoundSets ==
  ASSUME list \in Seq(Producers), NEW k \in Subs, att[k] \in Atts,
         att[k].j <= Len(att[k].view), NEW todo \in SUBSET Codecs, Found(k, todo)
  PROVE  \E b : /\ Sets(k, b) /\ Steady(b)
                /\ b.pc \in {"dial", "release", "match"}
                /\ b.starts = att[k].starts \cup {This(k)} /\ b.s = att[k].s
<1>. DEFINE a == [att[k] EXCEPT !.pc = "match", !.todo = todo, !.track = {},
                                !.starts = @ \cup {This(k)}]
<1>1. This(k) \in Producers
  BY DEF This, Atts
<1>2. /\ a \in Atts /\ Steady(a) /\ a.pc = "match"
      /\ a.starts = att[k].starts \cup {This(k)} /\ a.s = att[k].s
  BY <1>1 DEF Steady, Atts, PCs, Through
<1>3. CASE Wish(k).all
  BY <1>2, <1>3 DEF Found
<1>4. CASE ~Wish(k).all
  <2>1. NextMedia(k, a)
    BY <1>4 DEF Found
  <2>. HIDE DEF a
  <2>. QED  BY <1>2, <2>1, NextMediaSets
<1>. QED  BY <1>3, <1>4

-----------------------------------------------------------------------------
(* AddConsumer, step by step. *)

\* A goroutine's program counter and variables are what they should be.
LEMMA OwnVariables ==
  ASSUME SInv, NEW k \in Subs
  PROVE  att[k] \in Atts /\ Steady(att[k])
  BY DEF SInv, Calls

LEMMA AtHand ==
  ASSUME SInv, NEW k \in Subs, PC(k) \in {"medias", "match", "add"} \/ AtProducer(k)
  PROVE  This(k) \in Producers /\ att[k].j <= Len(att[k].view)
<1>1. att[k] \in Atts /\ Steady(att[k])
  BY OwnVariables
<1>2. att[k].j <= Len(att[k].view)
  BY <1>1 DEF Steady, PC, AtProducer
<1>3. att[k].j \in DOMAIN att[k].view /\ att[k].view \in Seq(Producers)
  BY <1>1, <1>2 DEF Atts
<1>. QED  BY <1>2, <1>3 DEF This

\* A step that only sets the goroutine's own variables.
LEMMA QuietStep ==
  ASSUME SInv, NEW k \in Subs, NEW a, Sets(k, a), UNCHANGED vars, UNCHANGED others,
         Steady(a), a.pc # "add",
         a.pc \in InLoop <=> PC(k) \in InLoop, a.pc = "halt" => a.s <= Len(list),
         a.pc \in InAdd <=> PC(k) \in InAdd,
         att[k].starts \subseteq a.starts
  PROVE  SInv'
<1>1. IInv' /\ Gentle /\ Owned'
  BY StutterGentle DEF SInv, Owned
<1>. QED  BY <1>1, LocalStep

\* The next turn of the inner loop.
LEMMA NextTurn ==
  ASSUME NEW a \in Atts
  PROVE  LET b == [a EXCEPT !.pc = "dial", !.j = @ + 1]
         IN  Steady(b) /\ b.pc = "dial" /\ b.starts = a.starts /\ b.s = a.s
<1>1. a.j + 1 \in Nat \ {0}
  BY DEF Atts
<1>2. ASSUME NEW j \in Nat \ {0}
      PROVE  LET b == [a EXCEPT !.pc = "dial", !.j = j]
             IN  Steady(b) /\ b.pc = "dial" /\ b.starts = a.starts /\ b.s = a.s
  BY DEF Steady, Atts, PCs, Through
<1>. QED  BY <1>1, <1>2, Zenon

LEMMA BrokenType ==
  ASSUME NEW k \in Subs, att[k] \in Atts
  PROVE  /\ Broken(k) \in Atts /\ Broken(k).starts = att[k].starts
         /\ Broken(k).s = att[k].s
         /\ \A todo \in SUBSET Codecs :
              LET a == [Broken(k) EXCEPT !.todo = todo]
              IN  /\ a \in Atts /\ a.pc = att[k].pc /\ a.starts = att[k].starts
                  /\ a.j = att[k].j /\ a.view = att[k].view /\ a.s = att[k].s
<1>1. att[k].errs \cup {att[k].j} \in SUBSET Nat
  BY DEF Atts
<1>2. ASSUME NEW errs \in SUBSET Nat
      PROVE  LET b == [att[k] EXCEPT !.errs = errs]
             IN  /\ b \in Atts /\ b.starts = att[k].starts /\ b.pc = att[k].pc
                 /\ b.j = att[k].j /\ b.view = att[k].view /\ b.s = att[k].s
  BY DEF Atts
<1>3. /\ Broken(k) \in Atts /\ Broken(k).starts = att[k].starts
      /\ Broken(k).pc = att[k].pc
      /\ Broken(k).j = att[k].j /\ Broken(k).view = att[k].view /\ Broken(k).s = att[k].s
  BY <1>1, <1>2, Zenon DEF Broken
<1>4. ASSUME NEW b \in Atts, NEW todo \in SUBSET Codecs
      PROVE  LET a == [b EXCEPT !.todo = todo]
             IN  /\ a \in Atts /\ a.pc = b.pc /\ a.starts = b.starts
                 /\ a.j = b.j /\ a.view = b.view /\ a.s = b.s
  BY DEF Atts
<1>. QED  BY <1>3, <1>4

LEMMA NoMoreProducersInv == ASSUME SInv, NEW k \in Subs, NoMoreProducers(k) PROVE SInv'
<1>1. PICK b : /\ Sets(k, b) /\ Steady(b)
               /\ b.pc \in {"dial", "release"} /\ b.starts = att[k].starts
  BY OwnVariables, NextMediaSets DEF NoMoreProducers, SInv, Calls
<1>. QED  BY <1>1, QuietStep DEF NoMoreProducers, InLoop, InAdd

LEMMA IndexPanicsInv == ASSUME SInv, NEW k \in Subs, IndexPanics(k) PROVE SInv'
<1>. DEFINE a == [att[k] EXCEPT !.pc = "panic"]
<1>1. Steady(a) /\ a.pc = "panic" /\ a.starts = att[k].starts
  BY OwnVariables DEF Steady, Atts, PCs, Through
<1>2. Sets(k, a) /\ UNCHANGED vars /\ UNCHANGED others /\ PC(k) = "dial"
  BY DEF IndexPanics, Goes, AtProducer
<1>. HIDE DEF a
<1>. QED  BY <1>1, <1>2, QuietStep DEF InLoop, InAdd

LEMMA SkipBrokenInv == ASSUME SInv, NEW k \in Subs, SkipBroken(k) PROVE SInv'
<1>. DEFINE a == [att[k] EXCEPT !.pc = "dial", !.j = @ + 1]
<1>1. Steady(a) /\ a.pc = "dial" /\ a.starts = att[k].starts
  BY OwnVariables, NextTurn
<1>2. Sets(k, a) /\ UNCHANGED vars /\ UNCHANGED others /\ PC(k) = "dial"
  BY DEF SkipBroken, NextProducer, AtProducer
<1>. HIDE DEF a
<1>. QED  BY <1>1, <1>2, QuietStep DEF InLoop, InAdd

LEMMA NoMatchInv == ASSUME SInv, NEW k \in Subs, NoMatch(k) PROVE SInv'
<1>. DEFINE a == [att[k] EXCEPT !.pc = "dial", !.j = @ + 1]
<1>1. Steady(a) /\ a.pc = "dial" /\ a.starts = att[k].starts
  BY OwnVariables, NextTurn
<1>2. Sets(k, a) /\ UNCHANGED vars /\ UNCHANGED others /\ PC(k) = "match"
  BY DEF NoMatch, NextProducer
<1>. HIDE DEF a
<1>. QED  BY <1>1, <1>2, QuietStep DEF InLoop, InAdd

LEMMA DialOneFailsInv == ASSUME SInv, NEW k \in Subs, DialOneFails(k) PROVE SInv'
<1>. DEFINE a == [Broken(k) EXCEPT !.pc = "dial", !.j = @ + 1]
<1>1. Steady(a) /\ a.pc = "dial" /\ a.starts = att[k].starts
  BY OwnVariables, BrokenType, NextTurn
<1>2. Sets(k, a) /\ UNCHANGED vars /\ UNCHANGED others /\ PC(k) = "dial"
  BY DEF DialOneFails, DialFails, NextProducer, MayDial, AtProducer
<1>. HIDE DEF a
<1>. QED  BY <1>1, <1>2, QuietStep DEF InLoop, InAdd

LEMMA DialOneInv == ASSUME SInv, NEW k \in Subs, DialOne(k) PROVE SInv'
<1>. DEFINE a == [att[k] EXCEPT !.pc = "medias"]
<1>1. This(k) \in Producers /\ att[k].j <= Len(att[k].view)
  BY AtHand DEF DialOne, MayDial
<1>2. Steady(a) /\ a.pc = "medias" /\ a.starts = att[k].starts
  BY <1>1, OwnVariables DEF Steady, Atts, PCs, Through
<1>3. Sets(k, a) /\ UNCHANGED others /\ PC(k) = "dial"
  BY DEF DialOne, Goes, MayDial, AtProducer
<1>4. IInv' /\ Gentle /\ Owned'
  BY <1>1, DialIInv, DialGentle, StutterGentle DEF DialOne, SInv, Owned
<1>. HIDE DEF a
<1>. QED  BY <1>2, <1>3, <1>4, LocalStep DEF InLoop, InAdd

LEMMA GetMediasInv == ASSUME SInv, NEW k \in Subs, GetMedias(k) PROVE SInv'
<1>. DEFINE todo == Listing(conn[This(k)])
            a == [att[k] EXCEPT !.pc = "match", !.todo = todo]
<1>1. This(k) \in Producers /\ att[k].j <= Len(att[k].view)
  BY AtHand DEF GetMedias
<1>2. todo \in SUBSET Codecs
  BY <1>1 DEF Listing, Codecs, SInv, IInv, TypeOK
<1>. HIDE DEF todo
<1>3. Steady(a) /\ a.pc = "match" /\ a.starts = att[k].starts
  BY <1>1, <1>2, OwnVariables DEF Steady, Atts, PCs, Through
<1>4. Sets(k, a) /\ UNCHANGED vars /\ UNCHANGED others /\ PC(k) = "medias"
  BY DEF GetMedias, todo
<1>. HIDE DEF a
<1>. QED  BY <1>3, <1>4, QuietStep DEF InLoop, InAdd

LEMMA MatchFailsInv == ASSUME SInv, NEW k \in Subs, MatchFails(k) PROVE SInv'
<1>. DEFINE a == [Broken(k) EXCEPT !.todo = After(k)]
<1>1. att[k].j <= Len(att[k].view) /\ att[k].pc = "match"
  BY AtHand DEF MatchFails, PC
<1>2. After(k) \in SUBSET Codecs
  BY OwnVariables DEF After, Atts
<1>3. Steady(a) /\ a.pc = "match" /\ a.starts = att[k].starts
  <2>1. /\ a \in Atts /\ a.pc = "match" /\ a.starts = att[k].starts
        /\ a.j <= Len(a.view)
    BY <1>1, <1>2, OwnVariables, BrokenType
  <2>. HIDE DEF a
  <2>. QED  BY <2>1 DEF Steady, Through
<1>4. Sets(k, a) /\ UNCHANGED vars /\ UNCHANGED others /\ PC(k) = "match"
  BY DEF MatchFails
<1>. HIDE DEF a
<1>. QED  BY <1>3, <1>4, QuietStep DEF InLoop, InAdd

LEMMA AddToConsumerFailsInv ==
  ASSUME SInv, NEW k \in Subs, AddToConsumerFails(k) PROVE SInv'
<1>. DEFINE a == [att[k] EXCEPT !.pc = "match", !.track = {}]
<1>1. att[k].j <= Len(att[k].view)
  BY AtHand DEF AddToConsumerFails
<1>2. Steady(a) /\ a.pc = "match" /\ a.starts = att[k].starts
  BY <1>1, OwnVariables DEF Steady, Atts, PCs, Through
<1>3. Sets(k, a) /\ UNCHANGED vars /\ UNCHANGED others /\ PC(k) = "add"
  BY DEF AddToConsumerFails
<1>. HIDE DEF a
<1>. QED  BY <1>2, <1>3, QuietStep DEF InLoop, InAdd

\* A set of media positions has a first one.
LEMMA First ==
  ASSUME NEW S \in SUBSET Nat, S # {}
  PROVE  \E m \in S : \A n \in S : m <= n
<1>1. PICK m \in S : \A n \in S : ~(<<n, m>> \in OpToRel(<, Nat))
  BY NatLessThanWellFounded, WFMin
<1>2. ASSUME NEW n \in S, n < m PROVE FALSE
  <2>1. <<n, m>> \in OpToRel(<, Nat)
    BY <1>2 DEF OpToRel
  <2>. QED  BY <1>1, <2>1
<1>3. \A n \in S : m <= n
  BY <1>2
<1>. QED  BY <1>3

\* The codec MatchMedia finds is one of the medias AddConsumer has not tried yet.
LEMMA FirstMatchIsOne ==
  ASSUME SInv, NEW k \in Subs, Matches(k) # {}
  PROVE  FirstMatch(k) \in Matches(k) /\ FirstMatch(k) \in Codecs
<1>1. Matches(k) \in SUBSET Codecs
  BY OwnVariables DEF Matches, Atts
<1>. DEFINE S == {c.media : c \in Matches(k)}
<1>2. S \in SUBSET Nat /\ S # {}
  <2>1. \A c \in Matches(k) : c.media \in Nat
    BY <1>1, ProducerAssumption DEF Codecs
  <2>2. S \in SUBSET Nat
    BY <2>1
  <2>3. S # {}
    OBVIOUS
  <2>. QED  BY <2>2, <2>3
<1>3. PICK m \in S : \A n \in S : m <= n
  <2>. HIDE DEF S
  <2>. QED  BY <1>2, First
<1>4. PICK c \in Matches(k) : c.media = m
  OBVIOUS
<1>5. \A d \in Matches(k) : c.media <= d.media
  BY <1>3, <1>4
<1>6. FirstMatch(k) \in Matches(k)
  BY <1>4, <1>5 DEF FirstMatch
<1>. QED  BY <1>1, <1>6

\* The track a consumer gets belongs to the producer, which now has tracks.
LEMMA GetTrackHands ==
  ASSUME IInv, Owned, NEW p \in Producers, NEW x \in Codecs, GetTrack(p, x)
  PROVE  /\ TrackFor(p, x) \in Tracks
         /\ SourceOf[TrackFor(p, x).conn] = p /\ life'[TrackFor(p, x).conn] # "free"
         /\ p \notin Pushed => pstate'[p] \in {"Tracks", "Start"}
<1>1. conn[p] \in Conns /\ SourceOf[conn[p]] = p /\ life[conn[p]] = "open"
  BY DEF IInv, TypeOK, ConnUnlessNone, HeldIsOpen, GetTrack, Usable
<1>2. UNCHANGED life
  BY DEF GetTrack
<1>3. CASE Listed(p, x)
  <2>1. PICK i \in DOMAIN receivers[p] : TrackFor(p, x) = receivers[p][i]
    BY <1>3 DEF TrackFor, Listed
  <2>2. receivers[p] \in Seq(Tracks) /\ receivers[p] # <<>>
    BY <2>1 DEF IInv, TypeOK
  <2>3. pstate[p] \notin {"None", "Medias"} /\ pstate' = pstate
    BY <1>3, <2>2 DEF Owned, OwnReceivers, GetTrack
  <2>4. p \notin Pushed => pstate'[p] \in {"Tracks", "Start"}
    BY <2>3 DEF IInv, TypeOK, States, Owned, FromOutside
  <2>. QED  BY <1>2, <2>1, <2>4, ReceiverType DEF Owned, OwnReceivers
<1>4. CASE ~Listed(p, x)
  <2>1. TrackFor(p, x) = [conn |-> conn[p], codec |-> x]
    BY <1>4 DEF TrackFor
  <2>2. p \notin Pushed => pstate'[p] \in {"Tracks", "Start"}
    BY <1>4 DEF GetTrack, Usable, Touched, IInv, TypeOK, States, Owned, FromOutside
  <2>. QED  BY <1>1, <1>2, <2>1, <2>2 DEF Tracks
<1>. QED  BY <1>3, <1>4

LEMMA MatchGetsInv == ASSUME SInv, NEW k \in Subs, MatchGets(k) PROVE SInv'
<1>. DEFINE p == This(k)
            t == TrackFor(p, FirstMatch(k))
            a == [att[k] EXCEPT !.pc = "add", !.todo = After(k), !.track = {t}]
<1>1. p \in Producers /\ att[k].j <= Len(att[k].view) /\ att[k] \in Atts
  BY AtHand, OwnVariables DEF MatchGets
<1>2. FirstMatch(k) \in Codecs /\ GetTrack(p, FirstMatch(k))
  BY <1>1, FirstMatchIsOne DEF MatchGets
<1>3. IInv /\ Owned
  BY DEF SInv, Owned
<1>4. IInv' /\ Gentle /\ Owned'
  BY <1>1, <1>2, <1>3, GetTrackIInv, GetTrackGentle
<1>5. /\ t \in Tracks /\ SourceOf[t.conn] = p /\ life'[t.conn] # "free"
      /\ p \notin Pushed => pstate'[p] \in {"Tracks", "Start"}
  BY <1>1, <1>2, <1>3, GetTrackHands
<1>. HIDE DEF p, t
<1>6. After(k) \in SUBSET Codecs
  BY <1>1 DEF After, Atts
<1>7. /\ Steady(a) /\ a.pc = "add" /\ a.starts = att[k].starts /\ a.track = {t}
      /\ a.view = att[k].view /\ a.j = att[k].j
  BY <1>1, <1>5, <1>6 DEF Steady, Atts, PCs, Through
<1>8. Sets(k, a) /\ UNCHANGED others /\ PC(k) = "match"
  BY DEF MatchGets, p, t
<1>. HIDE DEF a
<1>9. UNCHANGED <<list, mu, pending, consumers>> /\ UNCHANGED player
  BY <1>8 DEF others
<1>10. Calls' /\ Counted' /\ Players'
  <2>1. consumers' \in SUBSET Subs
    BY <1>9 DEF SInv, Calls
  <2>2. Calls'
    BY <1>7, <1>8, <1>9, <2>1, CallsKept DEF SInv, InLoop
  <2>3. Counted'
    BY <1>7, <1>8, <1>9, CountedKept DEF SInv, InAdd
  <2>. QED  BY <1>9, <2>2, <2>3, PlayersKept DEF SInv
<1>11. att'[k] = a /\ \A l \in Subs : l # k => att'[l] = att[l]
  BY <1>7, <1>8, SetsOne DEF SInv, Calls, Steady
<1>12. Served'
  <2>1. \A l \in Subs : \A q \in att[l].starts : q \in att'[l].starts
    BY <1>7, <1>11
  <2>. QED  BY <1>4, <2>1, ServedKept DEF SInv, Gentle
<1>13. InHand'
  <2>. SUFFICES ASSUME NEW l \in Subs, att'[l].pc = "add", NEW u \in att'[l].track
       PROVE  SourceOf[u.conn] = This(l)' /\ life'[u.conn] # "free" /\ Serves(u.conn)'
    BY DEF InHand, PC
  <2>1. CASE l = k
    <3>1. u = t /\ This(l)' = p
      BY <1>7, <1>11, <2>1 DEF This, p
    <3>. QED  BY <1>5, <3>1 DEF Serves
  <2>2. CASE l # k
    <3>1. att'[l] = att[l] /\ PC(l) = "add" /\ u \in att[l].track
      BY <1>11, <2>2 DEF PC
    <3>2. u.conn \in Conns
      BY <3>1, OwnVariables DEF Atts, Tracks
    <3>3. SourceOf[u.conn] = This(l) /\ life[u.conn] # "free" /\ Serves(u.conn)
      BY <3>1 DEF SInv, InHand
    <3>4. This(l)' = This(l)
      BY <3>1 DEF This
    <3>. QED  BY <1>4, <3>2, <3>3, <3>4 DEF Gentle, Keeps, Serves
  <2>. QED  BY <2>1, <2>2
<1>. QED  BY <1>4, <1>10, <1>12, <1>13 DEF SInv, Owned

\* A media is served by the producer at hand: the consumer reads from d and will start it.
LEMMA FoundStep ==
  ASSUME SInv, IInv', Keeps, Owned', NEW k \in Subs, PC(k) \in {"match", "add"},
         NEW todo \in SUBSET Codecs, Found(k, todo), UNCHANGED others,
         NEW d \in Conns, SourceOf[d] = This(k), life'[d] # "free", Serves(d)',
         \A l \in Subs, c \in Conns : Reads(l, c)' => Reads(l, c) \/ (l = k /\ c = d)
  PROVE  SInv'
<1>1. att[k] \in Atts /\ att[k].j <= Len(att[k].view) /\ list \in Seq(Producers)
  BY AtHand, OwnVariables DEF SInv, Calls
<1>2. PICK b : /\ Sets(k, b) /\ Steady(b)
               /\ b.pc \in {"dial", "release", "match"}
               /\ b.starts = att[k].starts \cup {This(k)}
  BY <1>1, FoundSets
<1>3. UNCHANGED <<list, mu, pending, consumers>> /\ UNCHANGED player
  BY DEF others
<1>4. Calls' /\ Counted' /\ Players'
  <2>1. consumers' \in SUBSET Subs
    BY <1>3 DEF SInv, Calls
  <2>2. Calls'
    BY <1>2, <1>3, <2>1, CallsKept DEF SInv, InLoop
  <2>3. Counted'
    BY <1>2, <1>3, CountedKept DEF SInv, InAdd
  <2>. QED  BY <1>3, <2>2, <2>3, PlayersKept DEF SInv
<1>5. att'[k] = b /\ \A l \in Subs : l # k => att'[l] = att[l]
  BY <1>2, SetsOne DEF SInv, Calls, Steady
<1>6. Served'
  <2>1. \A l \in Subs : \A q \in att[l].starts : q \in att'[l].starts
    BY <1>2, <1>5
  <2>2. \A l \in Subs, c \in Conns : Reads(l, c)' =>
          \/ Reads(l, c)
          \/ life'[c] # "free" /\ Serves(c)' /\ SourceOf[c] \in att'[l].starts
    BY <1>2, <1>5
  <2>. QED  BY <2>1, <2>2, ServedKept DEF SInv
<1>7. InHand'
  BY <1>2, <1>5, InHandKept DEF SInv, Calls
<1>. QED  BY <1>4, <1>6, <1>7 DEF SInv, Owned

LEMMA MatchTalksInv == ASSUME SInv, NEW k \in Subs, MatchTalks(k) PROVE SInv'
<1>1. This(k) \in Producers /\ att[k] \in Atts
  BY AtHand, OwnVariables DEF MatchTalks
<1>2. IInv /\ Owned /\ AddTrack(This(k), k)
  BY DEF SInv, Owned, MatchTalks
<1>3. PICK d \in Conns :
        /\ Keeps /\ Owned'
        /\ \A l \in Subs, c \in Conns : Reads(l, c)' => Reads(l, c) \/ (l = k /\ c = d)
        /\ SourceOf[d] = This(k) /\ life'[d] = "open"
        /\ This(k) \notin Pushed => pstate'[This(k)] \in {"Tracks", "Start"}
  BY <1>1, <1>2, AddTrackKeeps
<1>4. IInv'
  BY <1>1, <1>2, AddTrackIInv
<1>5. After(k) \in SUBSET Codecs
  BY <1>1 DEF After, Atts
<1>6. Found(k, After(k)) /\ UNCHANGED others /\ PC(k) = "match"
  BY DEF MatchTalks
<1>7. Serves(d)'
  BY <1>3 DEF Serves
<1>. QED  BY <1>3, <1>4, <1>5, <1>6, <1>7, FoundStep

LEMMA AddToConsumerInv == ASSUME SInv, NEW k \in Subs, AddToConsumer(k) PROVE SInv'
<1>1. PICK t \in att[k].track : AppendChild(t, k)
  BY DEF AddToConsumer
<1>2. /\ t \in Tracks /\ t.conn \in Conns /\ att[k].todo \in SUBSET Codecs
  BY OwnVariables DEF Atts, Tracks
<1>3. SourceOf[t.conn] = This(k) /\ life[t.conn] # "free" /\ Serves(t.conn)
  BY DEF SInv, InHand, AddToConsumer
<1>4. /\ Keeps /\ Owned'
      /\ \A l \in Subs, c \in Conns : Reads(l, c)' => Reads(l, c) \/ (l = k /\ c = t.conn)
  BY <1>1, <1>2, AppendChildKeeps DEF SInv, Owned
<1>5. IInv'
  BY <1>1, <1>2, ConsumerIInv DEF SInv
<1>6. life'[t.conn] # "free" /\ Serves(t.conn)'
  BY <1>2, <1>3, <1>4 DEF Keeps, Serves
<1>7. Found(k, att[k].todo) /\ UNCHANGED others /\ PC(k) = "add"
  BY DEF AddToConsumer
<1>. QED  BY <1>2, <1>3, <1>4, <1>5, <1>6, <1>7, FoundStep

\* s.pending.Add: the goroutine is counted from here.
LEMMA IdleType ==
  /\ Steady(Idle) /\ Idle.pc = "idle" /\ Idle.starts = {}
  /\ Steady([Idle EXCEPT !.pc = "on"])
<1>1. /\ <<>> \in Seq(Producers) /\ 1 \in Nat \ {0} /\ 0 \in Nat /\ 1 \in Nat
      /\ {} \in SUBSET Nat /\ {} \in SUBSET Codecs /\ {} \in SUBSET Tracks
      /\ {} \in SUBSET Producers
  OBVIOUS
<1>2. Idle \in Atts /\ Idle.pc = "idle" /\ Idle.starts = {}
  BY <1>1 DEF Idle, Atts, PCs
<1>3. ASSUME NEW a \in Atts, a.starts = {}
      PROVE  LET b == [a EXCEPT !.pc = "on"]
             IN  b \in Atts /\ b.pc = "on" /\ b.starts = {}
  BY <1>3 DEF Atts, PCs
<1>4. /\ [Idle EXCEPT !.pc = "on"] \in Atts /\ [Idle EXCEPT !.pc = "on"].pc = "on"
      /\ [Idle EXCEPT !.pc = "on"].starts = {}
  BY <1>2, <1>3, Zenon
<1>. HIDE DEF Idle
<1>. QED  BY <1>2, <1>4 DEF Steady

LEMMA BeginType ==
  ASSUME list \in Seq(Producers)
  PROVE  LET a == [Idle EXCEPT !.pc = "dial", !.view = list, !.len = Len(list)]
         IN  Steady(a) /\ a.pc = "dial"
<1>1. Len(list) \in Nat
  OBVIOUS
<1>2. ASSUME NEW a \in Atts, NEW n \in Nat
      PROVE  LET b == [a EXCEPT !.pc = "dial", !.view = list, !.len = n]
             IN  Steady(b) /\ b.pc = "dial"
  BY DEF Steady, Atts, PCs, Through
<1>3. Idle \in Atts
  BY IdleType DEF Steady
<1>. QED  BY <1>1, <1>2, <1>3, Zenon

LEMMA ComingFinite == IsFiniteSet(Coming)
  BY StreamAssumption, FS_Subset DEF Coming

LEMMA BeginInv == ASSUME SInv, NEW k \in Subs, Begin(k) PROVE SInv'
<1>. DEFINE a == [Idle EXCEPT !.pc = "dial", !.view = list, !.len = Len(list)]
<1>1. Steady(a) /\ a.pc = "dial"
  BY BeginType DEF SInv, Calls
<1>2. Sets(k, a)
  BY DEF Begin
<1>. HIDE DEF a
<1>3. UNCHANGED <<list, mu, consumers>> /\ UNCHANGED player /\ UNCHANGED vars
      /\ pending' = pending + 1 /\ PC(k) = "idle"
  BY DEF Begin
<1>4. IInv' /\ Gentle /\ Owned'
  BY <1>3, StutterGentle DEF SInv, Owned
<1>5. consumers' \in SUBSET Subs
  BY <1>3 DEF SInv, Calls
<1>6. Calls' /\ Players'
  BY <1>1, <1>2, <1>3, <1>5, CallsKept, PlayersKept DEF SInv, InLoop
<1>7. a \in Atts /\ att[k].starts = {}
  BY <1>1, <1>3, OwnVariables DEF Steady, Through, PC
<1>8. Counted'
  <2>1. att'[k] = a /\ \A l \in Subs : l # k => att'[l] = att[l]
    BY <1>2, <1>7, SetsOne DEF SInv, Calls
  <2>2. Coming' = Coming \cup {k} /\ k \notin Coming
    BY <1>1, <1>3, <2>1 DEF Coming, PC, InAdd
  <2>3. Cardinality(Coming') = Cardinality(Coming) + 1
    BY <2>2, ComingFinite, FS_AddElement
  <2>. QED  BY <1>3, <2>3 DEF Counted, SInv
<1>. QED  BY <1>1, <1>2, <1>4, <1>6, <1>7, <1>8, StepKept

LEMMA ReleaseInv == ASSUME SInv, NEW k \in Subs, Release(k) PROVE SInv'
<1>. DEFINE next == IF pending' = 0 THEN "check" ELSE "append"
            a == [att[k] EXCEPT !.pc = next, !.then = "append"]
<1>1. next \in {"check", "append"}
  OBVIOUS
<1>2. Sets(k, a)
  BY DEF Release
<1>. HIDE DEF next
<1>3. Steady(a) /\ a.pc = next /\ a.starts = att[k].starts
  BY <1>1, OwnVariables DEF Steady, Atts, PCs, Through
<1>. HIDE DEF a
<1>4. UNCHANGED <<list, mu, consumers>> /\ UNCHANGED player /\ UNCHANGED vars
      /\ pending' = pending - 1 /\ PC(k) = "release"
  BY DEF Release
<1>5. IInv' /\ Gentle /\ Owned'
  BY <1>4, StutterGentle DEF SInv, Owned
<1>6. consumers' \in SUBSET Subs
  BY <1>4 DEF SInv, Calls
<1>7. Calls' /\ Players'
  BY <1>1, <1>2, <1>3, <1>4, <1>6, CallsKept, PlayersKept DEF SInv, InLoop
<1>8. a \in Atts
  BY <1>3 DEF Steady
<1>9. Counted'
  <2>1. att'[k] = a /\ \A l \in Subs : l # k => att'[l] = att[l]
    BY <1>2, <1>8, SetsOne DEF SInv, Calls
  <2>2. Coming' = Coming \ {k} /\ k \in Coming
    BY <1>1, <1>3, <1>4, <2>1 DEF Coming, PC, InAdd
  <2>3. Cardinality(Coming') = Cardinality(Coming) - 1
    BY <2>2, ComingFinite, FS_RemoveElement
  <2>. QED  BY <1>4, <2>3 DEF Counted, SInv
<1>. QED  BY <1>1, <1>2, <1>3, <1>5, <1>7, <1>8, <1>9, StepKept

LEMMA RefusedInv == ASSUME SInv, NEW k \in Subs, Refused(k) PROVE SInv'
<1>1. Sets(k, Idle) /\ UNCHANGED vars /\ UNCHANGED others
      /\ PC(k) = "append" /\ att[k].starts = {}
  BY DEF Refused
<1>. QED  BY <1>1, IdleType, QuietStep DEF InLoop, InAdd

\* A step that, besides, only changes s.consumers.
LEMMA ConsumersStep ==
  ASSUME SInv, NEW k \in Subs, NEW a, Sets(k, a), UNCHANGED vars,
         UNCHANGED <<list, mu, pending>>, UNCHANGED player, consumers' \in SUBSET Subs,
         Steady(a), a.pc # "add", a.pc \notin InLoop, PC(k) \notin InLoop,
         a.pc \notin InAdd, PC(k) \notin InAdd, att[k].starts \subseteq a.starts
  PROVE  SInv'
<1>1. IInv' /\ Gentle /\ Owned'
  BY StutterGentle DEF SInv, Owned
<1>2. Calls'
  BY CallsKept DEF SInv, InLoop
<1>3. Counted' /\ Players'
  BY CountedKept, PlayersKept DEF SInv
<1>4. a \in Atts
  BY DEF Steady
<1>. QED  BY <1>1, <1>2, <1>3, <1>4, StepKept

LEMMA AppendConsumerInv == ASSUME SInv, NEW k \in Subs, AppendConsumer(k) PROVE SInv'
<1>. DEFINE a == [att[k] EXCEPT !.pc = "start"]
<1>1. Steady(a) /\ a.pc = "start" /\ a.starts = att[k].starts
  BY OwnVariables DEF Steady, Atts, PCs, Through
<1>2. Sets(k, a)
  BY DEF AppendConsumer, Goes
<1>. HIDE DEF a
<1>3. UNCHANGED vars /\ UNCHANGED <<list, mu, pending>> /\ UNCHANGED player
      /\ PC(k) = "append" /\ consumers' \in SUBSET Subs
  BY DEF AppendConsumer, SInv, Calls
<1>. QED  BY <1>1, <1>2, <1>3, ConsumersStep DEF InLoop, InAdd

LEMMA StartOneInv == ASSUME SInv, NEW k \in Subs, StartOne(k) PROVE SInv'
<1>. PICK p \in att[k].starts :
       /\ Start(p) \/ (pstate[p] # "Tracks" /\ UNCHANGED vars)
       /\ Sets(k, IF att[k].starts \ {p} = {} THEN [Idle EXCEPT !.pc = "on"]
                  ELSE [att[k] EXCEPT !.starts = att[k].starts \ {p}])
  BY DEF StartOne
<1>1. p \in Producers /\ att[k].pc = "start" /\ PC(k) = "start" /\ UNCHANGED others
  BY OwnVariables DEF Atts, StartOne, PC
<1>2. IInv' /\ Gentle /\ Owned' /\ pstate'[p] # "Tracks"
  <2>1. CASE Start(p)
    <3>1. pstate'[p] # "Tracks"
      BY <1>1, <2>1 DEF Start, SInv, IInv, TypeOK
    <3>. QED  BY <1>1, <2>1, <3>1, StartIInv, StartGentle DEF SInv, Owned
  <2>2. CASE pstate[p] # "Tracks" /\ UNCHANGED vars
    <3>1. pstate'[p] # "Tracks"
      BY <2>2 DEF vars
    <3>. QED  BY <2>2, <3>1, StutterGentle DEF SInv, Owned
  <2>. QED  BY <2>1, <2>2
<1>3. CASE att[k].starts \ {p} = {}
  <2>. DEFINE a == [Idle EXCEPT !.pc = "on"]
  <2>1. Steady(a) /\ a.pc = "on" /\ Sets(k, a)
    <3>1. a.pc = "on"
      BY DEF Idle
    <3>. QED  BY <1>3, <3>1, IdleType
  <2>2. \A q \in att[k].starts : q = p
    BY <1>3
  <2>. HIDE DEF a
  <2>. QED  BY <1>1, <1>2, <2>1, <2>2, LocalStep DEF InLoop, InAdd
<1>4. CASE att[k].starts \ {p} # {}
  <2>. DEFINE rest == att[k].starts \ {p}
              a == [att[k] EXCEPT !.starts = rest]
  <2>1. rest \in SUBSET Producers
    BY OwnVariables DEF Atts
  <2>2. Sets(k, a)
    BY <1>4
  <2>3. \A q \in att[k].starts : q \in rest \/ q = p
    OBVIOUS
  <2>. HIDE DEF rest
  <2>4. Steady(a) /\ a.pc = "start" /\ a.starts = rest
    BY <1>1, <2>1, OwnVariables DEF Steady, Atts, Through
  <2>. HIDE DEF a
  <2>. QED  BY <1>1, <1>2, <2>2, <2>3, <2>4, LocalStep DEF InLoop, InAdd
<1>. QED  BY <1>3, <1>4

-----------------------------------------------------------------------------
(* RemoveConsumer and stopProducers, step by step. *)

LEMMA LeaveInv == ASSUME SInv, NEW k \in Subs, Leave(k) PROVE SInv'
<1>. DEFINE a == [att[k] EXCEPT !.pc = "remove"]
<1>1. att[k].pc = "on" /\ PC(k) = "on" /\ UNCHANGED others
  BY DEF Leave, PC
<1>2. Steady(a) /\ a.pc = "remove" /\ a.starts = att[k].starts
  BY <1>1, OwnVariables DEF Steady, Atts, PCs, Through
<1>3. Sets(k, a)
  BY DEF Leave, Goes
<1>. HIDE DEF a
<1>4. IInv' /\ Gentle /\ Owned'
  BY ConsumerIInv, StopConsumerGentle DEF Leave, SInv, Owned
<1>. QED  BY <1>1, <1>2, <1>3, <1>4, LocalStep DEF InLoop, InAdd

LEMMA RemoveConsumerInv == ASSUME SInv, NEW k \in Subs, RemoveConsumer(k) PROVE SInv'
<1>. DEFINE a == [att[k] EXCEPT !.pc = "check", !.then = "idle"]
<1>1. att[k].pc = "remove" /\ PC(k) = "remove"
  BY DEF RemoveConsumer, PC
<1>2. Steady(a) /\ a.pc = "check" /\ a.starts = att[k].starts
  BY <1>1, OwnVariables DEF Steady, Atts, PCs, Through
<1>3. Sets(k, a)
  BY DEF RemoveConsumer
<1>. HIDE DEF a
<1>4. UNCHANGED vars /\ UNCHANGED <<list, mu, pending>> /\ UNCHANGED player
      /\ consumers' \in SUBSET Subs
  BY DEF RemoveConsumer, SInv, Calls
<1>. QED  BY <1>1, <1>2, <1>3, <1>4, ConsumersStep DEF InLoop, InAdd

\* Where stopProducers returns to.
LEMMA ReturnsType ==
  ASSUME SInv, NEW k \in Subs, PC(k) \in {"check", "scan"}
  PROVE  LET a == [att[k] EXCEPT !.pc = att[k].then, !.s = 1]
         IN  Steady(a) /\ a.pc \in {"idle", "append"} /\ a.starts = att[k].starts
<1>1. att[k] \in Atts /\ Steady(att[k]) /\ att[k].pc \in {"check", "scan"}
  BY OwnVariables DEF PC
<1>2. att[k].then \in {"idle", "append"} /\ (att[k].then = "idle" => att[k].starts = {})
  BY <1>1 DEF Atts, Steady, Through
<1>3. ASSUME NEW pc \in {"idle", "append"}, NEW s \in Nat \ {0},
             pc = "idle" => att[k].starts = {}
      PROVE  LET a == [att[k] EXCEPT !.pc = pc, !.s = s]
             IN  Steady(a) /\ a.pc \in {"idle", "append"} /\ a.starts = att[k].starts
  BY <1>1, <1>3 DEF Steady, Atts, PCs, Through
<1>4. 1 \in Nat \ {0}
  OBVIOUS
<1>. QED  BY <1>2, <1>3, <1>4, Zenon

LEMMA SkipPendingInv == ASSUME SInv, NEW k \in Subs, SkipPending(k) PROVE SInv'
<1>. DEFINE a == [att[k] EXCEPT !.pc = att[k].then, !.s = 1]
<1>1. PC(k) = "check" /\ Sets(k, a) /\ UNCHANGED vars /\ UNCHANGED others
  BY DEF SkipPending, Returns
<1>2. Steady(a) /\ a.pc \in {"idle", "append"} /\ a.starts = att[k].starts
  BY <1>1, ReturnsType
<1>. HIDE DEF a
<1>. QED  BY <1>1, <1>2, QuietStep DEF InLoop, InAdd

LEMMA CheckPendingInv == ASSUME SInv, NEW k \in Subs, CheckPending(k) PROVE SInv'
<1>. DEFINE a == [att[k] EXCEPT !.pc = "lock"]
<1>1. PC(k) = "check" /\ att[k].pc = "check" /\ Sets(k, a) /\ UNCHANGED vars
      /\ UNCHANGED others
  BY DEF CheckPending, Goes, PC
<1>2. Steady(a) /\ a.pc = "lock" /\ a.starts = att[k].starts
  BY <1>1, OwnVariables DEF Steady, Atts, PCs, Through
<1>. HIDE DEF a
<1>. QED  BY <1>1, <1>2, QuietStep DEF InLoop, InAdd

\* A step that takes or gives back s.mu.
LEMMA MutexStep ==
  ASSUME SInv, NEW k \in Subs, NEW a, Sets(k, a), UNCHANGED vars,
         UNCHANGED <<list, pending, consumers>>, UNCHANGED player, mu' \in Subs \cup {Nobody},
         Steady(a), a.pc \notin {"add", "halt"}, PC(k) \notin InAdd, a.pc \notin InAdd,
         att[k].starts \subseteq a.starts,
         mu \in {k, Nobody}, mu' \in {k, Nobody}, a.pc \in InLoop <=> mu' = k
  PROVE  SInv'
<1>1. IInv' /\ Gentle /\ Owned'
  BY StutterGentle DEF SInv, Owned
<1>2. a \in Atts
  BY DEF Steady
<1>3. /\ att' \in [Subs -> Atts] /\ att'[k] = a
      /\ \A l \in Subs : l # k => att'[l] = att[l]
  BY <1>2, SetsOne DEF SInv, Calls
<1>4. Calls'
  <2>1. LoopHoldsMu'
    BY <1>3, StreamAssumption DEF SInv, Calls, LoopHoldsMu, PC
  <2>2. AtOneOfTheList'
    BY <1>3 DEF SInv, Calls, AtOneOfTheList, PC
  <2>3. (\A l \in Subs : Steady(att[l]))'
    <3>1. \A l \in Subs : Steady(att'[l])
      BY <1>3 DEF SInv, Calls
    <3>. QED  BY <3>1 DEF Steady, Through
  <2>4. list' \in Seq(Producers) /\ consumers' \in SUBSET Subs
    BY DEF SInv, Calls
  <2>. QED  BY <1>3, <2>1, <2>2, <2>3, <2>4 DEF Calls
<1>5. Counted' /\ Players'
  BY CountedKept, PlayersKept DEF SInv
<1>. QED  BY <1>1, <1>2, <1>4, <1>5, StepKept

LEMMA LockInv == ASSUME SInv, NEW k \in Subs, Lock(k) PROVE SInv'
<1>. DEFINE a == [att[k] EXCEPT !.pc = "scan"]
<1>1. PC(k) = "lock" /\ att[k].pc = "lock" /\ mu = Nobody /\ mu' = k
  BY DEF Lock, PC
<1>2. Steady(a) /\ a.pc = "scan" /\ a.starts = att[k].starts
  BY <1>1, OwnVariables DEF Steady, Atts, PCs, Through
<1>3. Sets(k, a) /\ UNCHANGED vars /\ UNCHANGED <<list, pending, consumers>>
      /\ UNCHANGED player
  BY DEF Lock, Goes
<1>. HIDE DEF a
<1>. QED  BY <1>1, <1>2, <1>3, MutexStep DEF InLoop, InAdd

LEMMA UnlockInv == ASSUME SInv, NEW k \in Subs, Unlock(k) PROVE SInv'
<1>. DEFINE a == [att[k] EXCEPT !.pc = att[k].then, !.s = 1]
<1>1. PC(k) = "scan" /\ mu' = Nobody
  BY DEF Unlock
<1>2. mu = k
  BY <1>1 DEF SInv, Calls, LoopHoldsMu, InLoop
<1>3. Steady(a) /\ a.pc \in {"idle", "append"} /\ a.starts = att[k].starts
  BY <1>1, ReturnsType
<1>4. Sets(k, a) /\ UNCHANGED vars /\ UNCHANGED <<list, pending, consumers>>
      /\ UNCHANGED player
  BY DEF Unlock, Returns
<1>. HIDE DEF a
<1>. QED  BY <1>1, <1>2, <1>3, <1>4, MutexStep, StreamAssumption DEF InLoop, InAdd

\* On to the next producer of the list.
LEMMA NextScan ==
  ASSUME SInv, NEW k \in Subs, PC(k) \in InLoop
  PROVE  LET a == [att[k] EXCEPT !.pc = "scan", !.s = @ + 1]
         IN  Steady(a) /\ a.pc = "scan" /\ a.starts = att[k].starts
<1>1. att[k] \in Atts /\ Steady(att[k]) /\ att[k].pc \in InLoop
  BY OwnVariables DEF PC
<1>2. att[k].s + 1 \in Nat \ {0}
  BY <1>1 DEF Atts
<1>3. ASSUME NEW s \in Nat \ {0}
      PROVE  LET a == [att[k] EXCEPT !.pc = "scan", !.s = s]
             IN  Steady(a) /\ a.pc = "scan" /\ a.starts = att[k].starts
  BY <1>1 DEF Steady, Atts, PCs, Through, InLoop
<1>. QED  BY <1>2, <1>3, Zenon

LEMMA ScanInv == ASSUME SInv, NEW k \in Subs, Scan(k) PROVE SInv'
<1>1. PC(k) = "scan" /\ att[k].pc = "scan" /\ att[k].s <= Len(list)
      /\ UNCHANGED vars /\ UNCHANGED others
  BY DEF Scan, PC
<1>2. CASE HasReaders(list[att[k].s])
  <2>. DEFINE a == [att[k] EXCEPT !.pc = "scan", !.s = @ + 1]
  <2>1. Sets(k, a)
    <3>1. Sets(k, [att[k] EXCEPT !.s = @ + 1])
      BY <1>2 DEF Scan
    <3>2. [att[k] EXCEPT !.s = @ + 1] = a
      BY <1>1, OwnVariables DEF Atts
    <3>. QED  BY <3>1, <3>2, Zenon
  <2>2. Steady(a) /\ a.pc = "scan" /\ a.starts = att[k].starts
    BY <1>1, NextScan DEF InLoop
  <2>. HIDE DEF a
  <2>. QED  BY <1>1, <2>1, <2>2, QuietStep DEF InLoop, InAdd
<1>3. CASE ~HasReaders(list[att[k].s])
  <2>. DEFINE a == [att[k] EXCEPT !.pc = "halt"]
  <2>1. Sets(k, a)
    BY <1>3 DEF Scan, Goes
  <2>2. Steady(a) /\ a.pc = "halt" /\ a.starts = att[k].starts /\ a.s = att[k].s
    BY <1>1, OwnVariables DEF Steady, Atts, PCs, Through
  <2>. HIDE DEF a
  <2>. QED  BY <1>1, <2>1, <2>2, QuietStep DEF InLoop, InAdd
<1>. QED  BY <1>2, <1>3

LEMMA HaltInv == ASSUME SInv, NEW k \in Subs, Halt(k) PROVE SInv'
<1>. DEFINE a == [att[k] EXCEPT !.pc = "scan", !.s = @ + 1]
            p == list[att[k].s]
<1>1. PC(k) = "halt" /\ Sets(k, a) /\ UNCHANGED others
  BY DEF Halt
<1>2. Steady(a) /\ a.pc = "scan" /\ a.starts = att[k].starts
  BY <1>1, NextScan DEF InLoop
<1>. HIDE DEF a
<1>3. p \in Producers
  <2>1. att[k].s \in Nat \ {0} /\ att[k].s <= Len(list) /\ list \in Seq(Producers)
    BY <1>1, OwnVariables DEF Atts, SInv, Calls, AtOneOfTheList
  <2>. QED  BY <2>1
<1>4. Stop(p) \/ UNCHANGED vars
  BY DEF Halt
<1>. HIDE DEF p
<1>5. IInv' /\ Gentle /\ Owned'
  BY <1>3, <1>4, StopIInv, StopGentle, StutterGentle DEF SInv, Owned
<1>. QED  BY <1>1, <1>2, <1>5, LocalStep DEF InLoop, InAdd

LEMMA AttachInv == ASSUME SInv, NEW k \in Subs, Attach(k) PROVE SInv'
  BY NoMoreProducersInv, IndexPanicsInv, SkipBrokenInv, DialOneInv, DialOneFailsInv,
     GetMediasInv, NoMatchInv, MatchFailsInv, MatchGetsInv, MatchTalksInv, AddToConsumerInv,
     AddToConsumerFailsInv, ReleaseInv, RefusedInv, AppendConsumerInv, StartOneInv DEF Attach

LEMMA DetachInv == ASSUME SInv, NEW k \in Subs, Detach(k) PROVE SInv'
  BY RemoveConsumerInv, SkipPendingInv, CheckPendingInv, LockInv, ScanInv, HaltInv, UnlockInv
     DEF Detach

-----------------------------------------------------------------------------
(* What happens beside the goroutines of the consumers. *)

\* s.producers changes under s.mu only, so not under stopProducers.
LEMMA BesideStep ==
  ASSUME SInv, IInv', Gentle, Owned', UNCHANGED <<att, mu, pending, consumers>>,
         list' \in Seq(Producers), list' = list \/ mu = Nobody, Players'
  PROVE  SInv'
<1>1. Calls'
  <2>1. AtOneOfTheList'
    BY StreamAssumption DEF SInv, Calls, AtOneOfTheList, LoopHoldsMu, InLoop, PC
  <2>2. LoopHoldsMu'
    BY DEF SInv, Calls, LoopHoldsMu, PC
  <2>3. (\A k \in Subs : Steady(att[k]))'
    BY DEF SInv, Calls, Steady, Through
  <2>. QED  BY <2>1, <2>2, <2>3 DEF SInv, Calls
<1>2. Counted'
  <2>1. Coming' = Coming
    BY DEF Coming, PC
  <2>. QED  BY <2>1 DEF SInv, Counted
<1>3. Served'
  BY ServedKept DEF SInv, Gentle
<1>4. InHand'
  BY InHandKept DEF SInv, Calls, Gentle
<1>. QED  BY <1>1, <1>2, <1>3, <1>4 DEF SInv, Owned

LEMMA WorkerInv ==
  ASSUME SInv, NEW w \in workers, Worker(w), UNCHANGED streamVars PROVE SInv'
<1>1. IInv' /\ Gentle /\ Owned'
  BY WorkerIInv, WorkerGentle DEF SInv, Owned
<1>2. UNCHANGED <<att, mu, pending, consumers>> /\ UNCHANGED list /\ UNCHANGED player
  BY DEF streamVars
<1>3. list' \in Seq(Producers) /\ Players'
  BY <1>2, PlayersKept DEF SInv, Calls
<1>. QED  BY <1>1, <1>2, <1>3, BesideStep

LEMMA PushStep ==
  ASSUME SInv, NEW p \in Pushed, NEW kind \in {"External", "Internal"}, Push(p, kind),
         mu = Nobody, list' = Append(list, p), UNCHANGED <<att, mu, pending, consumers>>,
         Players'
  PROVE  SInv'
<1>1. p \in Producers
  BY ProducerAssumption
<1>2. IInv' /\ Gentle /\ Owned'
  BY <1>1, PushIInv, PushGentle DEF SInv, Owned
<1>3. list' \in Seq(Producers)
  BY <1>1 DEF SInv, Calls
<1>. QED  BY <1>2, <1>3, BesideStep

LEMMA AddProducerInv == ASSUME SInv, NEW p \in Pushed, AddProducer(p) PROVE SInv'
<1>1. Players'
  BY PlayersKept DEF AddProducer, SInv
<1>. QED  BY <1>1, PushStep DEF AddProducer

LEMMA PlayAddsInv == ASSUME SInv, NEW p \in Pushed, PlayAdds(p) PROVE SInv'
<1>1. Push(p, "Internal")
  BY DEF PlayAdds
<1>2. conn'[p] \in Conns
  BY <1>1, ProducerAssumption DEF Push, Opened, SInv, IInv, TypeOK
<1>3. Players'
  BY <1>2 DEF PlayAdds, SInv, Players
<1>. QED  BY <1>1, <1>3, PushStep DEF PlayAdds

\* RemoveProducer takes the producer of a connection out of the list, if it is there.
LEMMA RemovedIsListed ==
  ASSUME list \in Seq(Producers), NEW c, RemoveConn(c)
  PROVE  \/ UNCHANGED <<vars, list>>
         \/ \E n \in DOMAIN list : Remove(list[n]) /\ list' = Without(list, n)
<1>. DEFINE S == {i \in DOMAIN list : conn[list[i]] = c}
            n == CHOOSE i \in DOMAIN list :
                   conn[list[i]] = c /\ \A j \in 1 .. (i - 1) : conn[list[j]] # c
<1>1. CASE S = {}
  BY <1>1 DEF RemoveConn
<1>2. CASE S # {}
  <2>1. Remove(list[n]) /\ list' = Without(list, n)
    BY <1>2 DEF RemoveConn
  <2>2. S \in SUBSET Nat
    OBVIOUS
  <2>3. PICK m \in S : \A i \in S : m <= i
    <3>. HIDE DEF S
    <3>. QED  BY <1>2, <2>2, First
  <2>4. \A j \in 1 .. (m - 1) : conn[list[j]] # c
    BY <2>2, <2>3
  <2>5. n \in DOMAIN list
    BY <2>3, <2>4
  <2>. HIDE DEF n
  <2>. QED  BY <2>1, <2>5
<1>. QED  BY <1>1, <1>2

LEMMA RemoveConnStep ==
  ASSUME SInv, NEW c, RemoveConn(c), Players' PROVE SInv'
<1>1. mu = Nobody /\ UNCHANGED <<mu, pending, consumers, att>> /\ list \in Seq(Producers)
  BY DEF RemoveConn, SInv, Calls
<1>2. CASE \E n \in DOMAIN list : Remove(list[n]) /\ list' = Without(list, n)
  <2>1. PICK n \in DOMAIN list : Remove(list[n]) /\ list' = Without(list, n)
    BY <1>2
  <2>2. list[n] \in Producers /\ Without(list, n) \in Seq(Producers)
    BY <1>1 DEF Without
  <2>3. IInv' /\ Gentle /\ Owned'
    BY <2>1, <2>2, RemoveIInv, RemoveGentle DEF SInv, Owned
  <2>. QED  BY <1>1, <2>1, <2>2, <2>3, BesideStep
<1>3. CASE UNCHANGED <<vars, list>>
  <2>1. UNCHANGED vars /\ list' = list
    BY <1>3
  <2>2. IInv' /\ Gentle /\ Owned'
    BY <2>1, StutterGentle DEF SInv, Owned
  <2>. QED  BY <1>1, <2>1, <2>2, BesideStep
<1>. QED  BY <1>1, <1>2, <1>3, RemovedIsListed

LEMMA RemoveProducerInv == ASSUME SInv, NEW p \in Pushed, RemoveProducer(p) PROVE SInv'
<1>1. Players'
  BY PlayersKept DEF RemoveProducer, SInv
<1>. QED  BY <1>1, RemoveConnStep DEF RemoveProducer

LEMMA PlayEndsInv == ASSUME SInv, NEW r \in plays, PlayEnds(r) PROVE SInv'
<1>1. Players'
  BY DEF PlayEnds, SInv, Players
<1>. QED  BY <1>1, RemoveConnStep DEF PlayEnds

\* Play only looks.
LEMMA LookStep ==
  ASSUME SInv, UNCHANGED vars, UNCHANGED <<list, mu, pending, consumers, att>>, Players'
  PROVE  SInv'
<1>1. IInv' /\ Gentle /\ Owned'
  BY StutterGentle DEF SInv, Owned
<1>2. list' \in Seq(Producers) /\ list' = list
  BY DEF SInv, Calls
<1>. QED  BY <1>1, <1>2, BesideStep

LEMMA PlayStopsInv == ASSUME SInv, PlayStops PROVE SInv'
<1>1. list \in Seq(Producers)
  BY DEF SInv, Calls
<1>2. {conn[p] : p \in {q \in Range(list) : pstate[q] = "Internal"}} \in SUBSET Conns
  <2>1. \A p \in Range(list) : pstate[p] = "Internal" => conn[p] \in Conns
    <3>1. \A p \in Range(list) : p \in Producers
      BY <1>1 DEF Range
    <3>. QED  BY <3>1 DEF SInv, IInv, TypeOK, ConnUnlessNone
  <2>. QED  BY <2>1
<1>3. Players'
  BY <1>2 DEF PlayStops, SInv, Players
<1>. QED  BY <1>3, LookStep DEF PlayStops

LEMMA PlayFailsInv == ASSUME SInv, PlayFails PROVE SInv'
<1>1. Players'
  BY DEF PlayFails, SInv, Players
<1>. QED  BY <1>1, LookStep DEF PlayFails

LEMMA StreamStutterInv == ASSUME SInv, UNCHANGED allVars PROVE SInv'
<1>1. UNCHANGED vars /\ UNCHANGED <<list, mu, pending, consumers, att>> /\ UNCHANGED player
  BY DEF allVars, streamVars
<1>2. Players'
  BY <1>1, PlayersKept DEF SInv
<1>. QED  BY <1>1, <1>2, LookStep

-----------------------------------------------------------------------------
(* The theorems. *)

LEMMA StreamInitInv == StreamInit => SInv
<1>. SUFFICES ASSUME StreamInit PROVE SInv
  OBVIOUS
<1>1. IInv
  BY InitIInv DEF StreamInit
<1>2. Steady(Idle) /\ Idle.pc = "idle" /\ Idle \in Atts
  BY IdleType DEF Steady
<1>3. \A k \in Subs : att[k] = Idle /\ PC(k) = "idle"
  BY <1>2 DEF StreamInit, PC
<1>4. Calls
  <2>1. att \in [Subs -> Atts] /\ \A k \in Subs : Steady(att[k])
    BY <1>2, <1>3 DEF StreamInit
  <2>2. LoopHoldsMu /\ AtOneOfTheList
    BY <1>3, StreamAssumption DEF StreamInit, LoopHoldsMu, AtOneOfTheList, InLoop
  <2>3. list \in Seq(Producers) /\ mu \in Subs \cup {Nobody} /\ consumers \in SUBSET Subs
    BY StreamAssumption DEF StreamInit
  <2>. QED  BY <2>1, <2>2, <2>3 DEF Calls
<1>5. Counted
  <2>1. Coming = {}
    BY <1>3 DEF Coming, InAdd
  <2>. QED  BY <2>1, FS_EmptySet DEF Counted, StreamInit
<1>6. Players
  BY DEF StreamInit, Players
<1>7. FromOutside /\ OwnReceivers
  BY DEF StreamInit, Init, FromOutside, OwnReceivers
<1>8. InHand
  BY <1>3 DEF InHand
<1>9. Served
  <2>1. \A k \in Subs, c \in Conns : ~Reads(k, c)
    BY DEF StreamInit, Init, Reads, Range
  <2>. QED  BY <2>1 DEF Served
<1>. QED  BY <1>1, <1>4, <1>5, <1>6, <1>7, <1>8, <1>9 DEF SInv

LEMMA StreamNextInv == SInv /\ [StreamNext]_allVars => SInv'
<1>. SUFFICES ASSUME SInv, [StreamNext]_allVars PROVE SInv'
  OBVIOUS
<1>1. ASSUME NEW k \in Subs, Begin(k) \/ Leave(k) \/ Goroutine(k) PROVE SInv'
  BY <1>1, BeginInv, LeaveInv, AttachInv, DetachInv DEF Goroutine
<1>2. ASSUME NEW p \in Pushed, AddProducer(p) \/ RemoveProducer(p) \/ PlayAdds(p) PROVE SInv'
  BY <1>2, AddProducerInv, RemoveProducerInv, PlayAddsInv
<1>3. CASE UNCHANGED allVars
  BY <1>3, StreamStutterInv
<1>. QED
  BY <1>1, <1>2, <1>3, WorkerInv, PlayStopsInv, PlayFailsInv, PlayEndsInv DEF StreamNext

\* The invariant every other theorem about a stream rests on.
THEOREM StreamInvariance == StreamSpec => []SInv
  BY StreamInitInv, StreamNextInv, PTL DEF StreamSpec

\* The fields of a stream and the variables of its consumers' goroutines always have
\* their types: s.pending never goes below zero.
THEOREM StreamTypeCorrect == StreamSpec => []StreamTypeOK
<1>1. SInv => StreamTypeOK
  <2>. SUFFICES ASSUME SInv PROVE StreamTypeOK
    OBVIOUS
  <2>1. pending \in Nat
    BY ComingFinite, FS_CardinalityType DEF SInv, Counted
  <2>2. \A k \in Subs : /\ att[k].pc \in PCs /\ att[k].then \in {"idle", "append"}
                       /\ att[k].starts \subseteq Producers /\ att[k].todo \subseteq Codecs
    BY OwnVariables DEF Atts
  <2>. QED  BY <2>1, <2>2 DEF StreamTypeOK, SInv, Calls, Players
<1>. QED  BY <1>1, StreamInvariance, PTL

\* A consumer AddConsumer has let in reads from no source that nobody started, and
\* from none that was stopped, unless its connection was closed with it.
THEOREM ServesWhoIsIn == StreamSpec => []ServedOnceOn
<1>1. SInv => ServedOnceOn
  <2>. SUFFICES ASSUME SInv, NEW k \in Subs, PC(k) = "on", NEW c \in Conns,
                       life[c] = "open", SourceOf[c] \notin Pushed, Reads(k, c)
                PROVE  pstate[SourceOf[c]] = "Start"
    BY DEF ServedOnceOn, Reads
  <2>1. att[k].starts = {}
    BY OwnVariables DEF Steady, Through, PC
  <2>. QED  BY <2>1 DEF SInv, Served, Serves
<1>. QED  BY <1>1, StreamInvariance, PTL

\* Of the goroutines that want to stop the producers nobody reads, one at a time looks at
\* them, and what it is about to stop is a producer of the list (add_consumer.go:96-133).
OneStopsThem ==
  /\ \A k, l \in Subs : PC(k) \in InLoop /\ PC(l) \in InLoop => k = l
  /\ \A k \in Subs : PC(k) = "halt" => att[k].s \in DOMAIN list

THEOREM OneStopsAtATime == StreamSpec => []OneStopsThem
<1>1. SInv => OneStopsThem
  <2>. SUFFICES ASSUME SInv PROVE OneStopsThem
    OBVIOUS
  <2>1. \A k, l \in Subs : PC(k) \in InLoop /\ PC(l) \in InLoop => k = l
    BY DEF SInv, Calls, LoopHoldsMu
  <2>2. ASSUME NEW k \in Subs, PC(k) = "halt" PROVE att[k].s \in DOMAIN list
    <3>1. att[k].s \in Nat \ {0} /\ att[k].s <= Len(list) /\ list \in Seq(Producers)
      BY <2>2, OwnVariables DEF Atts, SInv, Calls, AtOneOfTheList
    <3>. QED  BY <3>1
  <2>. QED  BY <2>1, <2>2 DEF OneStopsThem
<1>. QED  BY <1>1, StreamInvariance, PTL

-----------------------------------------------------------------------------
(* The producers of a stream go through steps of producers only. *)

\* Codec x is one that a connection of producer p lists, or has listed.
Offered(p, x) == SourceOf[x.of] = p /\ life[x.of] # "free" /\ x.media \in offers[x.of]

\* What AddConsumer is about to try is on offer.
Chooses(k) ==
  /\ PC(k) \in {"match", "add"} => \A x \in att[k].todo : Offered(This(k), x)
  /\ PC(k) = "add" => \A t \in att[k].track : Offered(This(k), t.codec)

Choosing == \A k \in Subs : Chooses(k)

\* A connection that is made keeps its medias.
LEMMA OffersStay ==
  ASSUME IInv, [Next]_vars, NEW c \in Conns, life[c] # "free"
  PROVE  life'[c] # "free" /\ offers'[c] = offers[c]
<1>1. ASSUME NEW p \in Producers, Method(p)
      PROVE  life'[c] # "free" /\ offers'[c] = offers[c]
  <2>1. CASE Dial(p)
    BY <2>1 DEF Dial, Opened, IInv, TypeOK
  <2>2. ASSUME NEW kind \in {"External", "Internal"}, Push(p, kind)
        PROVE  life'[c] # "free" /\ offers'[c] = offers[c]
    BY <2>2 DEF Push, Opened, IInv, TypeOK
  <2>3. CASE Stop(p)
    BY <2>3 DEF Stop, StopConn
  <2>4. CASE Remove(p)
    BY <2>4 DEF Remove, IInv, TypeOK
  <2>5. CASE DialFails(p) \/ Start(p) \/ (\E x \in Known(p) : GetTrack(p, x))
             \/ (\E k \in Subs : AddTrack(p, k))
    BY <2>5 DEF DialFails, vars, Start, GetTrack, AddTrack
  <2>. QED  BY <1>1, <2>1, <2>2, <2>3, <2>4, <2>5 DEF Method
<1>2. ASSUME NEW w \in workers, Worker(w)
      PROVE  life'[c] # "free" /\ offers'[c] = offers[c]
  <2>1. CASE Reconnect(w)
    BY <2>1 DEF Reconnect, Opened, StopConn, IInv, TypeOK
  <2>2. CASE ~Reconnect(w)
    BY <1>2, <2>2 DEF Worker, WorkerEnds, WorkerFails, TimerFires, ReconnectStops,
                      ReconnectFails
  <2>. QED  BY <2>1, <2>2
<1>3. ASSUME NEW k \in Subs, Consumer(k)
      PROVE  life'[c] # "free" /\ offers'[c] = offers[c]
  BY <1>3 DEF Consumer, AppendChild, StopConsumer
<1>. QED  BY <1>1, <1>2, <1>3 DEF Next, vars

\* So what is offered stays on offer.
LEMMA OfferedStays ==
  ASSUME IInv, [Next]_vars, NEW p, NEW x \in Codecs, Offered(p, x)
  PROVE  Offered(p, x)'
<1>1. x.of \in Conns
  BY DEF Codecs
<1>. QED  BY <1>1, OffersStay DEF Offered

\* A goroutine whose variables stay as they are goes on choosing.
LEMMA StillChooses ==
  ASSUME SInv, [Next]_vars, NEW k \in Subs, Chooses(k), att'[k] = att[k]
  PROVE  Chooses(k)'
<1>1. PC(k)' = PC(k) /\ This(k)' = This(k)
  BY DEF PC, This
<1>2. att[k].todo \in SUBSET Codecs /\ att[k].track \in SUBSET Tracks
  BY OwnVariables DEF Atts
<1>3. \A t \in att[k].track : t.codec \in Codecs
  BY <1>2 DEF Tracks
<1>4. IInv
  BY DEF SInv
<1>5. PICK p : p = This(k)
  OBVIOUS
<1>6. \A x \in Codecs : Offered(p, x) => Offered(p, x)'
  BY <1>4, OfferedStays
<1>. QED  BY <1>1, <1>2, <1>3, <1>5, <1>6 DEF Chooses, Offered

\* The calls of AddConsumer, one by one, are calls a producer's specification knows.
LEMMA AttachIsNext ==
  ASSUME SInv, Choosing, NEW k \in Subs, Attach(k)
  PROVE  [Next]_vars
<1>1. CASE DialOne(k)
  BY <1>1, AtHand DEF DialOne, MayDial, Next, Method
<1>2. CASE DialOneFails(k)
  BY <1>2 DEF DialOneFails, DialFails
<1>3. CASE MatchGets(k)
  <2>1. This(k) \in Producers /\ FirstMatch(k) \in Matches(k) /\ FirstMatch(k) \in Codecs
    BY <1>3, AtHand, FirstMatchIsOne DEF MatchGets
  <2>2. FirstMatch(k).media \notin Sendonly /\ FirstMatch(k) \in att[k].todo
    BY <1>3, <2>1 DEF MatchGets, Matches
  <2>3. FirstMatch(k) \in Known(This(k))
    BY <1>3, <2>1, <2>2 DEF MatchGets, Choosing, Chooses, Offered, Known
  <2>. QED  BY <1>3, <2>1, <2>3 DEF MatchGets, Next, Method
<1>4. CASE MatchTalks(k)
  <2>1. This(k) \in Producers /\ FirstMatch(k) \in Matches(k) /\ FirstMatch(k) \in Codecs
    BY <1>4, AtHand, FirstMatchIsOne DEF MatchTalks
  <2>2. FirstMatch(k).media \in Sendonly /\ FirstMatch(k) \in att[k].todo
    BY <1>4, <2>1 DEF MatchTalks, Matches
  <2>3. Offered(This(k), FirstMatch(k)) /\ FirstMatch(k).of \in Conns
    BY <1>4, <2>1, <2>2 DEF MatchTalks, Choosing, Chooses, Codecs
  <2>4. HadSpeaker(This(k))
    BY <2>2, <2>3 DEF Offered, HadSpeaker
  <2>. QED  BY <1>4, <2>1, <2>4 DEF MatchTalks, Next, Method
<1>5. CASE AddToConsumer(k)
  <2>1. PICK t \in att[k].track : AppendChild(t, k)
    BY <1>5 DEF AddToConsumer
  <2>2. t \in Tracks
    BY OwnVariables DEF Atts
  <2>3. SourceOf[t.conn] = This(k) /\ life[t.conn] # "free" /\ Offered(This(k), t.codec)
    BY <1>5 DEF AddToConsumer, SInv, InHand, Choosing, Chooses
  <2>4. HandedOut(t)
    BY <2>3 DEF HandedOut, Offered
  <2>. QED  BY <2>1, <2>2, <2>4 DEF Next, Consumer
<1>6. CASE StartOne(k)
  <2>1. \A p \in att[k].starts : p \in Producers
    BY OwnVariables DEF Atts
  <2>. QED  BY <1>6, <2>1 DEF StartOne, Next, Method
<1>7. CASE ~(DialOne(k) \/ DialOneFails(k) \/ MatchGets(k) \/ MatchTalks(k)
             \/ AddToConsumer(k) \/ StartOne(k))
  BY <1>7 DEF Attach, NoMoreProducers, IndexPanics, SkipBroken, GetMedias, NoMatch,
              MatchFails, AddToConsumerFails, Release, Refused, AppendConsumer
<1>. QED  BY <1>1, <1>2, <1>3, <1>4, <1>5, <1>6, <1>7

\* RemoveProducer takes a producer of the list that is pushed, or none.
LEMMA RemoveConnIsNext ==
  ASSUME SInv, NEW c \in Conns \cup {NoConn}, RemoveConn(c)
  PROVE  [Next]_vars
<1>1. CASE UNCHANGED vars
  BY <1>1
<1>2. CASE ~UNCHANGED vars
  <2>. DEFINE n == CHOOSE i \in DOMAIN list :
                     conn[list[i]] = c /\ \A j \in 1 .. (i - 1) : conn[list[j]] # c
  <2>1. Remove(list[n])
    BY <1>2 DEF RemoveConn
  <2>2. list[n] \in Pushed
    BY <2>1 DEF Remove
  <2>3. list[n] \in Producers
    BY <2>2, ProducerAssumption
  <2>. HIDE DEF n
  <2>. QED  BY <2>1, <2>3 DEF Next, Method
<1>. QED  BY <1>1, <1>2

LEMMA StreamStepIsNext ==
  ASSUME SInv, Choosing, [StreamNext]_allVars
  PROVE  [Next]_vars
<1>1. ASSUME NEW k \in Subs, Detach(k) PROVE [Next]_vars
  <2>1. CASE Halt(k)
    <3>1. att[k].s \in Nat \ {0} /\ att[k].s <= Len(list) /\ list \in Seq(Producers)
      BY <2>1, OwnVariables DEF Atts, SInv, Calls, AtOneOfTheList, Halt
    <3>2. list[att[k].s] \in Producers
      BY <3>1
    <3>. QED  BY <2>1, <3>2 DEF Halt, Next, Method
  <2>2. CASE ~Halt(k)
    BY <1>1, <2>2 DEF Detach, RemoveConsumer, SkipPending, CheckPending, Lock, Scan, Unlock
  <2>. QED  BY <2>1, <2>2
<1>2. ASSUME NEW k \in Subs, Begin(k) \/ Leave(k) PROVE [Next]_vars
  BY <1>2 DEF Begin, Leave, Next, Consumer
<1>3. ASSUME NEW p \in Pushed, AddProducer(p) \/ PlayAdds(p) PROVE [Next]_vars
  BY <1>3, ProducerAssumption DEF AddProducer, PlayAdds, Next, Method
<1>4. ASSUME NEW p \in Pushed, RemoveProducer(p) PROVE [Next]_vars
  <2>1. conn[p] \in Conns \cup {NoConn}
    BY ProducerAssumption DEF SInv, IInv, TypeOK
  <2>. QED  BY <1>4, <2>1, RemoveConnIsNext DEF RemoveProducer
<1>5. ASSUME NEW r \in plays, PlayEnds(r) PROVE [Next]_vars
  <2>1. r.conn \in Conns
    BY DEF SInv, Players
  <2>. QED  BY <1>5, <2>1, RemoveConnIsNext DEF PlayEnds
<1>6. CASE PlayStops \/ PlayFails \/ UNCHANGED allVars
  BY <1>6 DEF PlayStops, PlayFails, allVars, vars
<1>7. CASE \E w \in workers : Worker(w)
  BY <1>7 DEF Next
<1>. QED
  BY <1>1, <1>2, <1>3, <1>4, <1>5, <1>6, <1>7, AttachIsNext DEF StreamNext, Goroutine

\* A goroutine that tries fewer medias of the same producer chooses among them still.
LEMMA ChoosesFewer ==
  ASSUME SInv, [Next]_vars, NEW k \in Subs, NEW a \in Atts, Sets(k, a),
         a.pc \in {"match", "add"} =>
           \A x \in a.todo : Offered(a.view[a.j], x),
         a.pc = "add" => \A t \in a.track : Offered(a.view[a.j], t.codec)
  PROVE  Chooses(k)'
<1>1. att'[k] = a
  BY SetsOne DEF SInv, Calls
<1>2. PC(k)' = a.pc /\ This(k)' = a.view[a.j]
  BY <1>1 DEF PC, This
<1>3. PICK p : p = a.view[a.j]
  OBVIOUS
<1>4. IInv /\ a.todo \in SUBSET Codecs /\ a.track \in SUBSET Tracks
  BY DEF SInv, Atts
<1>5. \A t \in a.track : t.codec \in Codecs
  BY <1>4 DEF Tracks
<1>6. \A x \in Codecs : Offered(p, x) => Offered(p, x)'
  BY <1>4, OfferedStays
<1>. QED  BY <1>1, <1>2, <1>3, <1>4, <1>5, <1>6 DEF Chooses, Offered

\* On to the next producer or media nothing has been tried.
LEMMA ChoosesLater ==
  ASSUME SInv, [Next]_vars, NEW k \in Subs, NEW a \in Atts, Sets(k, a),
         a.pc \notin {"match", "add"}
  PROVE  Chooses(k)'
  BY ChoosesFewer

LEMMA AttachChooses ==
  ASSUME SInv, Choosing, [Next]_vars, NEW k \in Subs, Attach(k)
  PROVE  Chooses(k)'
<1>1. att[k] \in Atts /\ list \in Seq(Producers)
  BY OwnVariables DEF SInv, Calls
<1>2. CASE NoMoreProducers(k)
  <2>1. PICK b : Sets(k, b) /\ Steady(b) /\ b.pc \in {"dial", "release"}
    BY <1>1, <1>2, NextMediaSets DEF NoMoreProducers
  <2>. QED  BY <2>1, ChoosesLater DEF Steady
<1>3. CASE IndexPanics(k)
  <2>1. [att[k] EXCEPT !.pc = "panic"] \in Atts
    BY <1>1 DEF Atts, PCs
  <2>. QED  BY <1>3, <2>1, ChoosesLater DEF IndexPanics, Goes, Atts
<1>4. CASE SkipBroken(k) \/ NoMatch(k)
  <2>1. LET b == [att[k] EXCEPT !.pc = "dial", !.j = @ + 1]
        IN  b \in Atts /\ b.pc = "dial"
    BY <1>1, NextTurn DEF Steady
  <2>. QED  BY <1>4, <2>1, ChoosesLater DEF SkipBroken, NoMatch, NextProducer
<1>5. CASE DialOneFails(k)
  <2>1. LET b == [Broken(k) EXCEPT !.pc = "dial", !.j = @ + 1]
        IN  b \in Atts /\ b.pc = "dial"
    BY <1>1, BrokenType, NextTurn DEF Steady
  <2>. QED  BY <1>5, <2>1, ChoosesLater DEF DialOneFails, NextProducer
<1>6. CASE DialOne(k)
  <2>1. [att[k] EXCEPT !.pc = "medias"] \in Atts
    BY <1>1 DEF Atts, PCs
  <2>. QED  BY <1>6, <2>1, ChoosesLater DEF DialOne, Goes, Atts
<1>7. CASE GetMedias(k)
  <2>. DEFINE todo == Listing(conn[This(k)])
              a == [att[k] EXCEPT !.pc = "match", !.todo = todo]
  <2>1. This(k) \in Producers /\ todo \in SUBSET Codecs
    BY <1>7, AtHand DEF GetMedias, Listing, Codecs, SInv, IInv, TypeOK
  <2>2. \A x \in todo : Offered(This(k), x)
    BY <2>1 DEF Listing, Offered, SInv, IInv, HeldIsOpen
  <2>3. Sets(k, a)
    BY <1>7 DEF GetMedias
  <2>. HIDE DEF todo
  <2>4. /\ a \in Atts /\ a.pc = "match" /\ a.todo = todo
        /\ a.view = att[k].view /\ a.j = att[k].j
    BY <1>1, <2>1 DEF Atts, PCs
  <2>. HIDE DEF a
  <2>. QED  BY <2>2, <2>3, <2>4, ChoosesFewer DEF This
<1>8. CASE MatchFails(k)
  <2>. DEFINE a == [Broken(k) EXCEPT !.todo = After(k)]
  <2>1. After(k) \in SUBSET Codecs /\ After(k) \subseteq att[k].todo
    BY <1>1 DEF After, Atts
  <2>2. /\ a \in Atts /\ a.pc = "match"
        /\ a.view = att[k].view /\ a.j = att[k].j
    BY <1>1, <1>8, <2>1, BrokenType DEF MatchFails, PC
  <2>3. a.todo = After(k)
    <3>1. ASSUME NEW b \in Atts, NEW todo \in SUBSET Codecs
          PROVE  [b EXCEPT !.todo = todo].todo = todo
      BY DEF Atts
    <3>2. Broken(k) \in Atts
      BY <1>1, BrokenType
    <3>. QED  BY <2>1, <3>1, <3>2
  <2>4. Sets(k, a)
    BY <1>8 DEF MatchFails
  <2>. HIDE DEF a
  <2>5. \A x \in a.todo : Offered(a.view[a.j], x)
    BY <1>8, <2>1, <2>2, <2>3 DEF MatchFails, Choosing, Chooses, This
  <2>. QED  BY <2>2, <2>4, <2>5, ChoosesFewer
<1>9. CASE MatchGets(k)
  <2>. DEFINE p == This(k)
              t == TrackFor(p, FirstMatch(k))
              a == [att[k] EXCEPT !.pc = "add", !.todo = After(k), !.track = {t}]
  <2>1. /\ p \in Producers /\ FirstMatch(k) \in Codecs
        /\ FirstMatch(k) \in att[k].todo
    BY <1>9, AtHand, FirstMatchIsOne DEF MatchGets, Matches
  <2>2. t \in Tracks
    BY <1>9, <2>1, GetTrackHands DEF MatchGets, SInv, Owned
  <2>3. t.codec = FirstMatch(k)
    BY DEF TrackFor, Listed
  <2>4. After(k) \in SUBSET Codecs /\ After(k) \subseteq att[k].todo
    BY <1>1 DEF After, Atts
  <2>5. \A x \in att[k].todo : Offered(p, x)
    BY <1>9 DEF MatchGets, Choosing, Chooses
  <2>6. Sets(k, a)
    BY <1>9 DEF MatchGets
  <2>7. p = att[k].view[att[k].j]
    BY DEF This
  <2>. HIDE DEF p, t
  <2>8. /\ a \in Atts /\ a.pc = "add" /\ a.todo = After(k) /\ a.track = {t}
        /\ a.view = att[k].view /\ a.j = att[k].j
    BY <1>1, <2>2, <2>4 DEF Atts, PCs
  <2>. HIDE DEF a
  <2>. QED  BY <2>1, <2>3, <2>4, <2>5, <2>6, <2>7, <2>8, ChoosesFewer
<1>10. ASSUME NEW todo \in SUBSET Codecs, todo \subseteq att[k].todo, Found(k, todo),
              PC(k) \in {"match", "add"}
       PROVE  Chooses(k)'
  <2>. DEFINE a == [att[k] EXCEPT !.pc = "match", !.todo = todo, !.track = {},
                                  !.starts = @ \cup {This(k)}]
  <2>1. This(k) \in Producers
    BY <1>10, AtHand
  <2>2. /\ a \in Atts /\ a.pc = "match" /\ a.todo = todo
        /\ a.view = att[k].view /\ a.j = att[k].j
    BY <1>1, <2>1 DEF Atts, PCs
  <2>3. Sets(k, a) \/ NextMedia(k, a)
    BY <1>10 DEF Found
  <2>. HIDE DEF a
  <2>4. CASE Sets(k, a)
    <3>1. \A x \in a.todo : Offered(a.view[a.j], x)
      BY <1>10, <2>2 DEF Choosing, Chooses, This
    <3>. QED  BY <2>2, <2>4, <3>1, ChoosesFewer
  <2>5. CASE NextMedia(k, a)
    <3>1. PICK b : Sets(k, b) /\ Steady(b) /\ b.pc \in {"dial", "release"}
      BY <1>1, <2>2, <2>5, NextMediaSets
    <3>. QED  BY <3>1, ChoosesLater DEF Steady
  <2>. QED  BY <2>3, <2>4, <2>5
<1>11. CASE MatchTalks(k)
  <2>1. After(k) \in SUBSET Codecs /\ After(k) \subseteq att[k].todo
    BY <1>1 DEF After, Atts
  <2>. QED  BY <1>10, <1>11, <2>1 DEF MatchTalks
<1>12. CASE AddToConsumer(k)
  <2>1. att[k].todo \in SUBSET Codecs
    BY <1>1 DEF Atts
  <2>. QED  BY <1>10, <1>12, <2>1 DEF AddToConsumer
<1>13. CASE AddToConsumerFails(k)
  <2>. DEFINE a == [att[k] EXCEPT !.pc = "match", !.track = {}]
  <2>1. /\ a \in Atts /\ a.pc = "match" /\ a.todo = att[k].todo
        /\ a.view = att[k].view /\ a.j = att[k].j
    BY <1>1 DEF Atts, PCs
  <2>2. Sets(k, a)
    BY <1>13 DEF AddToConsumerFails
  <2>. HIDE DEF a
  <2>3. \A x \in a.todo : Offered(a.view[a.j], x)
    BY <1>13, <2>1 DEF AddToConsumerFails, Choosing, Chooses, This
  <2>. QED  BY <2>1, <2>2, <2>3, ChoosesFewer
<1>14. CASE Release(k)
  <2>1. ASSUME NEW pc \in {"check", "append"}
        PROVE  LET b == [att[k] EXCEPT !.pc = pc, !.then = "append"]
               IN  b \in Atts /\ b.pc = pc
    BY <1>1 DEF Atts, PCs
  <2>. QED  BY <1>14, <2>1, ChoosesLater DEF Release
<1>15. CASE Refused(k)
  BY <1>15, IdleType, ChoosesLater DEF Refused, Steady
<1>16. CASE AppendConsumer(k)
  <2>1. LET b == [att[k] EXCEPT !.pc = "start"] IN b \in Atts /\ b.pc = "start"
    BY <1>1 DEF Atts, PCs
  <2>. QED  BY <1>16, <2>1, ChoosesLater DEF AppendConsumer, Goes
<1>17. CASE StartOne(k)
  <2>1. PICK p \in att[k].starts :
          LET rest == att[k].starts \ {p} IN
          Sets(k, IF rest = {} THEN [Idle EXCEPT !.pc = "on"]
                  ELSE [att[k] EXCEPT !.starts = rest])
    BY <1>17 DEF StartOne
  <2>2. LET b == [att[k] EXCEPT !.starts = att[k].starts \ {p}]
        IN  b \in Atts /\ b.pc = "start"
    BY <1>1, <1>17 DEF Atts, StartOne, PC
  <2>3. LET b == [Idle EXCEPT !.pc = "on"] IN b \in Atts /\ b.pc = "on"
    BY IdleType DEF Steady, Idle
  <2>. QED  BY <2>1, <2>2, <2>3, ChoosesLater
<1>. QED
  BY <1>2, <1>3, <1>4, <1>5, <1>6, <1>7, <1>8, <1>9, <1>11, <1>12, <1>13, <1>14, <1>15,
     <1>16, <1>17 DEF Attach

\* A goroutine that is not choosing.
LEMMA DetachChooses ==
  ASSUME SInv, [Next]_vars, NEW k \in Subs, Begin(k) \/ Leave(k) \/ Detach(k)
  PROVE  Chooses(k)'
<1>1. att \in [Subs -> Atts] /\ att[k].then \in {"idle", "append"}
  BY OwnVariables DEF SInv, Calls, Atts
<1>2. CASE Begin(k)
  BY <1>1, <1>2 DEF Begin, Sets, Idle, Chooses, PC
<1>3. CASE Leave(k) \/ CheckPending(k) \/ Lock(k)
  BY <1>1, <1>3 DEF Leave, CheckPending, Lock, Goes, Sets, Atts, Chooses, PC
<1>4. ASSUME NEW a, Sets(k, a), a.pc \notin {"match", "add"} PROVE Chooses(k)'
  BY <1>1, <1>4 DEF Sets, Chooses, PC
<1>5. CASE RemoveConsumer(k)
  <2>1. [att[k] EXCEPT !.pc = "check", !.then = "idle"].pc = "check"
    BY <1>1 DEF Atts
  <2>. QED  BY <1>4, <1>5, <2>1 DEF RemoveConsumer
<1>6. CASE SkipPending(k) \/ Unlock(k)
  <2>1. [att[k] EXCEPT !.pc = att[k].then, !.s = 1].pc = att[k].then
    BY <1>1 DEF Atts
  <2>. QED  BY <1>1, <1>4, <1>6, <2>1 DEF SkipPending, Unlock, Returns
<1>7. CASE Scan(k) \/ Halt(k)
  <2>1. ASSUME NEW s
        PROVE  /\ [att[k] EXCEPT !.s = s].pc = att[k].pc
               /\ [att[k] EXCEPT !.pc = "halt"].pc = "halt"
               /\ [att[k] EXCEPT !.pc = "scan", !.s = s].pc = "scan"
    BY <1>1 DEF Atts
  <2>. DEFINE a == [att[k] EXCEPT !.s = att[k].s + 1]
              b == [att[k] EXCEPT !.pc = "halt"]
              c == [att[k] EXCEPT !.pc = "scan", !.s = att[k].s + 1]
  <2>3. a.pc = att[k].pc /\ b.pc = "halt" /\ c.pc = "scan"
    BY <2>1, Zenon
  <2>4. (PC(k) = "scan" /\ Sets(k, a)) \/ Sets(k, b) \/ Sets(k, c)
    BY <1>7 DEF Scan, Halt, Goes
  <2>. HIDE DEF a, b, c
  <2>2. \E d : Sets(k, d) /\ d.pc \in {"scan", "halt"}
    BY <2>3, <2>4 DEF PC
  <2>. QED  BY <1>4, <2>2
<1>. QED  BY <1>2, <1>3, <1>5, <1>6, <1>7 DEF Detach

\* Of the goroutines a step of one sets the variables of that one.
LEMMA OneAtATime ==
  ASSUME SInv, NEW k \in Subs, Begin(k) \/ Leave(k) \/ Goroutine(k),
         NEW l \in Subs, l # k
  PROVE  att'[l] = att[l]
<1>1. \E a : Sets(k, a)
  BY DEF Goroutine, Begin, Leave, Goes, Attach, NoMoreProducers, IndexPanics,
     SkipBroken, DialOne, DialOneFails, GetMedias, NoMatch, MatchFails, MatchGets,
     MatchTalks, AddToConsumer, AddToConsumerFails, Release, Refused, AppendConsumer,
     StartOne, NextProducer, NextMedia, Found, Detach, RemoveConsumer, SkipPending,
     CheckPending, Returns, Lock, Scan, Halt, Unlock
<1>. QED  BY <1>1 DEF Sets, SInv, Calls

LEMMA ChoosingNext ==
  ASSUME SInv, Choosing, [StreamNext]_allVars
  PROVE  Choosing'
<1>1. [Next]_vars
  BY StreamStepIsNext
<1>2. ASSUME NEW k \in Subs, Begin(k) \/ Leave(k) \/ Goroutine(k)
      PROVE  Choosing'
  <2>1. Chooses(k)'
    BY <1>1, <1>2, AttachChooses, DetachChooses DEF Goroutine
  <2>2. \A l \in Subs : l # k => att'[l] = att[l]
    BY <1>2, OneAtATime
  <2>. QED  BY <1>1, <2>1, <2>2, StillChooses DEF Choosing
<1>3. CASE UNCHANGED att
  BY <1>1, <1>3, StillChooses DEF Choosing
<1>. QED
  BY <1>2, <1>3 DEF StreamNext, allVars, streamVars, AddProducer, RemoveProducer, RemoveConn,
                    PlayStops, PlayFails, PlayAdds, PlayEnds

\* The producers of a stream do what Producer says producers do, whatever the consumers,
\* the publishers and Play do around them: every theorem about Producer is one about the
\* producers of a stream.
THEOREM StreamImplementsProducer == StreamSpec => UsesProducers
<1>1. StreamInit => Init /\ Choosing
  BY DEF StreamInit, Choosing, Chooses, PC, Idle
<1>2. SInv /\ Choosing /\ [StreamNext]_allVars => Choosing' /\ [Next]_vars
  BY ChoosingNext, StreamStepIsNext
<1>3. StreamSpec => Spec
  BY <1>1, <1>2, StreamInvariance, PTL DEF StreamSpec, Spec
<1>. QED  BY <1>3 DEF UsesProducers

\* So of a stream's producers: nobody's track is lost in a reconnection, no connection is
\* without an owner, and one goroutine dials again.
THEOREM StreamKeepsProducers ==
  StreamSpec =>
    /\ []ConnUnlessNone /\ []NoGhost /\ []OneWatcher /\ KeepsLease
    /\ OnlyTheWatcherSwaps /\ TracksFollow /\ TalkersFollow
<1>1. StreamSpec => Spec
  BY StreamImplementsProducer DEF UsesProducers
<1>. QED
  BY <1>1, NeverNil, NoGhosts, WatchedOnce, ImplementsLease, SwapsAreTheWatchers,
     ReconnectKeepsConsumers, ReconnectKeepsTalkers

-----------------------------------------------------------------------------
(* Who is gone, and who is left to stop the sources. *)

\* Goroutine k goes on with its variables set to b, still in AddConsumer.
Adds(k, b) ==
  Sets(k, b) /\ b.pc \in InAdd /\ b.s = att[k].s /\ att[k].starts \subseteq b.starts

\* What the loops of AddConsumer do to the goroutine: it stays in them, and the source
\* whose track it attaches to is one it will start.
LEMMA AttachTurn ==
  ASSUME SInv, NEW k \in Subs, Attach(k)
  PROVE  \/ /\ PC(k) \in InAdd
            /\ \E b : Adds(k, b) /\ (UNCHANGED childs \/ b.starts # {})
            /\ UNCHANGED childs \/ \E t \in Tracks : AppendChild(t, k)
            /\ UNCHANGED <<list, mu, pending, consumers>>
         \/ Release(k) \/ Refused(k) \/ AppendConsumer(k) \/ StartOne(k)
<1>1. att[k] \in Atts /\ list \in Seq(Producers)
  BY OwnVariables DEF SInv, Calls
<1>2. CASE NoMoreProducers(k)
  <2>1. PICK b : /\ Sets(k, b) /\ Steady(b)
                 /\ b.pc \in {"dial", "release"} /\ b.starts = att[k].starts /\ b.s = att[k].s
    BY <1>1, <1>2, NextMediaSets DEF NoMoreProducers
  <2>. QED  BY <1>2, <2>1 DEF NoMoreProducers, others, vars, InAdd, Adds
<1>3. ASSUME NEW pc \in {"panic", "medias"}, Goes(k, pc)
      PROVE  \E b : Adds(k, b)
  <2>1. LET b == [att[k] EXCEPT !.pc = pc]
        IN  b.pc = pc /\ b.s = att[k].s /\ b.starts = att[k].starts
    BY <1>1 DEF Atts
  <2>. QED  BY <1>3, <2>1 DEF Goes, Adds, InAdd
<1>4. CASE IndexPanics(k)
  BY <1>3, <1>4 DEF IndexPanics, AtProducer, others, vars, InAdd
<1>5. CASE DialOne(k)
  BY <1>3, <1>5 DEF DialOne, MayDial, AtProducer, others, vars, InAdd, Dial, graph
<1>6. CASE SkipBroken(k) \/ NoMatch(k)
  <2>1. LET b == [att[k] EXCEPT !.pc = "dial", !.j = @ + 1]
        IN  b.pc = "dial" /\ b.s = att[k].s /\ b.starts = att[k].starts
    BY <1>1, NextTurn DEF Steady
  <2>2. \E b : Adds(k, b)
    BY <1>6, <2>1 DEF SkipBroken, NoMatch, NextProducer, Adds, InAdd
  <2>. QED  BY <1>6, <2>2 DEF SkipBroken, NoMatch, AtProducer, others, vars, InAdd
<1>7. CASE DialOneFails(k)
  <2>1. LET b == [Broken(k) EXCEPT !.pc = "dial", !.j = @ + 1]
        IN  b.pc = "dial" /\ b.s = att[k].s /\ b.starts = att[k].starts
    BY <1>1, BrokenType, NextTurn DEF Steady
  <2>2. \E b : Adds(k, b)
    BY <1>7, <2>1 DEF DialOneFails, NextProducer, Adds, InAdd
  <2>. QED  BY <1>7, <2>2 DEF DialOneFails, DialFails, MayDial, AtProducer, others, vars, InAdd
<1>8. ASSUME NEW pc \in {"match", "add"}, NEW todo, NEW track
      PROVE  /\ LET b == [att[k] EXCEPT !.pc = pc, !.todo = todo]
                IN  b.pc = pc /\ b.s = att[k].s /\ b.starts = att[k].starts
             /\ LET b == [att[k] EXCEPT !.pc = pc, !.todo = todo, !.track = track]
                IN  b.pc = pc /\ b.s = att[k].s /\ b.starts = att[k].starts
             /\ LET b == [att[k] EXCEPT !.pc = pc, !.track = track]
                IN  b.pc = pc /\ b.s = att[k].s /\ b.starts = att[k].starts
  BY <1>1 DEF Atts
<1>9. CASE GetMedias(k)
  <2>. DEFINE a == [att[k] EXCEPT !.pc = "match", !.todo = Listing(conn[This(k)])]
  <2>1. Sets(k, a)
    BY <1>9 DEF GetMedias
  <2>2. a.pc = "match" /\ a.s = att[k].s /\ a.starts = att[k].starts
    BY <1>8, Zenon
  <2>. HIDE DEF a
  <2>3. \E b : Adds(k, b)
    BY <2>1, <2>2 DEF Adds, InAdd
  <2>. QED  BY <1>9, <2>3 DEF GetMedias, others, vars, InAdd
<1>10. CASE MatchFails(k)
  <2>1. After(k) \in SUBSET Codecs
    BY <1>1 DEF After, Atts
  <2>2. LET b == [Broken(k) EXCEPT !.todo = After(k)]
        IN  b.pc = "match" /\ b.s = att[k].s /\ b.starts = att[k].starts
    BY <1>1, <1>10, <2>1, BrokenType DEF MatchFails, PC
  <2>3. \E b : Adds(k, b)
    BY <1>10, <2>2 DEF MatchFails, Adds, InAdd
  <2>. QED  BY <1>10, <2>3 DEF MatchFails, others, vars, InAdd
<1>11. CASE MatchGets(k)
  <2>. DEFINE todo == After(k)
              track == {TrackFor(This(k), FirstMatch(k))}
              a == [att[k] EXCEPT !.pc = "add", !.todo = todo, !.track = track]
  <2>1. Sets(k, a)
    BY <1>11 DEF MatchGets
  <2>. HIDE DEF todo, track
  <2>2. a.pc = "add" /\ a.s = att[k].s /\ a.starts = att[k].starts
    BY <1>1 DEF Atts
  <2>. HIDE DEF a
  <2>3. \E b : Adds(k, b)
    BY <2>1, <2>2 DEF Adds, InAdd
  <2>4. UNCHANGED childs
    BY <1>11 DEF MatchGets, GetTrack, graph
  <2>. QED  BY <1>11, <2>3, <2>4 DEF MatchGets, others, InAdd
<1>12. CASE AddToConsumerFails(k)
  <2>. DEFINE a == [att[k] EXCEPT !.pc = "match", !.track = {}]
  <2>1. Sets(k, a)
    BY <1>12 DEF AddToConsumerFails
  <2>2. a.pc = "match" /\ a.s = att[k].s /\ a.starts = att[k].starts
    BY <1>8, Zenon
  <2>. HIDE DEF a
  <2>3. \E b : Adds(k, b)
    BY <2>1, <2>2 DEF Adds, InAdd
  <2>. QED  BY <1>12, <2>3 DEF AddToConsumerFails, others, vars, InAdd
<1>13. ASSUME NEW todo \in SUBSET Codecs, Found(k, todo), PC(k) \in {"match", "add"}
       PROVE  \E b : Adds(k, b) /\ b.starts # {}
  <2>1. PICK b : /\ Sets(k, b) /\ Steady(b)
                 /\ b.pc \in {"dial", "release", "match"}
                 /\ b.starts = att[k].starts \cup {This(k)} /\ b.s = att[k].s
    BY <1>1, <1>13, AtHand, FoundSets
  <2>. QED  BY <2>1 DEF Adds, InAdd
<1>14. CASE MatchTalks(k)
  <2>1. After(k) \in SUBSET Codecs
    BY <1>1 DEF After, Atts
  <2>. QED  BY <1>13, <1>14, <2>1 DEF MatchTalks, AddTrack, others, InAdd
<1>15. CASE AddToConsumer(k)
  <2>1. att[k].todo \in SUBSET Codecs /\ att[k].track \in SUBSET Tracks
    BY <1>1 DEF Atts
  <2>. QED  BY <1>13, <1>15, <2>1 DEF AddToConsumer, others, InAdd
<1>. QED
  BY <1>2, <1>4, <1>5, <1>6, <1>7, <1>9, <1>10, <1>11, <1>12, <1>14, <1>15 DEF Attach

\* Consumer k is a child of some track.
Listens(k) == \E t \in Tracks : k \in Range(childs[t])

\* AddConsumer has let k in, or is about to: k reads from, or will start, a source.
In(k) == PC(k) = "on" \/ att[k].starts # {}

GoneListener ==
  \A k \in Subs :
    /\ Listens(k) => In(k)
    /\ k \in consumers => PC(k) \in {"start", "on", "remove"}

\* No step of a worker adds a listener: a reconnection moves those there are.
LEMMA WorkerListens ==
  ASSUME IInv, NEW w \in workers, Worker(w), NEW k \in Subs, Listens(k)'
  PROVE  Listens(k)
<1>1. CASE ~Reconnect(w)
  BY <1>1 DEF Worker, WorkerEnds, WorkerFails, TimerFires, ReconnectStops, ReconnectFails,
              Listens, graph
<1>2. CASE Reconnect(w)
  <2>. DEFINE p == w.prod
  <2>1. PICK c \in Conns, ms \in SUBSET Medias, failed \in SUBSET Flaky :
          StopConn(conn[p], [life EXCEPT ![c] = "open"],
                   MovedChilds(receivers[p], (ms \ Sendonly) \ failed, c),
                   MovedTalks(p, ms, c))
    BY <1>2 DEF Reconnect
  <2>. DEFINE ok == (ms \ Sendonly) \ failed
              moved == MovedChilds(receivers[p], ok, c)
  <2>2. p \in Producers /\ receivers[p] \in Seq(Tracks) /\ ok \in SUBSET Medias
    BY DEF IInv, TypeOK, Workers
  <2>3. moved \in [Tracks -> Seq(Subs)]
    BY <2>2, MovedChildsType DEF IInv
  <2>4. PICK t \in Tracks : k \in Range(childs'[t])
    BY DEF Listens
  <2>5. k \in Range(moved[t])
    <3>1. childs'[t] \in {Unclosed(moved[t]), moved[t]}
      BY <2>1 DEF StopConn
    <3>. HIDE DEF moved
    <3>. QED  BY <2>3, <2>4, <3>1, UnclosedRange
  <2>6. \/ \E u \in Tracks : moved[t] = childs[u]
        \/ moved[t] = <<>>
    <3>1. \A i \in DOMAIN receivers[p] : receivers[p][i] \in Tracks
      BY <2>2
    <3>. QED  BY <3>1 DEF MovedChilds
  <2>7. Range(<<>>) = {}
    BY DEF Range
  <2>. HIDE DEF moved
  <2>. QED  BY <2>5, <2>6, <2>7 DEF Listens
<1>. QED  BY <1>1, <1>2

\* Only the steps of consumers add one.
LEMMA StopListens ==
  ASSUME IInv, NEW p \in Producers, Stop(p), NEW k \in Subs, Listens(k)'
  PROVE  Listens(k)
<1>1. /\ conn[p] \in Conns /\ StopConn(conn[p], life, childs, talks)
      /\ life \in [Conns -> {"free", "open", "closed"}]
      /\ childs \in [Tracks -> Seq(Subs)] /\ talks \in [Subs -> SUBSET Conns]
  BY DEF IInv, TypeOK, ConnUnlessNone, Stop
<1>2. \A t \in Tracks : Range(childs'[t]) \subseteq Range(childs[t])
  BY <1>1, StopConnReads
<1>. QED  BY <1>2 DEF Listens

\* What the other steps of a goroutine do to its variables.
LEMMA OwnTurn ==
  ASSUME SInv, NEW k \in Subs
  PROVE  /\ Begin(k) => PC(k)' = "dial" /\ att'[k].s = 1
         /\ Release(k) => /\ PC(k)' = IF pending' = 0 THEN "check" ELSE "append"
                          /\ att'[k].s = att[k].s /\ att'[k].starts = att[k].starts
         /\ Refused(k) => att'[k] = Idle
         /\ AppendConsumer(k) => /\ PC(k)' = "start"
                                 /\ att'[k].s = att[k].s /\ att'[k].starts = att[k].starts
         /\ StartOne(k) => \/ att'[k].pc = "on" /\ att'[k].s = 1
                           \/ /\ PC(k)' = "start" /\ att'[k].s = att[k].s
                              /\ att'[k].starts # {}
         /\ Leave(k) => /\ PC(k)' = "remove"
                        /\ att'[k].s = att[k].s /\ att'[k].starts = att[k].starts
         /\ RemoveConsumer(k) => /\ PC(k)' = "check"
                                 /\ att'[k].s = att[k].s /\ att'[k].starts = att[k].starts
         /\ SkipPending(k) \/ Unlock(k) => /\ PC(k)' = att[k].then
                                 /\ att'[k].s = 1 /\ att'[k].starts = att[k].starts
         /\ CheckPending(k) => /\ PC(k)' = "lock"
                               /\ att'[k].s = att[k].s /\ att'[k].starts = att[k].starts
         /\ Lock(k) => /\ PC(k)' = "scan"
                       /\ att'[k].s = att[k].s /\ att'[k].starts = att[k].starts
         /\ Scan(k) => /\ IF HasReaders(list[att[k].s])
                          THEN PC(k)' = "scan" /\ att'[k].s = att[k].s + 1
                          ELSE PC(k)' = "halt" /\ att'[k].s = att[k].s
                       /\ att'[k].starts = att[k].starts
         /\ Halt(k) => /\ PC(k)' = "scan" /\ att'[k].s = att[k].s + 1
                       /\ att'[k].starts = att[k].starts
<1>1. att \in [Subs -> Atts] /\ att[k] \in Atts
  BY OwnVariables DEF SInv, Calls
<1>2. ASSUME NEW a, Sets(k, a) PROVE att'[k] = a
  BY <1>1, <1>2 DEF Sets
<1>3. ASSUME NEW pc, Goes(k, pc)
      PROVE  att'[k].pc = pc /\ att'[k].s = att[k].s /\ att'[k].starts = att[k].starts
  BY <1>1, <1>3 DEF Goes, Sets, Atts
<1>4. ASSUME NEW pc, NEW then, Sets(k, [att[k] EXCEPT !.pc = pc, !.then = then])
      PROVE  att'[k].pc = pc /\ att'[k].s = att[k].s /\ att'[k].starts = att[k].starts
  BY <1>1, <1>4 DEF Sets, Atts
<1>5. ASSUME NEW pc, NEW s, Sets(k, [att[k] EXCEPT !.pc = pc, !.s = s])
      PROVE  att'[k].pc = pc /\ att'[k].s = s /\ att'[k].starts = att[k].starts
  BY <1>1, <1>5 DEF Sets, Atts
<1>6. ASSUME NEW s, Sets(k, [att[k] EXCEPT !.s = s])
      PROVE  att'[k].pc = att[k].pc /\ att'[k].s = s /\ att'[k].starts = att[k].starts
  BY <1>1, <1>6 DEF Sets, Atts
<1>7. Begin(k) => PC(k)' = "dial" /\ att'[k].s = 1
  BY <1>1 DEF Begin, Sets, Idle, PC
<1>8. Release(k) => /\ PC(k)' = IF pending' = 0 THEN "check" ELSE "append"
                    /\ att'[k].s = att[k].s /\ att'[k].starts = att[k].starts
  <2>1. PICK pc : pc = IF pending' = 0 THEN "check" ELSE "append"
    OBVIOUS
  <2>2. Release(k) => Sets(k, [att[k] EXCEPT !.pc = pc, !.then = "append"])
    BY <2>1 DEF Release
  <2>3. Release(k) => att'[k].pc = pc /\ att'[k].s = att[k].s /\ att'[k].starts = att[k].starts
    BY <1>4, <2>2, Zenon
  <2>. QED  BY <2>1, <2>3 DEF PC
<1>9. Refused(k) => att'[k] = Idle
  BY <1>1 DEF Refused, Sets
<1>10. StartOne(k) => \/ att'[k].pc = "on" /\ att'[k].s = 1
                      \/ /\ PC(k)' = "start" /\ att'[k].s = att[k].s
                         /\ att'[k].starts # {}
  <2>. SUFFICES ASSUME StartOne(k)
                PROVE  \/ att'[k].pc = "on" /\ att'[k].s = 1
                       \/ /\ PC(k)' = "start" /\ att'[k].s = att[k].s
                          /\ att'[k].starts # {}
    OBVIOUS
  <2>1. PICK rest : Sets(k, IF rest = {} THEN [Idle EXCEPT !.pc = "on"]
                            ELSE [att[k] EXCEPT !.starts = rest])
    BY DEF StartOne
  <2>2. CASE rest = {}
    BY <1>1, <2>1, <2>2 DEF Sets, Idle
  <2>3. CASE rest # {}
    BY <1>1, <2>1, <2>3 DEF Sets, Atts, StartOne, PC
  <2>. QED  BY <2>2, <2>3
<1>11. RemoveConsumer(k) => /\ PC(k)' = "check"
                            /\ att'[k].s = att[k].s /\ att'[k].starts = att[k].starts
  <2>1. RemoveConsumer(k) => Sets(k, [att[k] EXCEPT !.pc = "check", !.then = "idle"])
    BY DEF RemoveConsumer
  <2>. QED  BY <1>4, <2>1, Zenon DEF PC
<1>12. SkipPending(k) \/ Unlock(k) => /\ PC(k)' = att[k].then
                                      /\ att'[k].s = 1 /\ att'[k].starts = att[k].starts
  <2>1. SkipPending(k) \/ Unlock(k) => Sets(k, [att[k] EXCEPT !.pc = att[k].then, !.s = 1])
    BY DEF SkipPending, Unlock, Returns
  <2>. QED  BY <1>5, <2>1, Zenon DEF PC
<1>13. Scan(k) => /\ IF HasReaders(list[att[k].s])
                     THEN PC(k)' = "scan" /\ att'[k].s = att[k].s + 1
                     ELSE PC(k)' = "halt" /\ att'[k].s = att[k].s
                  /\ att'[k].starts = att[k].starts
  <2>1. PICK n : n = att[k].s + 1
    OBVIOUS
  <2>2. CASE Scan(k) /\ HasReaders(list[att[k].s])
    <3>1. Sets(k, [att[k] EXCEPT !.s = n]) /\ att[k].pc = "scan"
      BY <2>1, <2>2 DEF Scan, PC
    <3>2. att'[k].pc = att[k].pc /\ att'[k].s = n /\ att'[k].starts = att[k].starts
      BY <1>6, <3>1, Zenon
    <3>. QED  BY <2>1, <2>2, <3>1, <3>2 DEF PC
  <2>3. CASE Scan(k) /\ ~HasReaders(list[att[k].s])
    <3>1. Goes(k, "halt")
      BY <2>3 DEF Scan
    <3>. QED  BY <1>3, <2>3, <3>1 DEF PC
  <2>. QED  BY <2>2, <2>3
<1>14. Halt(k) => /\ PC(k)' = "scan" /\ att'[k].s = att[k].s + 1
                  /\ att'[k].starts = att[k].starts
  <2>1. PICK n : n = att[k].s + 1
    OBVIOUS
  <2>2. Halt(k) => Sets(k, [att[k] EXCEPT !.pc = "scan", !.s = n])
    BY <2>1 DEF Halt
  <2>3. Halt(k) => att'[k].pc = "scan" /\ att'[k].s = n /\ att'[k].starts = att[k].starts
    BY <1>5, <2>2, Zenon
  <2>. QED  BY <2>1, <2>3 DEF PC
<1>15. /\ AppendConsumer(k) => Goes(k, "start")
       /\ Leave(k) => Goes(k, "remove")
       /\ CheckPending(k) => Goes(k, "lock")
       /\ Lock(k) => Goes(k, "scan")
  BY DEF AppendConsumer, Leave, CheckPending, Lock
<1>16. /\ AppendConsumer(k) => /\ PC(k)' = "start"
                               /\ att'[k].s = att[k].s /\ att'[k].starts = att[k].starts
       /\ Leave(k) => /\ PC(k)' = "remove"
                      /\ att'[k].s = att[k].s /\ att'[k].starts = att[k].starts
       /\ CheckPending(k) => /\ PC(k)' = "lock"
                             /\ att'[k].s = att[k].s /\ att'[k].starts = att[k].starts
       /\ Lock(k) => /\ PC(k)' = "scan"
                     /\ att'[k].s = att[k].s /\ att'[k].starts = att[k].starts
  BY <1>3, <1>15 DEF PC
<1>. QED
  BY <1>7, <1>8, <1>9, <1>10, <1>11, <1>12, <1>13, <1>14, <1>16

\* Beside the goroutines of the consumers nobody sets them.
LEMMA BesideStays ==
  ASSUME SInv, [StreamNext]_allVars,
         ~ \E k \in Subs : Begin(k) \/ Leave(k) \/ Goroutine(k)
  PROVE  /\ UNCHANGED <<att, pending, consumers>>
         /\ \A k \in Subs : Listens(k)' => Listens(k)
         /\ \A p \in Producers \ Pushed : pstate'[p] = pstate[p]
         /\ \/ UNCHANGED list
            \/ \E p \in Pushed : list' = Append(list, p)
            \/ \E n \in DOMAIN list : list[n] \in Pushed /\ list' = Without(list, n)
<1>1. CASE \E w \in workers : Worker(w) /\ UNCHANGED streamVars
  <2>1. UNCHANGED <<att, pending, consumers, list>>
    BY <1>1 DEF streamVars
  <2>2. \A k \in Subs : Listens(k)' => Listens(k)
    BY <1>1, WorkerListens DEF SInv
  <2>3. UNCHANGED pstate
    BY <1>1 DEF Worker, WorkerEnds, WorkerFails, TimerFires, ReconnectStops,
                ReconnectFails, Reconnect
  <2>. QED  BY <2>1, <2>2, <2>3
<1>2. ASSUME NEW p \in Pushed, NEW kind, Push(p, kind)
      PROVE  /\ \A k \in Subs : Listens(k)' => Listens(k)
             /\ \A q \in Producers \ Pushed : pstate'[q] = pstate[q]
  BY <1>2 DEF Push, graph, Listens, SInv, IInv, TypeOK
<1>3. CASE \E p \in Pushed : AddProducer(p) \/ PlayAdds(p)
  BY <1>2, <1>3 DEF AddProducer, PlayAdds
<1>4. ASSUME NEW c, RemoveConn(c)
      PROVE  /\ \A k \in Subs : Listens(k)' => Listens(k)
             /\ \A p \in Producers \ Pushed : pstate'[p] = pstate[p]
             /\ \/ UNCHANGED list
                \/ \E n \in DOMAIN list : list[n] \in Pushed /\ list' = Without(list, n)
             /\ UNCHANGED <<att, pending, consumers>>
  <2>1. UNCHANGED <<att, pending, consumers>>
    BY <1>4 DEF RemoveConn
  <2>2. CASE UNCHANGED <<vars, list>>
    BY <2>1, <2>2 DEF vars, Listens
  <2>3. CASE \E n \in DOMAIN list : Remove(list[n]) /\ list' = Without(list, n)
    <3>1. PICK n \in DOMAIN list : Remove(list[n]) /\ list' = Without(list, n)
      BY <2>3
    <3>2. list[n] \in Pushed
      BY <3>1 DEF Remove
    <3>3. \A p \in Producers \ Pushed : pstate'[p] = pstate[p]
      BY <3>1, <3>2 DEF Remove, Forgets, SInv, IInv, TypeOK
    <3>4. \A k \in Subs : Listens(k)' => Listens(k)
      BY <3>1 DEF Remove, graph, Listens
    <3>. QED  BY <2>1, <3>1, <3>2, <3>3, <3>4
  <2>. QED  BY <1>4, <2>2, <2>3, RemovedIsListed DEF SInv, Calls
<1>5. CASE \/ \E p \in Pushed : RemoveProducer(p)
           \/ \E r \in plays : PlayEnds(r)
  BY <1>4, <1>5 DEF RemoveProducer, PlayEnds
<1>6. CASE PlayStops \/ PlayFails \/ UNCHANGED allVars
  BY <1>6 DEF PlayStops, PlayFails, allVars, streamVars, vars, Listens
<1>. QED  BY <1>1, <1>3, <1>5, <1>6 DEF StreamNext

\* A step of a goroutine adds no listener but its own consumer, which is in by then.
LEMMA OwnListens ==
  ASSUME SInv, GoneListener, NEW k \in Subs, Begin(k) \/ Leave(k) \/ Goroutine(k)
  PROVE  /\ \A l \in Subs : l # k => (Listens(l)' => Listens(l))
         /\ Listens(k)' => In(k)'
<1>1. att[k] \in Atts /\ (Through(att[k]) => att[k].starts = {})
  BY OwnVariables DEF Steady
<1>2. Listens(k) => In(k)
  BY DEF GoneListener
<1>3. CASE Begin(k) \/ Refused(k) \/ RemoveConsumer(k)
  <2>1. UNCHANGED vars /\ ~In(k)
    BY <1>1, <1>3 DEF Begin, Refused, RemoveConsumer, In, Through, PC
  <2>. QED  BY <1>2, <2>1 DEF vars, Listens
<1>4. CASE Leave(k)
  <2>1. \A t \in Tracks : childs[t] \in Seq(Subs) /\ childs'[t] = RemoveChild(childs[t], k)
    BY <1>4 DEF Leave, StopConsumer, SInv, IInv, TypeOK
  <2>2. \A t \in Tracks : /\ Range(childs'[t]) \subseteq Range(childs[t])
                          /\ k \notin Range(childs'[t])
    BY <2>1, RemoveChildRange
  <2>. QED  BY <2>2 DEF Listens
<1>5. CASE StartOne(k)
  <2>1. UNCHANGED childs
    BY <1>5 DEF StartOne, Start, vars, graph
  <2>. QED  BY <1>5, <2>1, OwnTurn DEF Listens, In, PC
<1>6. ASSUME UNCHANGED vars, att'[k].starts = att[k].starts, PC(k) # "on"
      PROVE  /\ \A l \in Subs : l # k => (Listens(l)' => Listens(l))
             /\ Listens(k)' => In(k)'
  BY <1>2, <1>6 DEF Listens, In, vars
<1>7. CASE \/ Release(k) \/ AppendConsumer(k)
           \/ SkipPending(k) \/ CheckPending(k) \/ Lock(k) \/ Scan(k) \/ Unlock(k)
  <2>1. UNCHANGED vars /\ PC(k) # "on"
    BY <1>7 DEF Release, AppendConsumer, SkipPending, CheckPending, Lock, Scan, Unlock
  <2>2. att'[k].starts = att[k].starts
    BY <1>7, OwnTurn
  <2>. QED  BY <1>6, <2>1, <2>2
<1>8. CASE Halt(k)
  <2>1. att[k].s \in DOMAIN list /\ list \in Seq(Producers)
    BY <1>1, <1>8 DEF Halt, SInv, Calls, AtOneOfTheList, Atts
  <2>2. list[att[k].s] \in Producers
    BY <2>1
  <2>3. \A l \in Subs : Listens(l)' => Listens(l)
    <3>1. CASE Stop(list[att[k].s])
      BY <2>2, <3>1, StopListens DEF SInv
    <3>2. CASE UNCHANGED vars
      BY <3>2 DEF vars, Listens
    <3>. QED  BY <1>8, <3>1, <3>2 DEF Halt
  <2>4. PC(k) # "on" /\ att'[k].starts = att[k].starts
    BY <1>8, OwnTurn DEF Halt
  <2>. QED  BY <1>2, <2>3, <2>4 DEF In
<1>9. CASE Attach(k)
           /\ ~(Release(k) \/ Refused(k) \/ AppendConsumer(k) \/ StartOne(k))
  <2>1. /\ PC(k) \in InAdd
        /\ UNCHANGED childs \/ \E t \in Tracks : AppendChild(t, k)
    BY <1>9, AttachTurn
  <2>2. PICK b : Adds(k, b) /\ (UNCHANGED childs \/ b.starts # {})
    BY <1>9, AttachTurn
  <2>3. att'[k] = b /\ att[k].starts \subseteq b.starts
    BY <2>2 DEF Adds, Sets, SInv, Calls
  <2>4. CASE UNCHANGED childs
    BY <1>2, <2>1, <2>3, <2>4 DEF Listens, In, InAdd
  <2>5. CASE ~UNCHANGED childs
    <3>1. PICK t \in Tracks : AppendChild(t, k)
      BY <2>1, <2>5
    <3>2. \A u \in Tracks : Range(childs'[u]) \subseteq Range(childs[u]) \cup {k}
      <4>1. /\ \A u \in Tracks : childs[u] \in Seq(Subs)
            /\ \A u \in Tracks : childs'[u] \in {childs[u], Append(childs[u], k)}
        BY <3>1 DEF AppendChild, SInv, IInv, TypeOK
      <4>2. ASSUME NEW s \in Seq(Subs)
            PROVE  Range(Append(s, k)) \subseteq Range(s) \cup {k}
        BY <4>2, Appended DEF Range
      <4>. QED  BY <4>1, <4>2
    <3>3. In(k)'
      BY <2>2, <2>3, <2>5 DEF In
    <3>. QED  BY <3>2, <3>3 DEF Listens
  <2>. QED  BY <2>4, <2>5
<1>. QED
  BY <1>3, <1>4, <1>5, <1>7, <1>8, <1>9 DEF Goroutine, Attach, Detach

LEMMA GoneListenerNext ==
  ASSUME SInv, GoneListener, [StreamNext]_allVars
  PROVE  GoneListener'
<1>1. CASE ~ \E k \in Subs : Begin(k) \/ Leave(k) \/ Goroutine(k)
  BY <1>1, BesideStays DEF GoneListener, In, PC
<1>2. ASSUME NEW k \in Subs, Begin(k) \/ Leave(k) \/ Goroutine(k)
      PROVE  GoneListener'
  <2>1. \A l \in Subs : l # k => att'[l] = att[l]
    BY <1>2, OneAtATime
  <2>2. \A l \in Subs : Listens(l)' => In(l)'
    <3>1. \A l \in Subs : l # k => (In(l) => In(l)')
      BY <2>1 DEF In, PC
    <3>. QED  BY <1>2, <3>1, OwnListens DEF GoneListener
  <2>3. /\ consumers' \subseteq consumers \cup {k}
        /\ k \in consumers' => PC(k)' \in {"start", "on", "remove"}
    <3>1. CASE AppendConsumer(k) \/ StartOne(k) \/ Leave(k)
      BY <1>2, <3>1, OwnTurn DEF AppendConsumer, StartOne, Leave, others, PC
    <3>2. CASE RemoveConsumer(k)
      BY <3>2 DEF RemoveConsumer
    <3>3. CASE ~(AppendConsumer(k) \/ StartOne(k) \/ Leave(k) \/ RemoveConsumer(k))
      <4>1. UNCHANGED consumers /\ PC(k) \notin {"start", "on", "remove"}
        <5>1. CASE Attach(k)
          BY <3>3, <5>1, AttachTurn DEF Release, Refused, others, InAdd
        <5>2. CASE ~Attach(k)
          BY <1>2, <3>3, <5>2 DEF Goroutine, Detach, Begin, SkipPending, CheckPending,
                                  Lock, Scan, Halt, Unlock, others
        <5>. QED  BY <5>1, <5>2
      <4>. QED  BY <4>1 DEF GoneListener
    <3>. QED  BY <3>1, <3>2, <3>3
  <2>. QED  BY <2>1, <2>2, <2>3 DEF GoneListener, PC
<1>. QED  BY <1>1, <1>2

-----------------------------------------------------------------------------
(* The sources somebody minds. *)

\* A walk over the producers starts at the first one.
FromFirst == \A k \in Subs : PC(k) \notin InLoop => att[k].s = 1

\* The configured producers stay at the head of the list.
InPlace == Len(list) >= Len(Sources) /\ \A n \in DOMAIN Sources : list[n] = Sources[n]

\* Goroutine k still comes to the n-th source: to ask whether anybody reads it, or
\* because it reads a source, or is about to, until it leaves.
Minds(k, n) ==
  \/ PC(k) \in InAdd \cup {"start", "on", "remove", "check", "lock"}
  \/ PC(k) \in InLoop /\ att[k].s <= n
  \/ att[k].starts # {}

Minded == \A n \in DOMAIN Sources : pstate[Sources[n]] # "None" => \E k \in Subs : Minds(k, n)

Silent == talks = [k \in Subs |-> {}]

\* Without a media that takes sound nobody speaks.
LEMMA NobodySpeaks ==
  ASSUME Sendonly = {}
  PROVE  Spec => []Silent
<1>1. Init => Silent
  BY DEF Init, Silent
<1>2. ASSUME Silent, [Next]_vars PROVE Silent'
  <2>1. CASE UNCHANGED talks
    BY <1>2, <2>1 DEF Silent
  <2>2. \A d, lf, ch : StopConn(d, lf, ch, talks) => Silent'
    BY <1>2 DEF StopConn, Silent
  <2>3. ASSUME NEW p \in Producers, Method(p) PROVE Silent'
    <3>1. CASE Stop(p)
      BY <2>2, <3>1 DEF Stop
    <3>2. CASE \E k \in Subs : HadSpeaker(p) /\ AddTrack(p, k)
      BY <3>2 DEF HadSpeaker
    <3>3. CASE ~Stop(p) /\ ~ \E k \in Subs : HadSpeaker(p) /\ AddTrack(p, k)
      <4>1. UNCHANGED talks
        BY <2>3, <3>3 DEF Method, Dial, DialFails, Start, GetTrack, Push, Remove, graph, vars
      <4>. QED  BY <2>1, <4>1
    <3>. QED  BY <3>1, <3>2, <3>3
  <2>4. ASSUME NEW w \in workers, Worker(w) PROVE Silent'
    <3>1. ASSUME NEW p, NEW ms, NEW c PROVE MovedTalks(p, ms, c) = [k \in Subs |-> talks[k]]
      BY DEF MovedTalks
    <3>2. \A d, lf, ch : StopConn(d, lf, ch, [k \in Subs |-> talks[k]]) => Silent'
      BY <1>2 DEF StopConn, Silent
    <3>3. CASE Reconnect(w)
      BY <3>1, <3>2, <3>3 DEF Reconnect
    <3>. QED
      BY <2>1, <2>4, <3>3 DEF Worker, WorkerEnds, WorkerFails, TimerFires, ReconnectStops,
                              ReconnectFails, graph
  <2>5. ASSUME NEW k \in Subs, Consumer(k) PROVE Silent'
    BY <1>2, <2>5 DEF Consumer, AppendChild, StopConsumer, Silent
  <2>. QED  BY <1>2, <2>1, <2>3, <2>4, <2>5 DEF Next, vars
<1>. QED  BY <1>1, <1>2, PTL DEF Spec

LEMMA FromFirstNext ==
  ASSUME SInv, FromFirst, [StreamNext]_allVars
  PROVE  FromFirst'
<1>1. CASE ~ \E k \in Subs : Begin(k) \/ Leave(k) \/ Goroutine(k)
  BY <1>1, BesideStays DEF FromFirst, PC
<1>2. ASSUME NEW k \in Subs, Begin(k) \/ Leave(k) \/ Goroutine(k)
      PROVE  FromFirst'
  <2>1. \A l \in Subs : l # k => att'[l] = att[l]
    BY <1>2, OneAtATime
  <2>2. PC(k)' \notin InLoop => att'[k].s = 1
    <3>1. CASE Attach(k) /\ ~(Release(k) \/ Refused(k) \/ AppendConsumer(k) \/ StartOne(k))
      <4>1. PICK b : Adds(k, b)
        BY <3>1, AttachTurn
      <4>2. att'[k] = b /\ PC(k) \notin InLoop
        BY <3>1, <4>1, AttachTurn DEF Adds, Sets, SInv, Calls, InAdd, InLoop
      <4>. QED  BY <4>1, <4>2 DEF FromFirst, Adds
    <3>2. CASE Release(k) \/ AppendConsumer(k) \/ StartOne(k) \/ Leave(k)
               \/ RemoveConsumer(k) \/ CheckPending(k)
      <4>1. PC(k) \notin InLoop
        BY <3>2 DEF Release, AppendConsumer, StartOne, Leave, RemoveConsumer, CheckPending, InLoop
      <4>. QED  BY <3>2, <4>1, OwnTurn DEF FromFirst
    <3>3. CASE Refused(k) \/ Begin(k) \/ SkipPending(k) \/ Unlock(k)
      BY <3>3, OwnTurn DEF Idle
    <3>4. CASE Lock(k) \/ Scan(k) \/ Halt(k)
      BY <3>4, OwnTurn DEF InLoop
    <3>. QED  BY <1>2, <3>1, <3>2, <3>3, <3>4 DEF Goroutine, Attach, Detach
  <2>. QED  BY <2>1, <2>2 DEF FromFirst, PC
<1>. QED  BY <1>1, <1>2

LEMMA WithoutOne ==
  ASSUME NEW S, NEW s \in Seq(S), NEW n \in DOMAIN s
  PROVE  Len(Without(s, n)) = Len(s) - 1 /\ \A i \in 1 .. (n - 1) : Without(s, n)[i] = s[i]
  BY DEF Without

LEMMA InPlaceNext ==
  ASSUME SInv, InPlace, [StreamNext]_allVars
  PROVE  InPlace'
<1>1. list \in Seq(Producers) /\ Sources \in Seq(Producers) /\ Pushed \subseteq Producers
      /\ \A n \in DOMAIN Sources : Sources[n] \notin Pushed
  BY StreamAssumption, ProducerAssumption DEF SInv, Calls
<1>2. CASE UNCHANGED list
  BY <1>2 DEF InPlace
<1>3. ASSUME NEW p \in Pushed, list' = Append(list, p) PROVE InPlace'
  BY <1>1, <1>3 DEF InPlace
<1>4. ASSUME NEW n \in DOMAIN list, list[n] \in Pushed, list' = Without(list, n)
      PROVE  InPlace'
  <2>1. n > Len(Sources)
    BY <1>1, <1>4 DEF InPlace
  <2>2. Len(list') = Len(list) - 1
    BY <1>1, <1>4, WithoutOne
  <2>3. \A i \in 1 .. (n - 1) : list'[i] = list[i]
    BY <1>1, <1>4, WithoutOne
  <2>. QED  BY <1>1, <2>1, <2>2, <2>3 DEF InPlace
<1>5. ASSUME NEW k \in Subs, Begin(k) \/ Leave(k) \/ Goroutine(k) PROVE UNCHANGED list
  <2>1. CASE Attach(k)
    BY <2>1, AttachTurn DEF Release, Refused, AppendConsumer, StartOne, others
  <2>. QED
    BY <1>5, <2>1 DEF Goroutine, Detach, Begin, Leave, RemoveConsumer, SkipPending, CheckPending,
                      Lock, Scan, Halt, Unlock, others
<1>. QED  BY <1>2, <1>3, <1>4, <1>5, BesideStays

\* Somebody other than a goroutine that waits in stopProducers minds the sources as long
\* as s.pending is not zero.
LEMMA PendingMinds ==
  ASSUME SInv, pending # 0
  PROVE  \E l \in Subs : PC(l) \in InAdd
<1>1. Coming # {}
  BY FS_EmptySet DEF SInv, Counted
<1>. QED  BY <1>1 DEF Coming

\* A goroutine turns away from a source only when it is stopped, or when somebody else
\* minds it.
LEMMA TurnsAway ==
  ASSUME SInv, SInv', GoneListener, FromFirst, InPlace, Silent,
         NEW k \in Subs, Begin(k) \/ Leave(k) \/ Goroutine(k), NEW n \in DOMAIN Sources
  PROVE  \/ Minds(k, n)'
         \/ ~Minds(k, n) /\ pstate'[Sources[n]] \in {"None", pstate[Sources[n]]}
         \/ pstate'[Sources[n]] = "None"
         \/ \E l \in Subs : l # k /\ Minds(l, n)
<1>. DEFINE a == att[k]
<1>1. /\ a \in Atts /\ (Through(a) => a.starts = {})
      /\ list \in Seq(Producers) /\ Sources \in Seq(Producers) /\ n \in Nat \ {0}
      /\ n <= Len(Sources) /\ Sources[n] \in Producers \ Pushed
  BY OwnVariables, StreamAssumption DEF Steady, SInv, Calls
<1>2. \A l \in Subs : l # k => PC(l)' = PC(l)
  BY OneAtATime DEF PC
<1>3. CASE Attach(k) /\ ~(Release(k) \/ Refused(k) \/ AppendConsumer(k) \/ StartOne(k))
  <2>1. PICK b : Adds(k, b)
    BY <1>3, AttachTurn
  <2>2. PC(k)' \in InAdd
    BY <2>1 DEF Adds, Sets, SInv, Calls, PC
  <2>. QED  BY <2>2 DEF Minds
<1>4. CASE Begin(k) \/ AppendConsumer(k) \/ StartOne(k) \/ Leave(k) \/ RemoveConsumer(k)
           \/ CheckPending(k)
  BY <1>4, OwnTurn DEF Minds, InAdd, PC
<1>5. CASE Release(k)
  <2>1. CASE pending' = 0
    BY <1>5, <2>1, OwnTurn DEF Minds
  <2>2. CASE pending' # 0
    <3>1. \E l \in Subs : PC(l)' \in InAdd
      <4>1. Coming' # {}
        BY <2>2, FS_EmptySet DEF SInv, Counted
      <4>. QED  BY <4>1 DEF Coming, PC
    <3>2. PC(k)' \notin InAdd
      BY <1>5, <2>2, OwnTurn DEF InAdd
    <3>. QED  BY <1>2, <3>1, <3>2 DEF Minds
  <2>. QED  BY <2>1, <2>2
<1>6. CASE Refused(k)
  BY <1>6 DEF Refused, Minds, InAdd, InLoop, vars
<1>7. CASE SkipPending(k)
  <2>1. pending # 0 /\ PC(k) \notin InAdd
    BY <1>7 DEF SkipPending, InAdd
  <2>. QED  BY <2>1, PendingMinds DEF Minds
<1>8. CASE Lock(k)
  <2>1. PC(k)' \in InLoop /\ att'[k].s = 1
    BY <1>8, OwnTurn DEF Lock, FromFirst, InLoop
  <2>. QED  BY <1>1, <2>1 DEF Minds
<1>9. CASE Scan(k)
  <2>1. PC(k) = "scan" /\ UNCHANGED pstate
    BY <1>9 DEF Scan, vars
  <2>2. CASE HasReaders(list[a.s])
    <3>1. list[a.s] \in Producers
      BY <1>1, <1>9 DEF Scan, Atts
    <3>2. PICK t \in Range(receivers[list[a.s]]) : childs[t] # <<>>
      BY <2>2, <3>1 DEF HasReaders, Silent, SInv, IInv, TypeOK
    <3>3. t \in Tracks /\ childs[t] \in Seq(Subs)
      BY <3>1 DEF SInv, IInv, TypeOK, Range
    <3>4. childs[t][1] \in Subs /\ childs[t][1] \in Range(childs[t])
      BY <3>2, <3>3 DEF Range
    <3>5. PICK l \in Subs : Listens(l)
      BY <3>3, <3>4 DEF Listens
    <3>6. In(l)
      BY <3>5 DEF GoneListener
    <3>7. CASE l = k
      BY <1>9, <2>1, <3>6, <3>7, OwnTurn DEF In, Minds
    <3>8. CASE l # k
      BY <3>6, <3>8 DEF In, Minds
    <3>. QED  BY <3>7, <3>8
  <2>3. CASE ~HasReaders(list[a.s])
    <3>1. PC(k)' = "halt" /\ att'[k].s = a.s /\ att'[k].starts = a.starts
      BY <1>9, <2>3, OwnTurn
    <3>2. Minds(k, n)' <=> Minds(k, n)
      BY <2>1, <3>1 DEF Minds, InLoop, InAdd
    <3>. QED  BY <2>1, <3>2
  <2>. QED  BY <2>2, <2>3
<1>10. CASE Halt(k)
  <2>. DEFINE p == list[a.s]
  <2>1. /\ PC(k) = "halt" /\ PC(k)' = "scan"
        /\ att'[k].s = a.s + 1 /\ att'[k].starts = a.starts
    BY <1>10, OwnTurn DEF Halt
  <2>2. a.s \in Nat \ {0} /\ a.s <= Len(list)
    BY <1>1, <2>1 DEF Atts, SInv, Calls, AtOneOfTheList
  <2>3. p \in Producers
    BY <1>1, <2>2
  <2>4. /\ p = Sources[n] => pstate'[p] = "None"
        /\ pstate'[Sources[n]] \in {"None", pstate[Sources[n]]}
    <3>1. CASE Stop(p)
      BY <1>1, <2>3, <3>1 DEF Stop, Forgets, SInv, IInv, TypeOK
    <3>2. CASE pstate[p] \in {"External", "None"} /\ UNCHANGED vars
      BY <1>1, <2>3, <3>2 DEF vars, SInv, FromOutside
    <3>. QED  BY <1>10, <3>1, <3>2 DEF Halt
  <2>5. CASE a.s = n
    BY <1>1, <2>4, <2>5 DEF InPlace
  <2>6. CASE a.s < n
    <3>1. a.s + 1 <= n
      BY <1>1, <2>2, <2>6
    <3>. QED  BY <2>1, <3>1 DEF Minds, InLoop
  <2>7. CASE a.s > n
    <3>1. ~Minds(k, n) \/ a.starts # {}
      BY <1>1, <2>1, <2>2, <2>7 DEF Minds, InLoop, InAdd
    <3>. QED  BY <2>1, <2>4, <3>1 DEF Minds
  <2>. QED  BY <1>1, <2>2, <2>5, <2>6, <2>7
<1>11. CASE Unlock(k)
  <2>1. /\ PC(k) = "scan" /\ UNCHANGED pstate /\ att'[k].starts = a.starts
        /\ a.s > Len(list)
    BY <1>11, OwnTurn DEF Unlock, vars
  <2>2. ~(a.s <= n)
    BY <1>1, <2>1 DEF InPlace, Atts
  <2>3. Minds(k, n) => a.starts # {}
    BY <2>1, <2>2 DEF Minds, InLoop, InAdd
  <2>. QED  BY <2>1, <2>3 DEF Minds
<1>. QED
  BY <1>3, <1>4, <1>5, <1>6, <1>7, <1>8, <1>9, <1>10, <1>11 DEF Goroutine, Attach, Detach

LEMMA MindedNext ==
  ASSUME SInv, SInv', GoneListener, FromFirst, InPlace, Silent, Minded,
         [StreamNext]_allVars
  PROVE  Minded'
<1>. SUFFICES ASSUME NEW n \in DOMAIN Sources, pstate'[Sources[n]] # "None"
              PROVE  \E k \in Subs : Minds(k, n)'
  BY DEF Minded
<1>1. CASE ~ \E k \in Subs : Begin(k) \/ Leave(k) \/ Goroutine(k)
  <2>1. Sources[n] \in Producers \ Pushed
    BY StreamAssumption
  <2>2. PICK l \in Subs : Minds(l, n)
    BY <1>1, <2>1, BesideStays DEF Minded
  <2>3. Minds(l, n)'
    BY <1>1, <2>2, BesideStays DEF Minds, PC
  <2>. QED  BY <2>3
<1>2. ASSUME NEW k \in Subs, Begin(k) \/ Leave(k) \/ Goroutine(k)
      PROVE  \E l \in Subs : Minds(l, n)'
  <2>1. \A l \in Subs : l # k => (Minds(l, n) => Minds(l, n)')
    BY <1>2, OneAtATime DEF Minds, PC
  <2>2. CASE \E l \in Subs : l # k /\ Minds(l, n)
    BY <2>1, <2>2
  <2>3. CASE Minds(k, n)'
    BY <2>3
  <2>4. CASE ~Minds(k, n) /\ pstate'[Sources[n]] \in {"None", pstate[Sources[n]]}
    <3>1. PICK l \in Subs : Minds(l, n)
      BY <2>4 DEF Minded
    <3>. QED  BY <2>1, <2>4, <3>1
  <2>. QED  BY <1>2, <2>2, <2>3, <2>4, TurnsAway
<1>. QED  BY <1>1, <1>2

\* A consumer that AddConsumer refused or that has left is in no list of the stream's
\* consumers and gets no packet, whatever the workers and Play did meanwhile.
NoPacketsForTheGone ==
  \A k \in Subs : PC(k) = "idle" => k \notin consumers /\ \A t \in Tracks : k \notin Range(childs[t])

LEMMA GoneInit == StreamInit => GoneListener /\ FromFirst /\ InPlace /\ Minded
<1>. SUFFICES ASSUME StreamInit PROVE GoneListener /\ FromFirst /\ InPlace /\ Minded
  OBVIOUS
<1>1. \A k \in Subs : ~Listens(k)
  BY DEF StreamInit, Init, Listens, Range
<1>2. \A k \in Subs : att[k].s = 1
  BY DEF StreamInit, Idle
<1>3. \A n \in DOMAIN Sources : pstate[Sources[n]] = "None"
  BY StreamAssumption DEF StreamInit, Init
<1>. QED
  BY <1>1, <1>2, <1>3, StreamAssumption DEF StreamInit, GoneListener, FromFirst, InPlace, Minded

THEOREM GoneGetNothing == StreamSpec => []NoPacketsForTheGone
<1>1. StreamSpec => []GoneListener
  BY GoneInit, GoneListenerNext, StreamInvariance, PTL DEF StreamSpec
<1>2. SInv /\ GoneListener => NoPacketsForTheGone
  <2>. SUFFICES ASSUME SInv, GoneListener, NEW k \in Subs, PC(k) = "idle"
                PROVE  k \notin consumers /\ \A t \in Tracks : k \notin Range(childs[t])
    BY DEF NoPacketsForTheGone
  <2>1. att[k].starts = {}
    BY OwnVariables DEF Steady, Through, PC
  <2>. QED  BY <2>1 DEF GoneListener, In, Listens
<1>. QED  BY <1>1, <1>2, StreamInvariance, PTL

\* Where no source takes sound, who is gone is gone altogether.  (With two-way audio a
\* reconnection can give a consumer that is leaving its place as a talker back.)
THEOREM GoneForGood == Sendonly = {} => (StreamSpec => []GoneIsGone)
<1>. SUFFICES ASSUME Sendonly = {} PROVE StreamSpec => []GoneIsGone
  OBVIOUS
<1>1. StreamSpec => []Silent
  BY NobodySpeaks, StreamImplementsProducer DEF UsesProducers
<1>2. NoPacketsForTheGone /\ Silent => GoneIsGone
  BY DEF NoPacketsForTheGone, Silent, GoneIsGone
<1>. QED  BY <1>1, <1>2, GoneGetNothing, PTL

\* And when the last consumer is gone, no source stays connected (add_consumer.go:96):
\* of the goroutines that ask whether a source has readers the last one stops it.
THEOREM LastOneStopsThem == Sendonly = {} => (StreamSpec => []NoIdleSource)
<1>. SUFFICES ASSUME Sendonly = {} PROVE StreamSpec => []NoIdleSource
  OBVIOUS
<1>1. StreamSpec => []Silent
  BY NobodySpeaks, StreamImplementsProducer DEF UsesProducers
<1>2. StreamSpec => [](GoneListener /\ FromFirst /\ InPlace)
  BY GoneInit, GoneListenerNext, FromFirstNext, InPlaceNext, StreamInvariance, PTL
     DEF StreamSpec
<1>3. StreamSpec => []Minded
  BY <1>1, <1>2, GoneInit, MindedNext, StreamInvariance, PTL DEF StreamSpec
<1>4. SInv /\ Minded => NoIdleSource
  <2>. SUFFICES ASSUME SInv, Minded, \A k \in Subs : PC(k) = "idle", NEW n \in DOMAIN Sources
                PROVE  pstate[Sources[n]] = "None"
    BY DEF NoIdleSource
  <2>1. \A k \in Subs : att[k].starts = {}
    BY OwnVariables DEF Steady, Through, PC
  <2>2. \A k \in Subs : ~Minds(k, n)
    BY <2>1 DEF Minds, InAdd, InLoop
  <2>. QED  BY <2>2 DEF Minded
<1>. QED  BY <1>3, <1>4, StreamInvariance, PTL
=============================================================================

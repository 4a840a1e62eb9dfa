--------------------------- MODULE ProducerProofs ---------------------------
(***************************************************************************)
(* What holds of a producer for any number of producers, connections,      *)
(* medias and consumers, and however often they are dialed, started and    *)
(* stopped.                                                                *)
(***************************************************************************)
EXTENDS Producer, TLAPS, FiniteSetTheorems

\* A connection a producer holds is its own and is open.
HeldIsOpen ==
  \A p \in Producers :
    conn[p] # NoConn => life[conn[p]] = "open" /\ SourceOf[conn[p]] = p

\* No worker is from the future, and the current one of a producer serves its
\* connection, in stateStart only.
WorkerServes ==
  \A w \in workers :
    /\ w.id <= workerID[w.prod]
    /\ w.id = workerID[w.prod] => pstate[w.prod] = "Start" /\ w.conn = conn[w.prod]

\* A workerID is given to one goroutine, which its timer or successor inherits.
OnePerID ==
  \A v, w \in workers : v.prod = w.prod /\ v.id = w.id => v = w

Watched ==
  \A p \in Producers :
    pstate[p] = "Start" => \E w \in workers : w.prod = p /\ w.id = workerID[p]

\* A producer whose connection comes from outside is run by its owner.
PushedNeverStarts == \A p \in Pushed : pstate[p] \in {"None", "External", "Internal"}

IInv ==
  /\ TypeOK
  /\ PushedNeverStarts
  /\ ConnUnlessNone
  /\ HeldIsOpen
  /\ NoGhost
  /\ WorkerServes
  /\ OnePerID
  /\ Watched

-----------------------------------------------------------------------------
(* The operators on the track graph return graphs. *)

\* A walk that skips children leaves a list of children.
LEMMA UnclosedType ==
  ASSUME NEW S, NEW s \in Seq(S)
  PROVE  Unclosed(s) \in Seq(S)
<1>1. CASE s = <<>>
  BY <1>1 DEF Unclosed
<1>2. CASE s # <<>>
  <2>1. (Len(s) - 1) \div 2 \in Nat
    BY <1>2
  <2>2. \A i \in 1 .. ((Len(s) - 1) \div 2) : 2 * i \in 1 .. Len(s)
    BY <1>2, <2>1
  <2>. QED  BY <1>2, <2>1, <2>2 DEF Unclosed
<1>. QED  BY <1>1, <1>2

\* Every number up to the size of a finite set of numbers is the rank of one of them.
LEMMA NthIsOne ==
  ASSUME NEW S \in SUBSET Nat, IsFiniteSet(S), NEW n \in 1 .. Cardinality(S)
  PROVE  Nth(S, n) \in S
<1>. DEFINE UpTo(i) == {h \in S : h <= i}
            rank == [i \in S |-> Cardinality(UpTo(i))]
            N == 1 .. Cardinality(S)
<1>1. ASSUME NEW i \in S
      PROVE  IsFiniteSet(UpTo(i)) /\ Cardinality(UpTo(i)) \in N
  <2>1. UpTo(i) \in SUBSET S /\ i \in UpTo(i)
    OBVIOUS
  <2>2. IsFiniteSet(UpTo(i)) /\ Cardinality(UpTo(i)) <= Cardinality(S)
    BY <2>1, FS_Subset
  <2>3. Cardinality(UpTo(i)) \in Nat /\ Cardinality(S) \in Nat /\ Cardinality(UpTo(i)) # 0
    BY <2>1, <2>2, FS_CardinalityType, FS_EmptySet
  <2>. QED  BY <2>2, <2>3
<1>2. ASSUME NEW i \in S, NEW j \in S, i < j
      PROVE  Cardinality(UpTo(i)) # Cardinality(UpTo(j))
  <2>1. UpTo(i) \in SUBSET UpTo(j) /\ j \in UpTo(j) /\ j \notin UpTo(i)
    <3>1. i \in Nat /\ j \in Nat
      OBVIOUS
    <3>2. j <= j /\ ~(j <= i) /\ \A h \in Nat : h <= i => h <= j
      BY <1>2, <3>1
    <3>3. UpTo(i) \in SUBSET UpTo(j)
      BY <3>2
    <3>4. j \in UpTo(j)
      BY <3>2
    <3>5. j \notin UpTo(i)
      BY <3>2
    <3>. QED  BY <3>3, <3>4, <3>5
  <2>2. UpTo(i) # UpTo(j)
    BY <2>1
  <2>. HIDE DEF UpTo
  <2>. QED  BY <1>1, <2>1, <2>2, FS_Subset
<1>3. rank \in [S -> N]
  BY <1>1
<1>4. \A i, j \in S : rank[i] = rank[j] => i = j
  <2>. SUFFICES ASSUME NEW i \in S, NEW j \in S, rank[i] = rank[j] PROVE i = j
    OBVIOUS
  <2>1. Cardinality(UpTo(i)) = Cardinality(UpTo(j))
    OBVIOUS
  <2>. HIDE DEF UpTo, rank
  <2>. QED  BY <1>2, <2>1
<1>. HIDE DEF rank
<1>5. rank \in Injection(S, N)
  BY <1>3, <1>4 DEF Injection, IsInjective
<1>6. Cardinality(S) \in Nat
  BY FS_CardinalityType
<1>7. IsFiniteSet(N) /\ Cardinality(N) = Cardinality(S)
  BY <1>6, FS_Interval
<1>8. rank \in Surjection(S, N)
  BY <1>5, <1>7, FS_Injection
<1>9. PICK i \in S : rank[i] = n
  BY <1>8 DEF Surjection
<1>10. Cardinality({h \in S : h <= i}) = n
  BY <1>9 DEF rank
<1>. QED  BY <1>10 DEF Nth

\* Removing a consumer leaves a list of the others.
LEMMA RemoveChildType ==
  ASSUME NEW S, NEW s \in Seq(S), NEW k
  PROVE  /\ RemoveChild(s, k) \in Seq(S)
         /\ \A i \in DOMAIN RemoveChild(s, k) :
              \E j \in DOMAIN s : s[j] # k /\ RemoveChild(s, k)[i] = s[j]
<1>. DEFINE K == Kept(s, k)
<1>1. K \in SUBSET (1 .. Len(s)) /\ K \in SUBSET Nat
  BY DEF Kept
<1>2. IsFiniteSet(K) /\ Cardinality(K) \in Nat
  <2>1. 1 \in Int /\ Len(s) \in Int
    OBVIOUS
  <2>2. IsFiniteSet(1 .. Len(s))
    BY <2>1, FS_Interval
  <2>. HIDE DEF K
  <2>3. IsFiniteSet(K)
    BY <1>1, <2>2, FS_Subset
  <2>. QED  BY <2>3, FS_CardinalityType
<1>3. \A n \in 1 .. Cardinality(K) : Nth(K, n) \in DOMAIN s /\ s[Nth(K, n)] # k
  <2>1. \A n \in 1 .. Cardinality(K) : Nth(K, n) \in K
    BY <1>1, <1>2, NthIsOne
  <2>. QED  BY <2>1 DEF Kept
<1>4. RemoveChild(s, k) = [n \in 1 .. Cardinality(K) |-> s[Nth(K, n)]]
  BY DEF RemoveChild
<1>. HIDE DEF K
<1>. QED  BY <1>2, <1>3, <1>4

\* The new connection's tracks take the places of the receivers they replace.
LEMMA MovedType ==
  ASSUME NEW rs \in Seq(Tracks), NEW ms \in SUBSET Medias, NEW c \in Conns
  PROVE  /\ Moved(rs, ms, c) \in Seq(Tracks)
         /\ DOMAIN Moved(rs, ms, c) = DOMAIN rs
<1>1. ASSUME NEW i \in DOMAIN rs, Moves(rs, ms, i)
      PROVE  Own(c, Last(Matching(ms, rs[i]))) \in Tracks
  <2>1. Matching(ms, rs[i]) \in SUBSET Medias /\ Matching(ms, rs[i]) # {}
    BY <1>1 DEF Moves, Matching
  <2>2. PICK m \in Matching(ms, rs[i]) : \A n \in Matching(ms, rs[i]) : n <= m
    BY <2>1, MediasAreListed
  <2>3. Last(Matching(ms, rs[i])) \in Medias
    BY <2>1, <2>2 DEF Last
  <2>. QED  BY <2>3 DEF Own, Tracks, Codecs
<1>2. \A i \in DOMAIN rs : rs[i] \in Tracks
  OBVIOUS
<1>. QED  BY <1>1, <1>2 DEF Moved

\* Replacing receivers leaves a graph.
LEMMA MovedChildsType ==
  ASSUME TypeOK,
         NEW rs \in Seq(Tracks), NEW ms \in SUBSET Medias, NEW c \in Conns
  PROVE  MovedChilds(rs, ms, c) \in [Tracks -> Seq(Subs)]
<1>. DEFINE To(t) == {i \in DOMAIN rs : Moves(rs, ms, i) /\ Moved(rs, ms, c)[i] = t}
<1>1. ASSUME NEW t \in Tracks, NEW i \in DOMAIN rs
      PROVE  childs[rs[i]] \in Seq(Subs)
  BY DEF TypeOK
<1>2. ASSUME NEW t \in Tracks, To(t) # {}
      PROVE  (CHOOSE i \in DOMAIN rs :
                Moves(rs, ms, i) /\ Moved(rs, ms, c)[i] = t) \in DOMAIN rs
  BY <1>2
<1>3. <<>> \in Seq(Subs)
  OBVIOUS
<1>4. \A t \in Tracks : childs[t] \in Seq(Subs)
  BY DEF TypeOK
<1>. QED  BY <1>1, <1>2, <1>3, <1>4 DEF MovedChilds

\* What a stopped connection leaves behind is well typed.
LEMMA StopConnType ==
  ASSUME NEW c \in Conns \cup {NoConn},
         NEW lf \in [Conns -> {"free", "open", "closed"}],
         NEW ch \in [Tracks -> Seq(Subs)], NEW tk \in [Subs -> SUBSET Conns],
         StopConn(c, lf, ch, tk)
  PROVE  /\ life' \in [Conns -> {"free", "open", "closed"}]
         /\ childs' \in [Tracks -> Seq(Subs)]
         /\ talks' \in [Subs -> SUBSET Conns]
<1>1. life' \in [Conns -> {"free", "open", "closed"}]
  BY DEF StopConn
<1>2. \A t \in Tracks : Unclosed(ch[t]) \in Seq(Subs)
  BY UnclosedType
<1>3. childs' \in [Tracks -> Seq(Subs)]
  BY <1>2 DEF StopConn
<1>4. talks' \in [Subs -> SUBSET Conns]
  BY DEF StopConn
<1>. QED  BY <1>1, <1>3, <1>4

-----------------------------------------------------------------------------
(* The inductive invariant: one lemma per action. *)

\* What a connection is to its producer, and what watches it.
Holding == ConnUnlessNone /\ HeldIsOpen /\ NoGhost /\ PushedNeverStarts
Watching == WorkerServes /\ OnePerID /\ Watched

\* Touching a producer that holds a connection changes nothing it holds.
LEMMA SameHold ==
  ASSUME Holding, UNCHANGED <<conn, life>>,
         \A q \in Producers : pstate'[q] # pstate[q] =>
           pstate[q] = "Medias" /\ pstate'[q] = "Tracks"
  PROVE  Holding'
<1>1. ConnUnlessNone'
  BY DEF Holding, ConnUnlessNone
<1>2. HeldIsOpen' /\ NoGhost'
  BY DEF Holding, HeldIsOpen, NoGhost
<1>3. PushedNeverStarts'
  BY ProducerAssumption DEF Holding, PushedNeverStarts
<1>. QED  BY <1>1, <1>2, <1>3 DEF Holding

\* A step that leaves the workers and stateStart alone keeps the watch.
LEMMA SameWatch ==
  ASSUME TypeOK, Watching, UNCHANGED <<conn, workerID, workers>>,
         \A q \in Producers : pstate'[q] = "Start" <=> pstate[q] = "Start"
  PROVE  Watching'
<1>1. WorkerServes'
  BY DEF TypeOK, Workers, Watching, WorkerServes
<1>2. OnePerID' /\ Watched'
  BY DEF Watching, OnePerID, Watched
<1>. QED  BY <1>1, <1>2 DEF Watching

LEMMA InitIInv == Init => IInv
<1>. SUFFICES ASSUME Init PROVE IInv
  OBVIOUS
<1>1. TypeOK
  BY DEF Init, TypeOK, States
<1>2. Holding
  BY ProducerAssumption DEF Init, Holding, ConnUnlessNone, HeldIsOpen, NoGhost, PushedNeverStarts
<1>3. Watching
  BY DEF Init, Watching, WorkerServes, OnePerID, Watched
<1>. QED  BY <1>1, <1>2, <1>3 DEF IInv, Holding, Watching

\* A dial gives the producer a connection nobody had.
LEMMA DialIInv == ASSUME IInv, NEW p \in Producers, Dial(p) PROVE IInv'
<1>. PICK c \in Conns, ms \in SUBSET Medias :
       /\ Opened(c, p, ms)
       /\ life' = [life EXCEPT ![c] = "open"]
       /\ conn' = [conn EXCEPT ![p] = c]
  BY DEF Dial
<1>1. TypeOK'
  BY DEF IInv, TypeOK, States, Dial, Opened, graph
<1>2. Holding'
  BY ProducerAssumption DEF IInv, TypeOK, Dial, Opened,
     Holding, ConnUnlessNone, HeldIsOpen, NoGhost, PushedNeverStarts
<1>3. Watching'
  BY DEF IInv, TypeOK, Dial, Workers, Watching, WorkerServes, OnePerID, Watched
<1>. QED  BY <1>1, <1>2, <1>3 DEF IInv, Holding, Watching

\* A pushed producer gets the publisher's connection.
LEMMA PushIInv ==
  ASSUME IInv, NEW p \in Producers, NEW kind \in {"External", "Internal"}, Push(p, kind)
  PROVE  IInv'
<1>. PICK c \in Conns, ms \in SUBSET Medias :
       /\ Opened(c, p, ms)
       /\ life' = [life EXCEPT ![c] = "open"]
       /\ conn' = [conn EXCEPT ![p] = c]
  BY DEF Push
<1>1. TypeOK'
  BY DEF IInv, TypeOK, States, Push, Opened, graph
<1>2. Holding'
  BY ProducerAssumption DEF IInv, TypeOK, Push, Opened,
     Holding, ConnUnlessNone, HeldIsOpen, NoGhost, PushedNeverStarts
<1>3. Watching'
  BY DEF IInv, TypeOK, Push, Workers, Watching, WorkerServes, OnePerID, Watched
<1>. QED  BY <1>1, <1>2, <1>3 DEF IInv, Holding, Watching

\* A track is asked of a connection, never of nil: that is ConnUnlessNone.
LEMMA GetTrackIInv ==
  ASSUME IInv, NEW p \in Producers, NEW k \in Codecs, GetTrack(p, k)
  PROVE  IInv'
<1>1. conn[p] \in Conns
  BY DEF IInv, TypeOK, ConnUnlessNone, GetTrack, Usable
<1>2. ~Listed(p, k) => TrackFor(p, k) \in Tracks
  BY <1>1 DEF TrackFor, Tracks
<1>3. receivers' \in [Producers -> Seq(Tracks)]
  <2>1. CASE Listed(p, k)
    BY <2>1 DEF IInv, TypeOK, GetTrack
  <2>2. CASE ~Listed(p, k)
    <3>1. Append(receivers[p], TrackFor(p, k)) \in Seq(Tracks)
      BY <1>2, <2>2 DEF IInv, TypeOK
    <3>. QED  BY <2>2, <3>1 DEF IInv, TypeOK, GetTrack
  <2>. QED  BY <2>1, <2>2
<1>4. /\ pstate' \in [Producers -> States]
      /\ \A q \in Producers : pstate'[q] # pstate[q] =>
           pstate[q] = "Medias" /\ pstate'[q] = "Tracks"
  BY DEF IInv, TypeOK, States, GetTrack, Touched
<1>5. TypeOK'
  BY <1>3, <1>4 DEF IInv, TypeOK, GetTrack, graph
<1>6. Holding'
  BY <1>4, SameHold DEF IInv, Holding, GetTrack
<1>7. Watching'
  BY <1>4, SameWatch DEF IInv, Watching, GetTrack, Touched, TypeOK
<1>. QED  BY <1>5, <1>6, <1>7 DEF IInv, Holding, Watching

LEMMA AddTrackIInv ==
  ASSUME IInv, NEW p \in Producers, NEW k \in Subs, AddTrack(p, k)
  PROVE  IInv'
<1>1. conn[p] \in Conns
  BY DEF IInv, TypeOK, ConnUnlessNone, AddTrack, Usable
<1>2. /\ pstate' \in [Producers -> States]
      /\ \A q \in Producers : pstate'[q] # pstate[q] =>
           pstate[q] = "Medias" /\ pstate'[q] = "Tracks"
  BY DEF IInv, TypeOK, States, AddTrack, Touched
<1>3. TypeOK'
  BY <1>1, <1>2 DEF IInv, TypeOK, AddTrack
<1>4. Holding'
  BY <1>2, SameHold DEF IInv, Holding, AddTrack
<1>5. Watching'
  BY <1>2, SameWatch DEF IInv, Watching, AddTrack, Touched, TypeOK
<1>. QED  BY <1>3, <1>4, <1>5 DEF IInv, Holding, Watching

\* start gives the new goroutine an ID no other has.
LEMMA StartIInv == ASSUME IInv, NEW p \in Producers, Start(p) PROVE IInv'
<1>. DEFINE w == [prod |-> p, conn |-> conn[p], id |-> workerID[p] + 1, pc |-> "run"]
<1>1. conn[p] \in Conns
  BY DEF IInv, TypeOK, ConnUnlessNone, Start
<1>2. w \in Workers /\ workers' = workers \cup {w}
  BY <1>1 DEF IInv, TypeOK, Workers, Start
<1>3. workerID' = [workerID EXCEPT ![p] = workerID[p] + 1]
  BY DEF Start
<1>4. TypeOK'
  BY <1>2, <1>3 DEF IInv, TypeOK, States, Start, graph
<1>5. Holding'
  BY ProducerAssumption
     DEF IInv, TypeOK, Start, Holding, ConnUnlessNone, HeldIsOpen, NoGhost, PushedNeverStarts
<1>6. \A v \in workers : v \in Workers /\ v.prod \in Producers /\ v.id \in Nat
  BY DEF IInv, TypeOK, Workers
<1>7. \A v \in workers : v.prod = p => v.id < workerID'[p] /\ v # w
  BY <1>3, <1>6 DEF IInv, TypeOK, WorkerServes
<1>8. WorkerServes'
  <2>. SUFFICES ASSUME NEW v \in workers'
                PROVE  /\ v.id <= workerID'[v.prod]
                       /\ v.id = workerID'[v.prod] =>
                            pstate'[v.prod] = "Start" /\ v.conn = conn'[v.prod]
    BY DEF WorkerServes
  <2>1. CASE v = w
    BY <2>1, <1>3 DEF IInv, TypeOK, Start
  <2>2. CASE v \in workers /\ v.prod = p
    BY <2>2, <1>3, <1>6, <1>7 DEF IInv, TypeOK
  <2>3. CASE v \in workers /\ v.prod # p
    BY <2>3, <1>3, <1>6 DEF IInv, TypeOK, WorkerServes, Start
  <2>. QED  BY <2>1, <2>2, <2>3, <1>2
<1>9. OnePerID'
  BY <1>2, <1>3, <1>6, <1>7 DEF IInv, TypeOK, OnePerID
<1>10. Watched'
  <2>. SUFFICES ASSUME NEW q \in Producers, pstate'[q] = "Start"
                PROVE  \E v \in workers' : v.prod = q /\ v.id = workerID'[q]
    BY DEF Watched
  <2>1. CASE q = p
    <3>1. w.prod = p /\ w.id = workerID'[p]
      BY <1>3 DEF IInv, TypeOK
    <3>. QED  BY <2>1, <3>1, <1>2
  <2>2. CASE q # p
    <3>1. PICK v \in workers : v.prod = q /\ v.id = workerID[q]
      BY <2>2 DEF IInv, TypeOK, Watched, Start
    <3>. QED  BY <2>2, <3>1, <1>2, <1>3 DEF IInv, TypeOK
  <2>. QED  BY <2>1, <2>2
<1>. QED  BY <1>4, <1>5, <1>8, <1>9, <1>10 DEF IInv, Holding

\* Forgetting the connection leaves None behind, for stop and RemoveProducer.
LEMMA ForgetsHolding ==
  ASSUME IInv, NEW p \in Producers, Forgets(p), conn[p] # NoConn,
         life' = [c \in Conns |-> IF c = conn[p] THEN "closed" ELSE life[c]]
  PROVE  Holding'
  BY ProducerAssumption
     DEF IInv, TypeOK, Forgets, Holding, ConnUnlessNone, HeldIsOpen, NoGhost, PushedNeverStarts

\* stop leaves every goroutine of a started producer with an old ID.
LEMMA StopIInv == ASSUME IInv, NEW p \in Producers, Stop(p) PROVE IInv'
<1>1. conn[p] \in Conns /\ conn[p] # NoConn
  BY ProducerAssumption DEF IInv, TypeOK, ConnUnlessNone, Stop
<1>2. /\ life' \in [Conns -> {"free", "open", "closed"}]
      /\ childs' \in [Tracks -> Seq(Subs)]
      /\ talks' \in [Subs -> SUBSET Conns]
  BY <1>1, StopConnType DEF IInv, TypeOK, Stop
<1>3. TypeOK'
  BY <1>2 DEF IInv, TypeOK, States, Stop, Forgets, NextWorker
<1>4. Holding'
  BY <1>1, ForgetsHolding DEF Stop, StopConn
<1>5. \A v \in workers : v.prod \in Producers /\ v.id \in Nat
  BY DEF IInv, TypeOK, Workers
<1>6. WorkerServes'
  <2>. SUFFICES ASSUME NEW v \in workers
                PROVE  /\ v.id <= workerID'[v.prod]
                       /\ v.id = workerID'[v.prod] =>
                            pstate'[v.prod] = "Start" /\ v.conn = conn'[v.prod]
    BY DEF WorkerServes, Stop
  <2>1. CASE v.prod = p
    BY <2>1, <1>5 DEF IInv, TypeOK, WorkerServes, Stop, NextWorker
  <2>2. CASE v.prod # p
    BY <2>2, <1>5 DEF IInv, TypeOK, WorkerServes, Stop, Forgets
  <2>. QED  BY <2>1, <2>2
<1>7. OnePerID'
  BY DEF IInv, OnePerID, Stop
<1>8. Watched'
  BY DEF IInv, TypeOK, Watched, Stop, Forgets
<1>. QED  BY <1>3, <1>4, <1>6, <1>7, <1>8 DEF IInv, Holding

\* A pushed producer is never in stateStart, so nobody watches it.
LEMMA RemoveIInv == ASSUME IInv, NEW p \in Producers, Remove(p) PROVE IInv'
<1>1. p \in Pushed /\ conn[p] # NoConn /\ conn[p] \in Conns /\ pstate[p] # "Start"
  BY DEF Remove, IInv, TypeOK, PushedNeverStarts
<1>2. TypeOK'
  BY <1>1 DEF IInv, TypeOK, States, Remove, Forgets, graph
<1>3. life' = [c \in Conns |-> IF c = conn[p] THEN "closed" ELSE life[c]]
  BY <1>1 DEF Remove, IInv, TypeOK
<1>4. Holding'
  BY <1>1, <1>3, ForgetsHolding DEF Remove
<1>5. \A v \in workers : v.prod \in Producers /\ v.id \in Nat
  BY DEF IInv, TypeOK, Workers
<1>6. WorkerServes'
  BY <1>1, <1>5 DEF IInv, TypeOK, WorkerServes, Remove, Forgets
<1>7. OnePerID' /\ Watched'
  BY DEF IInv, TypeOK, OnePerID, Watched, Remove, Forgets
<1>. QED  BY <1>2, <1>4, <1>6, <1>7 DEF IInv, Holding

\* The consumers' own steps change the graph only.
LEMMA ConsumerIInv ==
  ASSUME IInv, NEW k \in Subs, (\E t \in Tracks : AppendChild(t, k)) \/ StopConsumer(k)
  PROVE  IInv'
<1>1. childs' \in [Tracks -> Seq(Subs)] /\ talks' \in [Subs -> SUBSET Conns]
  <2>1. ASSUME NEW t \in Tracks, AppendChild(t, k)
        PROVE  childs' \in [Tracks -> Seq(Subs)] /\ talks' \in [Subs -> SUBSET Conns]
    BY <2>1 DEF AppendChild, IInv, TypeOK
  <2>2. ASSUME StopConsumer(k)
        PROVE  childs' \in [Tracks -> Seq(Subs)] /\ talks' \in [Subs -> SUBSET Conns]
    <3>1. \A t \in Tracks : RemoveChild(childs[t], k) \in Seq(Subs)
      BY RemoveChildType DEF IInv, TypeOK
    <3>. QED  BY <2>2, <3>1 DEF StopConsumer, IInv, TypeOK
  <2>. QED  BY <2>1, <2>2
<1>2. UNCHANGED <<pstate, conn, receivers, senders, workerID, workers, life, offers>>
  BY DEF AppendChild, StopConsumer
<1>3. TypeOK'
  BY <1>1, <1>2 DEF IInv, TypeOK
<1>4. Holding'
  BY <1>2 DEF IInv, Holding, ConnUnlessNone, HeldIsOpen, NoGhost, PushedNeverStarts
<1>5. Watching'
  BY <1>2, SameWatch DEF IInv, Watching
<1>. QED  BY <1>3, <1>4, <1>5 DEF IInv, Holding, Watching

\* A goroutine that goes on to another step is still the one of its ID.
LEMMA BecomesIInv ==
  ASSUME IInv, NEW w \in workers, NEW pc \in {"run", "reconnect", "wait"}, Becomes(w, pc),
         UNCHANGED <<pstate, conn, receivers, senders, workerID, life, offers, graph>>
  PROVE  IInv'
<1>. DEFINE v == At(w, pc)
<1>1. /\ w \in Workers /\ v \in Workers
      /\ v.prod = w.prod /\ v.id = w.id /\ v.conn = w.conn
  BY DEF IInv, TypeOK, Workers, At
<1>2. workers' = (workers \ {w}) \cup {v}
  BY DEF Becomes
<1>3. TypeOK'
  BY <1>1, <1>2 DEF IInv, TypeOK, graph
<1>4. Holding'
  BY DEF IInv, Holding, ConnUnlessNone, HeldIsOpen, NoGhost, PushedNeverStarts
<1>5. WorkerServes'
  BY <1>1, <1>2 DEF IInv, WorkerServes
<1>6. OnePerID'
  BY <1>1, <1>2 DEF IInv, OnePerID
<1>7. Watched'
  BY <1>1, <1>2 DEF IInv, Watched
<1>. QED  BY <1>3, <1>4, <1>5, <1>6, <1>7 DEF IInv, Holding

\* A goroutine whose ID is old may end.
LEMMA EndsIInv ==
  ASSUME IInv, NEW w \in workers, Stale(w), Ends(w),
         UNCHANGED <<pstate, conn, receivers, senders, workerID, life, offers, graph>>
  PROVE  IInv'
<1>1. TypeOK'
  BY DEF IInv, TypeOK, Ends, graph
<1>2. Holding'
  BY DEF IInv, Holding, ConnUnlessNone, HeldIsOpen, NoGhost, PushedNeverStarts
<1>3. WorkerServes' /\ OnePerID'
  BY DEF IInv, WorkerServes, OnePerID, Ends
<1>4. Watched'
  BY DEF IInv, Watched, Ends, Stale
<1>. QED  BY <1>1, <1>2, <1>3, <1>4 DEF IInv, Holding

\* A reconnection hands the ID, the state and the one slot on to the new connection.
LEMMA ReconnectIInv == ASSUME IInv, NEW w \in workers, Reconnect(w) PROVE IInv'
<1>. DEFINE p == w.prod
<1>1. PICK c \in Conns, ms \in SUBSET Medias, failed \in SUBSET Flaky :
        /\ Opened(c, p, ms)
        /\ receivers' = [receivers EXCEPT
                           ![p] = Moved(receivers[p], (ms \ Sendonly) \ failed, c)]
        /\ StopConn(conn[p], [life EXCEPT ![c] = "open"],
                    MovedChilds(receivers[p], (ms \ Sendonly) \ failed, c),
                    MovedTalks(p, ms, c))
        /\ conn' = [conn EXCEPT ![p] = c]
        /\ workers' = (workers \ {w}) \cup
             {[prod |-> p, conn |-> c, id |-> w.id, pc |-> "run"]}
  BY DEF Reconnect
<1>. DEFINE ok == (ms \ Sendonly) \ failed
            v == [prod |-> p, conn |-> c, id |-> w.id, pc |-> "run"]
<1>2. /\ w \in Workers /\ p \in Producers /\ w.id \in Nat /\ v \in Workers
      /\ v.prod = p /\ v.id = w.id /\ v.conn = c
  BY DEF IInv, TypeOK, Workers
<1>3. w.id = workerID[p] /\ pstate[p] = "Start" /\ w.conn = conn[p]
  BY DEF IInv, WorkerServes, Reconnect, Stale
<1>4. conn[p] \in Conns /\ conn[p] # NoConn /\ conn[p] # c /\ p \notin Pushed
  <2>1. conn[p] \in Conns /\ conn[p] # NoConn
    BY <1>2, <1>3 DEF IInv, TypeOK, ConnUnlessNone
  <2>2. life[conn[p]] = "open" /\ life[c] = "free"
    BY <1>1, <1>2, <2>1 DEF IInv, HeldIsOpen, Opened
  <2>3. p \notin Pushed
    BY <1>3 DEF IInv, PushedNeverStarts
  <2>. QED  BY <2>1, <2>2, <2>3
<1>5. UNCHANGED <<pstate, senders, workerID>>
  BY DEF Reconnect
<1>6. receivers' \in [Producers -> Seq(Tracks)]
  <2>1. Moved(receivers[p], ok, c) \in Seq(Tracks)
    BY <1>2, MovedType DEF IInv, TypeOK
  <2>. QED  BY <1>1, <2>1 DEF IInv, TypeOK
<1>7. /\ life' \in [Conns -> {"free", "open", "closed"}]
      /\ childs' \in [Tracks -> Seq(Subs)]
      /\ talks' \in [Subs -> SUBSET Conns]
  <2>1. MovedChilds(receivers[p], ok, c) \in [Tracks -> Seq(Subs)]
    BY <1>2, MovedChildsType DEF IInv, TypeOK
  <2>2. MovedTalks(p, ms, c) \in [Subs -> SUBSET Conns]
    BY DEF IInv, TypeOK, MovedTalks
  <2>3. [life EXCEPT ![c] = "open"] \in [Conns -> {"free", "open", "closed"}]
    BY DEF IInv, TypeOK
  <2>. QED  BY <1>1, <1>4, <2>1, <2>2, <2>3, StopConnType
<1>8. TypeOK'
  <2>1. offers' \in [Conns -> SUBSET Medias] /\ conn' \in [Producers -> Conns \cup {NoConn}]
    BY <1>1 DEF IInv, TypeOK, Opened
  <2>2. workers' \in SUBSET Workers
    BY <1>1, <1>2 DEF IInv, TypeOK
  <2>. QED  BY <1>5, <1>6, <1>7, <2>1, <2>2 DEF IInv, TypeOK
<1>9. Holding'
  <2>1. life' = [d \in Conns |-> IF d = conn[p] THEN "closed"
                                 ELSE IF d = c THEN "open" ELSE life[d]]
    BY <1>1 DEF IInv, TypeOK, StopConn
  <2>2. conn' = [conn EXCEPT ![p] = c] /\ SourceOf[c] = p /\ life[c] = "free"
    BY <1>1 DEF Opened
  <2>3. ConnUnlessNone' /\ PushedNeverStarts'
    BY <1>2, <1>3, <1>4, <1>5, <2>2, ProducerAssumption
       DEF IInv, TypeOK, ConnUnlessNone, PushedNeverStarts
  <2>4. HeldIsOpen'
    BY <1>2, <1>4, <2>1, <2>2, ProducerAssumption DEF IInv, TypeOK, HeldIsOpen
  <2>5. NoGhost'
    BY <1>2, <1>4, <2>1, <2>2, ProducerAssumption DEF IInv, TypeOK, HeldIsOpen, NoGhost
  <2>. QED  BY <2>3, <2>4, <2>5 DEF Holding
<1>10. \A u \in workers : u.prod \in Producers /\ (u.prod = p /\ u.id = w.id => u = w)
  BY DEF IInv, TypeOK, Workers, OnePerID
<1>11. WorkerServes'
  <2>. SUFFICES ASSUME NEW u \in workers'
                PROVE  /\ u.id <= workerID[u.prod]
                       /\ u.id = workerID[u.prod] =>
                            pstate[u.prod] = "Start" /\ u.conn = conn'[u.prod]
    BY <1>5 DEF WorkerServes
  <2>1. CASE u = v
    BY <2>1, <1>1, <1>2, <1>3 DEF IInv, TypeOK
  <2>2. CASE u \in workers \ {w}
    <3>1. u.prod = p => u.id # workerID[p]
      BY <2>2, <1>3, <1>10
    <3>. QED  BY <2>2, <3>1, <1>1, <1>10 DEF IInv, TypeOK, WorkerServes
  <2>. QED  BY <2>1, <2>2, <1>1
<1>12. OnePerID'
  BY <1>1, <1>2, <1>10 DEF IInv, OnePerID
<1>13. Watched'
  BY <1>1, <1>2, <1>5 DEF IInv, Watched
<1>. QED  BY <1>8, <1>9, <1>11, <1>12, <1>13 DEF IInv, Holding

LEMMA WorkerIInv == ASSUME IInv, NEW w \in workers, Worker(w) PROVE IInv'
<1>1. CASE WorkerEnds(w) \/ (WorkerFails(w) /\ ~Stale(w))
           \/ TimerFires(w) \/ ReconnectFails(w)
  BY <1>1, BecomesIInv DEF WorkerEnds, WorkerFails, TimerFires, ReconnectFails
<1>2. CASE ReconnectStops(w) \/ (WorkerFails(w) /\ Stale(w))
  BY <1>2, EndsIInv DEF ReconnectStops, WorkerFails
<1>. QED  BY <1>1, <1>2, ReconnectIInv DEF Worker

LEMMA StutterIInv == ASSUME IInv, UNCHANGED vars PROVE IInv'
<1>1. TypeOK'
  BY DEF IInv, TypeOK, vars
<1>2. Holding'
  BY DEF IInv, Holding, ConnUnlessNone, HeldIsOpen, NoGhost, PushedNeverStarts, vars
<1>3. Watching'
  BY DEF IInv, Watching, WorkerServes, OnePerID, Watched, vars
<1>. QED  BY <1>1, <1>2, <1>3 DEF IInv, Holding, Watching

\* Every step keeps the invariant.
LEMMA NextIInv == IInv /\ [Next]_vars => IInv'
<1>. SUFFICES ASSUME IInv, [Next]_vars PROVE IInv'
  OBVIOUS
<1>1. ASSUME NEW p \in Producers, Method(p) PROVE IInv'
  <2>1. CASE DialFails(p)
    BY <2>1, StutterIInv DEF DialFails
  <2>. QED
    BY <1>1, <2>1, DialIInv, StartIInv, StopIInv, GetTrackIInv, AddTrackIInv,
       PushIInv, RemoveIInv DEF Method, Known
<1>3. CASE UNCHANGED vars
  BY <1>3, StutterIInv
<1>. QED  BY <1>1, <1>3, WorkerIInv, ConsumerIInv DEF Next, Consumer

-----------------------------------------------------------------------------
(* The theorems. *)

\* The invariant every other theorem rests on.
THEOREM Invariance == Spec => []IInv
  BY InitIInv, NextIInv, PTL DEF Spec

\* The fields of producers, connections and tracks always have their types: no
\* track is ever made of a nil connection.
THEOREM TypeCorrect == Spec => []TypeOK
  BY Invariance, PTL DEF IInv

\* p.conn is nil in stateNone and in no other state.
THEOREM NeverNil == Spec => []ConnUnlessNone
  BY Invariance, PTL DEF IInv

\* No connection, and no process behind one, is left running without an owner.
THEOREM NoGhosts == Spec => []NoGhost
  BY Invariance, PTL DEF IInv

\* One goroutine has the current ID of a started producer.
LEMMA WatchingIsOne == IInv => OneWatcher
<1>. SUFFICES ASSUME IInv, NEW p \in Producers
              PROVE  IF pstate[p] = "Start"
                     THEN \E w \in Current(p) : Current(p) = {w} /\ w.conn = conn[p]
                     ELSE Current(p) = {}
  BY DEF OneWatcher
<1>1. CASE pstate[p] = "Start"
  <2>1. PICK w \in workers : w.prod = p /\ w.id = workerID[p]
    BY <1>1 DEF IInv, Watched
  <2>2. w \in Current(p) /\ w.conn = conn[p]
    BY <2>1 DEF Current, Stale, IInv, WorkerServes
  <2>3. \A v \in Current(p) : v = w
    BY <2>1 DEF Current, Stale, IInv, OnePerID
  <2>. QED  BY <1>1, <2>2, <2>3
<1>2. CASE pstate[p] # "Start"
  BY <1>2 DEF Current, Stale, IInv, WorkerServes
<1>. QED  BY <1>1, <1>2

\* A started producer has one goroutine or timer to reconnect it, never none and
\* never two; any other producer has none.
THEOREM WatchedOnce == Spec => []OneWatcher
  BY WatchingIsOne, Invariance, PTL

\* Only a reconnection puts one connection in another's place.
LEMMA SwapIsReconnect ==
  ASSUME IInv, [Next]_vars, NEW p \in Producers, Swaps(p)
  PROVE  \E w \in workers : w.prod = p /\ Reconnect(w)
<1>1. ASSUME NEW q \in Producers, Method(q) PROVE FALSE
  BY <1>1 DEF Method, Dial, DialFails, GetTrack, AddTrack, Start, Stop, Forgets, Push,
              Remove, Swaps, IInv, TypeOK, ConnUnlessNone, vars
<1>2. ASSUME NEW w \in workers, Worker(w) PROVE w.prod = p /\ Reconnect(w)
  <2>1. Reconnect(w)
    BY <1>2 DEF Worker, WorkerEnds, WorkerFails, TimerFires, ReconnectStops,
                ReconnectFails, Swaps
  <2>2. p = w.prod
    BY <2>1 DEF Reconnect, Swaps, IInv, TypeOK
  <2>. QED  BY <2>1, <2>2
<1>3. ASSUME NEW k \in Subs, Consumer(k) PROVE FALSE
  BY <1>3 DEF Consumer, AppendChild, StopConsumer, Swaps
<1>4. ~UNCHANGED vars
  BY DEF vars, Swaps
<1>. QED  BY <1>1, <1>2, <1>3, <1>4 DEF Next

\* Consumers that choose tracks never see the connection change under them: one
\* connection replaces another only in stateStart, by the current worker.
THEOREM SwapsAreTheWatchers == Spec => OnlyTheWatcherSwaps
<1>. DEFINE A == \A p \in Producers :
                   Swaps(p) => /\ pstate[p] = "Start" /\ pstate'[p] = "Start"
                               /\ workerID'[p] = workerID[p]
<1>1. IInv /\ [Next]_vars => [A]_vars
  <2>. SUFFICES ASSUME IInv, [Next]_vars, NEW p \in Producers, Swaps(p)
                PROVE  /\ pstate[p] = "Start" /\ pstate'[p] = "Start"
                       /\ workerID'[p] = workerID[p]
    OBVIOUS
  <2>1. PICK w \in workers : w.prod = p /\ Reconnect(w)
    BY SwapIsReconnect
  <2>2. pstate[p] = "Start"
    BY <2>1 DEF Reconnect, Stale, IInv, WorkerServes
  <2>. QED  BY <2>1, <2>2 DEF Reconnect
<1>2. Spec => [][A]_vars
  BY <1>1, Invariance, PTL DEF Spec
<1>. QED  BY <1>2 DEF OnlyTheWatcherSwaps

-----------------------------------------------------------------------------
(* What a reconnection keeps. *)

\* Whose sound a connection plays is a sender of its producer, while it is the
\* producer's: what reconnect reads in p.senders is all there is.
Speaking ==
  \A k \in Subs : \A c \in talks[k] :
    /\ life[c] # "free"
    /\ conn[SourceOf[c]] = c => k \in senders[SourceOf[c]]

\* A step after which nobody speaks to more connections, producers have no other
\* connection and a producer that keeps its connection keeps its senders.
LEMMA FewerSpeak ==
  ASSUME TypeOK, Speaking,
         \A k \in Subs : talks'[k] \subseteq talks[k],
         \A c \in Conns : life[c] # "free" => life'[c] # "free",
         \A p \in Producers :
           conn'[p] # NoConn => conn'[p] = conn[p] /\ senders'[p] = senders[p]
  PROVE  Speaking'
<1>. SUFFICES ASSUME NEW k \in Subs, NEW c \in talks'[k]
              PROVE  /\ life'[c] # "free"
                     /\ conn'[SourceOf[c]] = c => k \in senders'[SourceOf[c]]
  BY DEF Speaking
<1>1. c \in talks[k] /\ c \in Conns /\ SourceOf[c] \in Producers /\ c # NoConn
  BY ProducerAssumption DEF TypeOK
<1>. QED  BY <1>1 DEF Speaking

\* A step that makes a connection nobody has spoken to.
LEMMA FreshSpeaks ==
  ASSUME TypeOK, Speaking, NEW p \in Producers, NEW d \in Conns, life[d] = "free",
         conn' = [conn EXCEPT ![p] = d], life' = [life EXCEPT ![d] = "open"],
         UNCHANGED <<senders, talks>>
  PROVE  Speaking'
  BY ProducerAssumption DEF TypeOK, Speaking

LEMMA MethodSpeaking ==
  ASSUME IInv, Speaking, NEW p \in Producers, Method(p)
  PROVE  Speaking'
<1>1. CASE Dial(p)
  BY <1>1, FreshSpeaks DEF Dial, Opened, graph, IInv
<1>2. ASSUME NEW kind \in {"External", "Internal"}, Push(p, kind) PROVE Speaking'
  BY <1>2, FreshSpeaks DEF Push, Opened, graph, IInv
<1>3. CASE Stop(p)
  <2>1. \A c \in Conns : life[c] # "free" => life'[c] # "free"
    BY <1>3 DEF Stop, StopConn
  <2>2. \A k \in Subs : talks'[k] \subseteq talks[k]
    BY <1>3 DEF Stop, StopConn
  <2>3. \A q \in Producers :
          conn'[q] # NoConn => conn'[q] = conn[q] /\ senders'[q] = senders[q]
    BY <1>3 DEF Stop, Forgets, IInv, TypeOK
  <2>. QED  BY <2>1, <2>2, <2>3, FewerSpeak DEF IInv
<1>4. CASE Remove(p)
  <2>1. \A c \in Conns : life[c] # "free" => life'[c] # "free"
    BY <1>4 DEF Remove, IInv, TypeOK
  <2>2. \A q \in Producers :
          conn'[q] # NoConn => conn'[q] = conn[q] /\ senders'[q] = senders[q]
    BY <1>4 DEF Remove, Forgets, IInv, TypeOK
  <2>. QED  BY <1>4, <2>1, <2>2, FewerSpeak DEF Remove, graph, IInv
<1>5. CASE DialFails(p) \/ Start(p) \/ \E k \in Known(p) : GetTrack(p, k)
  BY <1>5, FewerSpeak DEF DialFails, Start, GetTrack, vars, graph, IInv
<1>6. ASSUME NEW k \in Subs, AddTrack(p, k) PROVE Speaking'
  <2>1. conn[p] \in Conns /\ SourceOf[conn[p]] = p /\ life[conn[p]] = "open"
    BY <1>6 DEF IInv, TypeOK, ConnUnlessNone, HeldIsOpen, AddTrack, Usable
  <2>2. /\ talks' = [talks EXCEPT ![k] = talks[k] \cup {conn[p]}]
        /\ senders' = [senders EXCEPT ![p] = senders[p] \cup {k}]
        /\ UNCHANGED <<conn, life>>
    BY <1>6 DEF AddTrack
  <2>. QED  BY <2>1, <2>2, ProducerAssumption DEF IInv, TypeOK, Speaking
<1>. QED  BY <1>1, <1>2, <1>3, <1>4, <1>5, <1>6 DEF Method

\* What a reconnection of worker w does, once it has its new connection c.
Rewires(w, c, ms, ok) ==
  /\ Opened(c, w.prod, ms)
  /\ receivers' = [receivers EXCEPT ![w.prod] = Moved(receivers[w.prod], ok, c)]
  /\ StopConn(conn[w.prod], [life EXCEPT ![c] = "open"],
              MovedChilds(receivers[w.prod], ok, c), MovedTalks(w.prod, ms, c))
  /\ conn' = [conn EXCEPT ![w.prod] = c]
  /\ UNCHANGED senders

\* A worker that reconnects has a connection to give up, and makes another.
LEMMA Rewiring ==
  ASSUME IInv, NEW w \in workers, Reconnect(w)
  PROVE  \E c \in Conns, ms \in SUBSET Medias, failed \in SUBSET Flaky :
           /\ Rewires(w, c, ms, (ms \ Sendonly) \ failed)
           /\ w.prod \in Producers /\ pstate[w.prod] = "Start"
           /\ conn[w.prod] \in Conns /\ c # conn[w.prod]
           /\ SourceOf[c] = w.prod /\ SourceOf[conn[w.prod]] = w.prod
           /\ life[c] = "free" /\ life[conn[w.prod]] = "open"
<1>1. PICK c \in Conns, ms \in SUBSET Medias, failed \in SUBSET Flaky :
        Rewires(w, c, ms, (ms \ Sendonly) \ failed)
  BY DEF Reconnect, Rewires
<1>2. w.prod \in Producers /\ pstate[w.prod] = "Start"
  BY DEF IInv, TypeOK, Workers, WorkerServes, Reconnect, Stale
<1>3. /\ conn[w.prod] \in Conns
      /\ life[conn[w.prod]] = "open" /\ SourceOf[conn[w.prod]] = w.prod
  BY <1>2 DEF IInv, TypeOK, ConnUnlessNone, HeldIsOpen
<1>4. life[c] = "free" /\ SourceOf[c] = w.prod
  BY <1>1 DEF Rewires, Opened
<1>. QED  BY <1>1, <1>2, <1>3, <1>4

LEMMA WorkerSpeaking ==
  ASSUME IInv, Speaking, NEW w \in workers, Worker(w)
  PROVE  Speaking'
<1>1. CASE Reconnect(w)
  <2>1. PICK c \in Conns, ms \in SUBSET Medias, failed \in SUBSET Flaky :
           /\ Rewires(w, c, ms, (ms \ Sendonly) \ failed)
           /\ w.prod \in Producers /\ pstate[w.prod] = "Start"
           /\ conn[w.prod] \in Conns /\ c # conn[w.prod]
           /\ SourceOf[c] = w.prod /\ SourceOf[conn[w.prod]] = w.prod
           /\ life[c] = "free" /\ life[conn[w.prod]] = "open"
    BY <1>1, Rewiring
  <2>2. \A d \in Conns : life[d] # "free" \/ d = c => life'[d] # "free"
    BY <2>1 DEF Rewires, StopConn, IInv, TypeOK
  <2>3. \A k \in Subs : \A d \in talks'[k] :
          /\ d # conn[w.prod]
          /\ d \in talks[k] \/ (d = c /\ k \in senders[w.prod])
    BY <2>1 DEF Rewires, StopConn, MovedTalks
  <2>4. /\ \A k \in Subs : \A d \in talks[k] : d \in Conns /\ SourceOf[d] \in Producers
        /\ \A k \in Subs : c \notin talks[k]
    BY <2>1, ProducerAssumption DEF IInv, TypeOK, Speaking
  <2>5. UNCHANGED senders /\ \A q \in Producers : q # w.prod => conn'[q] = conn[q]
    BY <2>1 DEF Rewires, IInv, TypeOK
  <2>6. conn'[w.prod] = c
    BY <2>1 DEF Rewires, IInv, TypeOK
  <2>. QED  BY <2>1, <2>2, <2>3, <2>4, <2>5, <2>6 DEF Speaking
<1>2. CASE ~Reconnect(w)
  <2>1. UNCHANGED <<conn, senders, life, talks>>
    BY <1>2 DEF Worker, WorkerEnds, WorkerFails, TimerFires, ReconnectStops,
                ReconnectFails, graph
  <2>. QED  BY <2>1, FewerSpeak DEF IInv
<1>. QED  BY <1>1, <1>2

LEMMA ConsumerSpeaking ==
  ASSUME IInv, Speaking, NEW k \in Subs, Consumer(k)
  PROVE  Speaking'
<1>1. /\ UNCHANGED <<conn, senders, life>>
      /\ \A l \in Subs : talks'[l] \subseteq talks[l]
  BY DEF Consumer, AppendChild, StopConsumer, IInv, TypeOK
<1>. QED  BY <1>1, FewerSpeak DEF IInv

LEMMA SpeakingInvariance == Spec => []Speaking
<1>1. Init => Speaking
  BY DEF Init, Speaking
<1>2. IInv /\ Speaking /\ [Next]_vars => Speaking'
  <2>. SUFFICES ASSUME IInv, Speaking, [Next]_vars PROVE Speaking'
    OBVIOUS
  <2>1. CASE UNCHANGED vars
    BY <2>1 DEF vars, Speaking
  <2>. QED  BY <2>1, MethodSpeaking, WorkerSpeaking, ConsumerSpeaking DEF Next
<1>. QED  BY <1>1, <1>2, Invariance, PTL DEF Spec

\* A receiver that is alone with its codec is moved to a media of that codec, and its
\* children are those the new track gets.
LEMMA AloneMoves ==
  ASSUME TypeOK, NEW rs \in Seq(Tracks), NEW ms \in SUBSET Medias, NEW c \in Conns,
         NEW i \in DOMAIN rs, Matching(ms, rs[i]) # {},
         \A j \in DOMAIN rs : Name(rs[j]) = Name(rs[i]) => j = i
  PROVE  /\ Moved(rs, ms, c)[i] \in Tracks
         /\ Moved(rs, ms, c)[i].conn = c
         /\ MovedChilds(rs, ms, c)[Moved(rs, ms, c)[i]] = childs[rs[i]]
<1>. DEFINE To(j) == Own(c, Last(Matching(ms, rs[j])))
<1>1. ASSUME NEW j \in DOMAIN rs, Matching(ms, rs[j]) # {}
      PROVE  Last(Matching(ms, rs[j])) \in Matching(ms, rs[j])
  <2>1. Matching(ms, rs[j]) \in SUBSET Medias
    BY DEF Matching
  <2>2. PICK m \in Matching(ms, rs[j]) : \A n \in Matching(ms, rs[j]) : n <= m
    BY <1>1, <2>1, MediasAreListed
  <2>. QED  BY <2>2 DEF Last
<1>2. Moves(rs, ms, i) /\ Moved(rs, ms, c)[i] = To(i)
  <2>1. Moves(rs, ms, i)
    BY DEF Moves
  <2>. QED  BY <2>1 DEF Moved
<1>3. To(i) \in Tracks /\ To(i).conn = c
  BY <1>1 DEF Own, Tracks, Codecs, Matching
<1>4. ASSUME NEW j \in DOMAIN rs, Moves(rs, ms, j), Moved(rs, ms, c)[j] = To(i)
      PROVE  j = i
  <2>1. To(j) = To(i)
    BY <1>4 DEF Moved
  <2>2. Last(Matching(ms, rs[j])) = Last(Matching(ms, rs[i]))
    BY <2>1 DEF Own
  <2>3. Name(rs[j]) = Name(rs[i])
    BY <1>1, <1>4, <2>2 DEF Moves, Matching
  <2>. QED  BY <2>3
<1>5. MovedChilds(rs, ms, c)[To(i)] = childs[rs[i]]
  <2>1. (CHOOSE j \in DOMAIN rs : Moves(rs, ms, j) /\ Moved(rs, ms, c)[j] = To(i)) = i
    BY <1>2, <1>4
  <2>. QED  BY <1>2, <1>3, <2>1 DEF MovedChilds
<1>. QED  BY <1>2, <1>3, <1>5

\* A reconnection keeps the consumers of every codec the source offers again, in their
\* order, on the connection it makes.
THEOREM ReconnectKeepsConsumers == Spec => TracksFollow
<1>. DEFINE A == \A p \in Producers : Swaps(p) =>
                   \A i \in DOMAIN receivers[p] : Alone(p, i) /\ OfferedAgain(p, i) =>
                     /\ receivers'[p][i].conn = conn'[p]
                     /\ childs'[receivers'[p][i]] = childs[receivers[p][i]]
<1>1. IInv /\ [Next]_vars => [A]_vars
  <2>. SUFFICES ASSUME IInv, [Next]_vars, NEW p \in Producers, Swaps(p),
                       NEW i \in DOMAIN receivers[p], Alone(p, i), OfferedAgain(p, i)
                PROVE  /\ receivers'[p][i].conn = conn'[p]
                       /\ childs'[receivers'[p][i]] = childs[receivers[p][i]]
    OBVIOUS
  <2>1. PICK w \in workers : w.prod = p /\ Reconnect(w)
    BY SwapIsReconnect
  <2>2. PICK c \in Conns, ms \in SUBSET Medias, failed \in SUBSET Flaky :
           /\ Rewires(w, c, ms, (ms \ Sendonly) \ failed)
           /\ conn[w.prod] \in Conns /\ c # conn[w.prod]
    BY <2>1, Rewiring
  <2>. DEFINE ok == (ms \ Sendonly) \ failed
              rs == receivers[p]
  <2>3. rs \in Seq(Tracks) /\ ok \in SUBSET Medias
    BY DEF IInv, TypeOK
  <2>4. conn'[p] = c /\ receivers'[p] = Moved(rs, ok, c) /\ offers'[c] = ms
    BY <2>1, <2>2 DEF Rewires, Opened, IInv, TypeOK
  <2>5. Matching(ok, rs[i]) # {}
    BY <2>4 DEF OfferedAgain, Matching
  <2>6. /\ Moved(rs, ok, c)[i] \in Tracks
        /\ Moved(rs, ok, c)[i].conn = c
        /\ MovedChilds(rs, ok, c)[Moved(rs, ok, c)[i]] = childs[rs[i]]
    BY <2>3, <2>5, AloneMoves DEF Alone, IInv
  <2>7. \A t \in Tracks : t.conn = c => childs'[t] = MovedChilds(rs, ok, c)[t]
    BY <2>1, <2>2 DEF Rewires, StopConn
  <2>. QED  BY <2>4, <2>6, <2>7
<1>2. Spec => [][A]_vars
  BY <1>1, Invariance, PTL DEF Spec
<1>. QED  BY <1>2 DEF TracksFollow

\* A reconnection keeps two-way audio: nobody is left speaking to the old connection,
\* and who spoke to it speaks to the new one if that listens.
THEOREM ReconnectKeepsTalkers == Spec => TalkersFollow
<1>. DEFINE A == \A p \in Producers : Swaps(p) =>
                   \A k \in Subs :
                     /\ conn[p] \notin talks'[k]
                     /\ conn[p] \in talks[k] /\ offers'[conn'[p]] \cap Sendonly # {} =>
                          conn'[p] \in talks'[k]
<1>1. IInv /\ Speaking /\ [Next]_vars => [A]_vars
  <2>. SUFFICES ASSUME IInv, Speaking, [Next]_vars, NEW p \in Producers, Swaps(p),
                       NEW k \in Subs
                PROVE  /\ conn[p] \notin talks'[k]
                       /\ conn[p] \in talks[k] /\ offers'[conn'[p]] \cap Sendonly # {} =>
                            conn'[p] \in talks'[k]
    OBVIOUS
  <2>1. PICK w \in workers : w.prod = p /\ Reconnect(w)
    BY SwapIsReconnect
  <2>2. PICK c \in Conns, ms \in SUBSET Medias, failed \in SUBSET Flaky :
           /\ Rewires(w, c, ms, (ms \ Sendonly) \ failed)
           /\ c # conn[p] /\ SourceOf[conn[p]] = p
    BY <2>1, Rewiring
  <2>3. conn'[p] = c /\ offers'[c] = ms
    BY <2>1, <2>2 DEF Rewires, Opened, IInv, TypeOK
  <2>4. talks'[k] = MovedTalks(p, ms, c)[k] \ {conn[p]}
    BY <2>1, <2>2 DEF Rewires, StopConn
  <2>5. conn[p] \in talks[k] => k \in senders[p]
    BY <2>2 DEF Speaking
  <2>. QED  BY <2>2, <2>3, <2>4, <2>5 DEF MovedTalks
<1>2. Spec => [][A]_vars
  BY <1>1, Invariance, SpeakingInvariance, PTL DEF Spec
<1>. QED  BY <1>2 DEF TalkersFollow

-----------------------------------------------------------------------------
(* The producers implement Lease. *)

\* A method acquires or releases a connection, or does not touch it.
LEMMA MethodLease ==
  ASSUME IInv, NEW p \in Producers, Method(p)
  PROVE  [LeaseOf!Next]_(LeaseOf!vars)
<1>1. ASSUME NEW c \in Conns, life[c] = "free", conn[p] = NoConn,
             life' = [life EXCEPT ![c] = "open"], conn' = [conn EXCEPT ![p] = c]
      PROVE  LeaseOf!Acquire(p, c)
  BY <1>1 DEF IInv, TypeOK, LeaseOf!Acquire
<1>2. CASE Dial(p)
  <2>1. PICK c \in Conns, ms \in SUBSET Medias :
          /\ Opened(c, p, ms)
          /\ life' = [life EXCEPT ![c] = "open"]
          /\ conn' = [conn EXCEPT ![p] = c]
    BY <1>2 DEF Dial
  <2>. QED  BY <1>1, <1>2, <2>1 DEF Dial, Opened, IInv, ConnUnlessNone, LeaseOf!Next
<1>3. ASSUME NEW kind \in {"External", "Internal"}, Push(p, kind)
      PROVE  LeaseOf!Next
  <2>1. PICK c \in Conns, ms \in SUBSET Medias :
          /\ Opened(c, p, ms)
          /\ life' = [life EXCEPT ![c] = "open"]
          /\ conn' = [conn EXCEPT ![p] = c]
    BY <1>3 DEF Push
  <2>. QED  BY <1>1, <1>3, <2>1 DEF Push, Opened, IInv, ConnUnlessNone, LeaseOf!Next
<1>4. ASSUME conn[p] \in Conns, conn[p] # NoConn, conn' = [conn EXCEPT ![p] = NoConn],
             life' = [c \in Conns |-> IF c = conn[p] THEN "closed" ELSE life[c]]
      PROVE  LeaseOf!Next
  <2>1. LeaseOf!Release(p)
    BY <1>4 DEF IInv, TypeOK, HeldIsOpen, LeaseOf!Release
  <2>. QED  BY <2>1 DEF LeaseOf!Next
<1>5. CASE Stop(p)
  <2>1. conn[p] \in Conns /\ conn[p] # NoConn
    BY <1>5 DEF IInv, TypeOK, ConnUnlessNone, Stop
  <2>. QED  BY <1>4, <1>5, <2>1 DEF Stop, StopConn, Forgets
<1>6. CASE Remove(p)
  <2>1. conn[p] \in Conns /\ conn[p] # NoConn
    BY <1>6 DEF IInv, TypeOK, Remove
  <2>2. life' = [c \in Conns |-> IF c = conn[p] THEN "closed" ELSE life[c]]
    BY <1>6, <2>1 DEF Remove, IInv, TypeOK
  <2>. QED  BY <1>4, <1>6, <2>1, <2>2 DEF Remove, Forgets
<1>7. ASSUME UNCHANGED <<conn, life>>
      PROVE  UNCHANGED LeaseOf!vars
  BY <1>7 DEF LeaseOf!vars
<1>8. CASE DialFails(p) \/ Start(p) \/ (\E k \in Known(p) : GetTrack(p, k))
           \/ (\E k \in Subs : AddTrack(p, k))
  BY <1>7, <1>8 DEF DialFails, vars, Start, GetTrack, AddTrack
<1>. QED  BY <1>2, <1>3, <1>5, <1>6, <1>8 DEF Method

\* A worker swaps connections, or does not touch them.
LEMMA WorkerLease ==
  ASSUME IInv, NEW w \in workers, Worker(w)
  PROVE  [LeaseOf!Next]_(LeaseOf!vars)
<1>1. CASE Reconnect(w)
  <2>1. PICK c \in Conns, ms \in SUBSET Medias, failed \in SUBSET Flaky :
          /\ Opened(c, w.prod, ms)
          /\ StopConn(conn[w.prod], [life EXCEPT ![c] = "open"],
                      MovedChilds(receivers[w.prod], (ms \ Sendonly) \ failed, c),
                      MovedTalks(w.prod, ms, c))
          /\ conn' = [conn EXCEPT ![w.prod] = c]
    BY <1>1 DEF Reconnect
  <2>2. w.prod \in Producers /\ pstate[w.prod] = "Start"
    BY <1>1 DEF IInv, TypeOK, Workers, WorkerServes, Reconnect, Stale
  <2>3. conn[w.prod] \in Conns /\ life[conn[w.prod]] = "open"
    BY <2>2 DEF IInv, TypeOK, ConnUnlessNone, HeldIsOpen
  <2>4. life[c] = "free" /\ life' = [d \in Conns |-> IF d = conn[w.prod] THEN "closed"
                                        ELSE IF d = c THEN "open" ELSE life[d]]
    BY <2>1 DEF Opened, StopConn, IInv, TypeOK
  <2>5. LeaseOf!Swap(w.prod, c)
    BY <2>1, <2>2, <2>3, <2>4 DEF LeaseOf!Swap
  <2>. QED  BY <2>2, <2>5 DEF LeaseOf!Next
<1>2. CASE ~Reconnect(w)
  BY <1>2 DEF Worker, WorkerEnds, WorkerFails, TimerFires, ReconnectStops, ReconnectFails,
              LeaseOf!vars
<1>. QED  BY <1>1, <1>2

\* Producers keep the promise of Lease: a connection is acquired once, held by its
\* producer while it is open, and closed by the step that lets go of it.
THEOREM ImplementsLease == Spec => KeepsLease
<1>1. Init => LeaseOf!Init
  BY DEF Init, LeaseOf!Init
<1>2. IInv /\ [Next]_vars => [LeaseOf!Next]_(LeaseOf!vars)
  <2>. SUFFICES ASSUME IInv, [Next]_vars PROVE [LeaseOf!Next]_(LeaseOf!vars)
    OBVIOUS
  <2>1. ASSUME NEW k \in Subs, Consumer(k) PROVE UNCHANGED LeaseOf!vars
    BY <2>1 DEF Consumer, AppendChild, StopConsumer, LeaseOf!vars
  <2>2. CASE UNCHANGED vars
    BY <2>2 DEF vars, LeaseOf!vars
  <2>. QED  BY <2>1, <2>2, MethodLease, WorkerLease DEF Next
<1>3. Spec => LeaseOf!Spec
  BY <1>1, <1>2, Invariance, PTL DEF Spec, LeaseOf!Spec
<1>. QED  BY <1>3 DEF KeepsLease
=============================================================================

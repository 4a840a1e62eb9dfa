----------------------------- MODULE HlsProofs -----------------------------
(***************************************************************************)
(* Theorems about Hls: what a session gives its viewer, and that it ends,  *)
(* for any number of sessions, requests and fragments.                     *)
(***************************************************************************)
EXTENDS Hls, TLAPS

\* A session that is not created yet is nowhere.
Unbegun ==
  \A s \in Sessions : alive[s] = "unset" =>
    /\ s \notin inMap /\ s \notin viewing
    /\ expiring[s].before = 0 /\ expiring[s].after = 0

\* A request for a segment is at the session it found.
Asked ==
  \A r \in Requests : request[r].pc \in {"found", "polls"} =>
    request[r].ses \in Sessions /\ alive[request[r].ses] # "unset"

\* A viewer has a timer that is armed, or a goroutine of the timer that will take it out; one
\* that a request can find is a consumer of its stream, and will be taken out of the map.
Accounted ==
  \A s \in Sessions :
    /\ s \in viewing =>
         alive[s] = "armed" \/ expiring[s].before > 0 \/ expiring[s].after > 0
    /\ s \in inMap =>
         /\ s \in viewing /\ expiring[s].after = 0
         /\ alive[s] = "armed" \/ expiring[s].before > 0

HInv == HlsTypeOK /\ Unbegun /\ Asked /\ Accounted

-----------------------------------------------------------------------------
(* A session begins and ends. *)

Counts == [before : Nat, after : Nat]

LEMMA CreatesKeeps == ASSUME HInv, NEW s \in Sessions, Creates(s) PROVE HInv'
  BY DEF Creates, HInv, HlsTypeOK, Unbegun, Asked, Accounted

\* What a goroutine of the timer counts as.
LEMMA ExpiringOne ==
  ASSUME HlsTypeOK, NEW s \in Sessions, NEW e \in Counts, expiring' = [expiring EXCEPT ![s] = e]
  PROVE  /\ expiring' \in [Sessions -> Counts] /\ expiring'[s] = e
         /\ \A z \in Sessions : z # s => expiring'[z] = expiring[z]
  BY DEF HlsTypeOK, Counts

LEMMA FiresKeeps == ASSUME HInv, NEW s \in Sessions, Fires(s) PROVE HInv'
<1>1. PICK e \in Counts : /\ e.before = expiring[s].before + 1 /\ e.after = expiring[s].after
                          /\ expiring' = [expiring EXCEPT ![s] = e]
  <2>1. expiring[s] \in Counts /\ expiring[s].before + 1 \in Nat
    BY DEF HInv, HlsTypeOK, Counts
  <2>2. PICK n : n = expiring[s].before + 1
    OBVIOUS
  <2>. DEFINE e == [expiring[s] EXCEPT !.before = n]
  <2>3. e \in Counts /\ e.before = n /\ e.after = expiring[s].after
    BY <2>1, <2>2 DEF Counts
  <2>4. expiring' = [expiring EXCEPT ![s] = e]
    BY <2>2 DEF Fires
  <2>. HIDE DEF e
  <2>. QED  BY <2>2, <2>3, <2>4
<1>2. /\ expiring' \in [Sessions -> Counts] /\ expiring'[s] = e
      /\ \A z \in Sessions : z # s => expiring'[z] = expiring[z]
  BY <1>1, ExpiringOne DEF HInv
<1>. QED
  BY <1>1, <1>2 DEF Fires, HInv, HlsTypeOK, Unbegun, Asked, Accounted, Counts

LEMMA ExpiresKeeps == ASSUME HInv, NEW s \in Sessions, Expires(s) PROVE HInv'
<1>1. PICK e \in Counts : /\ e.before = expiring[s].before - 1 /\ e.after = expiring[s].after + 1
                          /\ expiring' = [expiring EXCEPT ![s] = e]
  <2>1. expiring[s].before - 1 \in Nat /\ expiring[s].after + 1 \in Nat
    BY DEF HInv, HlsTypeOK, Expires
  <2>2. PICK b \in Nat, a \in Nat : b = expiring[s].before - 1 /\ a = expiring[s].after + 1
    BY <2>1
  <2>3. expiring' = [expiring EXCEPT ![s] = [before |-> b, after |-> a]]
    BY <2>2 DEF Expires
  <2>4. [before |-> b, after |-> a] \in Counts
    BY DEF Counts
  <2>. QED  BY <2>2, <2>3, <2>4
<1>2. /\ expiring' \in [Sessions -> Counts] /\ expiring'[s] = e
      /\ \A z \in Sessions : z # s => expiring'[z] = expiring[z]
  BY <1>1, ExpiringOne DEF HInv
<1>. QED
  BY <1>1, <1>2 DEF Expires, HInv, HlsTypeOK, Unbegun, Asked, Accounted, Counts

LEMMA LeavesKeeps == ASSUME HInv, NEW s \in Sessions, Leaves(s) PROVE HInv'
<1>1. PICK e \in Counts : /\ e.before = expiring[s].before /\ e.after = expiring[s].after - 1
                          /\ expiring' = [expiring EXCEPT ![s] = e]
  <2>1. expiring[s] \in Counts /\ expiring[s].after - 1 \in Nat
    BY DEF HInv, HlsTypeOK, Counts, Leaves
  <2>2. PICK n : n = expiring[s].after - 1
    OBVIOUS
  <2>. DEFINE e == [expiring[s] EXCEPT !.after = n]
  <2>3. e \in Counts /\ e.after = n /\ e.before = expiring[s].before
    BY <2>1, <2>2 DEF Counts
  <2>4. expiring' = [expiring EXCEPT ![s] = e]
    BY <2>2 DEF Leaves
  <2>. HIDE DEF e
  <2>. QED  BY <2>2, <2>3, <2>4
<1>2. /\ expiring' \in [Sessions -> Counts] /\ expiring'[s] = e
      /\ \A z \in Sessions : z # s => expiring'[z] = expiring[z]
  BY <1>1, ExpiringOne DEF HInv
<1>. QED
  BY <1>1, <1>2 DEF Leaves, HInv, HlsTypeOK, Unbegun, Asked, Accounted, Counts

-----------------------------------------------------------------------------
(* The source writes, requests take. *)

LEMMA WritesKeeps ==
  ASSUME HInv, NEW s \in Sessions, WritesHeader(s) \/ WritesFragment(s) PROVE HInv'
<1>1. HlsTypeOK'
  <2>1. CASE WritesHeader(s)
    BY <2>1 DEF WritesHeader, HInv, HlsTypeOK
  <2>2. CASE WritesFragment(s)
    <3>1. written' \in [Sessions -> Nat] /\ written'[s] \in Nat
      BY <2>2 DEF WritesFragment, HInv, HlsTypeOK
    <3>2. sbuffer' \in [Sessions -> Seq(Nat)]
      BY <2>2, <3>1 DEF WritesFragment, HInv, HlsTypeOK
    <3>. QED  BY <2>2, <3>1, <3>2 DEF WritesFragment, HInv, HlsTypeOK
  <2>. QED  BY <2>1, <2>2
<1>2. UNCHANGED <<inMap, viewing, alive, expiring, request>>
  BY DEF WritesHeader, WritesFragment
<1>. QED  BY <1>1, <1>2 DEF HInv, Unbegun, Asked, Accounted

RequestPCs == {"new", "found", "polls", "over"}

LEMMA RequestOne ==
  ASSUME HlsTypeOK, NEW r \in Requests, NEW pc \in RequestPCs, RequestGoes(r, pc)
  PROVE  /\ request' \in [Requests -> [pc : RequestPCs, ses : Sessions \cup {NoSession}]]
         /\ request'[r].pc = pc /\ request'[r].ses = request[r].ses
         /\ \A q \in Requests : q # r => request'[q] = request[q]
  BY DEF HlsTypeOK, RequestGoes, RequestPCs

LEMMA LookedKeeps ==
  ASSUME HInv, NEW r \in Requests, NEW s \in Sessions, Looked(r, s) PROVE HInv'
<1>1. HlsTypeOK'
  BY DEF Looked, HInv, HlsTypeOK
<1>2. Asked'
  BY DEF Looked, HInv, HlsTypeOK, Asked, Unbegun
<1>. QED  BY <1>1, <1>2 DEF Looked, HInv, Unbegun, Accounted

LEMMA ResetsKeeps == ASSUME HInv, NEW r \in Requests, ResetsTimer(r) PROVE HInv'
<1>1. /\ request' \in [Requests -> [pc : RequestPCs, ses : Sessions \cup {NoSession}]]
      /\ request'[r].pc = "polls" /\ request'[r].ses = request[r].ses
      /\ \A q \in Requests : q # r => request'[q] = request[q]
  BY RequestOne DEF ResetsTimer, HInv, RequestPCs
<1>2. request[r].ses \in Sessions /\ alive[request[r].ses] # "unset"
  BY DEF ResetsTimer, HInv, Asked
<1>. QED
  BY <1>1, <1>2 DEF ResetsTimer, HInv, HlsTypeOK, Unbegun, Asked, Accounted, RequestPCs

LEMMA LeftAfterType == ASSUME NEW s PROVE LeftAfter(s) \in Seq(Nat)
  BY DEF LeftAfter

LEMMA AnswersKeeps ==
  ASSUME HInv, NEW r \in Requests, Takes(r) \/ GivesUp(r) PROVE HInv'
<1>1. /\ request' \in [Requests -> [pc : RequestPCs, ses : Sessions \cup {NoSession}]]
      /\ request'[r].pc = "over"
      /\ \A q \in Requests : q # r => request'[q] = request[q]
  BY RequestOne DEF Takes, GivesUp, HInv, RequestPCs
<1>2. UNCHANGED <<inMap, viewing, alive, expiring, sinit, written>>
  BY DEF Takes, GivesUp
<1>3. given' \in [Sessions -> Seq(Seq(Nat))] /\ sbuffer' \in [Sessions -> Seq(Nat)]
  <2>1. CASE Takes(r)
    <3>. DEFINE s == request[r].ses
    <3>1. s \in Sessions
      BY <2>1 DEF Takes, HInv, Asked
    <3>2. sbuffer[s] \in Seq(Nat) /\ given[s] \in Seq(Seq(Nat))
      BY <3>1 DEF HInv, HlsTypeOK
    <3>3. Append(given[s], sbuffer[s]) \in Seq(Seq(Nat))
      BY <3>2
    <3>. QED  BY <2>1, <3>1, <3>3, LeftAfterType DEF Takes, HInv, HlsTypeOK
  <2>2. CASE GivesUp(r)
    BY <2>2 DEF GivesUp, HInv, HlsTypeOK
  <2>. QED  BY <2>1, <2>2
<1>4. HlsTypeOK'
  BY <1>1, <1>2, <1>3 DEF HInv, HlsTypeOK, RequestPCs
<1>5. Asked'
  BY <1>1, <1>2 DEF HInv, Asked
<1>. QED  BY <1>2, <1>4, <1>5 DEF HInv, Unbegun, Accounted

-----------------------------------------------------------------------------

LEMMA HlsInitInv == HlsInit => HInv
  BY DEF HlsInit, HInv, HlsTypeOK, Unbegun, Asked, Accounted

LEMMA HlsNextInv == HInv /\ [HlsNext]_hlsVars => HInv'
<1>. SUFFICES ASSUME HInv, [HlsNext]_hlsVars PROVE HInv'
  OBVIOUS
<1>1. CASE UNCHANGED hlsVars
  BY <1>1 DEF hlsVars, HInv, HlsTypeOK, Unbegun, Asked, Accounted
<1>. QED
  BY <1>1, CreatesKeeps, FiresKeeps, ExpiresKeeps, LeavesKeeps, WritesKeeps, LookedKeeps,
     ResetsKeeps, AnswersKeeps DEF HlsNext, HlsRests, Expiry, Answering

LEMMA HlsInvariance == HlsSpec => []HInv
  BY HlsInitInv, HlsNextInv, PTL DEF HlsSpec

\* Every variable of the sessions keeps its type.
THEOREM HlsTypeCorrect == HlsSpec => []HlsTypeOK
  BY HlsInvariance, PTL DEF HInv

\* A viewer without a connection is never forgotten: as long as its session is a consumer of
\* the stream, or can be found by a request, the timer is armed or a goroutine it started
\* has still to come by; and what is in the map is a consumer of its stream.
THEOREM SessionsAccounted == HlsSpec => []Accounted
  BY HlsInvariance, PTL DEF HInv

-----------------------------------------------------------------------------
(* What the segments hold. *)


\* SegmentsJoin of one session: the segments all cut w fragments into pieces.
Cut(s, all, w) ==
  \E cuts \in [0 .. Len(all) -> 0 .. w] :
    /\ cuts[0] = 0 /\ cuts[Len(all)] = w
    /\ \A i \in 1 .. Len(all) : /\ cuts[i - 1] <= cuts[i]
                                /\ all[i] = Segment(s, i, cuts[i - 1], cuts[i])

LEMMA JoinIsCut ==
  SegmentsJoin <=> \A s \in Sessions : Cut(s, Append(given[s], sbuffer[s]), written[s])
  BY DEF SegmentsJoin, Cut

\* A segment begins with nothing but the init of a TS segment ...
LEMMA SegmentBegins ==
  ASSUME NEW s, NEW i \in Int, NEW a \in Nat
  PROVE  Segment(s, i, a, a) = IF i > 1 /\ s \in TsSessions THEN <<0>> ELSE <<>>
<1>1. [j \in 1 .. (a - a) |-> a + j] = <<>>
  OBVIOUS
<1>. QED  BY <1>1 DEF Segment

\* ... and grows by the fragment that is written.
LEMMA SegmentGrows ==
  ASSUME NEW s, NEW i \in Int, NEW a \in Nat, NEW w \in Nat, a <= w
  PROVE  Segment(s, i, a, w + 1) = Append(Segment(s, i, a, w), w + 1)
<1>. DEFINE run(b) == [j \in 1 .. (b - a) |-> a + j]
<1>1. run(w) \in Seq(Nat) /\ run(w + 1) \in Seq(Nat) /\ Len(run(w)) = w - a
      /\ Len(run(w + 1)) = w - a + 1
  OBVIOUS
<1>2. run(w + 1) = Append(run(w), w + 1)
  <2>1. \A j \in 1 .. (w - a + 1) : run(w + 1)[j] = Append(run(w), w + 1)[j]
    BY <1>1
  <2>. QED  BY <1>1, <2>1
<1>. DEFINE head == IF i > 1 /\ s \in TsSessions THEN <<0>> ELSE <<>>
<1>3. head \in Seq(Nat)
  OBVIOUS
<1>. HIDE DEF run, head
<1>4. head \o Append(run(w), w + 1) = Append(head \o run(w), w + 1)
  BY <1>1, <1>3
<1>. QED  BY <1>2, <1>4 DEF Segment, run, head

LEMMA BufferGrows ==
  ASSUME NEW s \in Sessions, NEW g \in Seq(Seq(Nat)), NEW b \in Seq(Nat), NEW w \in Nat,
         Cut(s, Append(g, b), w)
  PROVE  Cut(s, Append(g, Append(b, w + 1)), w + 1)
<1>. DEFINE n == Len(g) + 1
            all == Append(g, b)
            new == Append(g, Append(b, w + 1))
<1>1. n \in Nat /\ n >= 1 /\ Len(all) = n /\ Len(new) = n
      /\ all[n] = b /\ new[n] = Append(b, w + 1)
      /\ \A i \in 1 .. n : i # n => new[i] = all[i]
  <2>1. Append(b, w + 1) \in Seq(Nat)
    OBVIOUS
  <2>. QED  BY <2>1
<1>. HIDE DEF n, all, new
<1>2. PICK cuts \in [0 .. n -> 0 .. w] :
        /\ cuts[0] = 0 /\ cuts[n] = w
        /\ \A i \in 1 .. n : /\ cuts[i - 1] <= cuts[i]
                             /\ all[i] = Segment(s, i, cuts[i - 1], cuts[i])
  BY <1>1, Zenon DEF Cut, all
<1>. DEFINE more == [cuts EXCEPT ![n] = w + 1]
<1>3. /\ more \in [0 .. n -> 0 .. (w + 1)] /\ more[n] = w + 1
      /\ \A i \in 0 .. n : i # n => more[i] = cuts[i]
  BY <1>1
<1>. HIDE DEF more
<1>4. more[0] = 0
  BY <1>1, <1>2, <1>3
<1>5. ASSUME NEW i \in 1 .. n
      PROVE  more[i - 1] <= more[i] /\ new[i] = Segment(s, i, more[i - 1], more[i])
  <2>1. i - 1 \in 0 .. n /\ i - 1 # n /\ more[i - 1] = cuts[i - 1] /\ cuts[i - 1] \in 0 .. w
    BY <1>1, <1>2, <1>3
  <2>2. CASE i = n
    <3>1. b = Segment(s, n, cuts[n - 1], w)
      BY <1>1, <1>2
    <3>2. Segment(s, n, cuts[n - 1], w + 1) = Append(b, w + 1)
      BY <1>1, <2>1, <2>2, <3>1, SegmentGrows
    <3>3. more[n - 1] = cuts[n - 1] /\ more[n - 1] <= more[n]
      BY <1>1, <1>3, <2>1, <2>2
    <3>4. new[n] = Segment(s, n, more[n - 1], more[n])
      BY <1>1, <1>3, <3>2, <3>3, Zenon
    <3>. QED  BY <2>2, <3>3, <3>4, Zenon
  <2>3. CASE i # n
    BY <1>1, <1>2, <1>3, <2>1, <2>3
  <2>. QED  BY <2>2, <2>3
<1>6. \E c \in [0 .. n -> 0 .. (w + 1)] :
        /\ c[0] = 0 /\ c[n] = w + 1
        /\ \A i \in 1 .. n : /\ c[i - 1] <= c[i]
                             /\ new[i] = Segment(s, i, c[i - 1], c[i])
  BY <1>3, <1>4, <1>5, Zenon
<1>. QED  BY <1>1, <1>6, Zenon DEF Cut, new

LEMMA BufferCut ==
  ASSUME NEW s \in Sessions, NEW all \in Seq(Seq(Nat)), NEW w \in Nat, Len(all) >= 1,
         Cut(s, all, w)
  PROVE  Cut(s, Append(all, LeftAfter(s)), w)
<1>. DEFINE n == Len(all)
            new == Append(all, LeftAfter(s))
<1>1. n \in Nat /\ n >= 1 /\ Len(new) = n + 1 /\ new[n + 1] = LeftAfter(s)
      /\ \A i \in 1 .. n : new[i] = all[i]
  BY LeftAfterType
<1>. HIDE DEF n, new
<1>2. PICK cuts \in [0 .. n -> 0 .. w] :
        /\ cuts[0] = 0 /\ cuts[n] = w
        /\ \A i \in 1 .. n : /\ cuts[i - 1] <= cuts[i]
                             /\ all[i] = Segment(s, i, cuts[i - 1], cuts[i])
  BY Zenon DEF Cut, n
<1>. DEFINE more == [i \in 0 .. (n + 1) |-> IF i = n + 1 THEN w ELSE cuts[i]]
<1>3. /\ more \in [0 .. (n + 1) -> 0 .. w] /\ more[n + 1] = w
      /\ \A i \in 0 .. n : more[i] = cuts[i]
  BY <1>1, <1>2
<1>. HIDE DEF more
<1>4. more[0] = 0
  BY <1>1, <1>2, <1>3
<1>5. ASSUME NEW i \in 1 .. (n + 1)
      PROVE  more[i - 1] <= more[i] /\ new[i] = Segment(s, i, more[i - 1], more[i])
  <2>1. i - 1 \in 0 .. n /\ more[i - 1] = cuts[i - 1]
    BY <1>1, <1>3
  <2>2. CASE i = n + 1
    <3>1. Segment(s, n + 1, w, w) = LeftAfter(s)
      BY <1>1, SegmentBegins DEF LeftAfter
    <3>. QED  BY <1>1, <1>2, <1>3, <2>1, <2>2, <3>1
  <2>3. CASE i # n + 1
    <3>1. i \in 1 .. n
      BY <1>1, <2>3
    <3>. QED  BY <1>1, <1>2, <1>3, <2>1, <3>1
  <2>. QED  BY <2>2, <2>3
<1>6. \E c \in [0 .. (n + 1) -> 0 .. w] :
        /\ c[0] = 0 /\ c[n + 1] = w
        /\ \A i \in 1 .. (n + 1) : /\ c[i - 1] <= c[i]
                                   /\ new[i] = Segment(s, i, c[i - 1], c[i])
  BY <1>3, <1>4, <1>5, Zenon
<1>. QED  BY <1>1, <1>6, Zenon DEF Cut, new

LEMMA InitCut == HlsInit => SegmentsJoin
<1>. SUFFICES ASSUME HlsInit, NEW s \in Sessions PROVE Cut(s, Append(given[s], sbuffer[s]), written[s])
  BY JoinIsCut
<1>1. Append(given[s], sbuffer[s]) = << <<>> >> /\ written[s] = 0
  BY DEF HlsInit
<1>. DEFINE cuts == [i \in 0 .. 1 |-> 0]
            all == << <<>> >>
<1>2. Len(all) = 1 /\ all[1] = <<>> /\ cuts \in [0 .. 1 -> 0 .. 0] /\ cuts[0] = 0 /\ cuts[1] = 0
  OBVIOUS
<1>. HIDE DEF cuts, all
<1>3. Segment(s, 1, 0, 0) = <<>>
  BY SegmentBegins
<1>4. \A i \in 1 .. 1 : cuts[i - 1] <= cuts[i] /\ all[i] = Segment(s, i, cuts[i - 1], cuts[i])
  BY <1>2, <1>3
<1>5. \E c \in [0 .. 1 -> 0 .. 0] :
        /\ c[0] = 0 /\ c[1] = 0
        /\ \A i \in 1 .. 1 : c[i - 1] <= c[i] /\ all[i] = Segment(s, i, c[i - 1], c[i])
  BY <1>2, <1>4, Zenon
<1>6. Cut(s, all, 0)
  BY <1>2, <1>5, Zenon DEF Cut
<1>. QED  BY <1>1, <1>6 DEF all

LEMMA NextCut == HInv /\ SegmentsJoin /\ [HlsNext]_hlsVars => SegmentsJoin'
<1>. SUFFICES ASSUME HInv, SegmentsJoin, [HlsNext]_hlsVars PROVE SegmentsJoin'
  OBVIOUS
<1>1. CASE UNCHANGED <<given, sbuffer, written>>
  BY <1>1 DEF SegmentsJoin
<1>2. ASSUME NEW s \in Sessions, WritesFragment(s)
      PROVE  SegmentsJoin'
  <2>1. given[s] \in Seq(Seq(Nat)) /\ sbuffer[s] \in Seq(Nat) /\ written[s] \in Nat
    BY DEF HInv, HlsTypeOK
  <2>2. /\ given' = given /\ written'[s] = written[s] + 1
        /\ sbuffer'[s] = Append(sbuffer[s], written[s] + 1)
        /\ \A z \in Sessions : z # s => sbuffer'[z] = sbuffer[z] /\ written'[z] = written[z]
    BY <1>2 DEF WritesFragment, HInv, HlsTypeOK
  <2>3. Cut(s, Append(given[s], Append(sbuffer[s], written[s] + 1)), written[s] + 1)
    BY <2>1, BufferGrows, JoinIsCut
  <2>4. \A z \in Sessions : Cut(z, Append(given'[z], sbuffer'[z]), written'[z])
    BY <2>2, <2>3, JoinIsCut
  <2>. QED  BY <2>4 DEF SegmentsJoin, Cut
<1>3. ASSUME NEW r \in Requests, Takes(r)
      PROVE  SegmentsJoin'
  <2>1. PICK s \in Sessions : s = request[r].ses
    BY <1>3 DEF HInv, Asked, Takes
  <2>2. given[s] \in Seq(Seq(Nat)) /\ sbuffer[s] \in Seq(Nat) /\ written[s] \in Nat
    BY DEF HInv, HlsTypeOK
  <2>3. /\ given'[s] = Append(given[s], sbuffer[s]) /\ written' = written
        /\ sbuffer'[s] = LeftAfter(s)
        /\ \A z \in Sessions : z # s => sbuffer'[z] = sbuffer[z] /\ given'[z] = given[z]
    BY <1>3, <2>1 DEF Takes, HInv, HlsTypeOK
  <2>4. Append(given[s], sbuffer[s]) \in Seq(Seq(Nat)) /\ Len(Append(given[s], sbuffer[s])) >= 1
    BY <2>2
  <2>5. Cut(s, Append(Append(given[s], sbuffer[s]), LeftAfter(s)), written[s])
    BY <2>2, <2>4, BufferCut, JoinIsCut
  <2>6. \A z \in Sessions : Cut(z, Append(given'[z], sbuffer'[z]), written'[z])
    BY <2>3, <2>5, JoinIsCut
  <2>. QED  BY <2>6 DEF SegmentsJoin, Cut
<1>. QED
  BY <1>1, <1>2, <1>3 DEF HlsNext, HlsRests, Expiry, Answering, Creates, Fires, Expires, Leaves,
     WritesHeader, Looked, ResetsTimer, GivesUp, hlsVars

\* What a viewer gets are the fragments the source wrote, each once and in order (session.go,
\* Segment and Write), however many requests wait for the same segment and whichever of them
\* takes it: none is lost between the buffer and the answer, and none is given twice.
THEOREM NothingLostOrTwice == HlsSpec => []SegmentsJoin
  BY HlsInvariance, InitCut, NextCut, PTL DEF HlsSpec
=============================================================================

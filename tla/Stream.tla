------------------------------- MODULE Stream -------------------------------
(***************************************************************************)
(* One stream and the consumers that come and go: internal/streams         *)
(* stream.go, add_consumer.go and play.go over the producers of            *)
(* producer.go.                                                            *)
(*                                                                         *)
(* A consumer's goroutine runs AddConsumer, serves it for a while, and     *)
(* runs RemoveConsumer.  Between two lock sections of one goroutine every  *)
(* other one may run: a step below is one call of a producer, one          *)
(* AppendChild, one access of s.pending or one section under s.mu.         *)
(* stopProducers keeps s.mu while it looks at the producers one by one,    *)
(* but it looks at their tracks without the producers' own lock.           *)
(***************************************************************************)
EXTENDS Producer

CONSTANTS
  Sources,     \* the configured producers, in order
  ConsMedias,  \* for each consumer, the medias it asks for
  Nobody       \* s.mu is free

ASSUME StreamAssumption ==
  /\ Sources \in Seq(Producers \ Pushed)
  /\ IsFiniteSet(Subs) /\ Nobody \notin Subs
  /\ \A k \in Subs : \A i \in DOMAIN ConsMedias[k] :
       DOMAIN ConsMedias[k][i] = {"codecs", "all", "talk"}

VARIABLES
  list,        \* s.producers
  mu,          \* who holds s.mu
  pending,     \* s.pending
  consumers,   \* s.consumers
  att,         \* the goroutine of each consumer
  playing,     \* a call of Play
  plays,       \* the goroutines that play a source to the camera
  hung         \* connections Play has told to stop

player == <<playing, plays, hung>>
streamVars == <<list, mu, pending, consumers, att, player>>
allVars == <<vars, streamVars>>

PCs == {"idle", "dial", "medias", "match", "add", "release", "check", "lock",
        "scan", "halt", "append", "start", "on", "remove", "panic"}

\* i, j: the consumer's media and the producer the loops of AddConsumer are at;
\* len: the length of prodErrors; errs: the producers it holds an error for;
\* view: the producers the inner loop ranges over; todo: their medias not tried
\* yet; track: the track to add; starts: prodStarts; s: the producer
\* stopProducers is at; then: where its caller goes on.
Idle == [pc |-> "idle", i |-> 1, j |-> 1, len |-> 0, errs |-> {}, view |-> <<>>,
         todo |-> {}, track |-> {}, starts |-> {}, s |-> 1, then |-> "idle"]

StreamTypeOK ==
  /\ list \in Seq(Producers)
  /\ mu \in Subs \cup {Nobody}
  /\ pending \in Nat
  /\ consumers \in SUBSET Subs
  /\ \A k \in Subs :
       /\ att[k].pc \in PCs /\ att[k].then \in {"idle", "append"}
       /\ att[k].starts \subseteq Producers /\ att[k].todo \subseteq Codecs
  /\ playing \in {"idle", "search"}
  /\ plays \in SUBSET [prod : Pushed, conn : Conns]
  /\ hung \in SUBSET Conns

StreamInit ==
  /\ Init
  /\ list = Sources
  /\ mu = Nobody
  /\ pending = 0
  /\ consumers = {}
  /\ att = [k \in Subs |-> Idle]
  /\ playing = "idle"
  /\ plays = {}
  /\ hung = {}

PC(k) == att[k].pc

-----------------------------------------------------------------------------
(* Mutated forms: what the properties below must notice. *)

\* AddConsumer without s.pending.Add(1).
BeginUncounted(k) ==
  /\ att[k].pc = "idle"
  /\ att' = [att EXCEPT ![k] = [Idle EXCEPT !.pc = "dial", !.view = list, !.len = Len(list)]]
  /\ UNCHANGED <<vars, list, mu, pending, consumers, player>>

\* AddConsumer without stopProducers.
ReleaseKeepsAll(k) ==
  /\ att[k].pc = "release"
  /\ pending' = pending - 1
  /\ att' = [att EXCEPT ![k].pc = "append", ![k].then = "append"]
  /\ UNCHANGED <<vars, list, mu, consumers, player>>

\* RemoveConsumer without cons.Stop().
LeaveUnstopped(k) ==
  /\ att[k].pc = "on"
  /\ att' = [att EXCEPT ![k].pc = "remove"]
  /\ UNCHANGED <<vars, list, mu, pending, consumers, player>>

\* stopProducers without s.mu.Unlock().
UnlockForgotten(k) ==
  /\ att[k].pc = "scan" /\ att[k].s > Len(list)
  /\ att' = [att EXCEPT ![k].pc = att[k].then, ![k].s = 1]
  /\ UNCHANGED <<vars, list, mu, pending, consumers, player>>

\* stopProducers drops the producer's state and not its connection.
HaltForgets(k) ==
  /\ att[k].pc = "halt"
  /\ Forgets(list[att[k].s])
  /\ att' = [att EXCEPT ![k].pc = "scan", ![k].s = @ + 1]
  /\ UNCHANGED <<workerID, workers, life, offers, graph, list, mu, pending, consumers, player>>

\* The goroutine of Play without s.RemoveProducer(src).
PlayEndsOnly(r) ==
  /\ mu = Nobody
  /\ plays' = plays \ {r}
  /\ UNCHANGED <<vars, list, mu, pending, consumers, att, playing, hung>>

-----------------------------------------------------------------------------

Sets(k, a) == att' = [att EXCEPT ![k] = a]

Goes(k, pc) == Sets(k, [att[k] EXCEPT !.pc = pc])

others == <<list, mu, pending, consumers, player>>

-----------------------------------------------------------------------------
(* AddConsumer. *)

Begin(k) ==
  /\ PC(k) = "idle"
  /\ pending' = pending + 1
  /\ Sets(k, [Idle EXCEPT !.pc = "dial", !.view = list, !.len = Len(list)])
  /\ UNCHANGED <<vars, list, mu, consumers, player>>

\* The producer the inner loop is at, and the consumer's media of the outer loop.
This(k) == att[k].view[att[k].j]
Wish(k) == ConsMedias[k][att[k].i]

\* On to the next producer; on to the next media of the consumer, or to the end.
NextProducer(k, a) == Sets(k, [a EXCEPT !.pc = "dial", !.j = @ + 1])

NextMedia(k, a) ==
  IF a.i < Len(ConsMedias[k])
  THEN Sets(k, [a EXCEPT !.pc = "dial", !.i = @ + 1, !.j = 1, !.view = list])
  ELSE Sets(k, [a EXCEPT !.pc = "release", !.todo = {}, !.track = {}, !.view = <<>>])

NoMoreProducers(k) ==
  /\ PC(k) = "dial" /\ att[k].j > Len(att[k].view)
  /\ NextMedia(k, att[k])
  /\ UNCHANGED <<vars, others>>

AtProducer(k) == PC(k) = "dial" /\ att[k].j <= Len(att[k].view)

\* prodErrors[prodN] of a producer that came after prodErrors was made.
IndexPanics(k) ==
  /\ AtProducer(k) /\ att[k].j > att[k].len
  /\ Goes(k, "panic")
  /\ UNCHANGED <<vars, others>>

SkipBroken(k) ==
  /\ AtProducer(k) /\ att[k].j \in att[k].errs
  /\ NextProducer(k, att[k])
  /\ UNCHANGED <<vars, others>>

MayDial(k) == AtProducer(k) /\ att[k].j <= att[k].len /\ att[k].j \notin att[k].errs

DialOne(k) ==
  /\ MayDial(k)
  /\ \/ Dial(This(k))
     \/ pstate[This(k)] # "None" /\ UNCHANGED vars
  /\ Goes(k, "medias")
  /\ UNCHANGED others

\* The producer at hand is given up with an error.
Broken(k) == [att[k] EXCEPT !.errs = @ \cup {att[k].j}]

DialOneFails(k) ==
  /\ MayDial(k)
  /\ DialFails(This(k))
  /\ NextProducer(k, Broken(k))
  /\ UNCHANGED others

Listing(c) == IF c = NoConn THEN {} ELSE {[of |-> c, media |-> m] : m \in offers[c]}

GetMedias(k) ==
  /\ PC(k) = "medias"
  /\ Sets(k, [att[k] EXCEPT !.pc = "match", !.todo = Listing(conn[This(k)])])
  /\ UNCHANGED <<vars, others>>

\* MatchMedia: the medias of the producer that give, or take, what is asked for.
Matches(k) ==
  {c \in att[k].todo : /\ CodecName[c.media] \in Wish(k).codecs
                       /\ (c.media \in Sendonly) = Wish(k).talk}

FirstMatch(k) == CHOOSE c \in Matches(k) : \A d \in Matches(k) : c.media <= d.media

After(k) == {c \in att[k].todo : c.media > FirstMatch(k).media}

NoMatch(k) ==
  /\ PC(k) = "match" /\ Matches(k) = {}
  /\ NextProducer(k, att[k])
  /\ UNCHANGED <<vars, others>>

\* A producer that was stopped meanwhile gives no track and takes none.
MatchFails(k) ==
  /\ PC(k) = "match" /\ Matches(k) # {}
  /\ ~Usable(This(k))
  /\ Sets(k, [Broken(k) EXCEPT !.todo = After(k)])
  /\ UNCHANGED <<vars, others>>

MatchGets(k) ==
  /\ PC(k) = "match" /\ Matches(k) # {} /\ ~Wish(k).talk
  /\ GetTrack(This(k), FirstMatch(k))
  /\ Sets(k, [att[k] EXCEPT !.pc = "add", !.todo = After(k),
                            !.track = {TrackFor(This(k), FirstMatch(k))}])
  /\ UNCHANGED others

\* prodStarts grows; a media that is not "all" is done with.
Found(k, todo) ==
  LET a == [att[k] EXCEPT !.pc = "match", !.todo = todo, !.track = {},
                          !.starts = @ \cup {This(k)}]
  IN  IF Wish(k).all THEN Sets(k, a) ELSE NextMedia(k, a)

MatchTalks(k) ==
  /\ PC(k) = "match" /\ Matches(k) # {} /\ Wish(k).talk
  /\ AddTrack(This(k), k)
  /\ Found(k, After(k))
  /\ UNCHANGED others

AddToConsumer(k) ==
  /\ PC(k) = "add"
  /\ \E t \in att[k].track : AppendChild(t, k)
  /\ Found(k, att[k].todo)
  /\ UNCHANGED others

\* cons.AddTrack refuses the codec.
AddToConsumerFails(k) ==
  /\ PC(k) = "add"
  /\ Sets(k, [att[k] EXCEPT !.pc = "match", !.track = {}])
  /\ UNCHANGED <<vars, others>>

Release(k) ==
  /\ PC(k) = "release"
  /\ pending' = pending - 1
  /\ Sets(k, [att[k] EXCEPT !.pc = IF pending' = 0 THEN "check" ELSE "append",
                            !.then = "append"])
  /\ UNCHANGED <<vars, list, mu, consumers, player>>

Refused(k) ==
  /\ PC(k) = "append" /\ att[k].starts = {}
  /\ Sets(k, Idle)
  /\ UNCHANGED <<vars, others>>

AppendConsumer(k) ==
  /\ PC(k) = "append" /\ att[k].starts # {}
  /\ mu = Nobody
  /\ consumers' = consumers \cup {k}
  /\ Goes(k, "start")
  /\ UNCHANGED <<vars, list, mu, pending, player>>

StartOne(k) ==
  /\ PC(k) = "start"
  /\ \E p \in att[k].starts :
       /\ \/ Start(p)
          \/ pstate[p] # "Tracks" /\ UNCHANGED vars
       /\ LET rest == att[k].starts \ {p} IN
          Sets(k, IF rest = {} THEN [Idle EXCEPT !.pc = "on"]
                  ELSE [att[k] EXCEPT !.starts = rest])
  /\ UNCHANGED others

-----------------------------------------------------------------------------
(* RemoveConsumer and stopProducers. *)

Leave(k) ==
  /\ PC(k) = "on"
  /\ StopConsumer(k)
  /\ Goes(k, "remove")
  /\ UNCHANGED others

RemoveConsumer(k) ==
  /\ PC(k) = "remove"
  /\ mu = Nobody
  /\ consumers' = consumers \ {k}
  /\ Sets(k, [att[k] EXCEPT !.pc = "check", !.then = "idle"])
  /\ UNCHANGED <<vars, list, mu, pending, player>>

Returns(k) == Sets(k, [att[k] EXCEPT !.pc = att[k].then, !.s = 1])

SkipPending(k) ==
  /\ PC(k) = "check" /\ pending > 0
  /\ Returns(k)
  /\ UNCHANGED <<vars, others>>

CheckPending(k) ==
  /\ PC(k) = "check" /\ pending = 0
  /\ Goes(k, "lock")
  /\ UNCHANGED <<vars, others>>

Lock(k) ==
  /\ PC(k) = "lock" /\ mu = Nobody
  /\ mu' = k
  /\ Goes(k, "scan")
  /\ UNCHANGED <<vars, list, pending, consumers, player>>

\* len(track.Senders()) > 0 for a receiver or a sender of the producer.
HasReaders(p) ==
  \/ \E t \in Range(receivers[p]) : childs[t] # <<>>
  \/ \E k \in senders[p] : talks[k] # {}

Scan(k) ==
  /\ PC(k) = "scan" /\ att[k].s <= Len(list)
  /\ IF HasReaders(list[att[k].s]) THEN Sets(k, [att[k] EXCEPT !.s = @ + 1])
     ELSE Goes(k, "halt")
  /\ UNCHANGED <<vars, others>>

Halt(k) ==
  /\ PC(k) = "halt"
  /\ LET p == list[att[k].s] IN
     \/ Stop(p)
     \/ pstate[p] \in {"External", "None"} /\ UNCHANGED vars
  /\ Sets(k, [att[k] EXCEPT !.pc = "scan", !.s = @ + 1])
  /\ UNCHANGED others

Unlock(k) ==
  /\ PC(k) = "scan" /\ att[k].s > Len(list)
  /\ mu' = Nobody
  /\ Returns(k)
  /\ UNCHANGED <<vars, list, pending, consumers, player>>

-----------------------------------------------------------------------------
(* Producers that come and go by themselves. *)

AddProducer(p) ==
  /\ mu = Nobody /\ p \notin Range(list)
  /\ Push(p, "External")
  /\ list' = Append(list, p)
  /\ UNCHANGED <<mu, pending, consumers, att, player>>

Without(s, n) == SubSeq(s, 1, n - 1) \o SubSeq(s, n + 1, Len(s))

\* RemoveProducer: the first producer whose conn is c, if there is one.
RemoveConn(c) ==
  /\ mu = Nobody
  /\ IF \E n \in DOMAIN list : conn[list[n]] = c
     THEN LET n == CHOOSE i \in DOMAIN list :
                     conn[list[i]] = c /\ \A j \in 1 .. (i - 1) : conn[list[j]] # c
          IN  Remove(list[n]) /\ list' = Without(list, n)
     ELSE UNCHANGED <<vars, list>>
  /\ UNCHANGED <<mu, pending, consumers, att>>

RemoveProducer(p) ==
  /\ pstate[p] = "External"
  /\ RemoveConn(conn[p])
  /\ UNCHANGED player

\* Play("") only stops what plays; Play(src) goes on to look for a camera that is
\* connected and takes sound, and plays src to it in a goroutine of its own.
PlayStops ==
  /\ mu = Nobody /\ playing = "idle"
  /\ hung' = hung \cup {conn[p] : p \in {q \in Range(list) : pstate[q] = "Internal"}}
  /\ playing' \in {"idle", "search"}
  /\ UNCHANGED <<vars, list, mu, pending, consumers, att, plays>>

HasSpeaker(p) == conn[p] # NoConn /\ offers[conn[p]] \cap Sendonly # {}

PlayFails == playing = "search" /\ playing' = "idle"
             /\ UNCHANGED <<vars, list, mu, pending, consumers, att, plays, hung>>

PlayAdds(p) ==
  /\ playing = "search" /\ mu = Nobody /\ p \notin Range(list)
  /\ \E q \in Range(list) : HasSpeaker(q)
  /\ Push(p, "Internal")
  /\ list' = Append(list, p)
  /\ plays' = plays \cup {[prod |-> p, conn |-> conn'[p]]}
  /\ playing' = "idle"
  /\ UNCHANGED <<mu, pending, consumers, att, hung>>

\* src.Start returns: the file ends, or the source was stopped.
PlayEnds(r) ==
  /\ RemoveConn(r.conn)
  /\ plays' = plays \ {r}
  /\ UNCHANGED <<playing, hung>>

-----------------------------------------------------------------------------

Attach(k) ==
  \/ NoMoreProducers(k) \/ IndexPanics(k) \/ SkipBroken(k)
  \/ DialOne(k) \/ DialOneFails(k) \/ GetMedias(k)
  \/ NoMatch(k) \/ MatchFails(k) \/ MatchGets(k) \/ MatchTalks(k)
  \/ AddToConsumer(k) \/ AddToConsumerFails(k)
  \/ Release(k) \/ Refused(k) \/ AppendConsumer(k) \/ StartOne(k)

Detach(k) ==
  \/ RemoveConsumer(k) \/ SkipPending(k) \/ CheckPending(k)
  \/ Lock(k) \/ Scan(k) \/ Halt(k) \/ Unlock(k)

Goroutine(k) == Attach(k) \/ Detach(k)

StreamNext ==
  \/ \E k \in Subs : Begin(k) \/ Leave(k) \/ Goroutine(k)
  \/ (\E w \in workers : Worker(w)) /\ UNCHANGED streamVars
  \/ \E p \in Pushed : AddProducer(p) \/ RemoveProducer(p)
  \/ PlayStops \/ PlayFails
  \/ \E p \in Pushed : PlayAdds(p)
  \/ \E r \in plays : PlayEnds(r)

StreamSpec == StreamInit /\ [][StreamNext]_allVars

\* A goroutine that can run runs, and sync.Mutex starves nobody: who waits for s.mu
\* gets it.  A consumer need not come, nor leave.
Locking(k) == AppendConsumer(k) \/ RemoveConsumer(k) \/ Lock(k)

\* A connection that Play stops makes its Start return.
StoppedPlay(c) == c \in hung /\ \E r \in plays : r.conn = c /\ PlayEnds(r)

FairStream ==
  /\ StreamSpec
  /\ \A k \in Subs : WF_allVars(Goroutine(k)) /\ SF_allVars(Locking(k))
  /\ \A c \in Conns : SF_allVars(StoppedPlay(c))

-----------------------------------------------------------------------------
(* Properties. *)

\* "stop producers if they don't have readers" (add_consumer.go:96): when the last
\* consumer has left, and nobody is about to come, no source stays connected.
NoIdleSource ==
  (\A k \in Subs : PC(k) = "idle") =>
    \A n \in DOMAIN Sources : pstate[Sources[n]] = "None"

\* A consumer that AddConsumer refused or that has left is in no track, so no packet
\* goes to it and no producer runs for it.
GoneIsGone ==
  \A k \in Subs : PC(k) = "idle" =>
    k \notin consumers /\ talks[k] = {} /\ \A t \in Tracks : k \notin Range(childs[t])

\* A consumer that AddConsumer let in is served: a camera connection it has a track
\* of, or speaks to, is closed or runs.
ServedOnceOn ==
  \A k \in Subs : PC(k) = "on" =>
    \A c \in Conns :
      /\ life[c] = "open" /\ SourceOf[c] \notin Pushed
      /\ c \in talks[k] \/ \E t \in Tracks : t.conn = c /\ k \in Range(childs[t])
      => pstate[SourceOf[c]] = "Start"

\* The producers of a stream go through steps of producers only: every theorem
\* about Producer is one about the producers of a stream.
UsesProducers == Spec

\* AddConsumer and RemoveConsumer return (or panic, see PushIsSafe): nobody waits for
\* s.mu for ever, and the loops end while producers come and go.
CallsReturn == \A k \in Subs : PC(k) \in {"dial", "remove"} ~> PC(k) \in {"on", "idle", "panic"}

\* Play("") ends a playback: its source leaves the stream.
PlaybackLeaves ==
  \A c \in Conns : c \in hung ~> \A p \in Range(list) : conn[p] # c

\* "stop producers if they don't have readers": a producer is stopped without any.
StopsOnlyUnread ==
  [][\A p \in Producers \ Pushed :
       pstate[p] # "None" /\ pstate'[p] = "None" => ~HasReaders(p)]_allVars

\* "stop previous connection after moving tracks" (producer.go:237): while a source
\* runs, none of the stream's consumers is left on a connection it had before.
NoReaderLeftBehind ==
  \A k \in consumers, t \in Tracks :
    k \in Range(childs[t]) /\ pstate[SourceOf[t.conn]] = "Start" => life[t.conn] = "open"

\* "You can push data to a non-empty stream" (README.md:732), whatever its
\* consumers are doing.
PushIsSafe == \A k \in Subs : PC(k) # "panic"
=============================================================================

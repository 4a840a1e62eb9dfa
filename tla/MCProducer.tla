----------------------------- MODULE MCProducer -----------------------------
(* Instances of Producer for TLC. *)
EXTENDS Producer, TLC

CONSTANTS
  cam, push, c1, c2, c3, d1, k1, k2, video, audio,
  MaxTracks    \* bound: how many tracks a consumer takes

\* The connections c1, c2 and c3 of a camera, d1 of a publisher.
OneSource == [c \in Conns |-> IF c = d1 THEN push ELSE cam]

\* Media 1 and 2 come to us, media 3 takes our sound.
TwoCodecs == 1 :> video @@ 2 :> audio @@ 3 :> audio

\* The consumers of these instances take each track once, and few of them.
Takes(t, k) ==
  /\ HandedOut(t) /\ k \notin Range(childs[t])
  /\ Cardinality({u \in Tracks : k \in Range(childs[u])}) < MaxTracks
  /\ AppendChild(t, k)

FewTracksNext ==
  \/ \E p \in Producers : Method(p)
  \/ \E w \in workers : Worker(w)
  \/ \E k \in Subs : (\E t \in Tracks : Takes(t, k)) \/ StopConsumer(k)

FewTracksSpec == Init /\ [][FewTracksNext]_vars
=============================================================================

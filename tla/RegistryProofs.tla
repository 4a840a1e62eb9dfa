--------------------------- MODULE RegistryProofs ---------------------------
(***************************************************************************)
(* Theorems about Registry, for any names, requests, preloads and          *)
(* publications.                                                           *)
(***************************************************************************)
EXTENDS Registry, TLAPS

AskerType == [pc : {"out", "get", "patch", "has"}, src : Keys, name : Keys,
              got : Streams \cup {NoStream}, under : Keys, named : BOOLEAN]

\* What a request was given under a name is a stream, and that name's stream.
GivenStream(a) == asker[a].named => asker[a].got \in Streams

NameInv == /\ streams \in [Keys -> Streams \cup {NoStream}]
           /\ made \in SUBSET Streams
           /\ asker \in [Askers -> AskerType]
           /\ \A a \in Askers : GivenStream(a)
           /\ StaysNamed

OwnTypeOK ==
  /\ preloads \in [Streams -> Probes \cup {NoProbe}]
  /\ preloadsMu \in PreloadCalls \cup {NoCaller}
  /\ preloading \in [PreloadCalls ->
       [pc : {"out", "lock", "remove", "add", "store", "unlock"}, op : {"add", "del"},
        stream : Streams \cup {NoStream}, probe : Probes \cup {NoProbe}]]
  /\ publishing \in [Publications -> [pc : {"out", "add", "runs", "removes", "sleeps"},
                                      stream : Streams \cup {NoStream}]]
  /\ owned \in [Streams -> SUBSET (Probes \cup Publications)]

\* A call that is past its lock holds it, and has a stream.
Locked(c) ==
  /\ preloading[c].pc \in {"remove", "add", "store", "unlock"} <=> preloadsMu = c
  /\ preloading[c].pc # "out" => preloading[c].stream \in Streams

\* While a call has its new consumer in its hand, the one in the map is out of the stream;
\* before, it has none; after, the map has it.
Handing(c) ==
  LET s == preloading[c].stream IN
  /\ preloading[c].pc \in {"add", "store"} => preloads[s] \notin owned[s]
  /\ preloading[c].pc = "store" => preloading[c].probe \in Probes
  /\ preloading[c].pc \in {"out", "lock", "remove", "add"} => preloading[c].probe = NoProbe
  /\ preloading[c].pc = "unlock" /\ preloading[c].probe # NoProbe =>
       preloads[s] = preloading[c].probe

\* A publication that is under way has its stream.
Sending(p) == publishing[p].pc # "out" => publishing[p].stream \in Streams

OwnInv == /\ OwnTypeOK /\ NoStrayConsumer
          /\ \A c \in PreloadCalls : Locked(c) /\ Handing(c)
          /\ \A p \in Publications : Sending(p)

RInv == NameInv /\ OwnInv

-----------------------------------------------------------------------------

LEMMA InitRegistry == RegistryInit => RInv
  <1> SUFFICES ASSUME RegistryInit PROVE RInv OBVIOUS
  <1> USE RegistryAssumption DEF RegistryInit
  <1>1. AnyKey \in Keys BY DEF AnyKey
  <1>2. NameInv BY <1>1 DEF NameInv, AskerType, NoAsker, GivenStream, StaysNamed
  <1>3. OwnTypeOK BY DEF OwnTypeOK, NoPreload
  <1>4. NoStrayConsumer BY DEF NoStrayConsumer
  <1>5. \A c \in PreloadCalls : Locked(c) /\ Handing(c) BY DEF Locked, Handing, NoPreload
  <1>6. \A p \in Publications : Sending(p) BY DEF Sending
  <1> QED BY <1>2, <1>3, <1>4, <1>5, <1>6 DEF RInv, OwnInv

-----------------------------------------------------------------------------
(* The names. *)

\* A field of a request that is replaced by a value of its type.
LEMMA FieldTypes ==
  ASSUME NEW f \in [Askers -> AskerType], NEW a \in Askers
  PROVE  /\ \A pc \in {"get", "patch", "has"} : [f EXCEPT ![a].pc = pc] \in [Askers -> AskerType]
         /\ \A x \in Keys : /\ [f EXCEPT ![a].src = x] \in [Askers -> AskerType]
                            /\ [f EXCEPT ![a].name = x] \in [Askers -> AskerType]
                            /\ [f EXCEPT ![a].under = x] \in [Askers -> AskerType]
         /\ \A s \in Streams : [f EXCEPT ![a].got = s] \in [Askers -> AskerType]
         /\ [f EXCEPT ![a].named = TRUE] \in [Askers -> AskerType]
  BY DEF AskerType

LEMMA GivenType ==
  ASSUME asker \in [Askers -> AskerType], NEW a \in Askers, NEW s \in Streams, NEW k \in Keys
  PROVE Given(a, s, k) \in [Askers -> AskerType]
  <1> DEFINE f == [asker EXCEPT ![a].pc = "has"]
             g == [f EXCEPT ![a].got = s]
             h == [g EXCEPT ![a].under = k]
  <1>1. Given(a, s, k) = [h EXCEPT ![a].named = TRUE] BY DEF Given
  <1>2. f \in [Askers -> AskerType] BY FieldTypes
  <1> HIDE DEF f
  <1>3. g \in [Askers -> AskerType] BY <1>2, FieldTypes
  <1> HIDE DEF g
  <1>4. h \in [Askers -> AskerType] BY <1>3, FieldTypes
  <1> HIDE DEF h
  <1>5. [h EXCEPT ![a].named = TRUE] \in [Askers -> AskerType] BY <1>4, FieldTypes
  <1> QED BY <1>1, <1>5, Zenon

LEMMA AsksKeeps == ASSUME NameInv, NEW a \in Askers, NEW x \in Keys, NEW n \in Keys, Asks(a, x, n)
                   PROVE NameInv'
  <1> DEFINE f == [asker EXCEPT ![a].pc = "get"]
             g == [f EXCEPT ![a].src = x]
  <1>a. asker' = [g EXCEPT ![a].name = n] BY DEF Asks
  <1>b. f \in [Askers -> AskerType] BY FieldTypes DEF NameInv
  <1> HIDE DEF f
  <1>c. g \in [Askers -> AskerType] BY <1>b, FieldTypes
  <1> HIDE DEF g
  <1>1. asker' \in [Askers -> AskerType] BY <1>a, <1>c, FieldTypes
  <1>2. \A b \in Askers : /\ asker'[b].named = asker[b].named
                          /\ asker'[b].got = asker[b].got /\ asker'[b].under = asker[b].under
    BY DEF NameInv, AskerType, Asks
  <1> QED BY <1>1, <1>2 DEF NameInv, GivenStream, StaysNamed, Asks

\* A request that is given the stream of a name, and no name changes.
LEMMA GivenKeeps ==
  ASSUME NameInv, NEW a \in Askers, NEW k \in Keys, streams[k] # NoStream,
         asker' = Given(a, streams[k], k), UNCHANGED <<streams, made>>
  PROVE NameInv'
  <1>1. asker' \in [Askers -> AskerType] BY GivenType DEF NameInv
  <1>2. \A b \in Askers : GivenStream(b)' BY DEF NameInv, AskerType, Given, GivenStream
  <1>3. StaysNamed' BY DEF NameInv, AskerType, Given, StaysNamed
  <1> QED BY <1>1, <1>2, <1>3 DEF NameInv

LEMMA GetsKeeps == ASSUME NameInv, NEW a \in Askers, Gets(a) PROVE NameInv'
  <1> DEFINE x == asker[a].src
  <1>1. x \in Keys BY DEF NameInv, AskerType
  <1>2. CASE streams[x] # NoStream BY <1>1, <1>2, GivenKeeps DEF Gets
  <1>3. CASE streams[x] = NoStream
    BY <1>3 DEF Gets, NameInv, AskerType, GivenStream, StaysNamed
  <1> QED BY <1>2, <1>3

LEMMA RenamedFacts ==
  ASSUME NameInv, NEW k \in Keys
  PROVE  LET f == Renamed(asker, k) IN
         /\ f \in [Askers -> AskerType]
         /\ \A b \in Askers : /\ f[b].named <=> asker[b].named /\ asker[b].under # k
                              /\ f[b].got = asker[b].got /\ f[b].under = asker[b].under
  <1> DEFINE f == Renamed(asker, k)
  <1>1. ASSUME NEW r \in AskerType, NEW q, q = [r EXCEPT !.named = @ /\ r.under # k]
        PROVE  q \in AskerType /\ (q.named <=> r.named /\ r.under # k) /\ q.got = r.got /\ q.under = r.under
    BY <1>1 DEF AskerType
  <1>2. \A b \in Askers : asker[b] \in AskerType /\ f[b] = [asker[b] EXCEPT !.named = @ /\ asker[b].under # k]
    BY DEF NameInv, Renamed
  <1>3. \A b \in Askers : /\ f[b] \in AskerType
                          /\ f[b].named <=> asker[b].named /\ asker[b].under # k
                          /\ f[b].got = asker[b].got /\ f[b].under = asker[b].under
    BY <1>1, <1>2
  <1>4. f = [b \in Askers |-> f[b]] BY DEF Renamed
  <1> QED BY <1>3, <1>4

\* A name that is changed on purpose: whoever has its stream is told.
LEMMA RenamedKeeps ==
  ASSUME NameInv, NEW k \in Keys, NEW s \in Streams \cup {NoStream},
         streams' = [streams EXCEPT ![k] = s], asker' = Renamed(asker, k),
         made' \in SUBSET Streams
  PROVE NameInv'
  <1>1. asker' \in [Askers -> AskerType] BY RenamedFacts DEF NameInv
  <1>2. \A b \in Askers : /\ asker'[b].named <=> asker[b].named /\ asker[b].under # k
                          /\ asker'[b].got = asker[b].got /\ asker'[b].under = asker[b].under
    BY RenamedFacts
  <1>3. \A b \in Askers : GivenStream(b)' BY <1>2 DEF NameInv, GivenStream
  <1>4. StaysNamed' BY <1>2 DEF NameInv, StaysNamed, AskerType
  <1> QED BY <1>1, <1>3, <1>4 DEF NameInv

LEMMA LinksKeeps ==
  ASSUME NameInv, NEW a \in Askers, NEW k \in Keys, streams[k] # NoStream, Links(a, k)
  PROVE NameInv'
  <1> DEFINE n == asker[a].name
  <1>1. n \in Keys /\ streams[k] \in Streams BY DEF NameInv, AskerType
  <1>2. CASE streams[n] = streams[k]
    <2>1. streams' = streams BY <1>1, <1>2 DEF Links, NameInv
    <2> QED BY <1>1, <1>2, <2>1, GivenKeeps DEF Links
  <1>3. CASE streams[n] # streams[k]
    <2> DEFINE f == Renamed(asker, n)
    <2>1. asker' = [f EXCEPT ![a] = [f[a] EXCEPT !.pc = "has", !.got = streams[k],
                                                 !.under = n, !.named = TRUE]]
      BY <1>3 DEF Links
    <2>2. f \in [Askers -> AskerType] BY <1>1, RenamedFacts
    <2>3. \A b \in Askers : /\ f[b].named <=> asker[b].named /\ asker[b].under # n
                            /\ f[b].got = asker[b].got /\ f[b].under = asker[b].under
      BY <1>1, RenamedFacts
    <2> HIDE DEF f
    <2>4. \A b \in Askers \ {a} : asker'[b] = f[b] BY <2>1, <2>2
    <2> DEFINE r == f[a]
    <2>a. r \in AskerType /\ asker'[a] = [r EXCEPT !.pc = "has", !.got = streams[k],
                                                    !.under = n, !.named = TRUE]
      BY <2>1, <2>2
    <2> HIDE DEF r
    <2>5. asker'[a] \in AskerType /\ asker'[a].got = streams[k] /\ asker'[a].under = n
      BY <2>a, <1>1 DEF AskerType
    <2>6. asker' \in [Askers -> AskerType] BY <2>1, <2>2, <2>5
    <2>7. streams' = [streams EXCEPT ![n] = streams[k]] /\ made' = made BY DEF Links
    <2>8. \A b \in Askers : GivenStream(b)' BY <1>1, <2>3, <2>4, <2>5 DEF NameInv, GivenStream
    <2>9. StaysNamed' BY <1>1, <2>3, <2>4, <2>5, <2>7 DEF NameInv, AskerType, StaysNamed
    <2> QED BY <1>1, <2>6, <2>7, <2>8, <2>9 DEF NameInv
  <1> QED BY <1>2, <1>3

\* A name nobody has is given to no request either.
LEMMA MakesKeeps ==
  ASSUME NameInv, NEW a \in Askers, Makes(a), ~NameIsTaken(asker[a].name)
  PROVE NameInv'
  <1> DEFINE n == asker[a].name
  <1>1. n \in Keys BY DEF NameInv, AskerType
  <1>2. PICK s \in Streams \ made : /\ made' = made \cup {s}
                                    /\ streams' = [streams EXCEPT ![n] = s]
                                    /\ asker' = Given(a, s, n)
    BY DEF Makes
  <1>3. asker' \in [Askers -> AskerType] BY <1>1, <1>2, GivenType DEF NameInv
  <1>4. \A b \in Askers : b # a => asker'[b] = asker[b] BY <1>2 DEF Given, NameInv
  <1>5. asker'[a].got = s /\ asker'[a].under = n BY <1>2 DEF Given, NameInv, AskerType
  <1>6. \A b \in Askers : GivenStream(b)' BY <1>4, <1>5 DEF NameInv, GivenStream
  <1>7. \A b \in Askers : b # a /\ asker[b].named => asker[b].under # n
    BY RegistryAssumption DEF NameInv, GivenStream, StaysNamed, NameIsTaken
  <1>8. StaysNamed'
    BY <1>1, <1>2, <1>4, <1>5, <1>7 DEF NameInv, StaysNamed, AskerType
  <1> QED BY <1>1, <1>2, <1>3, <1>6, <1>8 DEF NameInv

LEMMA LeavesKeeps ==
  ASSUME NameInv, NEW a \in Askers, asker' = [asker EXCEPT ![a] = NoAsker],
         UNCHANGED <<streams, made>>
  PROVE NameInv'
  <1>1. NoAsker \in AskerType /\ ~NoAsker.named
    BY RegistryAssumption DEF NoAsker, AskerType, AnyKey
  <1> QED BY <1>1 DEF NameInv, GivenStream, StaysNamed

LEMMA PatchKeeps == ASSUME NameInv, NEW a \in Askers, Patch(a) PROVE NameInv'
  <1> DEFINE x == asker[a].src
             n == asker[a].name
  <1>1. x \in Keys /\ n \in Keys BY DEF NameInv, AskerType
  <1>2. CASE Has(LinkOf[x])
    <2>1. LinkOf[x] \in Keys /\ streams[LinkOf[x]] # NoStream
      BY <1>1, <1>2, RegistryAssumption DEF Has
    <2> QED BY <1>2, <2>1, LinksKeeps DEF Patch
  <1>3. CASE ~Has(LinkOf[x]) /\ Has(x) BY <1>1, <1>3, LinksKeeps DEF Patch, Has
  <1>4. CASE ~Has(LinkOf[x]) /\ ~Has(x) /\ x \notin Urls BY <1>4, LeavesKeeps DEF Patch
  <1>5. CASE ~Has(LinkOf[x]) /\ ~Has(x) /\ x \in Urls /\ NameIsTaken(n)
    BY <1>1, <1>5, GivenKeeps DEF Patch, NameIsTaken
  <1>6. CASE ~Has(LinkOf[x]) /\ ~Has(x) /\ x \in Urls /\ ~NameIsTaken(n)
    BY <1>6, MakesKeeps DEF Patch
  <1> QED BY <1>2, <1>3, <1>4, <1>5, <1>6

LEMMA PutKeeps == ASSUME NameInv, NEW k \in Keys, Put(k) PROVE NameInv'
  <1>1. PICK s \in Streams \ made : made' = made \cup {s} /\ streams' = [streams EXCEPT ![k] = s]
    BY DEF Put
  <1>2. made' \in SUBSET Streams /\ asker' = Renamed(asker, k) BY <1>1 DEF Put, NameInv
  <1> QED BY <1>1, <1>2, RenamedKeeps

LEMMA DeleteKeeps == ASSUME NameInv, NEW k \in Keys, Delete(k) PROVE NameInv'
  <1>1. made' \in SUBSET Streams BY DEF Delete, NameInv
  <1> QED BY <1>1, RenamedKeeps DEF Delete

LEMMA NamingKeeps == ASSUME RInv, Naming PROVE RInv'
  <1>1. NameInv'
    BY AsksKeeps, GetsKeeps, PatchKeeps, LeavesKeeps, PutKeeps, DeleteKeeps DEF RInv, Naming, GoesAway
  <1>2. UNCHANGED ownVars
    BY DEF Naming, Asks, Gets, Patch, GoesAway, Put, Delete
  <1>3. OwnInv'
    BY <1>2 DEF RInv, ownVars, OwnInv, OwnTypeOK, NoStrayConsumer, Locked, Handing, Sending
  <1> QED BY <1>1, <1>3 DEF RInv

-----------------------------------------------------------------------------
(* The program's own consumers. *)

LEMMA PreloadAskedKeeps == ASSUME OwnInv, NEW c \in PreloadCalls, NEW op \in {"add", "del"}, NEW k \in Keys, PreloadAsked(c, op, k), streams \in [Keys -> Streams \cup {NoStream}] PROVE OwnInv'
  <1> USE RegistryAssumption DEF OwnInv, OwnTypeOK, PreloadAsked
  <1>1. OwnTypeOK' OBVIOUS
  <1>2. NoStrayConsumer' BY DEF NoStrayConsumer, Locked, Handing, Sending
  <1>3. \A d \in PreloadCalls : Locked(d)' /\ Handing(d)' BY DEF NoStrayConsumer, Locked, Handing
  <1>4. \A p \in Publications : Sending(p)' BY DEF Sending
  <1> QED BY <1>1, <1>2, <1>3, <1>4

LEMMA LocksPreloadsKeeps == ASSUME OwnInv, NEW c \in PreloadCalls, LocksPreloads(c) PROVE OwnInv'
  <1> USE RegistryAssumption DEF OwnInv, OwnTypeOK, LocksPreloads, PreloadGoes
  <1>1. OwnTypeOK' OBVIOUS
  <1>2. NoStrayConsumer' BY DEF NoStrayConsumer, Locked, Handing, Sending
  <1>3. \A d \in PreloadCalls : Locked(d)' /\ Handing(d)' BY DEF NoStrayConsumer, Locked, Handing
  <1>4. \A p \in Publications : Sending(p)' BY DEF Sending
  <1> QED BY <1>1, <1>2, <1>3, <1>4

LEMMA RemovesOldKeeps == ASSUME OwnInv, NEW c \in PreloadCalls, RemovesOld(c) PROVE OwnInv'
  <1> USE RegistryAssumption DEF OwnInv, OwnTypeOK, RemovesOld, PreloadGoes
  <1>1. OwnTypeOK' BY DEF Locked, Handing
  <1>2. NoStrayConsumer' BY DEF NoStrayConsumer, Locked, Handing, Sending
  <1>3. \A d \in PreloadCalls : Locked(d)' /\ Handing(d)' BY DEF NoStrayConsumer, Locked, Handing
  <1>4. \A p \in Publications : Sending(p)' BY DEF Sending
  <1> QED BY <1>1, <1>2, <1>3, <1>4

LEMMA AddsProbeKeeps == ASSUME OwnInv, NEW c \in PreloadCalls, AddsProbe(c) PROVE OwnInv'
  <1> USE RegistryAssumption DEF OwnInv, OwnTypeOK, AddsProbe, NewProbe
  <1>1. OwnTypeOK' OBVIOUS
  <1>2. NoStrayConsumer' BY DEF NoStrayConsumer, Locked, Handing, Sending
  <1>3. \A d \in PreloadCalls : Locked(d)' /\ Handing(d)' BY DEF NoStrayConsumer, Locked, Handing
  <1>4. \A p \in Publications : Sending(p)' BY DEF Sending
  <1> QED BY <1>1, <1>2, <1>3, <1>4

LEMMA AddFailsKeeps == ASSUME OwnInv, NEW c \in PreloadCalls, AddFails(c) PROVE OwnInv'
  <1> USE RegistryAssumption DEF OwnInv, OwnTypeOK, AddFails, PreloadGoes
  <1>1. OwnTypeOK' OBVIOUS
  <1>2. NoStrayConsumer' BY DEF NoStrayConsumer, Locked, Handing, Sending
  <1>3. \A d \in PreloadCalls : Locked(d)' /\ Handing(d)' BY DEF NoStrayConsumer, Locked, Handing
  <1>4. \A p \in Publications : Sending(p)' BY DEF Sending
  <1> QED BY <1>1, <1>2, <1>3, <1>4

LEMMA StoresKeeps == ASSUME OwnInv, NEW c \in PreloadCalls, Stores(c) PROVE OwnInv'
  <1> USE RegistryAssumption DEF OwnInv, OwnTypeOK, Stores, PreloadGoes
  <1>1. OwnTypeOK' BY DEF Locked, Handing
  <1>2. NoStrayConsumer' BY DEF NoStrayConsumer, Locked, Handing, Sending
  <1>3. \A d \in PreloadCalls : Locked(d)' /\ Handing(d)' BY DEF NoStrayConsumer, Locked, Handing
  <1>4. \A p \in Publications : Sending(p)' BY DEF Sending
  <1> QED BY <1>1, <1>2, <1>3, <1>4

LEMMA UnlocksPreloadsKeeps == ASSUME OwnInv, NEW c \in PreloadCalls, UnlocksPreloads(c) PROVE OwnInv'
  <1> USE RegistryAssumption DEF OwnInv, OwnTypeOK, UnlocksPreloads, NoPreload
  <1>1. OwnTypeOK' OBVIOUS
  <1>2. NoStrayConsumer' BY DEF NoStrayConsumer, Locked, Handing, Sending
  <1>3. \A d \in PreloadCalls : Locked(d)' /\ Handing(d)' BY DEF NoStrayConsumer, Locked, Handing
  <1>4. \A p \in Publications : Sending(p)' BY DEF Sending
  <1> QED BY <1>1, <1>2, <1>3, <1>4

LEMMA PublishesKeeps == ASSUME OwnInv, NEW q \in Publications, NEW k \in Keys, Publishes(q, k), streams \in [Keys -> Streams \cup {NoStream}] PROVE OwnInv'
  <1> USE RegistryAssumption DEF OwnInv, OwnTypeOK, Publishes
  <1>1. OwnTypeOK' OBVIOUS
  <1>2. NoStrayConsumer' BY DEF NoStrayConsumer, Locked, Handing, Sending
  <1>3. \A d \in PreloadCalls : Locked(d)' /\ Handing(d)' BY DEF NoStrayConsumer, Locked, Handing
  <1>4. \A p \in Publications : Sending(p)' BY DEF Sending
  <1> QED BY <1>1, <1>2, <1>3, <1>4

LEMMA PublicationAddsKeeps == ASSUME OwnInv, NEW q \in Publications, PublicationAdds(q) PROVE OwnInv'
  <1> USE RegistryAssumption DEF OwnInv, OwnTypeOK, PublicationAdds, PublicationGoes
  <1>1. OwnTypeOK' OBVIOUS
  <1>2. NoStrayConsumer' BY DEF NoStrayConsumer, Locked, Handing, Sending
  <1>3. \A d \in PreloadCalls : Locked(d)' /\ Handing(d)' BY DEF NoStrayConsumer, Locked, Handing
  <1>4. \A p \in Publications : Sending(p)' BY DEF Sending
  <1> QED BY <1>1, <1>2, <1>3, <1>4

LEMMA PublicationFailsKeeps == ASSUME OwnInv, NEW q \in Publications, PublicationFails(q) PROVE OwnInv'
  <1> USE RegistryAssumption DEF OwnInv, OwnTypeOK, PublicationFails, PublicationGoes
  <1>1. OwnTypeOK' OBVIOUS
  <1>2. NoStrayConsumer' BY DEF NoStrayConsumer, Locked, Handing, Sending
  <1>3. \A d \in PreloadCalls : Locked(d)' /\ Handing(d)' BY DEF NoStrayConsumer, Locked, Handing
  <1>4. \A p \in Publications : Sending(p)' BY DEF Sending
  <1> QED BY <1>1, <1>2, <1>3, <1>4

LEMMA PublicationEndsKeeps == ASSUME OwnInv, NEW q \in Publications, PublicationEnds(q) PROVE OwnInv'
  <1> USE RegistryAssumption DEF OwnInv, OwnTypeOK, PublicationEnds, PublicationGoes
  <1>1. OwnTypeOK' OBVIOUS
  <1>2. NoStrayConsumer' BY DEF NoStrayConsumer, Locked, Handing, Sending
  <1>3. \A d \in PreloadCalls : Locked(d)' /\ Handing(d)' BY DEF NoStrayConsumer, Locked, Handing
  <1>4. \A p \in Publications : Sending(p)' BY DEF Sending
  <1> QED BY <1>1, <1>2, <1>3, <1>4

LEMMA PublicationRemovesKeeps == ASSUME OwnInv, NEW q \in Publications, PublicationRemoves(q) PROVE OwnInv'
  <1> USE RegistryAssumption DEF OwnInv, OwnTypeOK, PublicationRemoves, PublicationGoes
  <1>1. OwnTypeOK' OBVIOUS
  <1>2. NoStrayConsumer' BY DEF NoStrayConsumer, Locked, Handing, Sending
  <1>3. \A d \in PreloadCalls : Locked(d)' /\ Handing(d)' BY DEF NoStrayConsumer, Locked, Handing
  <1>4. \A p \in Publications : Sending(p)' BY DEF Sending
  <1> QED BY <1>1, <1>2, <1>3, <1>4

LEMMA PublicationWakesKeeps == ASSUME OwnInv, NEW q \in Publications, PublicationWakes(q) PROVE OwnInv'
  <1> USE RegistryAssumption DEF OwnInv, OwnTypeOK, PublicationWakes, PublicationGoes
  <1>1. OwnTypeOK' OBVIOUS
  <1>2. NoStrayConsumer' BY DEF NoStrayConsumer, Locked, Handing, Sending
  <1>3. \A d \in PreloadCalls : Locked(d)' /\ Handing(d)' BY DEF NoStrayConsumer, Locked, Handing
  <1>4. \A p \in Publications : Sending(p)' BY DEF Sending
  <1> QED BY <1>1, <1>2, <1>3, <1>4

LEMMA OwnKeeps == ASSUME RInv, Preloading \/ Publishing PROVE RInv'
  <1> USE DEF RInv
  <1>1. NameInv'
    <2>1. UNCHANGED <<streams, made, asker>>
      BY DEF Preloading, Publishing, PreloadAsked, LocksPreloads, RemovesOld, AddsProbe, AddFails,
         Stores, UnlocksPreloads, Publishes, PublicationAdds, PublicationFails, PublicationEnds,
         PublicationRemoves, PublicationWakes
    <2> QED BY <2>1 DEF NameInv, GivenStream, StaysNamed
  <1>2. CASE Preloading
    <2>1. streams \in [Keys -> Streams \cup {NoStream}] BY DEF NameInv
    <2>2. OwnInv'
      BY <1>2, <2>1, PreloadAskedKeeps, LocksPreloadsKeeps, RemovesOldKeeps, AddsProbeKeeps,
         AddFailsKeeps, StoresKeeps, UnlocksPreloadsKeeps DEF Preloading
    <2> QED BY <1>1, <2>2
  <1>3. CASE Publishing
    <2>1. streams \in [Keys -> Streams \cup {NoStream}] BY DEF NameInv
    <2>2. OwnInv'
      BY <1>3, <2>1, PublishesKeeps, PublicationAddsKeeps, PublicationFailsKeeps,
         PublicationEndsKeeps, PublicationRemovesKeeps, PublicationWakesKeeps DEF Publishing
    <2> QED BY <1>1, <2>2
  <1> QED BY <1>2, <1>3

LEMMA NextRegistry == RInv /\ [RegistryNext]_registryVars => RInv'
  <1> SUFFICES ASSUME RInv, [RegistryNext]_registryVars PROVE RInv' OBVIOUS
  <1>1. CASE Naming BY <1>1, NamingKeeps
  <1>2. CASE Preloading \/ Publishing BY <1>2, OwnKeeps
  <1>3. CASE UNCHANGED registryVars
    <2>1. NameInv' BY <1>3 DEF registryVars, RInv, NameInv, GivenStream, StaysNamed
    <2>2. OwnInv'
      BY <1>3 DEF registryVars, RInv, OwnInv, OwnTypeOK, NoStrayConsumer, Locked, Handing, Sending
    <2> QED BY <2>1, <2>2 DEF RInv
  <1> QED BY <1>1, <1>2, <1>3 DEF RegistryNext

LEMMA RegistryInvariance == RegistrySpec => []RInv
  BY InitRegistry, NextRegistry, PTL DEF RegistrySpec

-----------------------------------------------------------------------------

\* Every variable keeps its type.
THEOREM RegistryTypeCorrect == RegistrySpec => []RegistryTypeOK
  <1>1. RInv => RegistryTypeOK
    BY DEF RInv, NameInv, OwnInv, OwnTypeOK, AskerType, RegistryTypeOK
  <1> QED BY <1>1, RegistryInvariance, PTL

\* GetOrPatch gives requests that meet one stream for one name, for any number of requests:
\* Patch looks for the name again in the section in which it makes a stream.
THEOREM OneStreamPerName == RegistrySpec => []StaysNamed
  <1>1. RInv => StaysNamed BY DEF RInv, NameInv
  <1> QED BY <1>1, RegistryInvariance, PTL

\* However calls of AddPreload and DelPreload overlap and fail, and publications end, no
\* consumer of the program's own stays in a stream with nobody to take it away.
THEOREM ConsumersAreOwned == RegistrySpec => []NoStrayConsumer
  <1>1. RInv => NoStrayConsumer BY DEF RInv, OwnInv
  <1> QED BY <1>1, RegistryInvariance, PTL
=============================================================================

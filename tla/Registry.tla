------------------------------ MODULE Registry ------------------------------
(***************************************************************************)
(* The map of streams, and the consumers the program adds to them itself:  *)
(* internal/streams/streams.go, preload.go, publish.go and the handlers of *)
(* api.go that change something.                                           *)
(*                                                                         *)
(* A viewer's request names a source and perhaps a name.  GetOrPatch looks *)
(* in one section under streamsMu and patches in another, so requests for  *)
(* the same camera meet.  A stream has any number of names.  AddPreload    *)
(* and DelPreload hold preloadsMu while they add and remove consumers,     *)
(* which may take long.  A publication is a goroutine that adds itself     *)
(* again after each end, until that fails.                                 *)
(*                                                                         *)
(* Of a stream only its own consumers are kept.  Producers and SetSource,  *)
(* which changes their urls, are left out; the accesses of api.go that do  *)
(* not take streamsMu are steps like the others.                           *)
(***************************************************************************)
EXTENDS Naturals

CONSTANTS
  Keys,          \* names of streams, and sources used as names
  Urls,          \* the keys that are a source with a known scheme
  LinkOf,        \* the name a url of go2rtc's own RTSP server links to, or NoKey
  NoKey,
  Streams,       \* bound: streams that are ever made
  NoStream,
  Askers,        \* requests that come and go
  Probes,        \* the consumers of preloads
  NoProbe,
  PreloadCalls,  \* requests for /api/preload
  NoCaller,      \* preloadsMu is free
  Publications

ASSUME RegistryAssumption ==
  /\ Keys # {} /\ Urls \subseteq Keys /\ LinkOf \in [Keys -> Keys \cup {NoKey}]
  /\ NoKey \notin Keys /\ NoStream \notin Streams /\ NoProbe \notin Probes \cup Publications
  /\ NoCaller \notin PreloadCalls /\ Probes \cap Publications = {}

VARIABLES
  streams,       \* the map
  made,          \* the streams made so far
  asker,         \* each request: where, for what, the stream it has, and under which key;
                 \* named: nobody put, deleted or linked that key since (history)
  preloads,      \* the map preloads
  preloadsMu,    \* who holds it
  preloading,    \* each call for /api/preload
  publishing,    \* each publication
  owned       \* the program's own consumers of each stream

registryVars ==
  <<streams, made, asker, preloads, preloadsMu, preloading, publishing, owned>>

RegistryTypeOK ==
  /\ streams \in [Keys -> Streams \cup {NoStream}]
  /\ made \in SUBSET Streams
  /\ asker \in [Askers -> [pc : {"out", "get", "patch", "has"}, src : Keys, name : Keys,
                           got : Streams \cup {NoStream}, under : Keys, named : BOOLEAN]]
  /\ preloads \in [Streams -> Probes \cup {NoProbe}]
  /\ preloadsMu \in PreloadCalls \cup {NoCaller}
  /\ preloading \in [PreloadCalls ->
       [pc : {"out", "lock", "remove", "add", "store", "unlock"}, op : {"add", "del"},
        stream : Streams \cup {NoStream}, probe : Probes \cup {NoProbe}]]
  /\ publishing \in [Publications -> [pc : {"out", "add", "runs", "removes", "sleeps"},
                                      stream : Streams \cup {NoStream}]]
  /\ owned \in [Streams -> SUBSET (Probes \cup Publications)]

AnyKey == CHOOSE k \in Keys : TRUE
NoAsker == [pc |-> "out", src |-> AnyKey, name |-> AnyKey, got |-> NoStream,
            under |-> AnyKey, named |-> FALSE]
NoPreload == [pc |-> "out", op |-> "add", stream |-> NoStream, probe |-> NoProbe]

RegistryInit ==
  /\ streams = [k \in Keys |-> NoStream] /\ made = {}
  /\ asker = [a \in Askers |-> NoAsker]
  /\ preloads = [s \in Streams |-> NoProbe]
  /\ preloadsMu = NoCaller
  /\ preloading = [c \in PreloadCalls |-> NoPreload]
  /\ publishing = [p \in Publications |-> [pc |-> "out", stream |-> NoStream]]
  /\ owned = [s \in Streams |-> {}]

ownVars == <<preloads, preloadsMu, preloading, publishing, owned>>

\* Request a has stream s under key k.
Given(a, s, k) ==
  [asker EXCEPT ![a].pc = "has", ![a].got = s, ![a].under = k, ![a].named = TRUE]

\* The askers f after somebody has put, deleted or linked key k on purpose.
Renamed(f, k) == [a \in Askers |-> [f[a] EXCEPT !.named = @ /\ f[a].under # k]]

-----------------------------------------------------------------------------
(* Mutated forms: what the properties below must notice. *)

\* Patch without the test for a stream that has the name by now.
NamedNever(n) == FALSE

\* AddPreload that leaves the old consumer in the stream.
KeepsOld(c) ==
  /\ preloading[c].pc = "remove"
  /\ preloading' = [preloading EXCEPT ![c].pc = IF @ = "remove" /\ preloading[c].op = "del"
                                                THEN "unlock" ELSE "add"]
  /\ UNCHANGED <<streams, made, asker, preloads, preloadsMu, publishing, owned>>

-----------------------------------------------------------------------------
(* streams.go. *)

Asks(a, x, n) ==
  /\ asker[a].pc = "out"
  /\ asker' = [asker EXCEPT ![a].pc = "get", ![a].src = x, ![a].name = n]
  /\ UNCHANGED <<streams, made, ownVars>>

\* "check if src is stream name"
Gets(a) ==
  LET x == asker[a].src IN
  /\ asker[a].pc = "get"
  /\ asker' = IF streams[x] # NoStream THEN Given(a, streams[x], x)
              ELSE [asker EXCEPT ![a].pc = "patch"]
  /\ UNCHANGED <<streams, made, ownVars>>

Has(k) == k # NoKey /\ streams[k] # NoStream

\* "check an existing stream with this name"
NameIsTaken(n) == streams[n] # NoStream

Links(a, k) ==
  LET n == asker[a].name IN
  /\ streams' = [streams EXCEPT ![n] = streams[k]]
  /\ asker' = IF streams[n] = streams[k] THEN Given(a, streams[k], n)
              ELSE [Renamed(asker, n) EXCEPT
                     ![a] = [@ EXCEPT !.pc = "has", !.got = streams[k], !.under = n, !.named = TRUE]]
  /\ UNCHANGED made

Makes(a) ==
  LET n == asker[a].name IN
  \E s \in Streams \ made :
    /\ made' = made \cup {s}
    /\ streams' = [streams EXCEPT ![n] = s]
    /\ asker' = Given(a, s, n)

Patch(a) ==
  LET x == asker[a].src
      n == asker[a].name IN
  /\ asker[a].pc = "patch"
  /\ IF Has(LinkOf[x]) THEN Links(a, LinkOf[x])
     ELSE IF Has(x) THEN Links(a, x)
     ELSE IF x \notin Urls THEN asker' = [asker EXCEPT ![a] = NoAsker] /\ UNCHANGED <<streams, made>>
     ELSE IF NameIsTaken(n) THEN asker' = Given(a, streams[n], n) /\ UNCHANGED <<streams, made>>
     ELSE Makes(a)
  /\ UNCHANGED ownVars

GoesAway(a) ==
  /\ asker[a].pc = "has"
  /\ asker' = [asker EXCEPT ![a] = NoAsker]
  /\ UNCHANGED <<streams, made, ownVars>>

\* PUT: New, whatever has the name.
Put(k) ==
  /\ \E s \in Streams \ made : made' = made \cup {s} /\ streams' = [streams EXCEPT ![k] = s]
  /\ asker' = Renamed(asker, k)
  /\ UNCHANGED ownVars

\* DELETE, and Delete: the stream itself is not stopped.
Delete(k) ==
  /\ streams' = [streams EXCEPT ![k] = NoStream]
  /\ asker' = Renamed(asker, k)
  /\ UNCHANGED <<made, ownVars>>

-----------------------------------------------------------------------------
(* preload.go. *)

PreloadGoes(c, pc) == preloading' = [preloading EXCEPT ![c].pc = pc]

PreloadAsked(c, op, k) ==
  /\ preloading[c].pc = "out" /\ streams[k] # NoStream
  /\ preloading' = [preloading EXCEPT ![c] =
       [pc |-> "lock", op |-> op, stream |-> streams[k], probe |-> NoProbe]]
  /\ UNCHANGED <<streams, made, asker, preloads, preloadsMu, publishing, owned>>

LocksPreloads(c) ==
  /\ preloading[c].pc = "lock" /\ preloadsMu = NoCaller
  /\ preloadsMu' = c
  /\ PreloadGoes(c, "remove")
  /\ UNCHANGED <<streams, made, asker, preloads, publishing, owned>>

\* The old consumer leaves the stream; DelPreload forgets it.
RemovesOld(c) ==
  LET s == preloading[c].stream IN
  /\ preloading[c].pc = "remove"
  /\ owned' = [owned EXCEPT ![s] = @ \ {preloads[s]}]
  /\ IF preloading[c].op = "add" THEN PreloadGoes(c, "add") /\ UNCHANGED preloads
     ELSE PreloadGoes(c, "unlock") /\ preloads' = [preloads EXCEPT ![s] = NoProbe]
  /\ UNCHANGED <<streams, made, asker, preloadsMu, publishing>>

NewProbe(q) ==
  /\ \A s \in Streams : preloads[s] # q /\ q \notin owned[s]
  /\ \A c \in PreloadCalls : preloading[c].probe # q

AddsProbe(c) ==
  /\ preloading[c].pc = "add"
  /\ \E q \in Probes :
       /\ NewProbe(q)
       /\ owned' = [owned EXCEPT ![preloading[c].stream] = @ \cup {q}]
       /\ preloading' = [preloading EXCEPT ![c].pc = "store", ![c].probe = q]
  /\ UNCHANGED <<streams, made, asker, preloads, preloadsMu, publishing>>

\* The map keeps the consumer that was removed.
AddFails(c) ==
  /\ preloading[c].pc = "add"
  /\ PreloadGoes(c, "unlock")
  /\ UNCHANGED <<streams, made, asker, preloads, preloadsMu, publishing, owned>>

Stores(c) ==
  /\ preloading[c].pc = "store"
  /\ preloads' = [preloads EXCEPT ![preloading[c].stream] = preloading[c].probe]
  /\ PreloadGoes(c, "unlock")
  /\ UNCHANGED <<streams, made, asker, preloadsMu, publishing, owned>>

UnlocksPreloads(c) ==
  /\ preloading[c].pc = "unlock"
  /\ preloadsMu' = NoCaller
  /\ preloading' = [preloading EXCEPT ![c] = NoPreload]
  /\ UNCHANGED <<streams, made, asker, preloads, publishing, owned>>

-----------------------------------------------------------------------------
(* publish.go. *)

PublicationGoes(p, pc) == publishing' = [publishing EXCEPT ![p].pc = pc]

Publishes(p, k) ==
  /\ publishing[p].pc = "out" /\ streams[k] # NoStream
  /\ publishing' = [publishing EXCEPT ![p] = [pc |-> "add", stream |-> streams[k]]]
  /\ UNCHANGED <<streams, made, asker, preloads, preloadsMu, preloading, owned>>

PublicationAdds(p) ==
  /\ publishing[p].pc = "add"
  /\ owned' = [owned EXCEPT ![publishing[p].stream] = @ \cup {p}]
  /\ PublicationGoes(p, "runs")
  /\ UNCHANGED <<streams, made, asker, preloads, preloadsMu, preloading>>

\* _ = s.Publish(url): nobody tries again.
PublicationFails(p) ==
  /\ publishing[p].pc = "add"
  /\ publishing' = [publishing EXCEPT ![p] = [pc |-> "out", stream |-> NoStream]]
  /\ UNCHANGED <<streams, made, asker, preloads, preloadsMu, preloading, owned>>

\* run() returns; RemoveConsumer; the sleep of 5 seconds is over.
PublicationEnds(p) ==
  /\ publishing[p].pc = "runs"
  /\ PublicationGoes(p, "removes")
  /\ UNCHANGED <<streams, made, asker, preloads, preloadsMu, preloading, owned>>

PublicationRemoves(p) ==
  /\ publishing[p].pc = "removes"
  /\ owned' = [owned EXCEPT ![publishing[p].stream] = @ \ {p}]
  /\ PublicationGoes(p, "sleeps")
  /\ UNCHANGED <<streams, made, asker, preloads, preloadsMu, preloading>>

PublicationWakes(p) ==
  /\ publishing[p].pc = "sleeps"
  /\ PublicationGoes(p, "add")
  /\ UNCHANGED <<streams, made, asker, preloads, preloadsMu, preloading, owned>>

-----------------------------------------------------------------------------

Naming ==
  \/ \E a \in Askers : \/ \E x, n \in Keys : Asks(a, x, n)
                       \/ Gets(a) \/ Patch(a) \/ GoesAway(a)
  \/ \E k \in Keys : Put(k) \/ Delete(k)

Preloading ==
  \E c \in PreloadCalls :
    \/ \E k \in Keys, op \in {"add", "del"} : PreloadAsked(c, op, k)
    \/ LocksPreloads(c) \/ RemovesOld(c) \/ AddsProbe(c) \/ AddFails(c)
    \/ Stores(c) \/ UnlocksPreloads(c)

Publishing ==
  \E p \in Publications :
    \/ \E k \in Keys : Publishes(p, k)
    \/ PublicationAdds(p) \/ PublicationFails(p) \/ PublicationEnds(p)
    \/ PublicationRemoves(p) \/ PublicationWakes(p)

RegistryNext == Naming \/ Preloading \/ Publishing

RegistrySpec == RegistryInit /\ [][RegistryNext]_registryVars

-----------------------------------------------------------------------------
(* Properties. *)

\* Requests that come at once share a stream: what GetOrPatch has given out is still the
\* stream of that name, unless somebody put, deleted or linked the name on purpose.
\* Otherwise two streams would dial one camera, and the first could be reached no more.
StaysNamed == \A a \in Askers : asker[a].named => streams[asker[a].under] = asker[a].got

\* Whatever calls for /api/preload overlap or fail: a consumer that the program has added
\* by itself has somebody who will take it away again, a preload in the map or a call that
\* holds preloadsMu, a publication its own goroutine.
NoStrayConsumer ==
  \A s \in Streams : \A q \in owned[s] :
    \/ q \in Publications /\ publishing[q].stream = s /\ publishing[q].pc \in {"runs", "removes"}
    \/ q \in Probes /\ preloads[s] = q
    \/ q \in Probes /\ \E c \in PreloadCalls :
         /\ preloadsMu = c /\ preloading[c].stream = s /\ preloading[c].probe = q
=============================================================================

-------------------------------- MODULE Hls --------------------------------
(***************************************************************************)
(* HLS viewers: internal/hls/hls.go, internal/hls/session.go and the       *)
(* message "hls" of internal/hls/ws.go.                                    *)
(*                                                                         *)
(* An HLS viewer has no connection.  What stands for it is a session: a    *)
(* consumer of the stream, an entry in the map sessions, and a timer of 5  *)
(* seconds that every request for a segment sets again.  When it fires, a  *)
(* goroutine takes the entry out of the map and then the consumer out of   *)
(* the stream.  The source writes fragments into the session's buffer, and *)
(* requests take them away.                                                *)
(*                                                                         *)
(* Requests for the playlist and the init segment change nothing, not even *)
(* the timer, and are left out.                                            *)
(***************************************************************************)
EXTENDS Integers, Sequences

CONSTANTS
  Sessions,      \* sessions, each created at most once (ids are random)
  TsSessions,    \* those in MPEG-TS, the others in fragmented MP4
  Requests,      \* requests for a segment, each made at most once
  NoSession,     \* nil
  MaxFragments   \* bound: fragments a source writes

ASSUME HlsAssumption ==
  TsSessions \subseteq Sessions /\ NoSession \notin Sessions /\ MaxFragments \in Nat

VARIABLES
  inMap,         \* sessions
  viewing,       \* the consumers among the consumers of their streams
  alive,         \* the timers: not yet set, armed, fired
  expiring,      \* goroutines of a timer, before and after the map
  sinit,         \* s.init is there
  sbuffer,       \* s.buffer: fragments, 0 is the init
  written,       \* how many fragments the source wrote
  request,       \* where a request is, and the session it found
  given          \* history: the segments a session gave, in order

hlsVars == <<inMap, viewing, alive, expiring, sinit, sbuffer, written, request, given>>

HlsTypeOK ==
  /\ inMap \in SUBSET Sessions /\ viewing \in SUBSET Sessions
  /\ alive \in [Sessions -> {"unset", "armed", "fired"}]
  /\ expiring \in [Sessions -> [before : Nat, after : Nat]]
  /\ sinit \in [Sessions -> BOOLEAN]
  /\ sbuffer \in [Sessions -> Seq(Nat)]
  /\ written \in [Sessions -> Nat]
  /\ request \in [Requests -> [pc : {"new", "found", "polls", "over"},
                               ses : Sessions \cup {NoSession}]]
  /\ given \in [Sessions -> Seq(Seq(Nat))]

HlsInit ==
  /\ inMap = {} /\ viewing = {}
  /\ alive = [s \in Sessions |-> "unset"]
  /\ expiring = [s \in Sessions |-> [before |-> 0, after |-> 0]]
  /\ sinit = [s \in Sessions |-> FALSE]
  /\ sbuffer = [s \in Sessions |-> <<>>]
  /\ written = [s \in Sessions |-> 0]
  /\ request = [r \in Requests |-> [pc |-> "new", ses |-> NoSession]]
  /\ given = [s \in Sessions |-> <<>>]

RequestGoes(r, pc) == request' = [request EXCEPT ![r].pc = pc]

-----------------------------------------------------------------------------
(* Mutated forms: what the properties below must notice. *)

\* Segment that does not empty the buffer.
LeavesAll(s) == sbuffer[s]

\* A handler that stops the timer while it waits for a segment, and does not set it again.
StopsTimer(r) ==
  /\ request[r].pc = "found"
  /\ alive' = [alive EXCEPT ![request[r].ses] = "fired"]
  /\ RequestGoes(r, "polls")
  /\ UNCHANGED <<inMap, viewing, expiring, sinit, sbuffer, written, given>>

-----------------------------------------------------------------------------
(* A session begins and ends. *)

\* handlerStream: AddConsumer, then the timer and the map. The statements follow each
\* other within far less than the 5 seconds of the timer.
Creates(s) ==
  /\ alive[s] = "unset"
  /\ viewing' = viewing \cup {s}
  /\ alive' = [alive EXCEPT ![s] = "armed"]
  /\ inMap' = inMap \cup {s}
  /\ UNCHANGED <<expiring, sinit, sbuffer, written, request, given>>

\* The timer starts a goroutine.
Fires(s) ==
  /\ alive[s] = "armed"
  /\ alive' = [alive EXCEPT ![s] = "fired"]
  /\ expiring' = [expiring EXCEPT ![s].before = @ + 1]
  /\ UNCHANGED <<inMap, viewing, sinit, sbuffer, written, request, given>>

Expires(s) ==
  /\ expiring[s].before > 0
  /\ inMap' = inMap \ {s}
  /\ expiring' = [expiring EXCEPT ![s] = [before |-> @.before - 1, after |-> @.after + 1]]
  /\ UNCHANGED <<viewing, alive, sinit, sbuffer, written, request, given>>

Leaves(s) ==
  /\ expiring[s].after > 0
  /\ viewing' = viewing \ {s}
  /\ expiring' = [expiring EXCEPT ![s].after = @ - 1]
  /\ UNCHANGED <<inMap, alive, sinit, sbuffer, written, request, given>>

-----------------------------------------------------------------------------
(* The source writes, requests take. *)

\* The consumer's WriteTo writes the header first; Session.Write keeps it as s.init.
WritesHeader(s) ==
  /\ alive[s] # "unset" /\ ~sinit[s]
  /\ sinit' = [sinit EXCEPT ![s] = TRUE]
  /\ UNCHANGED <<inMap, viewing, alive, expiring, sbuffer, written, request, given>>

\* Then fragments come while the consumer has a track.
WritesFragment(s) ==
  /\ sinit[s] /\ s \in viewing /\ written[s] < MaxFragments
  /\ written' = [written EXCEPT ![s] = @ + 1]
  /\ sbuffer' = [sbuffer EXCEPT ![s] = Append(@, written'[s])]
  /\ UNCHANGED <<inMap, viewing, alive, expiring, sinit, request, given>>

Looked(r, s) ==
  /\ request[r].pc = "new"
  /\ request' = [request EXCEPT ![r] =
       IF s \in inMap THEN [pc |-> "found", ses |-> s] ELSE [pc |-> "over", ses |-> NoSession]]
  /\ UNCHANGED <<inMap, viewing, alive, expiring, sinit, sbuffer, written, given>>

\* session.alive.Reset: a timer that has fired will fire again.
ResetsTimer(r) ==
  /\ request[r].pc = "found"
  /\ alive' = [alive EXCEPT ![request[r].ses] = "armed"]
  /\ RequestGoes(r, "polls")
  /\ UNCHANGED <<inMap, viewing, expiring, sinit, sbuffer, written, given>>

\* What Segment leaves in the buffer: "for TS important to start new segment with init".
LeftAfter(s) == IF s \in TsSessions THEN <<0>> ELSE <<>>

Takes(r) ==
  LET s == request[r].ses IN
  /\ request[r].pc = "polls" /\ sbuffer[s] # <<>>
  /\ given' = [given EXCEPT ![s] = Append(@, sbuffer[s])]
  /\ sbuffer' = [sbuffer EXCEPT ![s] = LeftAfter(s)]
  /\ RequestGoes(r, "over")
  /\ UNCHANGED <<inMap, viewing, alive, expiring, sinit, written>>

\* Nothing after 60 looks: the answer is 404.
GivesUp(r) ==
  /\ request[r].pc = "polls" /\ sbuffer[request[r].ses] = <<>>
  /\ RequestGoes(r, "over")
  /\ UNCHANGED <<inMap, viewing, alive, expiring, sinit, sbuffer, written, given>>

-----------------------------------------------------------------------------

Expiry(s) == Fires(s) \/ Expires(s) \/ Leaves(s)

Answering(r) == ResetsTimer(r) \/ Takes(r) \/ GivesUp(r)

\* No session is open, and every request answered.
HlsRests ==
  /\ \A s \in Sessions : alive[s] # "armed" /\ expiring[s] = [before |-> 0, after |-> 0]
  /\ \A r \in Requests : request[r].pc = "over"
  /\ UNCHANGED hlsVars

HlsNext ==
  \/ \E s \in Sessions : Creates(s) \/ Expiry(s) \/ WritesHeader(s) \/ WritesFragment(s)
  \/ \E r \in Requests : Answering(r) \/ \E s \in Sessions : Looked(r, s)
  \/ HlsRests

HlsSpec == HlsInit /\ [][HlsNext]_hlsVars

\* A timer fires, its goroutine runs, and a request is answered. No session need begin,
\* no request be made and no fragment be written.
HlsFairness ==
  /\ \A s \in Sessions : /\ WF_hlsVars(Fires(s))
                         /\ WF_hlsVars(Expires(s))
                         /\ WF_hlsVars(Leaves(s))
  /\ \A r \in Requests : WF_hlsVars(Answering(r))

-----------------------------------------------------------------------------
(* Properties. *)

\* A viewer that asks for nothing any more leaves the stream and the map, whatever
\* requests found the session while its timer fired: a session has no other end.
SessionsEnd ==
  \A s \in Sessions : s \in viewing ~> s \notin viewing /\ s \notin inMap

\* The fragments after the a-th up to the b-th as the i-th segment of a session: a TS segment
\* starts with the init (session.go:118).  The first one does not: it is put together before
\* any segment was taken, and nobody asks a TS session for its init.
Segment(s, i, a, b) ==
  (IF i > 1 /\ s \in TsSessions THEN <<0>> ELSE <<>>) \o [j \in 1 .. (b - a) |-> a + j]

\* The segments a session gave and what it still has cut what the source wrote into pieces:
\* each fragment is in one of them, once and in order, also when requests overtake each other.
SegmentsJoin ==
  \A s \in Sessions :
    LET all == Append(given[s], sbuffer[s])
        n == Len(all)
    IN  \E cuts \in [0 .. n -> 0 .. written[s]] :
          /\ cuts[0] = 0 /\ cuts[n] = written[s]
          /\ \A i \in 1 .. n : /\ cuts[i - 1] <= cuts[i]
                               /\ all[i] = Segment(s, i, cuts[i - 1], cuts[i])
=============================================================================

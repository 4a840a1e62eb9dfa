------------------------------- MODULE Waiter -------------------------------
(***************************************************************************)
(* The one-shot barrier of pkg/core/waiter.go: WebRTC, Ring, Kinesis and   *)
(* Wyoming sessions wait on it for "connected", "answer sent" or "closed". *)
(* The first Wait starts it, the Done that finds no more tasks finishes    *)
(* it, and a finished waiter stays finished.                               *)
(*                                                                         *)
(* A method is one section under w.mu, but the WaitGroup and w.err are     *)
(* read without it: a goroutine in Wait sleeps in WaitGroup.Wait, wakes up *)
(* when the counter is zero, and reads the error in a step of its own.     *)
(* Done counts down first and writes the error afterwards.                 *)
(***************************************************************************)
EXTENDS Integers

CONSTANTS
  Callers,     \* the goroutines that share the waiter
  Notifiers,   \* those that only report (a connection's callback) and never wait
  Errors,      \* what Done may be given
  NoErr,       \* nil
  NotLocked,   \* w.mu is free
  MaxTasks     \* bound: tasks that Add may pile up

ASSUME WaiterAssumption ==
  /\ Notifiers \subseteq Callers
  /\ NotLocked \notin Callers
  /\ NoErr \in Errors
  /\ MaxTasks \in Nat

VARIABLES
  wstate,      \* w.state: the open tasks, or -1 when finished
  wgroup,      \* the counter of w.WaitGroup
  werr,        \* w.err
  wlock,       \* who holds w.mu
  caller       \* where each goroutine is, and the error it gave to Done

waiterVars == <<wstate, wgroup, werr, wlock, caller>>

\* sleep: in WaitGroup.Wait; wake: about to read w.err; done: inside Done.
CallerPCs == {"out", "sleep", "wake", "done"}

WaiterTypeOK ==
  /\ wstate \in Int /\ wgroup \in Int
  /\ werr \in Errors
  /\ wlock \in Callers \cup {NotLocked}
  /\ caller \in [Callers -> [pc : CallerPCs, err : Errors]]

Out == [pc |-> "out", err |-> NoErr]

WaiterInit ==
  /\ wstate = 0
  /\ wgroup = 0
  /\ werr = NoErr
  /\ wlock = NotLocked
  /\ caller = [g \in Callers |-> Out]

CallerGoes(g, pc) == caller' = [caller EXCEPT ![g].pc = pc]

Calls(g) == caller[g].pc = "out" /\ wlock = NotLocked

-----------------------------------------------------------------------------
(* Mutated forms: what the properties below must notice. *)

\* Add without the test of w.state.
AddAlways(g) ==
  /\ Calls(g) /\ wstate < MaxTasks
  /\ wstate' = wstate + 1 /\ wgroup' = wgroup + 1
  /\ UNCHANGED <<werr, wlock, caller>>

\* Done without the test of w.state.
DoneUnguarded(g, e) ==
  /\ Calls(g)
  /\ wlock' = g
  /\ wstate' = IF wstate > 0 THEN wstate - 1 ELSE wstate
  /\ wgroup' = wgroup - 1
  /\ caller' = [caller EXCEPT ![g] = [pc |-> "done", err |-> e]]
  /\ UNCHANGED werr

\* Done that leaves the state at zero: the next Wait starts the waiter again.
DoneReopens(g) ==
  /\ wlock = g /\ caller[g].pc = "done"
  /\ werr' = IF wstate = 0 THEN caller[g].err ELSE werr
  /\ wlock' = NotLocked
  /\ caller' = [caller EXCEPT ![g] = Out]
  /\ UNCHANGED <<wstate, wgroup>>

-----------------------------------------------------------------------------

Add(g) ==
  /\ Calls(g) /\ wstate < MaxTasks
  /\ IF wstate >= 0 THEN wstate' = wstate + 1 /\ wgroup' = wgroup + 1
                    ELSE UNCHANGED <<wstate, wgroup>>
  /\ UNCHANGED <<werr, wlock, caller>>

\* "first wait auto start waiter"
Wait(g) ==
  /\ Calls(g) /\ g \notin Notifiers
  /\ IF wstate = 0 THEN wstate' = 1 /\ wgroup' = wgroup + 1
                   ELSE UNCHANGED <<wstate, wgroup>>
  /\ CallerGoes(g, "sleep")
  /\ UNCHANGED <<werr, wlock>>

Wakes(g) ==
  /\ caller[g].pc = "sleep" /\ wgroup = 0
  /\ CallerGoes(g, "wake")
  /\ UNCHANGED <<wstate, wgroup, werr, wlock>>

\* return w.err, without the lock.
Returned(g) ==
  /\ caller[g].pc = "wake"
  /\ CallerGoes(g, "out")
  /\ UNCHANGED <<wstate, wgroup, werr, wlock>>

\* "safe run Done only when have tasks"
DoneCounts(g, e) ==
  /\ Calls(g)
  /\ wlock' = g
  /\ IF wstate > 0 THEN wstate' = wstate - 1 /\ wgroup' = wgroup - 1
                   ELSE UNCHANGED <<wstate, wgroup>>
  /\ caller' = [caller EXCEPT ![g] = [pc |-> "done", err |-> e]]
  /\ UNCHANGED werr

\* "block waiter for any operations after last done"
DoneFinishes(g) ==
  /\ wlock = g /\ caller[g].pc = "done"
  /\ IF wstate = 0 THEN wstate' = -1 /\ werr' = caller[g].err
                   ELSE UNCHANGED <<wstate, werr>>
  /\ wlock' = NotLocked
  /\ caller' = [caller EXCEPT ![g] = Out]
  /\ UNCHANGED wgroup

WaiterStep(g) == Wakes(g) \/ Returned(g) \/ DoneFinishes(g)

WaiterNext ==
  \E g \in Callers :
    \/ Add(g) \/ Wait(g) \/ WaiterStep(g)
    \/ \E e \in Errors : DoneCounts(g, e)

WaiterSpec == WaiterInit /\ [][WaiterNext]_waiterVars

\* Who is inside a call goes on; nobody has to call anything.
WaiterFairness == \A g \in Callers : WF_waiterVars(WaiterStep(g))

-----------------------------------------------------------------------------
(* Properties. *)

\* "safe Done after finish", "safe run Done only when have tasks" (waiter.go:10,44):
\* the counter of the WaitGroup is the number of open tasks, and so never negative,
\* which would panic, whoever calls Done how often.
CounterIsState == wgroup = IF wstate > 0 THEN wstate ELSE 0

\* "block new waiters after last Done" (waiter.go:9): the counter leaves zero only
\* while nobody sleeps on it or is just waking up. A WaitGroup that is used again
\* before every Wait has returned panics, or lets a goroutine sleep for ever.
NeverReused ==
  [][wgroup = 0 /\ wgroup' > 0 => \A g \in Callers : caller[g].pc \notin {"sleep", "wake"}]_waiterVars

\* The verdict is given once: a finished waiter stays so, with the error of the Done
\* that finished it, so that every Wait that begins later returns that error.
VerdictStands == [][wstate = -1 => wstate' = -1 /\ werr' = werr]_waiterVars

\* Who sleeps when the waiter finishes returns, and so does everyone who comes later.
SleepersReturn ==
  \A g \in Callers : wstate = -1 /\ caller[g].pc = "sleep" ~> caller[g].pc = "out"
=============================================================================

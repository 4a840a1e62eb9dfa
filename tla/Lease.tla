------------------------------- MODULE Lease -------------------------------
(***************************************************************************)
(* What an owner of connections promises, whatever it does inside: it      *)
(* holds at most one connection, every open connection is held, and a      *)
(* connection given back is closed and never used again.  In go2rtc the    *)
(* holders are the producers of the streams (internal/streams) and the     *)
(* connections camera sessions or child processes; in the Python backend   *)
(* the holders are the camera names of CameraManager and the connections   *)
(* FFmpeg processes.                                                       *)
(***************************************************************************)
CONSTANTS Holders, Leases, None

VARIABLES
  held,     \* what each holder holds
  open,     \* the connections that are open
  used      \* the connections that were ever opened

vars == <<held, open, used>>

Init ==
  /\ held = [h \in Holders |-> None]
  /\ open = {}
  /\ used = {}

\* A holder without a connection opens one.
Acquire(h, c) ==
  /\ held[h] = None
  /\ c \in Leases \ used
  /\ held' = [held EXCEPT ![h] = c]
  /\ open' = open \cup {c}
  /\ used' = used \cup {c}

\* A new connection replaces the one held, which is closed in the same step.
Swap(h, c) ==
  /\ held[h] \in open
  /\ c \in Leases \ used
  /\ held' = [held EXCEPT ![h] = c]
  /\ open' = (open \ {held[h]}) \cup {c}
  /\ used' = used \cup {c}

Release(h) ==
  /\ held[h] \in open
  /\ held' = [held EXCEPT ![h] = None]
  /\ open' = open \ {held[h]}
  /\ UNCHANGED used

Next == \E h \in Holders : Release(h) \/ \E c \in Leases : Acquire(h, c) \/ Swap(h, c)

Spec == Init /\ [][Next]_vars
=============================================================================

----------------------------- MODULE EventFeed -----------------------------
(***************************************************************************)
(* What the readers of game data promise about the client's combat log:    *)
(* a call takes the events after the last one taken, all of them up to the *)
(* size of a batch, as if it read the log in one step.                     *)
(*                                                                         *)
(* The feed is lost when the client destroys what the reader needs, and is *)
(* taken up again with any event then in the log.                          *)
(***************************************************************************)
EXTENDS Integers

CONSTANT Batch  \* events in a batch

VARIABLES
  log,   \* events in the log so far
  last   \* the event taken last

vars == <<log, last>>

Lost == -1

AtMost(n, limit) == IF n > limit THEN limit ELSE n

Init == log = 0 /\ last \in {Lost, 0}

(* The memory of the new event may be what the reader still needed. *)
Append ==
  /\ log' = log + 1
  /\ last' \in {last, Lost}

Read ==
  /\ last # Lost
  /\ last' = AtMost(log, last + Batch)
  /\ UNCHANGED log

Lose ==
  /\ last' = Lost
  /\ UNCHANGED log

Resume ==
  /\ last = Lost
  /\ last' \in 0 .. log - 1
  /\ UNCHANGED log

Next == Append \/ Read \/ Lose \/ Resume

Spec == Init /\ [][Next]_vars
=============================================================================

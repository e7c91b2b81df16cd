-------------------------- MODULE SnapshotRegister --------------------------
(***************************************************************************)
(* What the overlay promises about the game data it displays: a snapshot   *)
(* the game really was in, replaced only by later ones.                    *)
(*                                                                         *)
(* A snapshot is a record: ver counts the changes of the game it shows,    *)
(* and its combat log events are those numbered from+1 to `to'.            *)
(***************************************************************************)
EXTENDS Integers

VARIABLES
  game,   \* changes of the game's state so far
  log,    \* combat log events among them
  shown   \* the snapshot on display

vars == <<game, log, shown>>

NoData == [ver |-> 0, from |-> 0, to |-> 0]

Snapshot == [ver : 0 .. game, from : 0 .. log, to : 0 .. log]

Init == game = 0 /\ log = 0 /\ shown = NoData

(* The game changes, with or without a new event. *)
Change ==
  /\ game' = game + 1
  /\ log' \in {log, log + 1}
  /\ UNCHANGED shown

(* The display follows: no change is undone and no event is delivered by   *)
(* two different snapshots.                                                *)
Refresh ==
  /\ \E s \in Snapshot :
       /\ s.ver >= shown.ver
       /\ s.from >= shown.to
       /\ s.to >= s.from
       /\ shown' = s
  /\ UNCHANGED <<game, log>>

(* A new overlay starts with nothing on display. *)
Restart ==
  /\ shown' = NoData
  /\ UNCHANGED <<game, log>>

Next == Change \/ Refresh \/ Restart

Spec == Init /\ [][Next]_vars
=============================================================================

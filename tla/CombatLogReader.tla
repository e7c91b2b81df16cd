-------------------------- MODULE CombatLogReader --------------------------
(***************************************************************************)
(* ReadCombatLogEvents walks the client's own linked list of combat log    *)
(* events, call after call from the node it read last, while the client    *)
(* appends nodes, evicts the oldest, and reuses or unmaps their memory.    *)
(* Nothing synchronises the two: each read of a pointer is a step.         *)
(*                                                                         *)
(* Events are numbered in the order the client appends them.  A page that  *)
(* goes away between its check and the read after it ends the process, and *)
(* with it the behaviour.                                                  *)
(***************************************************************************)
EXTENDS Integers, Sequences

CONSTANTS
  NAddr,                \* addresses nodes are allocated at
  MaxEvents,            \* bound: events of the client
  MaxDamage,            \* bound: times freed memory changes
  kMaxCombatLogEvents   \* GameData::kMaxCombatLogEvents

ASSUME ReaderAssumption ==
  /\ NAddr \in Nat \ {0}
  /\ MaxEvents \in Nat
  /\ MaxDamage \in Nat
  /\ kMaxCombatLogEvents \in Nat \ {0}

Addr     == 1 .. NAddr
Null     == 0
Odd      == -1   \* a pointer with its lowest bit set: the list ends here
Sentinel == -2   \* what the tail of an empty list may hold instead of null

Pointer == Addr \cup {Null, Odd}

VARIABLES
  (* the client *)
  list,      \* the nodes of the list, oldest first
  next,      \* the next pointer found at an address
  num,       \* the number of the event found at an address (0: other data)
  mapped,    \* addresses whose page is readable
  events,    \* events appended
  damage,    \* changes of freed memory
  (* the reader *)
  pc,        \* where ReadCombatLogEvents is
  lastNode,  \* lastNodeAddr
  headNode,
  tailNode,
  node,      \* nodeAddr
  count,     \* combatLogEventCount
  (* history *)
  intact,    \* the client has kept what the reader still needs
  want,      \* the event to be reported next
  seen       \* the event reported last (0: none since the walk began at the head)

clientVars  == <<list, next, num, mapped, events, damage>>
readerVars  == <<pc, lastNode, headNode, tailNode, node, count>>
historyVars == <<want, seen>>
vars == <<clientVars, readerVars, intact, historyVars>>

Init ==
  /\ list = <<>>
  /\ next = [a \in Addr |-> Null]
  /\ num = [a \in Addr |-> 0]
  /\ mapped = Addr
  /\ events = 0 /\ damage = 0
  /\ pc = "idle" /\ lastNode = Null /\ headNode = Null /\ tailNode = Null
  /\ node = Null /\ count = 0
  /\ intact = FALSE /\ want = 0 /\ seen = 0

Linked == {list[k] : k \in 1 .. Len(list)}

(* What the reader needs: the unread events in the list and, once it has   *)
(* read some, the way from the last one to them.                           *)
Kept ==
  /\ \A e \in want .. events : \E a \in Linked : num[a] = e
  /\ seen # 0 =>
       \E a \in mapped :
         /\ num[a] = seen
         /\ seen < events => next[a] \in Linked /\ num[next[a]] = seen + 1

StaysIntact == intact' = (intact /\ Kept')

----------------------------------------------------------------------------
(* The client. *)

AppendNode(a) ==
  /\ events < MaxEvents
  /\ a \notin Linked
  /\ events' = events + 1
  /\ list' = Append(list, a)
  /\ num' = [num EXCEPT ![a] = events + 1]
  /\ next' = [b \in Addr |-> IF b = a THEN Odd
                             ELSE IF list # <<>> /\ b = list[Len(list)] THEN a
                             ELSE next[b]]
  /\ mapped' = mapped \cup {a}
  /\ UNCHANGED <<damage, readerVars, historyVars>>
  /\ StaysIntact

(* The oldest node leaves the list; its memory is as it was. *)
Evict ==
  /\ list # <<>>
  /\ list' = Tail(list)
  /\ UNCHANGED <<next, num, mapped, events, damage, readerVars, historyVars>>
  /\ StaysIntact

(* Freed memory is written to, or its page goes. *)
Reclaim(a) ==
  /\ damage < MaxDamage
  /\ a \notin Linked
  /\ num[a] # 0
  /\ damage' = damage + 1
  /\ \/ /\ num' = [num EXCEPT ![a] = 0]
        /\ \E p \in Pointer : next' = [next EXCEPT ![a] = p]
        /\ UNCHANGED mapped
     \/ /\ mapped' = mapped \ {a}
        /\ num' = [num EXCEPT ![a] = 0]
        /\ UNCHANGED next
  /\ UNCHANGED <<list, events, readerVars, historyVars>>
  /\ StaysIntact

----------------------------------------------------------------------------
(* The call.  Reading from the head begins with what is in the list then.  *)
ReadHead ==
  /\ pc = "idle"
  /\ headNode' = IF list = <<>> THEN Odd ELSE Head(list)
  /\ count' = 0
  /\ pc' = "tail"
  /\ IF lastNode = Null
     THEN /\ intact' = (list # <<>>)
          /\ want' = IF list = <<>> THEN 0 ELSE num[Head(list)]
          /\ seen' = 0
     ELSE UNCHANGED <<intact, historyVars>>
  /\ UNCHANGED <<clientVars, lastNode, tailNode, node>>

Return == pc' = "idle" /\ node' = Null /\ headNode' = Null /\ tailNode' = Null

ReadTail ==
  /\ pc = "tail"
  /\ \/ /\ list = <<>>
        /\ Return
     \/ /\ tailNode' = IF list = <<>> THEN Sentinel ELSE list[Len(list)]
        /\ pc' = "start"
        /\ UNCHANGED <<headNode, node>>
  /\ UNCHANGED <<clientVars, lastNode, count, intact, historyVars>>

\* The limit of the loop off by one.
VisitOneMore(p) ==
  IF p \in Addr /\ count <= kMaxCombatLogEvents
  THEN pc' = "copy" /\ node' = p /\ headNode' = Null /\ UNCHANGED tailNode
  ELSE Return

\* The limit of the loop off by one the other way.
VisitOneFewer(p) ==
  IF p \in Addr /\ count + 1 < kMaxCombatLogEvents
  THEN pc' = "copy" /\ node' = p /\ headNode' = Null /\ UNCHANGED tailNode
  ELSE Return

(* The condition of the loop, for the node it comes to. *)
Visit(p) ==
  IF p \in Addr /\ count < kMaxCombatLogEvents
  THEN pc' = "copy" /\ node' = p /\ headNode' = Null /\ UNCHANGED tailNode
  ELSE Return

\* A walk that starts at the head or not at all.
StartOnlyAtHead ==
  /\ pc = "start"
  /\ IF lastNode = Null THEN Visit(headNode) ELSE Return
  /\ UNCHANGED <<clientVars, lastNode, count, intact, historyVars>>

(* Where the walk starts.  A position that cannot be read is forgotten. *)
Start ==
  /\ pc = "start"
  /\ \/ /\ lastNode = Null
        /\ Visit(headNode)
        /\ UNCHANGED lastNode
     \/ /\ lastNode # Null /\ lastNode = tailNode
        /\ Return
        /\ UNCHANGED lastNode
     \/ /\ lastNode \in mapped \ {tailNode}
        /\ Visit(next[lastNode])
        /\ UNCHANGED lastNode
     \/ /\ lastNode \in Addr \ (mapped \cup {tailNode})
        /\ Return
        /\ lastNode' = Null
  /\ UNCHANGED <<clientVars, count, intact, historyVars>>

(* The fields of the record are read one after the other, each behind its  *)
(* guard.                                                                  *)
Record ==
  /\ count' = count + 1
  /\ seen' = IF node \in mapped THEN num[node] ELSE 0
  /\ want' = seen' + 1
  /\ UNCHANGED clientVars
  /\ StaysIntact

\* The position reset once the tail is reached.
CopyRewinding ==
  /\ pc = "copy"
  /\ Record
  /\ \/ node = tailNode /\ Return /\ lastNode' = Null
     \/ node # tailNode /\ pc' = "advance" /\ lastNode' = node
        /\ UNCHANGED <<headNode, tailNode, node>>

(* One event is copied and its node remembered; the tail ends the call. *)
Copy ==
  /\ pc = "copy"
  /\ Record
  /\ lastNode' = node
  /\ \/ node = tailNode /\ Return
     \/ node # tailNode /\ pc' = "advance" /\ UNCHANGED <<headNode, tailNode, node>>

\* The position moved on before the limit is looked at.
AdvanceSkipping ==
  /\ pc = "advance"
  /\ \/ /\ node \in mapped /\ next[node] # node
        /\ Visit(next[node])
        /\ lastNode' = IF next[node] \in Addr THEN next[node] ELSE lastNode
     \/ /\ node \notin mapped \/ next[node] = node
        /\ Return
        /\ lastNode' = Null
  /\ UNCHANGED <<clientVars, count, intact, historyVars>>

(* On to the next node.  An unreadable or self-linked one ends the call    *)
(* and forgets the position.                                               *)
Advance ==
  /\ pc = "advance"
  /\ \/ /\ node \in mapped /\ next[node] # node
        /\ Visit(next[node])
        /\ UNCHANGED lastNode
     \/ /\ node \notin mapped \/ next[node] = node
        /\ Return
        /\ lastNode' = Null
  /\ UNCHANGED <<clientVars, count, intact, historyVars>>

----------------------------------------------------------------------------
Reader == ReadHead \/ ReadTail \/ Start \/ Copy \/ Advance
Client == Evict \/ \E a \in Addr : AppendNode(a) \/ Reclaim(a)

Next == Reader \/ Client

Spec == Init /\ [][Next]_vars

(* The thread of the DLL keeps calling. *)
FairSpec == Spec /\ WF_vars(Reader)

----------------------------------------------------------------------------
(* Every variable has its type; in particular the batch never outgrows the *)
(* array it is stored in (GameData::combatLogEvents).                      *)
TypeOK ==
  /\ list \in Seq(Addr)
  /\ next \in [Addr -> Pointer]
  /\ num \in [Addr -> 0 .. MaxEvents]
  /\ mapped \subseteq Addr
  /\ events \in 0 .. MaxEvents
  /\ damage \in 0 .. MaxDamage
  /\ pc \in {"idle", "tail", "start", "copy", "advance"}
  /\ lastNode \in Addr \cup {Null}
  /\ headNode \in Pointer
  /\ tailNode \in Addr \cup {Null, Sentinel}
  /\ node \in Pointer
  /\ count \in 0 .. kMaxCombatLogEvents
  /\ intact \in BOOLEAN
  /\ want \in 0 .. MaxEvents + 1
  /\ seen \in 0 .. MaxEvents

(* As long as the client keeps the unread nodes in its list and the last   *)
(* one read in memory, every event is reported, in order and once, however *)
(* the batches are cut and whatever is appended or evicted during a call   *)
(* (ReadCombatLogEvents, lastNodeAddr).                                    *)
EventsInTurn ==
  [][count' > count /\ intact => seen' = want]_vars

(* The walk goes back to the head of the list only when the client has     *)
(* destroyed what it needed: the resynchronisation never repeats an event  *)
(* the reader could have followed (the two resets of lastNodeAddr).        *)
RewindsOnlyAfterDamage == [][intact /\ intact' => want' >= want]_vars

(* The event a call has decided to read up to.  With the tail in its hands  *)
(* that is the tail, or where the batch is full; a list found empty through *)
(* a sentinel is read until it ends.                                       *)
Reported ==
  IF ~intact THEN -1
  ELSE IF pc \in {"idle", "tail"} THEN want - 1
  ELSE LET before == want - 1 - count
           full == before + kMaxCombatLogEvents IN
       IF tailNode = Sentinel THEN before
       ELSE IF num[tailNode] > full THEN full ELSE num[tailNode]

(* A walk of many reads, while the list changes under it, is as good as    *)
(* one look at the list: no event that was there when the tail was read is *)
(* left to a later call unless the batch is full, and no call goes further *)
(* (ReadCombatLogEvents, the tail and the limit of the loop).  This is what *)
(* ReadGame of GameDataPipe takes for granted.                             *)
Feed == INSTANCE EventFeed WITH log <- events, last <- Reported,
                                Batch <- kMaxCombatLogEvents
ImplementsFeed == Feed!Spec

(* What the client keeps is read in the end: an event that is not evicted  *)
(* before its turn is reported by some later call.                         *)
KeptEventsAreReported ==
  \A e \in 1 .. MaxEvents : (intact /\ events >= e) ~> (seen >= e \/ ~intact)

(* An event that stays in the list is reported by some later call, after a *)
(* resynchronisation if need be.                                           *)
EveryEventReported ==
  \A e \in 1 .. MaxEvents :
    (\E a \in Linked : num[a] = e)
      ~> (seen >= e \/ ~\E a \in Linked : num[a] = e)
=============================================================================

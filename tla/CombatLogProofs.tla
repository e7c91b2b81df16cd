-------------------------- MODULE CombatLogProofs --------------------------
(***************************************************************************)
(* Proofs about CombatLogReader, for any number of addresses, events and   *)
(* changes of freed memory, and any limit of the batch.                    *)
(*                                                                         *)
(* A number is found at one address at most, so what the client has kept   *)
(* (Kept) is what the reader's pointers point to: while intact holds, the  *)
(* position is the node of the event seen last, and the node to be copied  *)
(* is that of the event wanted.  The reader has no position only between   *)
(* the reading of the head and the copy of the node found there, so it     *)
(* cannot go back to the head as long as intact holds.                     *)
(*                                                                         *)
(* The last part is the refinement of EventFeed: a call takes effect where *)
(* it reads the tail.                                                      *)
(***************************************************************************)
EXTENDS CombatLogReader, SequenceTheorems, TLAPS

(* The list holds the newest events, in order; the newest ends it. *)
Numbered ==
  /\ Len(list) <= events
  /\ \A i \in 1 .. Len(list) : num[list[i]] = events - Len(list) + i

NumbersDiffer ==
  /\ \A a \in Addr : num[a] <= events
  /\ \A a, b \in Addr : num[a] # 0 /\ num[a] = num[b] => a = b

NewestEnds == \A a \in Addr : num[a] # 0 /\ num[a] = events => next[a] = Odd

ListReadable == Linked \subseteq mapped

Walk ==
  /\ pc = "copy" => node \in Addr /\ count < kMaxCombatLogEvents
  /\ pc = "advance" => node \in Addr /\ node = lastNode
  /\ pc \in {"tail", "start"} => count = 0

NoPosition ==
  /\ seen = 0 /\ want \in 1 .. events
  /\ pc \in {"tail", "start", "copy"}
  /\ pc \in {"tail", "start"} => headNode \in Addr /\ num[headNode] = want

HasPosition == seen # 0 /\ num[lastNode] = seen /\ want = seen + 1

Position ==
  intact => /\ Kept
            /\ lastNode = Null => NoPosition
            /\ lastNode # Null => HasPosition
            /\ pc = "copy" => num[node] = want /\ want <= events

LogInv ==
  /\ TypeOK /\ Numbered /\ NumbersDiffer /\ NewestEnds /\ ListReadable
  /\ Walk /\ Position

----------------------------------------------------------------------------
LEMMA InitInv == Init => LogInv
<1> SUFFICES ASSUME Init PROVE LogInv
  OBVIOUS
<1> USE ReaderAssumption DEF Init
<1>1. TypeOK
  <2>1. next \in [Addr -> Pointer] /\ num \in [Addr -> 0 .. MaxEvents]
    BY DEF Pointer
  <2>2. /\ events \in 0 .. MaxEvents /\ damage \in 0 .. MaxDamage
        /\ count \in 0 .. kMaxCombatLogEvents
        /\ want \in 0 .. MaxEvents + 1 /\ seen \in 0 .. MaxEvents
    OBVIOUS
  <2>3. list \in Seq(Addr) /\ mapped \subseteq Addr
    OBVIOUS
  <2>4. headNode \in Pointer /\ node \in Pointer
    BY DEF Pointer
  <2>5. intact \in BOOLEAN
    OBVIOUS
  <2> QED
    BY <2>1, <2>2, <2>3, <2>4, <2>5 DEF TypeOK
<1>2. Numbered /\ ListReadable
  <2>1. Len(list) = 0
    OBVIOUS
  <2> QED
    BY <2>1 DEF Numbered, ListReadable, Linked
<1>3. NumbersDiffer /\ NewestEnds
  BY DEF NumbersDiffer, NewestEnds
<1>4. Walk /\ Position
  BY DEF Walk, Position
<1> QED
  BY <1>1, <1>2, <1>3, <1>4 DEF LogInv

----------------------------------------------------------------------------
(* What the client has kept is what the reader's pointers point to. *)

LEMMA WantedIsHere ==
  ASSUME LogInv, intact, NEW a \in Addr, num[a] = want, want \in 1 .. events
  PROVE  a \in Linked /\ a \in mapped
<1>1. PICK b \in Linked : num[b] = want
  BY DEF LogInv, Position, Kept, TypeOK
<1>2. b \in Addr /\ b \in mapped
  BY <1>1 DEF LogInv, TypeOK, ListReadable
<1>3. a = b
  BY <1>1, <1>2 DEF LogInv, NumbersDiffer
<1> QED
  BY <1>1, <1>2, <1>3

LEMMA WayOn ==
  ASSUME LogInv, intact, lastNode # Null
  PROVE  /\ lastNode \in mapped
         /\ next[lastNode] # lastNode
         /\ next[lastNode] \in Addr => num[next[lastNode]] = want /\ want <= events
<1>1. /\ seen # 0 /\ num[lastNode] = seen /\ want = seen + 1
      /\ lastNode \in Addr /\ mapped \subseteq Addr /\ seen \in Nat /\ events \in Nat
  BY DEF LogInv, Position, HasPosition, TypeOK
<1>2. PICK a \in mapped :
        /\ num[a] = seen
        /\ seen < events => next[a] \in Linked /\ num[next[a]] = seen + 1
  BY <1>1 DEF LogInv, Position, Kept
<1>3. a = lastNode
  BY <1>1, <1>2 DEF LogInv, NumbersDiffer
<1>4. CASE seen < events
  BY <1>1, <1>2, <1>3, <1>4
<1>5. CASE ~(seen < events)
  <2>1. seen = events
    BY <1>1, <1>5 DEF LogInv, NumbersDiffer
  <2>2. next[lastNode] = Odd
    BY <1>1, <2>1 DEF LogInv, NewestEnds
  <2> QED
    BY <1>1, <1>2, <1>3, <2>2 DEF Odd, Addr
<1> QED
  BY <1>4, <1>5

----------------------------------------------------------------------------
(* A step of the client changes numbers only to 0 or to a new one. *)
ClientLeaves ==
  /\ TypeOK' /\ Numbered' /\ NumbersDiffer' /\ NewestEnds' /\ ListReadable'
  /\ events' >= events
  /\ \A a \in Addr : num'[a] \in 1 .. events => num[a] = num'[a]
  /\ StaysIntact

LEMMA ClientStep ==
  ASSUME LogInv, ClientLeaves, UNCHANGED <<readerVars, historyVars>>
  PROVE  LogInv'
<1> USE DEF readerVars, historyVars
<1>1. /\ TypeOK /\ events \in Nat /\ events' \in Nat /\ events' >= events
      /\ Linked' \subseteq Addr /\ mapped' \subseteq Addr
  <2>1. list' \in Seq(Addr) /\ mapped' \subseteq Addr
    BY DEF ClientLeaves, TypeOK
  <2>2. Linked' \subseteq Addr
    BY <2>1 DEF Linked
  <2>3. events \in Nat /\ events' \in Nat
    BY ReaderAssumption DEF LogInv, ClientLeaves, TypeOK
  <2> QED
    BY <2>1, <2>2, <2>3 DEF LogInv, ClientLeaves
<1>2. Walk'
  BY DEF LogInv, Walk
<1>3. ASSUME NEW a \in Addr, NEW b \in Addr, num'[b] = num[a], num[a] # 0
      PROVE  num'[a] = num[a]
  <2>1. num[a] \in 1 .. events
    BY <1>1, <1>3 DEF LogInv, NumbersDiffer, TypeOK
  <2>2. num[b] = num[a]
    BY <1>3, <2>1 DEF ClientLeaves
  <2> QED
    BY <1>3, <2>2 DEF LogInv, NumbersDiffer
<1>4. ASSUME intact' PROVE intact /\ Kept'
  BY <1>4 DEF ClientLeaves, StaysIntact
<1>5. ASSUME intact', NEW a \in Addr, num[a] = want, want \in 1 .. events
      PROVE  num'[a] = want /\ want \in 1 .. events'
  <2>1. want \in want .. events'
    BY <1>1, <1>5
  <2>2. PICK b \in Linked' : num'[b] = want
    BY <1>4, <1>5, <2>1 DEF Kept
  <2> QED
    BY <1>1, <1>3, <1>5, <2>2
<1>6. ASSUME intact', lastNode = Null PROVE NoPosition'
  <2>1. NoPosition
    BY <1>4, <1>6 DEF LogInv, Position
  <2>2. want \in 1 .. events'
    BY <1>1, <2>1 DEF NoPosition
  <2> QED
    BY <1>5, <1>6, <2>1, <2>2 DEF NoPosition
<1>7. ASSUME intact', lastNode # Null PROVE HasPosition'
  <2>1. HasPosition /\ lastNode \in Addr
    BY <1>1, <1>4, <1>7 DEF LogInv, Position, TypeOK
  <2>2. PICK b \in mapped' : num'[b] = seen
    BY <1>4, <1>7, <2>1 DEF Kept, HasPosition
  <2>3. num'[lastNode] = seen
    BY <1>1, <1>3, <2>1, <2>2 DEF HasPosition
  <2> QED
    BY <2>1, <2>3 DEF HasPosition
<1>8. ASSUME intact', pc = "copy" PROVE num'[node] = want /\ want <= events'
  <2>1. num[node] = want /\ want <= events /\ node \in Addr
    BY <1>4, <1>8 DEF LogInv, Position, Walk
  <2>2. want \in 1 .. events
    <3>1. CASE lastNode = Null
      BY <1>4, <1>8, <3>1 DEF LogInv, Position, NoPosition
    <3>2. CASE lastNode # Null
      BY <1>1, <1>4, <1>8, <2>1, <3>2 DEF LogInv, Position, HasPosition, TypeOK
    <3> QED
      BY <3>1, <3>2
  <2> QED
    BY <1>1, <1>5, <1>8, <2>1, <2>2
<1>9. Position'
  BY <1>4, <1>6, <1>7, <1>8 DEF Position
<1> QED
  BY <1>2, <1>9 DEF LogInv, ClientLeaves

LEMMA AppendInv ==
  ASSUME LogInv, NEW a \in Addr, AppendNode(a)
  PROVE  LogInv'
<1> USE ReaderAssumption
<1>1. /\ list \in Seq(Addr) /\ num \in [Addr -> 0 .. MaxEvents]
      /\ next \in [Addr -> Pointer] /\ mapped \subseteq Addr
      /\ events \in Nat /\ events < MaxEvents /\ a \notin Linked
  BY DEF LogInv, TypeOK, AppendNode
<1>2. /\ list' \in Seq(Addr) /\ Len(list') = Len(list) + 1
      /\ list'[Len(list) + 1] = a
      /\ \A i \in 1 .. Len(list) : list'[i] = list[i]
  BY <1>1 DEF AppendNode
<1>3. /\ num' \in [Addr -> 0 .. MaxEvents] /\ num'[a] = events + 1
      /\ \A b \in Addr \ {a} : num'[b] = num[b]
      /\ events' = events + 1 /\ events' \in 0 .. MaxEvents
  BY <1>1 DEF AppendNode
<1>4. next' \in [Addr -> Pointer] /\ next'[a] = Odd
  BY <1>1 DEF AppendNode, Pointer
<1>5. mapped' = mapped \cup {a} /\ mapped' \subseteq Addr
  BY <1>1 DEF AppendNode
<1>6. \A i \in 1 .. Len(list) : list[i] \in Addr /\ list[i] \in Linked /\ list[i] # a
  BY <1>1 DEF Linked
<1>7. Numbered'
  <2>1. Len(list) <= events
    BY DEF LogInv, Numbered
  <2>2. ASSUME NEW i \in 1 .. Len(list) + 1
        PROVE  num'[list'[i]] = events' - Len(list') + i
    <3>1. CASE i = Len(list) + 1
      BY <1>1, <1>2, <1>3, <3>1
    <3>2. CASE i \in 1 .. Len(list)
      <4>1. num[list[i]] = events - Len(list) + i
        BY <3>2 DEF LogInv, Numbered
      <4>2. num'[list'[i]] = num[list[i]]
        BY <1>2, <1>3, <1>6, <3>2
      <4> QED
        BY <1>1, <1>2, <1>3, <4>1, <4>2
    <3> QED
      BY <3>1, <3>2
  <2> QED
    BY <1>1, <1>2, <1>3, <2>1, <2>2 DEF Numbered
<1>8. NumbersDiffer'
  <2>1. \A b \in Addr : num[b] <= events
    BY DEF LogInv, NumbersDiffer
  <2>2. \A b \in Addr : num'[b] <= events'
    BY <1>1, <1>3, <2>1, SMTT(30)
  <2>3. ASSUME NEW b \in Addr, NEW c \in Addr, num'[b] # 0, num'[b] = num'[c] PROVE b = c
    BY <1>1, <1>3, <2>1, <2>3 DEF LogInv, NumbersDiffer
  <2> QED
    BY <2>2, <2>3 DEF NumbersDiffer
<1>9. NewestEnds'
  <2> SUFFICES ASSUME NEW b \in Addr, num'[b] = events' PROVE next'[b] = Odd
    BY DEF NewestEnds
  <2>1. b = a
    BY <1>1, <1>3 DEF LogInv, NumbersDiffer
  <2> QED
    BY <1>4, <2>1
<1>10. ListReadable'
  <2> SUFFICES ASSUME NEW i \in 1 .. Len(list') PROVE list'[i] \in mapped'
    BY DEF ListReadable, Linked
  <2>1. CASE i \in 1 .. Len(list)
    BY <1>2, <1>5, <1>6, <2>1 DEF LogInv, ListReadable
  <2> QED
    BY <1>1, <1>2, <1>5, <2>1
<1>11. StaysIntact /\ intact' \in BOOLEAN /\ UNCHANGED <<damage, readerVars, historyVars>>
  BY DEF LogInv, TypeOK, AppendNode, StaysIntact
<1>12. TypeOK'
  <2>1. UNCHANGED <<damage, pc, lastNode, headNode, tailNode, node, count, want, seen>>
    BY <1>11 DEF readerVars, historyVars
  <2> QED
    BY <1>2, <1>3, <1>4, <1>5, <1>11, <2>1 DEF LogInv, TypeOK
<1>13. \A b \in Addr : num'[b] \in 1 .. events => num[b] = num'[b]
  BY <1>1, <1>3
<1> QED
  BY <1>1, <1>3, <1>7, <1>8, <1>9, <1>10, <1>11, <1>12, <1>13, ClientStep DEF ClientLeaves

LEMMA EvictInv ==
  ASSUME LogInv, Evict
  PROVE  LogInv'
<1>1. list \in Seq(Addr) /\ list # <<>> /\ list' = Tail(list) /\ events \in Nat
  BY DEF LogInv, TypeOK, Evict
<1>2. /\ list' \in Seq(Addr) /\ Len(list') = Len(list) - 1
      /\ \A i \in 1 .. Len(list') : list'[i] = list[i + 1]
  BY <1>1
<1>3. UNCHANGED <<next, num, mapped, events, damage, readerVars, historyVars>> /\ StaysIntact
  BY DEF Evict
<1>4. Numbered'
  <2>1. ASSUME NEW i \in 1 .. Len(list') PROVE num[list'[i]] = events - Len(list') + i
    <3>1. i + 1 \in 1 .. Len(list)
      BY <1>1, <1>2
    <3>2. num[list[i + 1]] = events - Len(list) + (i + 1)
      BY <3>1 DEF LogInv, Numbered
    <3> QED
      BY <1>1, <1>2, <3>2
  <2>2. Len(list') <= events
    BY <1>1, <1>2 DEF LogInv, Numbered
  <2> QED
    BY <1>3, <2>1, <2>2 DEF Numbered
<1>5. NumbersDiffer' /\ NewestEnds'
  BY <1>3 DEF LogInv, NumbersDiffer, NewestEnds
<1>6. ListReadable'
  <2> SUFFICES ASSUME NEW i \in 1 .. Len(list') PROVE list'[i] \in mapped
    BY <1>3 DEF ListReadable, Linked
  <2>1. i + 1 \in 1 .. Len(list)
    BY <1>1, <1>2
  <2> QED
    BY <1>2, <2>1 DEF LogInv, ListReadable, Linked
<1>7. intact' \in BOOLEAN
  BY <1>3 DEF LogInv, TypeOK, StaysIntact
<1>8. TypeOK'
  BY <1>2, <1>3, <1>7 DEF LogInv, TypeOK, readerVars, historyVars
<1> QED
  BY <1>1, <1>3, <1>4, <1>5, <1>6, <1>8, ClientStep DEF ClientLeaves

LEMMA ReclaimInv ==
  ASSUME LogInv, NEW a \in Addr, Reclaim(a)
  PROVE  LogInv'
<1> USE ReaderAssumption
<1>1. /\ list \in Seq(Addr) /\ num \in [Addr -> 0 .. MaxEvents]
      /\ next \in [Addr -> Pointer] /\ mapped \subseteq Addr
      /\ events \in Nat /\ a \notin Linked
  BY DEF LogInv, TypeOK, Reclaim
<1>2. /\ num' = [num EXCEPT ![a] = 0]
      /\ UNCHANGED <<list, events, readerVars, historyVars>> /\ StaysIntact
  BY DEF Reclaim
<1>3. /\ num' \in [Addr -> 0 .. MaxEvents] /\ num'[a] = 0
      /\ \A b \in Addr \ {a} : num'[b] = num[b]
  BY <1>1, <1>2
<1>4. next' \in [Addr -> Pointer] /\ \A b \in Addr \ {a} : next'[b] = next[b]
  BY <1>1 DEF Reclaim
<1>5. mapped \ {a} \subseteq mapped' /\ mapped' \subseteq Addr
  BY <1>1 DEF Reclaim
<1>6. \A i \in 1 .. Len(list) : list[i] \in Addr /\ list[i] \in Linked /\ list[i] # a
  BY <1>1 DEF Linked
<1>7. Numbered'
  BY <1>2, <1>3, <1>6 DEF LogInv, Numbered
<1>8. NumbersDiffer' /\ NewestEnds'
  BY <1>1, <1>2, <1>3, <1>4 DEF LogInv, NumbersDiffer, NewestEnds
<1>9. ListReadable'
  BY <1>1, <1>2, <1>5, <1>6 DEF LogInv, ListReadable, Linked
<1>10. damage' \in 0 .. MaxDamage
  BY DEF Reclaim, LogInv, TypeOK
<1>11. intact' \in BOOLEAN
  BY <1>2 DEF LogInv, TypeOK, StaysIntact
<1>12. TypeOK'
  BY <1>2, <1>3, <1>4, <1>5, <1>10, <1>11 DEF LogInv, TypeOK, readerVars, historyVars
<1>13. \A b \in Addr : num'[b] \in 1 .. events => num[b] = num'[b]
  BY <1>3
<1> QED
  BY <1>1, <1>2, <1>7, <1>8, <1>9, <1>12, <1>13, ClientStep DEF ClientLeaves
----------------------------------------------------------------------------
(* A step of the reader leaves the client's half alone. *)
ReaderLeaves ==
  /\ UNCHANGED clientVars
  /\ pc' \in {"idle", "tail", "start", "copy", "advance"}
  /\ lastNode' \in Addr \cup {Null}
  /\ headNode' \in Pointer
  /\ tailNode' \in Addr \cup {Null, Sentinel}
  /\ node' \in Pointer
  /\ count' \in 0 .. kMaxCombatLogEvents
  /\ intact' \in BOOLEAN
  /\ want' \in 0 .. MaxEvents + 1
  /\ seen' \in 0 .. MaxEvents

LEMMA ReaderStep ==
  ASSUME LogInv, ReaderLeaves, Walk', Position'
  PROVE  LogInv'
<1>1. UNCHANGED <<list, next, num, mapped, events, damage>>
  BY DEF ReaderLeaves, clientVars
<1>2. TypeOK'
  BY <1>1 DEF LogInv, TypeOK, ReaderLeaves
<1>3. Numbered' /\ NumbersDiffer' /\ NewestEnds' /\ ListReadable'
  BY <1>1 DEF LogInv, Numbered, NumbersDiffer, NewestEnds, ListReadable, Linked
<1> QED
  BY <1>2, <1>3 DEF LogInv

(* Without a change of the history, what is kept stays kept. *)
LEMMA StillKept ==
  ASSUME UNCHANGED <<clientVars, historyVars>>, Kept
  PROVE  Kept'
BY DEF clientVars, historyVars, Kept, Linked

LEMMA ReadHeadInv ==
  ASSUME LogInv, ReadHead
  PROVE  LogInv'
<1> USE ReaderAssumption
<1>1. /\ list \in Seq(Addr) /\ events \in Nat /\ events <= MaxEvents
      /\ num \in [Addr -> 0 .. MaxEvents] /\ Len(list) <= events
      /\ MaxEvents \in Nat
  BY DEF LogInv, TypeOK, Numbered
<1>2. UNCHANGED <<list, next, num, mapped, events, damage, lastNode, tailNode, node>>
  BY DEF ReadHead, clientVars
<1>3. pc' = "tail" /\ count' = 0
  BY DEF ReadHead
<1>4. list # <<>> => Len(list) \in 1 .. events /\ Head(list) = list[1] /\ list[1] \in Addr
  BY <1>1
<1>5. list # <<>> => num[Head(list)] = events - Len(list) + 1
  BY <1>1, <1>4 DEF LogInv, Numbered
<1>6. list # <<>> => num[Head(list)] \in 1 .. events
  BY <1>1, <1>4, <1>5
<1>7. headNode' \in Pointer
  BY <1>4 DEF ReadHead, Pointer
<1>8. /\ intact' \in BOOLEAN /\ want' \in 0 .. MaxEvents + 1 /\ seen' \in 0 .. MaxEvents
  <2>1. CASE lastNode = Null
    <3>1. intact' = (list # <<>>) /\ seen' = 0
      BY <2>1 DEF ReadHead
    <3>2. want' = 0 \/ (list # <<>> /\ want' = num[Head(list)])
      BY <2>1 DEF ReadHead
    <3> QED
      BY <1>1, <1>6, <3>1, <3>2
  <2>2. CASE lastNode # Null
    BY <2>2 DEF ReadHead, LogInv, TypeOK, historyVars
  <2> QED
    BY <2>1, <2>2
<1>9. ReaderLeaves
  BY <1>1, <1>2, <1>3, <1>7, <1>8 DEF ReaderLeaves, LogInv, TypeOK, clientVars
<1>10. Walk'
  BY <1>3 DEF Walk
<1>11. Position'
  <2>1. CASE lastNode = Null
    <3> SUFFICES ASSUME intact' PROVE Kept' /\ NoPosition'
      BY <1>2, <1>3, <2>1 DEF Position
    <3>1. list # <<>> /\ want' = num[Head(list)] /\ seen' = 0 /\ headNode' = Head(list)
      BY <2>1 DEF ReadHead
    <3>2. NoPosition'
      BY <1>2, <1>3, <1>4, <1>6, <3>1 DEF NoPosition
    <3>3. ASSUME NEW e \in want' .. events'
          PROVE  \E a \in Linked' : num'[a] = e
      <4> DEFINE i == e - events + Len(list)
      <4>1. e \in num[Head(list)] .. events
        BY <1>2, <3>1
      <4>2. i \in 1 .. Len(list) /\ events - Len(list) + i = e
        BY <1>1, <1>4, <1>5, <3>1, <4>1
      <4>3. num[list[i]] = e
        BY <4>2 DEF LogInv, Numbered
      <4> QED
        BY <1>2, <4>2, <4>3 DEF Linked
    <3> QED
      BY <3>1, <3>2, <3>3 DEF Kept
  <2>2. CASE lastNode # Null
    <3>1. UNCHANGED <<clientVars, historyVars>> /\ UNCHANGED intact
      BY <2>2 DEF ReadHead
    <3>2. intact' => Kept'
      BY <3>1, StillKept DEF LogInv, Position
    <3>3. intact' => HasPosition'
      BY <1>2, <2>2, <3>1 DEF LogInv, Position, HasPosition, historyVars
    <3> QED
      BY <1>2, <1>3, <2>2, <3>2, <3>3 DEF Position
  <2> QED
    BY <2>1, <2>2
<1> QED
  BY <1>9, <1>10, <1>11, ReaderStep

(* The position and its history outlive a return. *)
LEMMA ReturnInv ==
  ASSUME LogInv, Return, lastNode' = lastNode, UNCHANGED <<clientVars, count, intact, historyVars>>,
         intact => lastNode # Null
  PROVE  LogInv'
<1>1. pc' = "idle" /\ node' = Null /\ headNode' = Null /\ tailNode' = Null
  BY DEF Return
<1>2. UNCHANGED <<num, want, seen, intact, count>>
  BY DEF clientVars, historyVars
<1>3. ReaderLeaves
  BY <1>1, <1>2 DEF ReaderLeaves, LogInv, TypeOK, Pointer
<1>4. Walk'
  BY <1>1 DEF Walk
<1>5. intact' => Kept' /\ lastNode' # Null /\ HasPosition'
  BY <1>2, StillKept DEF LogInv, Position, HasPosition
<1>6. Position'
  BY <1>1, <1>5 DEF Position
<1> QED
  BY <1>3, <1>4, <1>6, ReaderStep
(* A position is forgotten only when the client has not kept it. *)
LEMMA ForgetInv ==
  ASSUME LogInv, Return, lastNode' = Null, UNCHANGED <<clientVars, count, intact, historyVars>>,
         ~intact
  PROVE  LogInv'
<1>1. pc' = "idle" /\ node' = Null /\ headNode' = Null /\ tailNode' = Null
  BY DEF Return
<1>2. ReaderLeaves
  BY <1>1 DEF ReaderLeaves, LogInv, TypeOK, Pointer, historyVars
<1>3. Walk' /\ Position'
  BY <1>1 DEF Walk, Position
<1> QED
  BY <1>2, <1>3, ReaderStep

LEMMA VisitInv ==
  ASSUME LogInv, NEW p \in Pointer, Visit(p),
         UNCHANGED <<clientVars, lastNode, count, intact, historyVars>>,
         intact /\ p \in Addr => num[p] = want /\ want <= events,
         intact /\ lastNode = Null => p \in Addr /\ count = 0
  PROVE  LogInv'
<1> USE ReaderAssumption
<1>1. UNCHANGED <<num, events, want, seen, intact, count, lastNode>>
  BY DEF clientVars, historyVars
<1>2. CASE ~(p \in Addr /\ count < kMaxCombatLogEvents)
  <2>1. Return
    BY <1>2 DEF Visit
  <2>2. intact => lastNode # Null
    BY <1>2
  <2> QED
    BY <1>1, <2>1, <2>2, ReturnInv
<1>3. CASE p \in Addr /\ count < kMaxCombatLogEvents
  <2>1. pc' = "copy" /\ node' = p /\ headNode' = Null /\ tailNode' = tailNode
    BY <1>3 DEF Visit
  <2>2. ReaderLeaves
    BY <1>1, <2>1 DEF ReaderLeaves, LogInv, TypeOK, Pointer
  <2>3. Walk'
    BY <1>1, <1>3, <2>1 DEF Walk
  <2>4. intact' => Kept'
    BY <1>1, StillKept DEF LogInv, Position
  <2>5. intact' => (lastNode' = Null => NoPosition') /\ (lastNode' # Null => HasPosition')
    BY <1>1, <2>1 DEF LogInv, Position, NoPosition, HasPosition
  <2>6. Position'
    BY <1>1, <1>3, <2>1, <2>4, <2>5 DEF Position
  <2> QED
    BY <2>2, <2>3, <2>6, ReaderStep
<1> QED
  BY <1>2, <1>3

LEMMA ReadTailInv ==
  ASSUME LogInv, ReadTail
  PROVE  LogInv'
<1>1. UNCHANGED <<clientVars, lastNode, count, intact, historyVars>>
  BY DEF ReadTail
<1>2. CASE list = <<>> /\ Return
  <2>1. ASSUME intact, lastNode = Null PROVE FALSE
    <3>1. want \in want .. events /\ Kept
      BY <2>1 DEF LogInv, TypeOK, Position, NoPosition
    <3>2. PICK a \in Linked : num[a] = want
      BY <3>1 DEF Kept
    <3> QED
      BY <1>2, <3>2 DEF Linked
  <2> QED
    BY <1>1, <1>2, <2>1, ReturnInv
<1>3. CASE /\ tailNode' = IF list = <<>> THEN Sentinel ELSE list[Len(list)]
           /\ pc' = "start" /\ UNCHANGED <<headNode, node>>
  <2>1. UNCHANGED <<num, events, want, seen>>
    BY <1>1 DEF clientVars, historyVars
  <2>2. tailNode' \in Addr \cup {Null, Sentinel}
    BY <1>3 DEF LogInv, TypeOK
  <2>3. ReaderLeaves
    BY <1>1, <1>3, <2>1, <2>2 DEF ReaderLeaves, LogInv, TypeOK
  <2>4. Walk'
    BY <1>1, <1>3 DEF LogInv, Walk, ReadTail
  <2>5. intact' => Kept'
    BY <1>1, StillKept DEF LogInv, Position
  <2>6. intact' => (lastNode' = Null => NoPosition') /\ (lastNode' # Null => HasPosition')
    BY <1>1, <1>3, <2>1 DEF LogInv, Position, NoPosition, HasPosition, ReadTail
  <2>7. Position'
    BY <1>3, <2>5, <2>6 DEF Position
  <2> QED
    BY <2>3, <2>4, <2>7, ReaderStep
<1> QED
  BY <1>2, <1>3 DEF ReadTail

LEMMA StartInv ==
  ASSUME LogInv, Start
  PROVE  LogInv'
<1> USE ReaderAssumption
<1>1. pc = "start" /\ UNCHANGED <<clientVars, count, intact, historyVars>>
  BY DEF Start
<1>2. count = 0 /\ headNode \in Pointer /\ next \in [Addr -> Pointer] /\ mapped \subseteq Addr
  BY <1>1 DEF LogInv, Walk, TypeOK
<1>3. Null \notin Addr
  BY DEF Null, Addr
<1>4. CASE lastNode = Null /\ Visit(headNode) /\ UNCHANGED lastNode
  <2>1. intact => /\ headNode \in Addr
                  /\ num[headNode] = want /\ want <= events
    BY <1>1, <1>4 DEF LogInv, TypeOK, Position, NoPosition
  <2> QED
    BY <1>1, <1>2, <1>4, <2>1, VisitInv
<1>5. CASE lastNode # Null /\ lastNode = tailNode /\ Return /\ UNCHANGED lastNode
  BY <1>1, <1>5, ReturnInv
<1>6. CASE lastNode \in mapped \ {tailNode} /\ Visit(next[lastNode]) /\ UNCHANGED lastNode
  <2>1. lastNode # Null /\ next[lastNode] \in Pointer
    BY <1>2, <1>3, <1>6
  <2>2. intact /\ next[lastNode] \in Addr => num[next[lastNode]] = want /\ want <= events
    BY <2>1, WayOn
  <2> QED
    BY <1>1, <1>6, <2>1, <2>2, VisitInv
<1>7. CASE lastNode \in Addr \ (mapped \cup {tailNode}) /\ Return /\ lastNode' = Null
  <2>1. lastNode # Null /\ lastNode \notin mapped
    BY <1>3, <1>7
  <2>2. ~intact
    BY <2>1, WayOn
  <2> QED
    BY <1>1, <1>7, <2>2, ForgetInv
<1> QED
  BY <1>4, <1>5, <1>6, <1>7 DEF Start

(* What Copy reports is what is wanted. *)
LEMMA CopyReports ==
  ASSUME LogInv, Copy, intact
  PROVE  seen' = want /\ num[node] = want /\ want # 0
<1>1. pc = "copy" /\ node \in Addr /\ num[node] = want /\ want <= events
  BY DEF LogInv, Copy, Walk, Position
<1>2. want \in 1 .. events
  <2>1. CASE lastNode = Null
    BY <2>1 DEF LogInv, Position, NoPosition
  <2>2. CASE lastNode # Null
    <3>1. want = seen + 1 /\ seen \in Nat /\ want \in Nat /\ events \in Nat
      BY <2>2 DEF LogInv, TypeOK, Position, HasPosition
    <3> QED
      BY <1>1, <3>1
  <2> QED
    BY <2>1, <2>2
<1>3. node \in mapped
  BY <1>1, <1>2, WantedIsHere
<1> QED
  BY <1>1, <1>2, <1>3 DEF Copy, Record

LEMMA CopyInv ==
  ASSUME LogInv, Copy
  PROVE  LogInv'
<1> USE ReaderAssumption
<1>1. /\ pc = "copy" /\ UNCHANGED clientVars /\ lastNode' = node
      /\ count' = count + 1 /\ intact' = (intact /\ Kept')
  BY DEF Copy, Record, StaysIntact
<1>2. node \in Addr /\ count < kMaxCombatLogEvents /\ count \in Nat
  BY <1>1 DEF LogInv, Walk, TypeOK
<1>3. num \in [Addr -> 0 .. MaxEvents]
  BY DEF LogInv, TypeOK
<1>4. seen' \in 0 .. MaxEvents
  BY <1>2, <1>3 DEF Copy, Record
<1>5. want' = seen' + 1 /\ want' \in 0 .. MaxEvents + 1
  BY <1>4 DEF Copy, Record
<1>6. \/ pc' = "idle" /\ node' = Null /\ headNode' = Null /\ tailNode' = Null
      \/ pc' = "advance" /\ UNCHANGED <<headNode, tailNode, node>>
  BY DEF Copy, Return
<1>7. ReaderLeaves
  <2>1. headNode' \in Pointer /\ node' \in Pointer /\ tailNode' \in Addr \cup {Null, Sentinel}
    BY <1>6 DEF LogInv, TypeOK, Pointer
  <2>2. count' \in 0 .. kMaxCombatLogEvents
    BY <1>1, <1>2
  <2>3. intact' \in BOOLEAN
    BY <1>1 DEF LogInv, TypeOK
  <2>4. pc' \in {"idle", "tail", "start", "copy", "advance"}
    BY <1>6
  <2> QED
    BY <1>1, <1>2, <1>4, <1>5, <2>1, <2>2, <2>3, <2>4 DEF ReaderLeaves
<1>8. Walk'
  BY <1>1, <1>2, <1>6 DEF Walk
<1>9. ASSUME intact' PROVE Kept' /\ HasPosition' /\ lastNode' # Null
  <2>1. intact /\ Kept'
    BY <1>1, <1>9
  <2>2. seen' = want /\ num[node] = want /\ want # 0
    BY <2>1, CopyReports
  <2>3. num' = num
    BY <1>1 DEF clientVars
  <2>4. node # Null
    BY <1>2 DEF Addr, Null
  <2> QED
    BY <1>1, <1>5, <2>1, <2>2, <2>3, <2>4 DEF HasPosition
<1>10. Position'
  BY <1>6, <1>9 DEF Position
<1> QED
  BY <1>7, <1>8, <1>10, ReaderStep

LEMMA AdvanceInv ==
  ASSUME LogInv, Advance
  PROVE  LogInv'
<1>1. pc = "advance" /\ UNCHANGED <<clientVars, count, intact, historyVars>>
  BY DEF Advance
<1>2. node \in Addr /\ node = lastNode /\ next \in [Addr -> Pointer]
  BY <1>1 DEF LogInv, Walk, TypeOK
<1>3. lastNode # Null
  BY <1>2 DEF Null, Addr
<1>4. CASE Visit(next[node]) /\ UNCHANGED lastNode
  <2>1. intact /\ next[node] \in Addr => num[next[node]] = want /\ want <= events
    BY <1>2, <1>3, WayOn
  <2>2. next[node] \in Pointer
    BY <1>2
  <2> QED
    BY <1>1, <1>3, <1>4, <2>1, <2>2, VisitInv
<1>5. CASE (node \notin mapped \/ next[node] = node) /\ Return /\ lastNode' = Null
  <2>1. ~intact
    BY <1>2, <1>3, <1>5, WayOn
  <2> QED
    BY <1>1, <1>5, <2>1, ForgetInv
<1> QED
  BY <1>4, <1>5 DEF Advance

LEMMA StutterInv ==
  ASSUME LogInv, UNCHANGED vars
  PROVE  LogInv'
<1>1. UNCHANGED <<list, next, num, mapped, events, damage>>
  BY DEF vars, clientVars
<1>2. UNCHANGED <<pc, lastNode, headNode, tailNode, node, count, intact, want, seen>>
  BY DEF vars, readerVars, historyVars
<1>3. TypeOK' /\ Numbered' /\ NumbersDiffer' /\ NewestEnds' /\ ListReadable'
  BY <1>1, <1>2 DEF LogInv, TypeOK, Numbered, NumbersDiffer, NewestEnds, ListReadable, Linked
<1>4. Walk' /\ Position'
  BY <1>1, <1>2 DEF LogInv, Walk, Position, Kept, Linked, NoPosition, HasPosition
<1> QED
  BY <1>3, <1>4 DEF LogInv

LEMMA NextInv ==
  ASSUME LogInv, [Next]_vars
  PROVE  LogInv'
<1>1. CASE Reader
  BY <1>1, ReadHeadInv, ReadTailInv, StartInv, CopyInv, AdvanceInv DEF Reader
<1>2. CASE Client
  <2>1. CASE Evict
    BY <2>1, EvictInv
  <2>2. ASSUME NEW a \in Addr, AppendNode(a) PROVE LogInv'
    BY <2>2, AppendInv
  <2>3. ASSUME NEW a \in Addr, Reclaim(a) PROVE LogInv'
    BY <2>3, ReclaimInv
  <2> QED
    BY <1>2, <2>1, <2>2, <2>3 DEF Client
<1>3. CASE UNCHANGED vars
  BY <1>3, StutterInv
<1> QED
  BY <1>1, <1>2, <1>3 DEF Next

----------------------------------------------------------------------------
(* Every reachable state satisfies the inductive invariant. *)
THEOREM LogInvariance == Spec => []LogInv
<1>1. Init => LogInv
  BY InitInv
<1>2. LogInv /\ [Next]_vars => LogInv'
  BY NextInv
<1> QED
  BY <1>1, <1>2, PTL DEF Spec

(* The batch never outgrows GameData::combatLogEvents, and the reader's    *)
(* pointers stay pointers (ReadCombatLogEvents).                           *)
THEOREM TypeCorrect == Spec => []TypeOK
<1>1. LogInv => TypeOK
  BY DEF LogInv
<1> QED
  BY <1>1, LogInvariance, PTL

(* While the client keeps the unread nodes and the last one read, events   *)
(* are reported in order and once, across the batches and whatever is      *)
(* appended or evicted meanwhile (ReadCombatLogEvents, lastNodeAddr).      *)
THEOREM EventsAreReportedInTurn == Spec => EventsInTurn
<1>1. LogInv /\ [Next]_vars => [count' > count /\ intact => seen' = want]_vars
  <2> SUFFICES ASSUME LogInv, Next, count' > count, intact PROVE seen' = want
    OBVIOUS
  <2>1. count \in 0 .. kMaxCombatLogEvents
    BY DEF LogInv, TypeOK
  <2>2. ~(count' = 0) /\ ~(count' = count)
    BY <2>1, ReaderAssumption
  <2>3. ~ReadHead /\ ~ReadTail /\ ~Start /\ ~Advance
    BY <2>2 DEF ReadHead, ReadTail, Start, Advance
  <2>4. ~Client
    BY <2>2 DEF Client, Evict, AppendNode, Reclaim, readerVars
  <2>5. Copy
    BY <2>3, <2>4 DEF Next, Reader
  <2> QED
    BY <2>5, CopyReports
<1> QED
  BY <1>1, LogInvariance, PTL DEF Spec, EventsInTurn

(* The reader goes back to the head of the list only when the client has   *)
(* destroyed what it needed (the two resets of lastNodeAddr in             *)
(* ReadCombatLogEvents).                                                   *)
THEOREM NoRewindWithoutDamage == Spec => RewindsOnlyAfterDamage
<1>1. LogInv /\ [Next]_vars => [intact /\ intact' => want' >= want]_vars
  <2> SUFFICES ASSUME LogInv, Next, intact PROVE want' >= want
    OBVIOUS
  <2>1. want \in Nat
    BY ReaderAssumption DEF LogInv, TypeOK
  <2>2. CASE Copy
    <3>1. want' = want + 1
      BY <2>2, CopyReports DEF Copy, Record
    <3> QED
      BY <2>1, <3>1
  <2>3. CASE ReadHead
    <3>1. lastNode # Null
      BY <2>3 DEF ReadHead, LogInv, Position, NoPosition
    <3> QED
      BY <2>1, <2>3, <3>1 DEF ReadHead, historyVars
  <2>4. CASE ReadTail \/ Start \/ Advance \/ Client
    <3>1. UNCHANGED want
      BY <2>4 DEF ReadTail, Start, Advance, Client, Evict, AppendNode, Reclaim, historyVars
    <3> QED
      BY <2>1, <3>1
  <2> QED
    BY <2>2, <2>3, <2>4 DEF Next, Reader
<1> QED
  BY <1>1, LogInvariance, PTL DEF Spec, RewindsOnlyAfterDamage

----------------------------------------------------------------------------
(* The refinement of EventFeed.  Between the reading of the tail and the   *)
(* end of the call, the node of the tail still holds the event it held, or *)
(* is one the reader has read: the batch ends there or where it is full.   *)

Ahead ==
  intact /\ pc \in {"start", "copy", "advance"} =>
    /\ count < want
    /\ tailNode # Sentinel =>
         /\ tailNode \in Addr /\ num[tailNode] # 0
         /\ \/ num[tailNode] >= want
            \/ pc = "start" /\ lastNode # Null /\ num[tailNode] = seen

FeedInv == LogInv /\ Ahead

\* What the reader's steps need of the types.
LEMMA Numbers ==
  ASSUME LogInv
  PROVE  /\ want \in Nat /\ seen \in Nat /\ events \in Nat /\ count \in Nat
         /\ count <= kMaxCombatLogEvents /\ kMaxCombatLogEvents \in Nat \ {0}
         /\ \A a \in Addr : num[a] \in Nat /\ num[a] <= events
         /\ intact \in BOOLEAN
<1>1. /\ want \in Nat /\ seen \in Nat /\ events \in Nat
      /\ count \in Nat /\ count <= kMaxCombatLogEvents
  BY ReaderAssumption DEF LogInv, TypeOK
<1>2. \A a \in Addr : num[a] \in Nat /\ num[a] <= events
  BY ReaderAssumption DEF LogInv, TypeOK, NumbersDiffer
<1>3. intact \in BOOLEAN
  BY DEF LogInv, TypeOK
<1> QED
  BY <1>1, <1>2, <1>3, ReaderAssumption

\* A walk with a position ends only where the log does.
LEMMA EndsWithTheLog ==
  ASSUME LogInv, intact, lastNode # Null, next[lastNode] \notin Addr
  PROVE  seen = events /\ want = events + 1
<1>1. /\ seen # 0 /\ num[lastNode] = seen /\ want = seen + 1
      /\ lastNode \in Addr /\ mapped \subseteq Addr
  BY DEF LogInv, Position, HasPosition, TypeOK
<1>2. PICK a \in mapped :
        /\ num[a] = seen
        /\ seen < events => next[a] \in Linked /\ num[next[a]] = seen + 1
  BY <1>1 DEF LogInv, Position, Kept
<1>3. a = lastNode
  BY <1>1, <1>2 DEF LogInv, NumbersDiffer
<1>4. Linked \subseteq Addr
  BY DEF LogInv, ListReadable, TypeOK
<1>5. ~(seen < events)
  BY <1>2, <1>3, <1>4
<1>6. seen <= events
  BY <1>1, Numbers
<1> QED
  BY <1>1, <1>5, <1>6, Numbers

\* A step of the client leaves alone the numbers the reader still needs, or
\* it is the end of intact.
LEMMA ClientKeepsNumbers ==
  ASSUME LogInv, LogInv', Client, intact', NEW a \in Addr, num[a] # 0,
         num[a] = seen \/ num[a] >= want
  PROVE  num'[a] = num[a]
<1>1. /\ UNCHANGED <<want, seen>> /\ StaysIntact /\ events' >= events
      /\ \A b \in Addr : num'[b] \in 1 .. events => num[b] = num'[b]
  <2>1. num \in [Addr -> 0 .. MaxEvents] /\ events \in Nat
    BY Numbers DEF LogInv, TypeOK
  <2>2. CASE Evict
    BY <2>1, <2>2 DEF Evict, historyVars
  <2>3. ASSUME NEW b \in Addr, AppendNode(b)
        PROVE  /\ UNCHANGED <<want, seen>> /\ StaysIntact /\ events' >= events
               /\ \A c \in Addr : num'[c] \in 1 .. events => num[c] = num'[c]
    <3>1. /\ UNCHANGED <<want, seen>> /\ StaysIntact /\ events' = events + 1
          /\ num' = [num EXCEPT ![b] = events + 1]
      BY <2>3 DEF AppendNode, historyVars
    <3>2. events' >= events /\ events + 1 \notin 1 .. events
      BY <2>1, <3>1
    <3> QED
      BY <2>1, <3>1, <3>2
  <2>4. ASSUME NEW b \in Addr, Reclaim(b)
        PROVE  /\ UNCHANGED <<want, seen>> /\ StaysIntact /\ events' >= events
               /\ \A c \in Addr : num'[c] \in 1 .. events => num[c] = num'[c]
    <3>1. /\ UNCHANGED <<want, seen>> /\ StaysIntact /\ events' = events
          /\ num' = [num EXCEPT ![b] = 0]
      BY <2>4 DEF Reclaim, historyVars
    <3>2. events' >= events
      BY <2>1, <3>1
    <3>3. \A c \in Addr : num'[c] = num[c] \/ num'[c] = 0
      BY <2>1, <3>1
    <3>4. \A c \in Addr : num'[c] \in 1 .. events => num'[c] = num[c]
      BY <3>3
    <3> QED
      BY <3>1, <3>2, <3>4
  <2> QED
    BY <2>2, <2>3, <2>4 DEF Client
<1>2. Kept'
  BY <1>1 DEF StaysIntact
<1>3. num[a] \in 1 .. events /\ num[a] \in Nat
  BY Numbers
<1>4. Linked' \subseteq Addr /\ mapped' \subseteq Addr /\ events' \in Nat
  BY ReaderAssumption DEF LogInv, ListReadable, TypeOK
<1>5. PICK b \in Addr : num'[b] = num[a]
  <2>1. CASE num[a] = seen
    <3>1. seen' # 0
      BY <1>1, <2>1
    <3>2. PICK c \in mapped' : num'[c] = seen'
      BY <1>2, <3>1 DEF Kept
    <3> QED
      BY <1>1, <1>4, <2>1, <3>2
  <2>2. CASE num[a] >= want
    <3>1. num[a] \in want' .. events'
      BY <1>1, <1>3, <1>4, <2>2, Numbers
    <3>2. PICK c \in Linked' : num'[c] = num[a]
      BY <1>2, <3>1 DEF Kept
    <3> QED
      BY <1>4, <3>2
  <2> QED
    BY <2>1, <2>2
<1>6. num[b] = num[a]
  BY <1>1, <1>3, <1>5
<1>7. a = b
  BY <1>6 DEF LogInv, NumbersDiffer
<1> QED
  BY <1>5, <1>7

----------------------------------------------------------------------------
\* As long as the reader is not concerned, what it has decided stays.
LEMMA ClientAhead ==
  ASSUME FeedInv, LogInv', Client
  PROVE  /\ Ahead'
         /\ intact' => intact /\ Reported' = Reported
<1>1. /\ UNCHANGED <<pc, lastNode, tailNode, count, want, seen>>
      /\ StaysIntact
  BY DEF Client, Evict, AppendNode, Reclaim, readerVars, historyVars
<1>2. intact' => intact
  BY <1>1 DEF StaysIntact
<1>3. ASSUME intact', pc \in {"start", "copy", "advance"}, tailNode # Sentinel
      PROVE  tailNode \in Addr /\ num'[tailNode] = num[tailNode]
  <2>1. /\ tailNode \in Addr /\ num[tailNode] # 0
        /\ num[tailNode] >= want \/ num[tailNode] = seen
    BY <1>2, <1>3 DEF FeedInv, Ahead
  <2> QED
    BY <1>3, <2>1, ClientKeepsNumbers DEF FeedInv
<1>4. Ahead'
  BY <1>1, <1>2, <1>3 DEF FeedInv, Ahead
<1>5. pc \in {"idle", "tail", "start", "copy", "advance"}
  BY DEF FeedInv, LogInv, TypeOK
<1>6. ASSUME intact' PROVE Reported' = Reported
  <2>1. CASE pc \in {"idle", "tail"} \/ tailNode = Sentinel
    BY <1>1, <1>2, <1>6, <2>1 DEF Reported
  <2>2. CASE pc \in {"start", "copy", "advance"} /\ tailNode # Sentinel
    BY <1>1, <1>2, <1>3, <1>6, <2>2 DEF Reported
  <2> QED
    BY <1>5, <2>1, <2>2
<1> QED
  BY <1>2, <1>4, <1>6

\* A step of the client is an event, or nothing, or the end of the feed.
LEMMA ClientFeeds ==
  ASSUME FeedInv, LogInv', Client
  PROVE  [Feed!Next]_(Feed!vars)
<1>1. events' = events + 1 \/ events' = events
  BY DEF Client, Evict, AppendNode, Reclaim
<1>2. Reported' = Reported \/ Reported' = -1
  <2>1. CASE intact'
    BY <2>1, ClientAhead
  <2>2. CASE ~intact'
    BY <2>2 DEF Reported
  <2> QED
    BY <2>1, <2>2
<1> QED
  BY <1>1, <1>2 DEF Feed!Next, Feed!Append, Feed!Lose, Feed!Lost, Feed!vars

\* Nothing is decided before the tail is read.
LEMMA HeadFeeds ==
  ASSUME FeedInv, ReadHead
  PROVE  [Feed!Next]_(Feed!vars) /\ Ahead'
<1>1. pc = "idle" /\ pc' = "tail" /\ UNCHANGED clientVars
  BY DEF ReadHead
<1>2. events' = events
  BY <1>1 DEF clientVars
<1>3. Ahead'
  BY <1>1 DEF Ahead
<1>4. CASE lastNode = Null
  <2>1. ~intact
    BY <1>1, <1>4 DEF FeedInv, LogInv, Position, NoPosition
  <2>2. Reported = -1
    BY <2>1 DEF Reported
  <2>3. CASE list = <<>>
    <3>1. ~intact'
      BY <1>4, <2>3 DEF ReadHead
    <3> QED
      BY <1>2, <1>3, <2>2, <3>1 DEF Reported, Feed!vars
  <2>4. CASE list # <<>>
    <3>1. intact' /\ want' = num[Head(list)]
      BY <1>4, <2>4 DEF ReadHead
    <3>2. 1 \in 1 .. Len(list) /\ Len(list) <= events /\ Len(list) \in Nat
      BY <2>4 DEF FeedInv, LogInv, TypeOK, Numbered
    <3>3. num[list[1]] = events - Len(list) + 1 /\ Head(list) = list[1]
      BY <2>4, <3>2 DEF FeedInv, LogInv, TypeOK, Numbered
    <3>4. want' - 1 \in 0 .. events - 1
      BY <3>1, <3>2, <3>3, Numbers DEF FeedInv
    <3>5. Reported' = want' - 1
      BY <1>1, <3>1 DEF Reported
    <3> QED
      BY <1>2, <1>3, <2>2, <3>4, <3>5 DEF Feed!Next, Feed!Resume, Feed!Lost
  <2> QED
    BY <2>3, <2>4
<1>5. CASE lastNode # Null
  <2>1. UNCHANGED <<intact, want, seen>>
    BY <1>5 DEF ReadHead, historyVars
  <2>2. Reported' = Reported
    BY <1>1, <2>1 DEF Reported
  <2> QED
    BY <1>2, <1>3, <2>2 DEF Feed!vars
<1> QED
  BY <1>4, <1>5

\* The tail read is the look at the list: the batch is what it then holds.
LEMMA TailFeeds ==
  ASSUME FeedInv, ReadTail
  PROVE  [Feed!Next]_(Feed!vars) /\ Ahead'
<1>1. /\ pc = "tail" /\ count = 0 /\ UNCHANGED <<clientVars, lastNode, count, intact, historyVars>>
  BY DEF ReadTail, FeedInv, LogInv, Walk
<1>2. UNCHANGED <<events, num, list, count, intact, want, seen, lastNode>>
  BY <1>1 DEF clientVars, historyVars
<1>3. CASE ~intact
  BY <1>2, <1>3 DEF Reported, Feed!vars, Ahead
<1>4. CASE intact /\ Return
  <2>1. pc' = "idle"
    BY <1>4 DEF Return
  <2> QED
    BY <1>1, <1>2, <1>4, <2>1 DEF Reported, Feed!vars, Ahead
<1>5. CASE /\ intact /\ pc' = "start"
           /\ tailNode' = IF list = <<>> THEN Sentinel ELSE list[Len(list)]
  <2>1. Reported = want - 1
    BY <1>1, <1>5 DEF Reported
  <2>2. /\ want >= 1 /\ want - 1 <= events
        /\ lastNode = Null => want <= events
        /\ lastNode # Null => seen # 0 /\ want = seen + 1
    <3>1. CASE lastNode = Null
      BY <1>5, <3>1, Numbers DEF FeedInv, LogInv, Position, NoPosition
    <3>2. CASE lastNode # Null
      <4>1. seen # 0 /\ num[lastNode] = seen /\ want = seen + 1 /\ lastNode \in Addr
        BY <1>5, <3>2 DEF FeedInv, LogInv, Position, HasPosition, TypeOK
      <4> QED
        BY <3>2, <4>1, Numbers DEF FeedInv
    <3> QED
      BY <3>1, <3>2
  <2>3. count' < want'
    BY <1>1, <1>2, <2>2, Numbers DEF FeedInv
  <2>4. CASE list = <<>>
    <3>1. tailNode' = Sentinel
      BY <1>5, <2>4
    <3>2. Reported' = want - 1
      BY <1>1, <1>2, <1>5, <3>1, Numbers DEF FeedInv, Reported
    <3> QED
      BY <1>2, <1>5, <2>1, <2>3, <3>1, <3>2 DEF Feed!vars, Ahead
  <2>5. CASE list # <<>>
    <3>1. Len(list) \in 1 .. Len(list) /\ list[Len(list)] \in Addr /\ Len(list) \in Nat
      BY <2>5 DEF FeedInv, LogInv, TypeOK
    <3>2. tailNode' = list[Len(list)] /\ tailNode' \in Addr /\ tailNode' # Sentinel
      BY <1>5, <2>5, <3>1 DEF Addr, Sentinel
    <3>3. num[tailNode'] = events
      <4>1. num[list[Len(list)]] = events - Len(list) + Len(list)
        BY <3>1 DEF FeedInv, LogInv, Numbered
      <4> QED
        BY <3>1, <3>2, <4>1, Numbers DEF FeedInv
    <3>4. events # 0
      BY <3>1, Numbers DEF FeedInv, LogInv, Numbered
    <3>5. Ahead'
      BY <1>2, <1>5, <2>2, <2>3, <3>2, <3>3, <3>4, Numbers DEF FeedInv, Ahead
    <3>6. Reported' = Feed!AtMost(events, Reported + kMaxCombatLogEvents)
      BY <1>1, <1>2, <1>5, <2>1, <3>2, <3>3, Numbers DEF FeedInv, Reported, Feed!AtMost
    <3>7. Reported # -1
      BY <2>1, <2>2, Numbers DEF FeedInv
    <3> QED
      BY <1>2, <3>5, <3>6, <3>7 DEF Feed!Next, Feed!Read, Feed!Lost
  <2> QED
    BY <2>4, <2>5
<1> QED
  BY <1>1, <1>3, <1>4, <1>5, Numbers DEF ReadTail, FeedInv

\* Without the reader's history, the feed loses what it loses.
LEMMA LostStays ==
  ASSUME ~intact, ~intact', UNCHANGED events
  PROVE  [Feed!Next]_(Feed!vars) /\ Ahead'
BY DEF Reported, Ahead, Feed!vars

\* A node that is visited changes nothing about what was decided, and with a
\* position a walk that ends here has come to the end of the batch.
LEMMA VisitFeeds ==
  ASSUME FeedInv, intact, pc \in {"start", "advance"}, NEW p \in Pointer, Visit(p),
         UNCHANGED <<clientVars, lastNode, count, intact, historyVars>>,
         tailNode # Sentinel => num[tailNode] >= want,
         lastNode = Null => p \in Addr /\ count = 0,
         lastNode # Null => p = next[lastNode]
  PROVE  [Feed!Next]_(Feed!vars) /\ Ahead'
<1>1. UNCHANGED <<events, num, lastNode, count, intact, want, seen>>
  BY DEF clientVars, historyVars
<1>2. /\ count < want
      /\ tailNode # Sentinel => tailNode \in Addr /\ num[tailNode] # 0
  BY DEF FeedInv, Ahead
<1>3. CASE p \in Addr /\ count < kMaxCombatLogEvents
  <2>1. pc' = "copy" /\ tailNode' = tailNode
    BY <1>3 DEF Visit
  <2>2. Ahead'
    BY <1>1, <1>2, <2>1 DEF Ahead
  <2>3. Reported' = Reported
    BY <1>1, <2>1 DEF Reported
  <2> QED
    BY <1>1, <2>2, <2>3 DEF Feed!vars
<1>4. CASE ~(p \in Addr /\ count < kMaxCombatLogEvents)
  <2>1. pc' = "idle"
    BY <1>4 DEF Visit, Return
  <2>2. Ahead'
    BY <2>1 DEF Ahead
  <2>3. Reported' = want - 1
    BY <1>1, <2>1 DEF Reported
  <2>4. lastNode # Null /\ p = next[lastNode]
    BY <1>4, Numbers DEF FeedInv
  <2>5. want = seen + 1 /\ seen <= events
    <3>1. want = seen + 1 /\ num[lastNode] = seen /\ lastNode \in Addr
      BY <2>4 DEF FeedInv, LogInv, Position, HasPosition, TypeOK
    <3> QED
      BY <3>1, Numbers DEF FeedInv
  <2>6. p \notin Addr => want = events + 1
    BY <2>4, EndsWithTheLog DEF FeedInv
  <2>7. p \in Addr => count = kMaxCombatLogEvents
    BY <1>4, Numbers DEF FeedInv
  <2>8. CASE tailNode = Sentinel
    <3>1. Reported = want - 1 - count
      BY <2>8 DEF Reported
    <3>2. Reported # -1
      BY <1>2, <3>1, Numbers DEF FeedInv
    <3>3. want - 1 = Feed!AtMost(events, Reported + kMaxCombatLogEvents)
      BY <2>5, <2>6, <2>7, <3>1, Numbers DEF FeedInv, Feed!AtMost
    <3> QED
      BY <1>1, <2>2, <2>3, <3>2, <3>3 DEF Feed!Next, Feed!Read, Feed!Lost
  <2>9. CASE tailNode # Sentinel
    <3>1. tailNode \in Addr /\ num[tailNode] >= want
      BY <1>2, <2>9
    <3>2. p \in Addr /\ count = kMaxCombatLogEvents
      BY <2>6, <2>7, <3>1, Numbers DEF FeedInv
    <3>3. Reported = want - 1
      BY <2>9, <3>1, <3>2, Numbers DEF FeedInv, Reported
    <3> QED
      BY <1>1, <2>2, <2>3, <3>3 DEF Feed!vars
  <2> QED
    BY <2>8, <2>9
<1> QED
  BY <1>3, <1>4

\* The walk starts behind the position, and not at all if that is the tail.
LEMMA StartFeeds ==
  ASSUME FeedInv, Start
  PROVE  [Feed!Next]_(Feed!vars) /\ Ahead'
<1>1. pc = "start" /\ count = 0 /\ UNCHANGED <<clientVars, count, intact, historyVars>>
  BY DEF Start, FeedInv, LogInv, Walk
<1>2. UNCHANGED <<events, num, count, intact, want, seen>>
  BY <1>1 DEF clientVars, historyVars
<1>3. CASE ~intact
  BY <1>2, <1>3, LostStays
<1>4. CASE intact
  <2>1. /\ tailNode # Sentinel =>
             /\ tailNode \in Addr /\ num[tailNode] # 0
             /\ num[tailNode] >= want \/ (lastNode # Null /\ num[tailNode] = seen)
    BY <1>1, <1>4 DEF FeedInv, Ahead
  <2>2. lastNode # Null => /\ want = seen + 1 /\ num[lastNode] = seen /\ lastNode \in Addr
                           /\ lastNode \in mapped
    BY <1>4, WayOn DEF FeedInv, LogInv, Position, HasPosition, TypeOK
  <2>3. tailNode # Sentinel /\ lastNode # tailNode => num[tailNode] >= want
    BY <2>1, <2>2 DEF FeedInv, LogInv, NumbersDiffer
  <2>4. headNode \in Pointer /\ next \in [Addr -> Pointer]
    BY DEF FeedInv, LogInv, TypeOK
  <2>5. CASE lastNode = Null /\ Visit(headNode) /\ UNCHANGED lastNode
    <3>1. headNode \in Addr
      BY <1>1, <1>4, <2>5 DEF FeedInv, LogInv, Position, NoPosition
    <3>2. tailNode # Sentinel => num[tailNode] >= want
      BY <2>1, <2>5
    <3> QED
      BY <1>1, <1>4, <2>4, <2>5, <3>1, <3>2, VisitFeeds
  <2>6. CASE lastNode # Null /\ lastNode = tailNode /\ Return
    <3>1. pc' = "idle"
      BY <2>6 DEF Return
    <3>2. tailNode # Sentinel /\ num[tailNode] = want - 1
      BY <2>2, <2>6, Numbers DEF FeedInv, Addr, Sentinel
    <3>3. Reported = want - 1
      BY <1>1, <1>4, <3>2, Numbers DEF FeedInv, Reported
    <3>4. Reported' = want - 1
      BY <1>2, <1>4, <3>1 DEF Reported
    <3> QED
      BY <1>2, <3>1, <3>3, <3>4 DEF Ahead, Feed!vars
  <2>7. CASE lastNode \in mapped \ {tailNode} /\ Visit(next[lastNode]) /\ UNCHANGED lastNode
    <3>1. lastNode \in Addr /\ lastNode # Null
      BY <2>7 DEF FeedInv, LogInv, TypeOK, Addr, Null
    <3>2. next[lastNode] \in Pointer
      BY <2>4, <3>1
    <3>3. tailNode # Sentinel => num[tailNode] >= want
      BY <2>3, <2>7
    <3> QED
      BY <1>1, <1>4, <2>7, <3>1, <3>2, <3>3, VisitFeeds
  <2>8. CASE lastNode \in Addr \ (mapped \cup {tailNode}) /\ Return
    BY <2>2, <2>8 DEF Addr, Null
  <2> QED
    BY <2>5, <2>6, <2>7, <2>8 DEF Start
<1> QED
  BY <1>3, <1>4, Numbers DEF FeedInv

\* A record copied was part of what was decided; the one of the tail ends it.
LEMMA CopyFeeds ==
  ASSUME FeedInv, Copy
  PROVE  [Feed!Next]_(Feed!vars) /\ Ahead'
<1>1. /\ pc = "copy" /\ UNCHANGED clientVars /\ lastNode' = node
      /\ count' = count + 1 /\ intact' = (intact /\ Kept') /\ want' = seen' + 1
  BY DEF Copy, Record, StaysIntact
<1>2. /\ node \in Addr /\ count < kMaxCombatLogEvents /\ UNCHANGED <<num, events>>
  BY <1>1 DEF FeedInv, LogInv, Walk, clientVars
<1>3. CASE ~intact'
  BY <1>2, <1>3 DEF Reported, Ahead, Feed!Next, Feed!Lose, Feed!Lost
<1>4. CASE intact'
  <2>1. intact /\ seen' = want /\ num[node] = want /\ want # 0 /\ want' = want + 1
    BY <1>1, <1>4, CopyReports DEF FeedInv
  <2>2. /\ count < want
        /\ tailNode # Sentinel => /\ tailNode \in Addr /\ num[tailNode] # 0
                                  /\ num[tailNode] >= want
    BY <1>1, <2>1 DEF FeedInv, Ahead
  <2>3. want' - 1 - count' = want - 1 - count /\ count' < want'
    BY <1>1, <2>1, <2>2, Numbers DEF FeedInv
  <2>4. CASE node = tailNode /\ Return
    <3>1. tailNode # Sentinel
      BY <1>2, <2>4 DEF Addr, Sentinel
    <3>2. Reported = want
      BY <1>1, <1>2, <2>1, <2>4, <3>1, Numbers DEF FeedInv, Reported
    <3>3. pc' = "idle"
      BY <2>4 DEF Return
    <3>4. Reported' = want
      BY <1>4, <2>1, <3>3, Numbers DEF FeedInv, Reported
    <3> QED
      BY <1>2, <3>2, <3>3, <3>4 DEF Ahead, Feed!vars
  <2>5. CASE node # tailNode /\ pc' = "advance" /\ UNCHANGED <<headNode, tailNode, node>>
    <3>1. tailNode # Sentinel => num[tailNode] >= want'
      <4>1. tailNode # Sentinel => num[tailNode] # want
        BY <1>2, <2>1, <2>2, <2>5 DEF FeedInv, LogInv, NumbersDiffer
      <4> QED
        BY <2>1, <2>2, <4>1, Numbers DEF FeedInv
    <3>2. Ahead'
      BY <1>2, <2>2, <2>3, <2>5, <3>1 DEF Ahead
    <3>3. Reported' = Reported
      BY <1>1, <1>2, <1>4, <2>1, <2>3, <2>5 DEF Reported
    <3> QED
      BY <1>2, <3>2, <3>3 DEF Feed!vars
  <2> QED
    BY <2>4, <2>5 DEF Copy
<1> QED
  BY <1>1, <1>3, <1>4, Numbers DEF FeedInv

\* While the client keeps the way on, the walk ends at the tail or when full.
LEMMA AdvanceFeeds ==
  ASSUME FeedInv, Advance
  PROVE  [Feed!Next]_(Feed!vars) /\ Ahead'
<1>1. pc = "advance" /\ UNCHANGED <<clientVars, count, intact, historyVars>>
  BY DEF Advance
<1>2. events' = events
  BY <1>1 DEF clientVars
<1>3. node \in Addr /\ node = lastNode /\ next \in [Addr -> Pointer] /\ lastNode # Null
  BY <1>1 DEF FeedInv, LogInv, Walk, TypeOK, Addr, Null
<1>4. CASE ~intact
  BY <1>1, <1>2, <1>4, LostStays
<1>5. CASE intact
  <2>1. tailNode # Sentinel => num[tailNode] >= want
    BY <1>1, <1>5 DEF FeedInv, Ahead
  <2>2. node \in mapped /\ next[node] # node
    BY <1>3, <1>5, WayOn DEF FeedInv
  <2>3. Visit(next[node]) /\ UNCHANGED lastNode
    BY <2>2 DEF Advance
  <2>4. next[node] \in Pointer
    BY <1>3
  <2> QED
    BY <1>1, <1>3, <1>5, <2>1, <2>3, <2>4, VisitFeeds
<1> QED
  BY <1>4, <1>5, Numbers DEF FeedInv

LEMMA FeedStep ==
  ASSUME FeedInv, [Next]_vars
  PROVE  FeedInv' /\ [Feed!Next]_(Feed!vars)
<1>1. LogInv'
  BY NextInv DEF FeedInv
<1>2. CASE Reader
  BY <1>1, <1>2, HeadFeeds, TailFeeds, StartFeeds, CopyFeeds, AdvanceFeeds DEF Reader, FeedInv
<1>3. CASE Client
  BY <1>1, <1>3, ClientAhead, ClientFeeds DEF FeedInv
<1>4. CASE UNCHANGED vars
  <2>1. UNCHANGED <<num, events, pc, lastNode, tailNode, count, intact, want, seen>>
    BY <1>4 DEF vars, clientVars, readerVars, historyVars
  <2>2. Ahead'
    BY <2>1 DEF FeedInv, Ahead
  <2>3. Reported' = Reported
    BY <2>1 DEF Reported
  <2> QED
    BY <1>1, <2>1, <2>2, <2>3 DEF FeedInv, Feed!vars
<1> QED
  BY <1>2, <1>3, <1>4 DEF Next

(* A call reads the log as if in one step: while the client keeps what it  *)
(* needs, it takes every event that was in the list when it read the tail, *)
(* up to the limit, and none beyond (ReadCombatLogEvents).                 *)
THEOREM ReaderImplementsFeed == Spec => ImplementsFeed
<1>1. Init => FeedInv
  <2> SUFFICES ASSUME Init PROVE FeedInv
    OBVIOUS
  <2>1. ~intact
    BY DEF Init
  <2> QED
    BY <2>1, InitInv DEF FeedInv, Ahead
<1>2. Init => Feed!Init
  <2> SUFFICES ASSUME Init PROVE Feed!Init
    OBVIOUS
  <2>1. ~intact /\ events = 0
    BY DEF Init
  <2> QED
    BY <2>1 DEF Feed!Init, Feed!Lost, Reported
<1>3. FeedInv /\ [Next]_vars => FeedInv' /\ [Feed!Next]_(Feed!vars)
  BY FeedStep
<1> QED
  BY <1>1, <1>2, <1>3, PTL DEF Spec, ImplementsFeed, Feed!Spec
=============================================================================

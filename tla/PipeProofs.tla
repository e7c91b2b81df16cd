----------------------------- MODULE PipeProofs -----------------------------
(***************************************************************************)
(* Theorems about GameDataPipe for every bound.  A snapshot only ever      *)
(* moves from one stage of the pipe to the next: each action of the two    *)
(* threads is a map from the stages after it to those before it, and what  *)
(* a stage satisfies follows from what its image satisfied.                *)
(***************************************************************************)
EXTENDS GameDataPipe, SequenceTheorems, TLAPS

USE PipeAssumption

----------------------------------------------------------------------------
(* The inductive invariant. *)

\* Client and server agree on the state of the connection, and only a live one has
\* anything under way.
Connection ==
  /\ link = "open" <=> srv \in {"length", "payload", "store"}
  /\ link = "backlog" => srv = "accept"
  /\ wire # <<>> => link \in {"backlog", "open"}
  /\ pc \in {"start", "connect"} => link = "none"

\* The end of the stream is sent last.
EofIsLast == \A k \in 1 .. Len(wire) : wire[k] = Eof => k = Len(wire) /\ pc = "ended"

\* A connection starts with an empty cache: the last one went with its overlay.
StartsAfresh == pc \in {"start", "connect"} \/ link \in {"reset", "dead"} => cache = NoData

\* What is on its way was read from the game.
Genuine ==
  \A k \in 1 .. Stages : Occupied(k) =>
    /\ Stage(k).from <= Stage(k).to
    /\ Stage(k).to <= lastNode
    /\ Stage(k).ver <= game

\* The events listed are those of the snapshot shown and of earlier ones.
ListedIsShown == \A k \in 1 .. Len(history) : history[k] <= shown.to

PipeInv ==
  /\ TypeOK
  /\ Connection /\ EofIsLast /\ PayloadFollowsLength
  /\ StartsAfresh /\ Genuine /\ EventsTravelOnce /\ NoGapOnTheWire
  /\ ListedIsShown /\ NewestEventLast
----------------------------------------------------------------------------
(* What the definitions say of a well-typed state. *)

LEMMA WireTypes ==
  ASSUME TypeOK, NEW k \in 1 .. Len(wire)
  PROVE  /\ wire[k] \in Message /\ wire[k].data \in Snapshot
         /\ wire[k].kind \in {"length", "payload", "eof"}
         /\ wire[k].kind = "length" => wire[k] = Length
         /\ wire[k].kind = "eof" => wire[k] = Eof
<1>1. wire[k] \in Message
  BY DEF TypeOK
<1>2. NoData \in Snapshot
  BY DEF NoData, Snapshot
<1> QED
  BY <1>1, <1>2 DEF Message, Length, Eof, Payload

LEMMA MessagesDiffer ==
  /\ Length # Eof
  /\ Length.kind = "length" /\ Eof.kind = "eof"
  /\ \A s : Payload(s).kind = "payload" /\ Payload(s).data = s
  /\ \A s : Payload(s) # Length /\ Payload(s) # Eof
  /\ Length \in Message /\ Eof \in Message
  /\ \A s \in Snapshot : Payload(s) \in Message
BY DEF Length, Eof, Payload, Message

\* The stages, spelled out.
StageForm ==
  /\ Stages \in Nat /\ Stages >= 4 /\ Stages = Len(wire) + 4
  /\ Stage(1) = shown /\ Stage(2) = cache /\ Stage(3) = got
  /\ Stage(Stages) = packet
  /\ \A k \in 4 .. Stages - 1 : k - 3 \in 1 .. Len(wire) /\ Stage(k) = wire[k - 3].data
  /\ \A k \in 1 .. Stages : Stage(k) \in Snapshot
  /\ Occupied(1) /\ Occupied(2)
  /\ Occupied(3) <=> srv = "store"
  /\ \A k \in 4 .. Stages - 1 : Occupied(k) <=> wire[k - 3].kind = "payload"
  /\ Occupied(Stages) <=> pc \in {"sendLength", "sendPayload"}

LEMMA StageTypes == TypeOK => StageForm
<1> SUFFICES ASSUME TypeOK PROVE StageForm
  OBVIOUS
<1>1. Len(wire) \in Nat
  BY DEF TypeOK
<1>2. Stages \in Nat /\ Stages >= 4 /\ Stages = Len(wire) + 4
  BY <1>1 DEF Stages
<1>3. /\ Stage(1) = shown /\ Stage(2) = cache /\ Stage(3) = got
      /\ Stage(Stages) = packet
      /\ \A k \in 4 .. Stages - 1 : Stage(k) = wire[k - 3].data
  BY <1>2 DEF Stage
<1>4. \A k \in 4 .. Stages - 1 : k - 3 \in 1 .. Len(wire)
  BY <1>1, <1>2
<1>5. \A k \in 4 .. Stages - 1 : Stage(k) \in Snapshot
  BY <1>3, <1>4, WireTypes
<1>6. \A k \in 1 .. Stages : Stage(k) \in Snapshot
  <2> TAKE k \in 1 .. Stages
  <2>1. k \in {1, 2, 3, Stages} \/ k \in 4 .. Stages - 1
    BY <1>2
  <2> QED
    BY <2>1, <1>3, <1>5 DEF TypeOK
<1>7. /\ Occupied(1) /\ Occupied(2)
      /\ Occupied(3) <=> srv = "store"
      /\ \A k \in 4 .. Stages - 1 : Occupied(k) <=> wire[k - 3].kind = "payload"
      /\ Occupied(Stages) <=> pc \in {"sendLength", "sendPayload"}
  BY <1>2 DEF Occupied
<1> QED
  BY <1>2, <1>3, <1>4, <1>6, <1>7 DEF StageForm

LEMMA StageTypesNext == TypeOK' => StageForm'
BY StageTypes, PTL

LEMMA SnapshotTypes ==
  ASSUME NEW s \in Snapshot
  PROVE  s.ver \in 0 .. MaxTicks /\ s.from \in 0 .. MaxTicks /\ s.to \in 0 .. MaxTicks
BY DEF Snapshot

----------------------------------------------------------------------------
(* Types. *)

LEMMA EventsAre ==
  ASSUME NEW s \in Snapshot, s.from <= s.to
  PROVE  /\ Events(s) \in Seq(1 .. MaxTicks)
         /\ Len(Events(s)) = s.to - s.from
         /\ \A k \in 1 .. Len(Events(s)) : Events(s)[k] = s.from + k
<1>1. s.to - s.from \in Nat
  BY SnapshotTypes
<1>2. \A k \in 1 .. s.to - s.from : s.from + k \in 1 .. MaxTicks
  BY SnapshotTypes
<1> QED
  BY <1>1, <1>2 DEF Events

\* Trimming keeps the end of a history.
LEMMA TrimmedKeepsEnd ==
  ASSUME NEW S, NEW h \in Seq(S)
  PROVE  /\ Trimmed(h) \in Seq(S) /\ Len(Trimmed(h)) <= kMaxHistory
         /\ \E off \in Nat :
              /\ Len(h) = Len(Trimmed(h)) + off
              /\ \A k \in 1 .. Len(Trimmed(h)) : Trimmed(h)[k] = h[k + off]
<1>1. CASE Len(h) > kMaxHistory
  <2> DEFINE off == Len(h) - kMaxHistory
  <2>1. off \in Nat /\ Trimmed(h) = SubSeq(h, off + 1, Len(h))
    BY <1>1 DEF Trimmed
  <2>2. off + 1 \in 1 .. Len(h) /\ Len(h) \in 1 .. Len(h)
    BY <1>1, <2>1
  <2>3. /\ SubSeq(h, off + 1, Len(h)) \in Seq(S)
        /\ Len(SubSeq(h, off + 1, Len(h))) = kMaxHistory
        /\ \A k \in 1 .. kMaxHistory : SubSeq(h, off + 1, Len(h))[k] = h[k + off]
    BY <1>1, <2>1, <2>2
  <2>4. /\ Trimmed(h) \in Seq(S) /\ Len(Trimmed(h)) = kMaxHistory
        /\ \A k \in 1 .. Len(Trimmed(h)) : Trimmed(h)[k] = h[k + off]
    BY <2>1, <2>3
  <2>5. Len(h) = Len(Trimmed(h)) + off /\ off \in Nat
    BY <2>1, <2>4
  <2> HIDE DEF off
  <2> QED
    BY <2>4, <2>5
<1>2. CASE ~(Len(h) > kMaxHistory)
  <2>1. Trimmed(h) = h /\ Len(h) <= kMaxHistory /\ Len(h) \in Nat
    BY <1>2 DEF Trimmed
  <2>2. \A k \in 1 .. Len(h) : k + 0 = k
    OBVIOUS
  <2> QED
    BY <2>1, <2>2
<1> QED
  BY <1>1, <1>2

LEMMA SentTypes ==
  ASSUME TypeOK, NEW m \in Message, Sent(m)
  PROVE  /\ wire' \in Seq(Message)
         /\ link' \in {"none", "backlog", "open", "reset", "dead"}
<1>1. wire \in Seq(Message)
  BY DEF TypeOK
<1>2. Append(wire, m) \in Seq(Message)
  BY <1>1
<1> QED
  BY <1>1, <1>2 DEF Sent, TypeOK

LEMMA TypesKept ==
  ASSUME TypeOK, Genuine, Next
  PROVE  TypeOK'
<1> USE DEF TypeOK
<1>1. CASE GameTick
  BY <1>1 DEF GameTick, clientVars, linkVars, readerVars, overlayVars
<1>2. CASE ThreadStarts
  BY <1>2 DEF ThreadStarts, gameVars, linkVars, readerVars, overlayVars
<1>3. CASE Connect
  BY <1>3 DEF Connect, gameVars, readerVars, overlayVars
<1>4. CASE ReadGame
  <2> DEFINE to == AtMost(log, lastNode + kMaxCombatLogEvents)
  <2>1. to \in 0 .. log /\ to \in 0 .. MaxTicks
    BY PipeAssumption DEF AtMost
  <2>2. packet' = [ver |-> game, from |-> lastNode, to |-> to] /\ lastNode' = to
    BY <1>4 DEF ReadGame
  <2>3. packet' \in Snapshot /\ lastNode' \in 0 .. log
    BY <2>1, <2>2, PipeAssumption DEF Snapshot
  <2>4. pc' = "sendLength" /\ UNCHANGED <<gameVars, running, linkVars, readerVars, overlayVars>>
    BY <1>4 DEF ReadGame
  <2> QED
    BY <2>3, <2>4 DEF gameVars, linkVars, readerVars, overlayVars
<1>5. CASE SendLength
  <2>1. wire' \in Seq(Message) /\ link' \in {"none", "backlog", "open", "reset", "dead"}
    BY <1>5, MessagesDiffer, SentTypes DEF SendLength
  <2> QED
    BY <1>5, <2>1 DEF SendLength, gameVars, readerVars, overlayVars
<1>6. CASE SendPayload
  <2>1. wire' \in Seq(Message) /\ link' \in {"none", "backlog", "open", "reset", "dead"}
    BY <1>6, MessagesDiffer, SentTypes DEF SendPayload
  <2> QED
    BY <1>6, <2>1 DEF SendPayload, gameVars, readerVars, overlayVars
<1>7. CASE SendFails
  BY <1>7 DEF SendFails, gameVars, readerVars, overlayVars
<1>8. CASE WakeUp
  BY <1>8 DEF WakeUp, gameVars, linkVars, readerVars, overlayVars
<1>9. CASE ThreadEnds
  <2>1. wire' = wire \/ wire' = Append(wire, Eof)
    BY <1>9 DEF ThreadEnds
  <2>2. wire' \in Seq(Message)
    BY <2>1, MessagesDiffer
  <2> QED
    BY <1>9, <2>2 DEF ThreadEnds, gameVars, readerVars, overlayVars
<1>10. CASE Detach
  BY <1>10 DEF Detach, gameVars, linkVars, readerVars, overlayVars
<1>11. CASE Listen
  BY <1>11 DEF Listen, gameVars, clientVars, linkVars, overlayVars
<1>12. CASE Accept
  BY <1>12 DEF Accept, gameVars, clientVars, overlayVars
<1>13. CASE ReadLength
  <2>1. wire' = Tail(wire) \/ wire' = <<>>
    BY <1>13 DEF ReadLength
  <2>2. /\ wire \in Seq(Message) /\ wire # <<>>
        /\ Tail(wire) \in Seq(Message) /\ <<>> \in Seq(Message)
    <3>1. wire \in Seq(Message) /\ wire # <<>>
      BY <1>13 DEF ReadLength
    <3> QED
      BY <3>1, HeadTailProperties
  <2>3. wire' \in Seq(Message)
    BY <2>1, <2>2
  <2> QED
    BY <1>13, <2>3 DEF ReadLength, gameVars, clientVars, overlayVars
<1>14. CASE ReadPayload
  <2>1. Head(wire) = wire[1] /\ 1 \in 1 .. Len(wire)
    BY <1>14 DEF ReadPayload
  <2>2. Head(wire).data \in Snapshot
    BY <2>1, WireTypes
  <2> QED
    BY <1>14, <2>2 DEF ReadPayload, gameVars, clientVars, overlayVars
<1>15. CASE Store
  BY <1>15 DEF Store, gameVars, clientVars, linkVars, overlayVars
<1>16. CASE Frame
  <2>1. cache.from <= cache.to
    BY StageTypes, SMTT(30) DEF StageForm, Genuine
  <2>2. Events(cache) \in Seq(1 .. MaxTicks)
    BY <2>1, EventsAre
  <2>3. history \o Events(cache) \in Seq(1 .. MaxTicks)
    BY <2>2
  <2>4. history' \in Seq(1 .. MaxTicks) /\ Len(history') <= kMaxHistory
    BY <1>16, <2>3, TrimmedKeepsEnd DEF Frame
  <2> QED
    BY <1>16, <2>4 DEF Frame, gameVars, clientVars, linkVars, readerVars
<1>17. CASE RecreateOverlay
  BY <1>17 DEF RecreateOverlay, NoData, Snapshot, gameVars, clientVars
<1> QED
  BY <1>1, <1>2, <1>3, <1>4, <1>5, <1>6, <1>7, <1>8, <1>9, <1>10, <1>11, <1>12,
     <1>13, <1>14, <1>15, <1>16, <1>17 DEF Next, Client, Server

----------------------------------------------------------------------------
(* The connection and its framing. *)

LEMMA ConnectionKept ==
  ASSUME TypeOK, Connection, EofIsLast, StartsAfresh, Next
  PROVE  Connection' /\ StartsAfresh'
<1> USE DEF Connection, StartsAfresh
<1>1. CASE GameTick
  BY <1>1 DEF GameTick, clientVars, linkVars, readerVars
<1>2. CASE ThreadStarts
  BY <1>2 DEF ThreadStarts, linkVars, readerVars
<1>3. CASE Connect
  BY <1>3 DEF Connect, Listening, readerVars
<1>4. CASE ReadGame
  BY <1>4 DEF ReadGame, linkVars, readerVars
<1>5. CASE SendLength
  BY <1>5 DEF SendLength, Sent, readerVars
<1>6. CASE SendPayload
  BY <1>6 DEF SendPayload, Sent, readerVars
<1>7. CASE SendFails
  BY <1>7 DEF SendFails, readerVars
<1>8. CASE WakeUp
  BY <1>8 DEF WakeUp, linkVars, readerVars
<1>9. CASE ThreadEnds
  BY <1>9 DEF ThreadEnds, readerVars, TypeOK
<1>10. CASE Detach
  BY <1>10 DEF Detach, linkVars, readerVars
<1>11. CASE Listen
  BY <1>11 DEF Listen, clientVars, linkVars
<1>12. CASE Accept
  BY <1>12 DEF Accept, clientVars
<1>13. CASE ReadLength
  <2>1. Head(wire) = wire[1] /\ 1 \in 1 .. Len(wire)
    BY <1>13 DEF ReadLength, TypeOK
  <2>2. wire[1] = Eof => pc = "ended"
    BY <2>1 DEF EofIsLast
  <2>3. CASE Head(wire) = Length /\ wire' = Tail(wire) /\ srv' = "payload" /\ UNCHANGED link
    BY <1>13, <2>3 DEF ReadLength, clientVars
  <2>4. CASE Head(wire) = Eof /\ wire' = <<>> /\ link' = "none" /\ srv' = "accept"
    BY <1>13, <2>1, <2>2, <2>4 DEF ReadLength, clientVars
  <2> QED
    BY <1>13, <2>3, <2>4 DEF ReadLength
<1>14. CASE ReadPayload
  BY <1>14 DEF ReadPayload, clientVars
<1>15. CASE Store
  BY <1>15 DEF Store, clientVars, linkVars
<1>16. CASE Frame
  BY <1>16 DEF Frame, clientVars, linkVars, readerVars
<1>17. CASE RecreateOverlay
  BY <1>17 DEF RecreateOverlay, clientVars, TypeOK
<1> QED
  BY <1>1, <1>2, <1>3, <1>4, <1>5, <1>6, <1>7, <1>8, <1>9, <1>10, <1>11, <1>12,
     <1>13, <1>14, <1>15, <1>16, <1>17 DEF Next, Client, Server

\* What sending, receiving and giving up do to the messages under way.
LEMMA AppendIs ==
  ASSUME TypeOK, NEW m, wire' = Append(wire, m)
  PROVE  /\ Len(wire) \in Nat /\ Len(wire') = Len(wire) + 1
         /\ \A k \in 1 .. Len(wire) : wire'[k] = wire[k]
         /\ wire'[Len(wire) + 1] = m
         /\ wire' # <<>> /\ (wire = <<>> <=> Len(wire) = 0)
<1>1. wire \in Seq(Message) /\ wire \in Seq(Message \cup {m})
  BY DEF TypeOK
<1> QED
  BY <1>1, AppendProperties, EmptySeq

LEMMA TailIs ==
  ASSUME TypeOK, wire # <<>>, wire' = Tail(wire)
  PROVE  /\ Len(wire) \in Nat \ {0} /\ Len(wire') = Len(wire) - 1
         /\ \A k \in 1 .. Len(wire') : k + 1 \in 1 .. Len(wire) /\ wire'[k] = wire[k + 1]
         /\ Head(wire) = wire[1]
         /\ wire' = <<>> <=> Len(wire) = 1
<1>1. wire \in Seq(Message) /\ Len(wire) \in Nat /\ Len(wire) # 0
  BY EmptySeq DEF TypeOK
<1>2. /\ wire' \in Seq(Message) /\ Len(wire') = Len(wire) - 1
      /\ \A k \in 1 .. Len(wire') : k + 1 \in 1 .. Len(wire) /\ wire'[k] = wire[k + 1]
  BY <1>1, HeadTailProperties
<1>3. wire' = <<>> <=> Len(wire') = 0
  BY <1>2, EmptySeq
<1> QED
  BY <1>1, <1>2, <1>3

\* The same, said of the stages.
Framing ==
  /\ \A k \in 1 .. Len(wire) :
       wire[k].kind = "payload"
         <=> IF k = 1 THEN srv = "payload" ELSE wire[k - 1] = Length
  /\ link \in {"backlog", "open"} =>
       (pc = "sendPayload"
         <=> IF wire = <<>> THEN srv = "payload" ELSE wire[Len(wire)] = Length)

LEMMA FramingIs == TypeOK => (Framing <=> PayloadFollowsLength)
<1> SUFFICES ASSUME TypeOK PROVE Framing <=> PayloadFollowsLength
  OBVIOUS
<1>1. Len(wire) \in Nat /\ (wire = <<>> <=> Len(wire) + 1 = 1) /\ Len(wire) + 1 - 1 = Len(wire)
  BY EmptySeq DEF TypeOK
<1> QED
  BY <1>1 DEF Framing, PayloadFollowsLength

LEMMA TailFramed ==
  ASSUME Len(wire) \in Nat \ {0}, EofIsLast, Framing,
         Len(wire') = Len(wire) - 1, wire' = <<>> <=> Len(wire) = 1, wire # <<>>,
         \A k \in 1 .. Len(wire') : k + 1 \in 1 .. Len(wire) /\ wire'[k] = wire[k + 1],
         srv' = "payload" <=> wire[1] = Length, pc' = pc, link' = link
  PROVE  EofIsLast' /\ Framing'
<1>1. EofIsLast'
  BY DEF EofIsLast
<1>2. ASSUME NEW k \in 1 .. Len(wire')
      PROVE  wire'[k].kind = "payload"
               <=> IF k = 1 THEN srv' = "payload" ELSE wire'[k - 1] = Length
  <2>1. wire[k + 1].kind = "payload" <=> wire[k] = Length
    BY <1>2 DEF Framing
  <2>2. CASE k = 1
    BY <1>2, <2>1, <2>2
  <2>3. CASE k # 1
    <3>1. k - 1 \in 1 .. Len(wire') /\ wire'[k - 1] = wire[k]
      BY <1>2, <2>3
    <3> QED
      BY <1>2, <2>1, <2>3, <3>1
  <2> QED
    BY <2>2, <2>3
<1>3. ASSUME link \in {"backlog", "open"}
      PROVE  pc = "sendPayload"
               <=> IF wire' = <<>> THEN srv' = "payload" ELSE wire'[Len(wire')] = Length
  <2>1. pc = "sendPayload" <=> wire[Len(wire)] = Length
    BY <1>3 DEF Framing
  <2>2. CASE Len(wire) = 1
    BY <2>1, <2>2
  <2>3. CASE Len(wire) # 1
    <3>1. Len(wire') \in 1 .. Len(wire') /\ Len(wire') + 1 = Len(wire)
      BY <2>3
    <3>2. wire'[Len(wire')] = wire[Len(wire)]
      BY <3>1
    <3> QED
      BY <2>1, <2>3, <3>2
  <2> QED
    BY <2>2, <2>3
<1> QED
  BY <1>1, <1>2, <1>3 DEF Framing

LEMMA FramingStep ==
  ASSUME TypeOK, Connection, EofIsLast, Framing, Next
  PROVE  EofIsLast' /\ Framing'
<1> USE DEF Framing, EofIsLast
<1>1. CASE GameTick
  BY <1>1 DEF GameTick, clientVars, linkVars, readerVars
<1>2. CASE ThreadStarts
  BY <1>2 DEF ThreadStarts, linkVars, readerVars
<1>3. CASE Connect
  <2>1. wire' = <<>> /\ Len(wire') = 0 /\ srv' = "accept"
    BY <1>3 DEF Connect, Connection, Listening, readerVars
  <2> QED
    BY <1>3, <2>1 DEF Connect
<1>4. CASE ReadGame
  BY <1>4 DEF ReadGame, linkVars, readerVars
<1>5. CASE SendLength
  <2>1. CASE wire' = Append(wire, Length)
    <3>1. Len(wire') # 0 /\ wire' # <<>>
      BY <2>1, AppendIs
    <3>2. wire = <<>> <=> Len(wire) = 0
      BY <2>1, AppendIs
    <3>3. link \in {"backlog", "open"}
      BY <1>5, <2>1, <3>1 DEF SendLength, Sent, Connection
    <3> QED
      BY <1>5, <2>1, <3>1, <3>2, <3>3, AppendIs, MessagesDiffer DEF SendLength, readerVars
  <2>2. CASE wire' = wire /\ link' = "dead"
    BY <1>5, <2>2 DEF SendLength, readerVars, Connection
  <2> QED
    BY <1>5, <2>1, <2>2 DEF SendLength, Sent
<1>6. CASE SendPayload
  <2>1. CASE wire' = Append(wire, Payload(packet))
    <3>1. Len(wire') # 0 /\ wire' # <<>>
      BY <2>1, AppendIs
    <3>2. wire = <<>> <=> Len(wire) = 0
      BY <2>1, AppendIs
    <3>3. link \in {"backlog", "open"}
      BY <1>6, <2>1, <3>1 DEF SendPayload, Sent, Connection
    <3> QED
      BY <1>6, <2>1, <3>1, <3>2, <3>3, AppendIs, MessagesDiffer DEF SendPayload, readerVars
  <2>2. CASE wire' = wire /\ link' = "dead"
    BY <1>6, <2>2 DEF SendPayload, readerVars, Connection
  <2> QED
    BY <1>6, <2>1, <2>2 DEF SendPayload, Sent
<1>7. CASE SendFails
  <2>1. wire = <<>> /\ Len(wire) = 0
    BY <1>7, EmptySeq DEF SendFails, Connection
  <2> QED
    BY <1>7, <2>1 DEF SendFails
<1>8. CASE WakeUp
  BY <1>8 DEF WakeUp, linkVars, readerVars
<1>9. CASE ThreadEnds
  <2>1. CASE link \in {"backlog", "open"} /\ wire' = Append(wire, Eof) /\ UNCHANGED link
    <3>1. Len(wire') # 0 /\ wire' # <<>>
      BY <2>1, AppendIs
    <3>2. wire = <<>> <=> Len(wire) = 0
      BY <2>1, AppendIs
    <3> QED
      BY <1>9, <2>1, <3>1, <3>2, AppendIs, MessagesDiffer DEF ThreadEnds, readerVars
  <2>2. CASE link' = "none" /\ UNCHANGED wire
    BY <1>9, <2>2 DEF ThreadEnds, readerVars
  <2> QED
    BY <1>9, <2>1, <2>2 DEF ThreadEnds
<1>10. CASE Detach
  BY <1>10 DEF Detach, linkVars, readerVars
<1>11. CASE Listen
  BY <1>11 DEF Listen, clientVars, linkVars, Connection
<1>12. CASE Accept
  BY <1>12 DEF Accept, clientVars, Connection
<1>13. CASE ReadLength
  <2>1. CASE Head(wire) = Length /\ wire' = Tail(wire) /\ srv' = "payload" /\ UNCHANGED link
    <3>1. wire # <<>> /\ Len(wire) \in Nat \ {0} /\ wire[1] = Length
      BY <1>13, <2>1, TailIs, Zenon DEF ReadLength
    <3>2. /\ Len(wire') = Len(wire) - 1 /\ (wire' = <<>> <=> Len(wire) = 1)
          /\ \A k \in 1 .. Len(wire') : k + 1 \in 1 .. Len(wire) /\ wire'[k] = wire[k + 1]
      BY <3>1, <2>1, TailIs, Zenon
    <3>3. pc' = pc /\ link' = link /\ srv' = "payload"
      BY <1>13, <2>1 DEF ReadLength, clientVars
    <3> QED
      BY <3>1, <3>2, <3>3, TailFramed
  <2>2. CASE wire' = <<>> /\ link' = "none"
    BY <2>2, EmptySeq
  <2> QED
    BY <1>13, <2>1, <2>2 DEF ReadLength
<1>14. CASE ReadPayload
  <2>1. wire # <<>> /\ Len(wire) \in Nat \ {0} /\ wire[1].kind = "payload"
    BY <1>14, TailIs, Zenon DEF ReadPayload
  <2>2. /\ Len(wire') = Len(wire) - 1 /\ (wire' = <<>> <=> Len(wire) = 1)
        /\ \A k \in 1 .. Len(wire') : k + 1 \in 1 .. Len(wire) /\ wire'[k] = wire[k + 1]
    BY <1>14, <2>1, TailIs, Zenon DEF ReadPayload
  <2>3. wire[1] # Length
    BY <2>1, MessagesDiffer
  <2>4. pc' = pc /\ link' = link /\ srv' = "store"
    BY <1>14 DEF ReadPayload, clientVars
  <2> QED
    BY <2>1, <2>2, <2>3, <2>4, TailFramed
<1>15. CASE Store
  BY <1>15 DEF Store, clientVars, linkVars
<1>16. CASE Frame
  BY <1>16 DEF Frame, clientVars, linkVars, readerVars
<1>17. CASE RecreateOverlay
  <2>1. wire' = <<>> /\ Len(wire') = 0 /\ link' \notin {"backlog", "open"}
    BY <1>17, EmptySeq DEF RecreateOverlay, TypeOK
  <2> QED
    BY <2>1
<1> QED
  BY <1>1, <1>2, <1>3, <1>4, <1>5, <1>6, <1>7, <1>8, <1>9, <1>10, <1>11, <1>12,
     <1>13, <1>14, <1>15, <1>16, <1>17 DEF Next, Client, Server

LEMMA FramingKept ==
  ASSUME TypeOK, TypeOK', Connection, EofIsLast, PayloadFollowsLength, Next
  PROVE  EofIsLast' /\ PayloadFollowsLength'
<1>1. EofIsLast' /\ Framing'
  BY FramingIs, FramingStep
<1>2. TypeOK' => (Framing' <=> PayloadFollowsLength')
  BY FramingIs, PTL
<1> QED
  BY <1>1, <1>2

----------------------------------------------------------------------------
(* Snapshots on their way.  f takes the stages after a step to those       *)
(* before it.                                                              *)

Travelling == Genuine /\ EventsTravelOnce /\ NoGapOnTheWire

\* Every snapshot was there before, and in no other order.
Carried(f) ==
  /\ \A k \in 1 .. Stages' : Occupied(k)' =>
       f[k] \in 1 .. Stages /\ Occupied(f[k]) /\ Stage(f[k]) = Stage(k)'
  /\ \A j, k \in 1 .. Stages' : j < k /\ Occupied(j)' /\ Occupied(k)' => f[j] <= f[k]

\* None is lost or doubled on the way from the cache to the game.
Complete(f) ==
  /\ \A k \in 2 .. Stages' : Occupied(k)' => f[k] # 1
  /\ \A j, k \in 2 .. Stages' : j < k /\ Occupied(j)' /\ Occupied(k)' => f[j] < f[k]
  /\ \A j \in 2 .. Stages' : \A i \in 1 .. Stages :
       Occupied(j)' /\ Occupied(i) /\ f[j] < i
         => \E k \in 2 .. Stages' : Occupied(k)' /\ f[k] = i

LEMMA CarriedKeeps ==
  ASSUME TypeOK, TypeOK', Genuine, EventsTravelOnce, NEW f, Carried(f),
         lastNode' = lastNode, game' \in {game, game + 1}
  PROVE  Genuine' /\ EventsTravelOnce'
<1>1. \A k \in 1 .. Stages : Stage(k).ver \in Int
  BY StageTypes, SnapshotTypes DEF StageForm
<1>2. game \in Int /\ Stages \in Nat
  BY StageTypes DEF StageForm, TypeOK
<1>3. Genuine'
  BY <1>1, <1>2 DEF Genuine, Carried
<1>4. \A k \in 1 .. Stages' : Occupied(k)' => Stage(k)'.to <= lastNode'
  BY DEF EventsTravelOnce, Carried
<1>5. ASSUME NEW j \in 1 .. Stages', NEW k \in 1 .. Stages', j < k, Occupied(j)', Occupied(k)'
      PROVE  Before(Stage(j)', Stage(k)')
  <2>1. /\ f[j] \in 1 .. Stages /\ Occupied(f[j]) /\ Stage(f[j]) = Stage(j)'
        /\ f[k] \in 1 .. Stages /\ Occupied(f[k]) /\ Stage(f[k]) = Stage(k)'
        /\ f[j] <= f[k]
    BY <1>5 DEF Carried
  <2>2. CASE f[j] = f[k]
    BY <2>1, <2>2 DEF Before
  <2>3. CASE f[j] < f[k]
    BY <2>1, <2>3 DEF EventsTravelOnce
  <2> QED
    BY <1>2, <2>1, <2>2, <2>3
<1>6. EventsTravelOnce'
  BY <1>4, <1>5 DEF EventsTravelOnce, Before
<1> QED
  BY <1>3, <1>6

LEMMA CompleteKeeps ==
  ASSUME TypeOK, TypeOK', NoGapOnTheWire, NEW f, Carried(f), Complete(f),
         lastNode' = lastNode, link \in {"backlog", "open"}
  PROVE  NoGapOnTheWire'
<1>1. Stages \in Nat /\ Stages' \in Nat
  BY StageTypes, StageTypesNext DEF StageForm
<1> SUFFICES ASSUME NEW j \in 2 .. Stages', Occupied(j)', Stage(j)' # NoData
             PROVE
      \/ \E k \in j + 1 .. Stages' :
           /\ Occupied(k)' /\ Stage(k)'.from = Stage(j)'.to
           /\ \A i \in j + 1 .. k - 1 : ~Occupied(i)'
      \/ /\ \A k \in j + 1 .. Stages' : ~Occupied(k)'
         /\ Stage(j)'.to = lastNode'
  BY DEF NoGapOnTheWire
<1>2. /\ j \in 1 .. Stages'
      /\ f[j] \in 2 .. Stages /\ Occupied(f[j]) /\ Stage(f[j]) = Stage(j)'
  BY <1>1 DEF Carried, Complete
<1>3. CASE \E k \in f[j] + 1 .. Stages :
           /\ Occupied(k) /\ Stage(k).from = Stage(f[j]).to
           /\ \A i \in f[j] + 1 .. k - 1 : ~Occupied(i)
  <2>1. PICK n \in f[j] + 1 .. Stages :
           /\ Occupied(n) /\ Stage(n).from = Stage(f[j]).to
           /\ \A i \in f[j] + 1 .. n - 1 : ~Occupied(i)
    BY <1>3
  <2>2. n \in 1 .. Stages /\ f[j] < n
    BY <1>1, <1>2, <2>1
  <2>3. PICK k \in 2 .. Stages' : Occupied(k)' /\ f[k] = n
    BY <2>1, <2>2 DEF Complete
  <2>4. k \in 1 .. Stages' /\ Stage(k)' = Stage(n)
    BY <1>1, <2>3 DEF Carried
  <2>5. j < k
    <3>1. k < j => f[k] < f[j]
      BY <2>3 DEF Complete
    <3> QED
      BY <1>1, <1>2, <2>2, <2>3, <3>1
  <2>6. ASSUME NEW i \in j + 1 .. k - 1, Occupied(i)'
        PROVE  FALSE
    <3>1. i \in 2 .. Stages' /\ j < i /\ i < k /\ i \in 1 .. Stages'
      BY <1>1, <2>6
    <3>2. f[j] < f[i] /\ f[i] < n
      BY <3>1, <2>3, <2>6 DEF Complete
    <3>3. f[i] \in 1 .. Stages /\ Occupied(f[i])
      BY <3>1, <2>6 DEF Carried
    <3> QED
      BY <1>1, <1>2, <2>1, <3>2, <3>3
  <2> QED
    BY <1>1, <1>2, <2>1, <2>3, <2>4, <2>5, <2>6
<1>4. CASE /\ \A k \in f[j] + 1 .. Stages : ~Occupied(k)
           /\ Stage(f[j]).to = lastNode
  <2>1. ASSUME NEW k \in j + 1 .. Stages', Occupied(k)'
        PROVE  FALSE
    <3>1. k \in 2 .. Stages' /\ j < k /\ k \in 1 .. Stages'
      BY <1>1, <2>1
    <3>2. f[j] < f[k] /\ f[k] \in 1 .. Stages /\ Occupied(f[k])
      BY <3>1, <2>1 DEF Complete, Carried
    <3> QED
      BY <1>1, <1>2, <1>4, <3>2
  <2> QED
    BY <1>2, <1>4, <2>1
<1> QED
  BY <1>2, <1>3, <1>4 DEF NoGapOnTheWire

\* Steps that move no snapshot, and may lose the one being sent.
LEMMA NothingMoves ==
  ASSUME TypeOK, TypeOK', Travelling,
         wire' = wire, cache' = cache, got' = got, shown' = shown, packet' = packet,
         lastNode' = lastNode, game' \in {game, game + 1},
         srv' = "store" <=> srv = "store",
         pc' \in {"sendLength", "sendPayload"} => pc \in {"sendLength", "sendPayload"},
         link' \in {"backlog", "open"} =>
           /\ link \in {"backlog", "open"}
           /\ pc \in {"sendLength", "sendPayload"} => pc' \in {"sendLength", "sendPayload"}
  PROVE  Travelling'
<1> DEFINE f == [k \in Nat |-> k]
<1>1. StageForm /\ StageForm'
  BY StageTypes, StageTypesNext
<1>2. Stages' = Stages /\ Stages \in Nat /\ Stages >= 4
  BY <1>1 DEF StageForm
<1>3. ASSUME NEW k \in 1 .. Stages
      PROVE  /\ Stage(k)' = Stage(k)
             /\ Occupied(k)' => Occupied(k)
             /\ link' \in {"backlog", "open"} => (Occupied(k) => Occupied(k)')
  <2>1. k \in {1, 2, 3, Stages} \/ k \in 4 .. Stages - 1
    BY <1>2
  <2>2. CASE k \in {1, 2, 3}
    BY <1>1, <2>2 DEF StageForm
  <2>3. CASE k = Stages
    BY <1>1, <1>2, <2>3 DEF StageForm
  <2>4. CASE k \in 4 .. Stages - 1
    BY <1>1, <1>2, <2>4 DEF StageForm
  <2> QED
    BY <2>1, <2>2, <2>3, <2>4
<1>4. \A k \in 1 .. Stages : f[k] = k
  OBVIOUS
<1> HIDE DEF f
<1>5. Carried(f)
  BY <1>2, <1>3, <1>4 DEF Carried
<1>6. Genuine' /\ EventsTravelOnce'
  BY <1>5, CarriedKeeps DEF Travelling
<1>7. CASE link' \in {"backlog", "open"}
  <2>1. Complete(f)
    <3>1. \A k \in 2 .. Stages : k \in 1 .. Stages
      BY <1>2
    <3>2. ASSUME NEW j \in 2 .. Stages, NEW i \in 1 .. Stages, Occupied(i), f[j] < i
          PROVE  i \in 2 .. Stages /\ Occupied(i)' /\ f[i] = i
      BY <1>2, <1>3, <1>4, <1>7, <3>1, <3>2
    <3> QED
      BY <1>2, <1>4, <3>1, <3>2 DEF Complete
  <2> QED
    BY <1>5, <1>6, <1>7, <2>1, CompleteKeeps DEF Travelling
<1>8. CASE link' \notin {"backlog", "open"}
  BY <1>6, <1>8 DEF Travelling, NoGapOnTheWire
<1> QED
  BY <1>7, <1>8

LEMMA FrameTravels ==
  ASSUME TypeOK, TypeOK', Travelling, Frame
  PROVE  Travelling'
<1> DEFINE f == [k \in Nat |-> IF k = 1 THEN 2 ELSE k]
<1>1. StageForm /\ StageForm'
  BY StageTypes, StageTypesNext
<1>2. Stages' = Stages /\ Stages \in Nat /\ Stages >= 4
  BY <1>1 DEF StageForm, Frame, linkVars
<1>3. /\ wire' = wire /\ cache' = cache /\ got' = got /\ packet' = packet
      /\ srv' = srv /\ pc' = pc /\ shown' = cache /\ link' = link
      /\ lastNode' = lastNode /\ game' = game
  BY DEF Frame, gameVars, clientVars, linkVars, readerVars
<1>4. ASSUME NEW k \in 2 .. Stages
      PROVE  Stage(k)' = Stage(k) /\ (Occupied(k)' <=> Occupied(k))
  <2>1. k \in {2, 3, Stages} \/ k \in 4 .. Stages - 1
    BY <1>2
  <2>2. CASE k \in {2, 3}
    BY <1>1, <1>3, <2>2 DEF StageForm
  <2>3. CASE k = Stages
    BY <1>1, <1>2, <1>3, <2>3 DEF StageForm
  <2>4. CASE k \in 4 .. Stages - 1
    BY <1>1, <1>2, <1>3, <2>4 DEF StageForm
  <2> QED
    BY <2>1, <2>2, <2>3, <2>4
<1>5. Stage(1)' = Stage(2) /\ Occupied(2)
  BY <1>1, <1>3 DEF StageForm
<1>6. f[1] = 2 /\ \A k \in 2 .. Stages : f[k] = k
  OBVIOUS
<1> HIDE DEF f
<1>7. Carried(f)
  <2>1. \A k \in 1 .. Stages : k = 1 \/ k \in 2 .. Stages
    BY <1>2
  <2>2. 2 \in 1 .. Stages
    BY <1>2
  <2> QED
    BY <1>2, <1>4, <1>5, <1>6, <2>1, <2>2 DEF Carried
<1>8. Genuine' /\ EventsTravelOnce'
  BY <1>3, <1>7, CarriedKeeps DEF Travelling
<1>9. Complete(f)
  <2>1. ASSUME NEW j \in 2 .. Stages, NEW i \in 1 .. Stages, Occupied(i), f[j] < i
        PROVE  i \in 2 .. Stages /\ Occupied(i)' /\ f[i] = i
    BY <1>2, <1>4, <1>6, <2>1
  <2> QED
    BY <1>2, <1>6, <2>1 DEF Complete
<1>10. NoGapOnTheWire'
  BY <1>3, <1>7, <1>9, CompleteKeeps DEF Travelling, NoGapOnTheWire
<1> QED
  BY <1>8, <1>10 DEF Travelling

\* A message enters the wire: the snapshot itself, or something that carries none.
LEMMA MessageEnters ==
  ASSUME TypeOK, TypeOK', Travelling, NEW m, wire' = Append(wire, m),
         cache' = cache, got' = got, shown' = shown, packet' = packet, srv' = srv,
         lastNode' = lastNode, game' = game, link' = link,
         pc' \notin {"sendLength", "sendPayload"} \/ pc' = "sendPayload",
         \/ m = Payload(packet) /\ pc = "sendPayload" /\ pc' = "sleep"
         \/ m = Eof /\ pc \in {"connect", "sleep"} /\ pc' = "ended"
         \/ m = Length /\ pc = "sendLength" /\ pc' = "sendPayload"
  PROVE  Travelling'
<1>1. StageForm /\ StageForm'
  BY StageTypes, StageTypesNext
<1>2. PICK n \in Nat : Stages = n /\ Stages' = n + 1 /\ n >= 4
  BY <1>1, AppendIs DEF StageForm
<1> DEFINE f == [k \in Nat |-> IF m = Length /\ k = n + 1 THEN n ELSE k]
<1>3. ASSUME NEW k \in 1 .. n - 1
      PROVE  Stage(k)' = Stage(k) /\ (Occupied(k)' <=> Occupied(k))
  <2>1. k \in {1, 2, 3} \/ k \in 4 .. n - 1
    BY <1>2
  <2>2. CASE k \in {1, 2, 3}
    BY <1>1, <2>2 DEF StageForm
  <2>3. CASE k \in 4 .. n - 1
    <3>1. k \in 4 .. n /\ k - 3 \in 1 .. Len(wire)
      BY <1>1, <1>2, <2>3 DEF StageForm
    <3>2. wire'[k - 3] = wire[k - 3]
      BY <3>1, AppendIs
    <3> QED
      BY <1>1, <1>2, <2>3, <3>1, <3>2, SMTT(30) DEF StageForm
  <2> QED
    BY <2>1, <2>2, <2>3
<1>4. Stage(n)' = m.data /\ (Occupied(n)' <=> m.kind = "payload")
  <2>1. n \in 4 .. n /\ n - 3 = Len(wire) + 1
    BY <1>1, <1>2 DEF StageForm
  <2>2. wire'[n - 3] = m
    BY <2>1, AppendIs
  <2>3. \A k \in 4 .. n :
          Stage(k)' = wire'[k - 3].data /\ (Occupied(k)' <=> wire'[k - 3].kind = "payload")
    BY <1>1, <1>2 DEF StageForm
  <2> QED
    BY <2>1, <2>2, <2>3
<1>5. /\ Stage(n + 1)' = packet /\ Stage(n) = packet
      /\ Occupied(n) <=> pc \in {"sendLength", "sendPayload"}
      /\ Occupied(n + 1)' <=> pc' = "sendPayload"
  BY <1>1, <1>2 DEF StageForm
<1>6. /\ \A k \in 1 .. n : f[k] = k
      /\ m = Length => f[n + 1] = n
      /\ \A k \in 1 .. n + 1 : k \in 1 .. n - 1 \/ k = n \/ k = n + 1
      /\ n \in 2 .. n + 1 /\ n + 1 \in 2 .. n + 1
  BY <1>2
<1> HIDE DEF f
<1>7. CASE m = Length
  <2>1. ~Occupied(n)' /\ Occupied(n + 1)' /\ Occupied(n)
        /\ Stage(n + 1)' = Stage(n)
    BY <1>2, <1>4, <1>5, <1>7, MessagesDiffer
  <2>2. Carried(f)
    BY <1>2, <1>3, <1>6, <1>7, <2>1 DEF Carried
  <2>3. ASSUME NEW i \in 1 .. n, Occupied(i), i # 1
        PROVE  \E k \in 2 .. n + 1 : Occupied(k)' /\ f[k] = i
    <3>1. CASE i = n
      BY <1>6, <1>7, <2>1, <3>1
    <3>2. CASE i \in 1 .. n - 1
      BY <1>2, <1>3, <1>6, <2>3, <3>2
    <3> QED
      BY <1>2, <3>1, <3>2
  <2>4. Complete(f)
    <3>1. ASSUME NEW j \in 2 .. n + 1, NEW k \in 2 .. n + 1, j < k, Occupied(j)', Occupied(k)'
          PROVE  f[j] < f[k]
      <4>1. j \in 1 .. n - 1 /\ f[j] = j
        BY <1>2, <1>6, <2>1, <3>1
      <4> QED
        BY <1>2, <1>6, <1>7, <2>1, <3>1, <4>1
    <3>2. ASSUME NEW k \in 2 .. n + 1, Occupied(k)'
          PROVE  f[k] # 1 /\ f[k] \in 1 .. n
      BY <1>2, <1>6, <1>7, <2>1, <3>2
    <3>3. \A j \in 2 .. n + 1 : \A i \in 1 .. n : Occupied(j)' /\ f[j] < i => i # 1
      BY <1>2, <3>2
    <3> QED
      BY <1>2, <2>3, <3>1, <3>2, <3>3 DEF Complete
  <2> QED
    BY <2>2, <2>4, CarriedKeeps, CompleteKeeps DEF Travelling, NoGapOnTheWire
<1>8. CASE m # Length
  <2>1. ~Occupied(n + 1)' /\ (Occupied(n)' <=> Occupied(n))
        /\ (Occupied(n) => Stage(n)' = Stage(n))
    BY <1>2, <1>4, <1>5, <1>8, MessagesDiffer
  <2>2. Carried(f)
    BY <1>2, <1>3, <1>6, <2>1 DEF Carried
  <2>3. ASSUME NEW j \in 2 .. n + 1, NEW i \in 1 .. n, Occupied(i), Occupied(j)', f[j] < i
        PROVE  i \in 2 .. n + 1 /\ Occupied(i)' /\ f[i] = i
    <3>1. j \in 1 .. n /\ f[j] = j
      BY <1>2, <1>6, <2>1, <2>3
    <3> QED
      BY <1>2, <1>3, <1>6, <2>1, <2>3, <3>1
  <2>4. \A k \in 2 .. n + 1 : Occupied(k)' => k \in 1 .. n /\ f[k] = k
    BY <1>2, <1>6, <2>1
  <2>5. Complete(f)
    BY <1>2, <2>3, <2>4 DEF Complete
  <2> QED
    BY <2>2, <2>5, CarriedKeeps, CompleteKeeps DEF Travelling, NoGapOnTheWire
<1> QED
  BY <1>7, <1>8

\* A message leaves the wire: every stage behind the server moves up.
LEMMA MessageLeaves ==
  ASSUME TypeOK, TypeOK', Travelling, wire # <<>>, wire' = Tail(wire),
         cache' = cache, shown' = shown, packet' = packet, pc' = pc,
         lastNode' = lastNode, game' = game, link' = link, srv # "store",
         \/ Head(wire) = Length /\ srv' # "store"
         \/ Head(wire).kind = "payload" /\ srv' = "store" /\ got' = Head(wire).data
  PROVE  Travelling'
<1>1. StageForm /\ StageForm'
  BY StageTypes, StageTypesNext
<1>2. PICK n \in Nat : Stages = n + 1 /\ Stages' = n /\ n >= 4 /\ Len(wire) = n - 3
  BY <1>1, TailIs DEF StageForm
<1> DEFINE f == [k \in Nat |-> IF k < 3 THEN k ELSE k + 1]
<1>3. /\ \A k \in 1 .. 2 : f[k] = k
      /\ \A k \in 3 .. n : f[k] = k + 1
  OBVIOUS
<1> HIDE DEF f
<1>4. ASSUME NEW k \in 1 .. 2
      PROVE  Stage(k)' = Stage(k) /\ Occupied(k)' /\ Occupied(k)
  BY <1>1, <1>4 DEF StageForm
<1>5. ~Occupied(3) /\ (Occupied(3)' <=> Occupied(4))
      /\ (Occupied(4) => Stage(3)' = Stage(4))
  <2>1. 4 \in 4 .. Stages - 1 /\ wire[4 - 3] = Head(wire)
    BY <1>2, TailIs
  <2>2. (Occupied(4) <=> Head(wire).kind = "payload") /\ Stage(4) = Head(wire).data
    BY <1>1, <2>1 DEF StageForm
  <2> QED
    BY <1>1, <2>2, MessagesDiffer DEF StageForm
<1>6. ASSUME NEW k \in 4 .. n
      PROVE  Stage(k)' = Stage(k + 1) /\ (Occupied(k)' <=> Occupied(k + 1))
  <2>1. CASE k = n
    BY <1>1, <1>2, <2>1 DEF StageForm
  <2>2. CASE k \in 4 .. n - 1
    <3>1. k - 3 \in 1 .. Len(wire') /\ k + 1 \in 4 .. n /\ k + 1 - 3 = k - 3 + 1
      BY <1>2, <2>2, TailIs
    <3>2. wire'[k - 3] = wire[k + 1 - 3]
      BY <3>1, TailIs
    <3>3. Stage(k)' = wire'[k - 3].data /\ (Occupied(k)' <=> wire'[k - 3].kind = "payload")
      BY <1>1, <1>2, <2>2 DEF StageForm
    <3>4. /\ Stage(k + 1) = wire[k + 1 - 3].data
          /\ Occupied(k + 1) <=> wire[k + 1 - 3].kind = "payload"
      BY <1>1, <1>2, <3>1, SMTT(30) DEF StageForm
    <3> QED
      BY <3>2, <3>3, <3>4
  <2> QED
    BY <1>2, <2>1, <2>2
<1>7. ASSUME NEW k \in 3 .. n
      PROVE  /\ f[k] \in 4 .. n + 1
             /\ Occupied(k)' <=> Occupied(f[k])
             /\ Occupied(k)' => Stage(f[k]) = Stage(k)'
  <2>1. CASE k = 3
    BY <1>2, <1>3, <1>5, <2>1
  <2>2. CASE k \in 4 .. n
    BY <1>2, <1>3, <1>6, <2>2
  <2> QED
    BY <1>2, <2>1, <2>2
<1>8. \A k \in 1 .. n : k \in 1 .. 2 \/ k \in 3 .. n
  BY <1>2
<1>9. Carried(f)
  <2>1. ASSUME NEW k \in 1 .. n, Occupied(k)'
        PROVE  f[k] \in 1 .. n + 1 /\ Occupied(f[k]) /\ Stage(f[k]) = Stage(k)'
    <3>1. CASE k \in 1 .. 2
      BY <1>2, <1>3, <1>4, <3>1
    <3>2. CASE k \in 3 .. n
      BY <1>2, <1>7, <2>1, <3>2
    <3> QED
      BY <1>8, <3>1, <3>2
  <2>2. ASSUME NEW j \in 1 .. n, NEW k \in 1 .. n, j < k PROVE f[j] <= f[k]
    BY <1>2, <1>3, <2>2
  <2> QED
    BY <1>2, <2>1, <2>2 DEF Carried
<1>10. Complete(f)
  <2>1. ASSUME NEW j \in 2 .. n, NEW i \in 1 .. n + 1, Occupied(i), f[j] < i
        PROVE  i - 1 \in 3 .. n /\ Occupied(i - 1)' /\ f[i - 1] = i
    <3>1. f[j] >= 2
      BY <1>2, <1>3
    <3>2. i # 3 /\ i > 2
      BY <1>2, <1>3, <1>5, <2>1, <3>1
    <3>3. i - 1 \in 3 .. n
      BY <1>2, <3>2
    <3> QED
      BY <1>3, <1>7, <2>1, <3>3
  <2>2. \A j, k \in 2 .. n : f[j] # 1 /\ (j < k => f[j] < f[k])
    BY <1>2, <1>3, SMTT(30)
  <2>3. \A k \in 3 .. n : k \in 2 .. n
    BY <1>2
  <2> QED
    BY <1>2, <2>1, <2>2, <2>3 DEF Complete
<1> QED
  BY <1>9, <1>10, CarriedKeeps, CompleteKeeps DEF Travelling, NoGapOnTheWire

\* What was received is stored.
LEMMA StoreTravels ==
  ASSUME TypeOK, TypeOK', Travelling, Store
  PROVE  Travelling'
<1>1. StageForm /\ StageForm'
  BY StageTypes, StageTypesNext
<1>2. /\ wire' = wire /\ cache' = got /\ shown' = shown /\ packet' = packet /\ pc' = pc
      /\ lastNode' = lastNode /\ game' = game /\ link' = link
      /\ srv = "store" /\ srv' = "length"
  BY DEF Store, gameVars, clientVars, linkVars, overlayVars
<1>3. PICK n \in Nat : Stages = n /\ Stages' = n /\ n >= 4
  BY <1>1, <1>2 DEF StageForm
<1> DEFINE f == [k \in Nat |-> IF k = 2 THEN 3 ELSE k]
<1>4. f[1] = 1 /\ f[2] = 3 /\ f[3] = 3 /\ \A k \in 4 .. n : f[k] = k
  OBVIOUS
<1> HIDE DEF f
<1>5. /\ Occupied(1) /\ Occupied(1)' /\ Stage(1)' = Stage(1)
      /\ Occupied(2)' /\ Occupied(3) /\ Stage(2)' = Stage(3) /\ ~Occupied(3)'
  BY <1>1, <1>2 DEF StageForm
<1>6. ASSUME NEW k \in 4 .. n
      PROVE  Stage(k)' = Stage(k) /\ (Occupied(k)' <=> Occupied(k))
  <2>1. CASE k = n
    BY <1>1, <1>2, <1>3, <2>1 DEF StageForm
  <2>2. CASE k \in 4 .. n - 1
    BY <1>1, <1>2, <1>3, <2>2 DEF StageForm
  <2> QED
    BY <1>3, <2>1, <2>2
<1>7. \A k \in 1 .. n : k \in {1, 2, 3} \/ k \in 4 .. n
  BY <1>3
<1>8. 3 \in 1 .. n
  BY <1>3
<1>9. Carried(f)
  BY <1>3, <1>4, <1>5, <1>6, <1>7, <1>8 DEF Carried
<1>10. Complete(f)
  <2>1. ASSUME NEW j \in 2 .. n, NEW i \in 1 .. n, Occupied(i), f[j] < i
        PROVE  i \in 2 .. n /\ Occupied(i)' /\ f[i] = i
    <3>1. f[j] \in Int /\ f[j] >= 3
      BY <1>3, <1>4
    <3>2. i \in 4 .. n
      BY <1>3, <2>1, <3>1
    <3> QED
      BY <1>4, <1>6, <2>1, <3>2
  <2>2. \A j, k \in 2 .. n : f[j] # 1 /\ (j < k /\ Occupied(k)' => f[j] < f[k])
    BY <1>3, <1>4, <1>5
  <2> QED
    BY <1>3, <2>1, <2>2 DEF Complete
<1> QED
  BY <1>2, <1>9, <1>10, CarriedKeeps, CompleteKeeps DEF Travelling, NoGapOnTheWire

\* A new snapshot of the game starts where the last one ended.
LEMMA ReadGameTravels ==
  ASSUME TypeOK, TypeOK', Travelling, ReadGame
  PROVE  Travelling'
<1>1. StageForm /\ StageForm'
  BY StageTypes, StageTypesNext
<1>2. /\ wire' = wire /\ cache' = cache /\ got' = got /\ shown' = shown
      /\ srv' = srv /\ link' = link /\ pc = "read" /\ pc' = "sendLength" /\ game' = game
      /\ packet'.ver = game /\ packet'.from = lastNode /\ packet'.to = lastNode'
      /\ lastNode' \in Nat /\ lastNode \in Nat /\ lastNode <= lastNode' /\ game \in Nat
  BY DEF ReadGame, AtMost, gameVars, linkVars, readerVars, overlayVars, TypeOK
<1>3. PICK n \in Nat : Stages = n /\ Stages' = n /\ n >= 4
  BY <1>1, <1>2 DEF StageForm
<1>4. ASSUME NEW k \in 1 .. n - 1
      PROVE  /\ Stage(k)' = Stage(k) /\ (Occupied(k)' <=> Occupied(k))
             /\ Stage(k).ver \in Nat /\ Stage(k).from \in Nat /\ Stage(k).to \in Nat
  <2>1. Stage(k) \in Snapshot
    BY <1>1, <1>3 DEF StageForm
  <2>2. Stage(k)' = Stage(k) /\ (Occupied(k)' <=> Occupied(k))
    <3>1. k \in {1, 2, 3} \/ k \in 4 .. n - 1
      BY <1>3
    <3>2. CASE k \in {1, 2, 3}
      BY <1>1, <1>2, <3>2 DEF StageForm
    <3>3. CASE k \in 4 .. n - 1
      BY <1>1, <1>2, <1>3, <3>3 DEF StageForm
    <3> QED
      BY <3>1, <3>2, <3>3
  <2> QED
    BY <2>1, <2>2, SnapshotTypes
<1>5. Occupied(n)' /\ ~Occupied(n) /\ Stage(n)' = packet'
  BY <1>1, <1>2, <1>3 DEF StageForm
<1>6. \A k \in 1 .. n : k \in 1 .. n - 1 \/ k = n
  BY <1>3
<1>7. \A k \in 1 .. n - 1 : Occupied(k) =>
        Stage(k).from <= Stage(k).to /\ Stage(k).to <= lastNode /\ Stage(k).ver <= game
  BY <1>3 DEF Travelling, Genuine
<1>8. Genuine'
  BY <1>2, <1>3, <1>4, <1>5, <1>6, <1>7 DEF Genuine
<1>9. EventsTravelOnce'
  <2>1. ASSUME NEW j \in 1 .. n - 1, NEW k \in 1 .. n - 1, j < k, Occupied(j)', Occupied(k)'
        PROVE  Before(Stage(j)', Stage(k)')
    BY <1>3, <1>4, <2>1 DEF Travelling, EventsTravelOnce
  <2>2. ASSUME NEW j \in 1 .. n - 1, Occupied(j)'
        PROVE  Before(Stage(j)', Stage(n)')
    BY <1>2, <1>4, <1>5, <1>7, <2>2 DEF Before
  <2>3. ASSUME NEW j \in 1 .. n, NEW k \in 1 .. n, j < k, Occupied(j)', Occupied(k)'
        PROVE  Before(Stage(j)', Stage(k)')
    <3>1. j \in 1 .. n - 1
      BY <1>3, <2>3
    <3> QED
      BY <1>6, <2>1, <2>2, <2>3, <3>1
  <2>4. \A k \in 1 .. n : Occupied(k)' => Stage(k)'.to <= lastNode'
    BY <1>2, <1>4, <1>5, <1>6, <1>7
  <2> QED
    BY <1>3, <2>3, <2>4 DEF EventsTravelOnce, Before
<1>10. NoGapOnTheWire'
  <2> SUFFICES ASSUME link \in {"backlog", "open"}, NEW j \in 2 .. n, Occupied(j)',
                      Stage(j)' # NoData
               PROVE
        \/ \E k \in j + 1 .. n :
             /\ Occupied(k)' /\ Stage(k)'.from = Stage(j)'.to
             /\ \A i \in j + 1 .. k - 1 : ~Occupied(i)'
        \/ /\ \A k \in j + 1 .. n : ~Occupied(k)'
           /\ Stage(j)'.to = lastNode'
    BY <1>2, <1>3 DEF NoGapOnTheWire
  <2>1. CASE j = n
    BY <1>2, <1>3, <1>5, <2>1
  <2>2. CASE j \in 2 .. n - 1
    <3>1. Occupied(j) /\ Stage(j) # NoData /\ Stage(j)' = Stage(j) /\ j \in 2 .. n
      BY <1>3, <1>4, <2>2
    <3>2. CASE \E k \in j + 1 .. n :
                 /\ Occupied(k) /\ Stage(k).from = Stage(j).to
                 /\ \A i \in j + 1 .. k - 1 : ~Occupied(i)
      <4>1. PICK k \in j + 1 .. n :
                 /\ Occupied(k) /\ Stage(k).from = Stage(j).to
                 /\ \A i \in j + 1 .. k - 1 : ~Occupied(i)
        BY <3>2
      <4>2. k # n
        BY <1>5, <4>1
      <4>3. k \in 1 .. n - 1 /\ \A i \in j + 1 .. k - 1 : i \in 1 .. n - 1
        BY <1>3, <2>2, <4>1, <4>2
      <4> QED
        BY <1>4, <3>1, <4>1, <4>3
    <3>3. CASE (\A k \in j + 1 .. n : ~Occupied(k)) /\ Stage(j).to = lastNode
      <4>1. \A i \in j + 1 .. n - 1 : i \in 1 .. n - 1 /\ i \in j + 1 .. n
        BY <1>3, <2>2
      <4>2. n \in j + 1 .. n
        BY <1>3, <2>2
      <4> QED
        BY <1>2, <1>4, <1>5, <3>1, <3>3, <4>1, <4>2
    <3> QED
      BY <1>3, <3>1, <3>2, <3>3 DEF Travelling, NoGapOnTheWire
  <2> QED
    BY <1>3, <2>1, <2>2
<1> QED
  BY <1>8, <1>9, <1>10 DEF Travelling

\* A connection begins or ends with nothing on the wire.
LEMMA NothingUnderWay ==
  ASSUME TypeOK, TypeOK', Travelling, wire' = <<>>, srv' # "store",
         lastNode' = lastNode, game' = game, packet' = packet,
         \/ shown' = shown /\ cache' = cache
         \/ shown' = NoData /\ cache' = NoData,
         pc' \in {"sendLength", "sendPayload"} => pc \in {"sendLength", "sendPayload"},
         link' \in {"backlog", "open"} =>
           cache' = NoData /\ pc' \notin {"sendLength", "sendPayload"}
  PROVE  Travelling'
<1>1. StageForm /\ StageForm'
  BY StageTypes, StageTypesNext
<1>2. Len(wire') = 0 /\ Stages' = 4
  BY <1>1, EmptySeq DEF StageForm
<1>3. PICK n \in Nat : Stages = n /\ n >= 4
  BY <1>1 DEF StageForm
<1>4. /\ Stage(1)' = shown' /\ Stage(2)' = cache' /\ Stage(4)' = packet
      /\ Occupied(1)' /\ Occupied(2)' /\ ~Occupied(3)'
      /\ Occupied(4)' => Occupied(n)
  BY <1>1, <1>2, <1>3 DEF StageForm
<1>5. /\ Stage(1) = shown /\ Stage(2) = cache /\ Stage(n) = packet
      /\ Occupied(1) /\ Occupied(2)
  BY <1>1, <1>3 DEF StageForm
<1>6. 1 \in 1 .. n /\ 2 \in 1 .. n /\ n \in 1 .. n /\ 1 < n /\ 2 < n
  BY <1>3
<1>7. /\ game \in Nat /\ lastNode \in Nat
      /\ packet.from \in Nat /\ packet.ver \in Nat
      /\ NoData.from = 0 /\ NoData.to = 0 /\ NoData.ver = 0
  BY SnapshotTypes DEF TypeOK, NoData
<1>8. \A k \in 1 .. 4 : k = 1 \/ k = 2 \/ k = 3 \/ k = 4
  OBVIOUS
<1>9. \A k \in 1 .. n : Occupied(k) =>
        Stage(k).from <= Stage(k).to /\ Stage(k).to <= lastNode /\ Stage(k).ver <= game
  BY <1>3 DEF Travelling, Genuine
<1>10. \A j, k \in 1 .. n : j < k /\ Occupied(j) /\ Occupied(k) => Before(Stage(j), Stage(k))
  BY <1>3 DEF Travelling, EventsTravelOnce
<1>11. \A k \in 1 .. 4 : Occupied(k)' =>
         /\ Stage(k)'.from <= Stage(k)'.to /\ Stage(k)'.to <= lastNode /\ Stage(k)'.ver <= game
  BY <1>4, <1>5, <1>6, <1>7, <1>8, <1>9
<1>12. /\ Before(shown', cache')
       /\ Occupied(4)' => Before(shown', packet) /\ Before(cache', packet)
  <2>1. CASE shown' = shown /\ cache' = cache
    BY <1>4, <1>5, <1>6, <1>10, <2>1
  <2>2. CASE shown' = NoData /\ cache' = NoData
    BY <1>7, <2>2 DEF Before
  <2> QED
    BY <2>1, <2>2
<1>13. ASSUME NEW j \in 1 .. 4, NEW k \in 1 .. 4, j < k, Occupied(j)', Occupied(k)'
       PROVE  Before(Stage(j)', Stage(k)')
  <2>1. <<j, k>> \in {<<1, 2>>, <<1, 4>>, <<2, 4>>}
    BY <1>4, <1>13
  <2> QED
    BY <1>4, <1>12, <1>13, <2>1
<1>14. Genuine' /\ EventsTravelOnce'
  BY <1>2, <1>11, <1>13 DEF Genuine, EventsTravelOnce, Before
<1>15. NoGapOnTheWire'
  <2> SUFFICES ASSUME link' \in {"backlog", "open"}, NEW j \in 2 .. 4, Occupied(j)',
                      Stage(j)' # NoData
               PROVE  FALSE
    BY <1>2 DEF NoGapOnTheWire
  <2>1. ~Occupied(4)' /\ Stage(2)' = NoData
    BY <1>1, <1>2, <1>4 DEF StageForm
  <2>2. j = 2 \/ j = 3 \/ j = 4
    OBVIOUS
  <2> QED
    BY <1>4, <2>1, <2>2
<1> QED
  BY <1>14, <1>15 DEF Travelling

LEMMA TravellingKept ==
  ASSUME TypeOK, TypeOK', Connection, EofIsLast, StartsAfresh, Travelling, Next
  PROVE  Travelling'
<1>1. CASE GameTick
  BY <1>1, NothingMoves DEF GameTick, clientVars, linkVars, readerVars, overlayVars, TypeOK
<1>2. CASE ThreadStarts
  BY <1>2, NothingMoves
     DEF ThreadStarts, Connection, gameVars, linkVars, readerVars, overlayVars
<1>3. CASE Connect
  BY <1>3, NothingUnderWay
     DEF Connect, Connection, StartsAfresh, Listening, gameVars, readerVars, overlayVars
<1>4. CASE ReadGame
  BY <1>4, ReadGameTravels
<1>5. CASE SendLength
  <2>1. CASE wire' = Append(wire, Length) /\ link' = link
    BY <1>5, <2>1, MessageEnters DEF SendLength, gameVars, readerVars, overlayVars
  <2>2. CASE wire' = wire /\ link' = "dead"
    BY <1>5, <2>2, NothingMoves DEF SendLength, gameVars, readerVars, overlayVars
  <2> QED
    BY <1>5, <2>1, <2>2 DEF SendLength, Sent
<1>6. CASE SendPayload
  <2>1. CASE wire' = Append(wire, Payload(packet)) /\ link' = link
    BY <1>6, <2>1, MessageEnters DEF SendPayload, gameVars, readerVars, overlayVars
  <2>2. CASE wire' = wire /\ link' = "dead"
    BY <1>6, <2>2, NothingMoves DEF SendPayload, gameVars, readerVars, overlayVars
  <2> QED
    BY <1>6, <2>1, <2>2 DEF SendPayload, Sent
<1>7. CASE SendFails
  BY <1>7, NothingMoves DEF SendFails, gameVars, readerVars, overlayVars
<1>8. CASE WakeUp
  BY <1>8, NothingMoves DEF WakeUp, gameVars, linkVars, readerVars, overlayVars
<1>9. CASE ThreadEnds
  <2>1. CASE wire' = Append(wire, Eof) /\ link' = link
    BY <1>9, <2>1, MessageEnters DEF ThreadEnds, gameVars, readerVars, overlayVars
  <2>2. CASE wire' = wire /\ link' = "none"
    BY <1>9, <2>2, NothingMoves DEF ThreadEnds, gameVars, readerVars, overlayVars
  <2> QED
    BY <1>9, <2>1, <2>2 DEF ThreadEnds
<1>10. CASE Detach
  BY <1>10, NothingMoves DEF Detach, gameVars, linkVars, readerVars, overlayVars
<1>11. CASE Listen
  BY <1>11, NothingMoves DEF Listen, gameVars, clientVars, linkVars, overlayVars
<1>12. CASE Accept
  BY <1>12, NothingMoves DEF Accept, gameVars, clientVars, overlayVars
<1>13. CASE ReadLength
  <2>1. CASE Head(wire) = Length /\ wire' = Tail(wire) /\ srv' = "payload" /\ link' = link
    BY <1>13, <2>1, MessageLeaves DEF ReadLength, gameVars, clientVars, overlayVars
  <2>2. CASE wire' = <<>> /\ link' = "none" /\ srv' = "accept"
    BY <1>13, <2>2, NothingUnderWay DEF ReadLength, gameVars, clientVars, overlayVars
  <2> QED
    BY <1>13, <2>1, <2>2 DEF ReadLength
<1>14. CASE ReadPayload
  BY <1>14, MessageLeaves DEF ReadPayload, gameVars, clientVars, overlayVars
<1>15. CASE Store
  BY <1>15, StoreTravels
<1>16. CASE Frame
  BY <1>16, FrameTravels
<1>17. CASE RecreateOverlay
  BY <1>17, NothingUnderWay DEF RecreateOverlay, gameVars, clientVars, TypeOK
<1> QED
  BY <1>1, <1>2, <1>3, <1>4, <1>5, <1>6, <1>7, <1>8, <1>9, <1>10, <1>11, <1>12,
     <1>13, <1>14, <1>15, <1>16, <1>17 DEF Next, Client, Server

----------------------------------------------------------------------------
(* The history. *)

\* A batch that comes after all that is listed ends the list.
LEMMA BatchEndsList ==
  ASSUME NEW h \in Seq(1 .. MaxTicks), NEW t \in Snapshot, NEW s \in Snapshot,
         s.from <= s.to, Before(t, s),
         \A k \in 1 .. Len(h) : h[k] <= t.to /\ h[k] <= h[Len(h)]
  PROVE  LET g == h \o Events(s) IN
         /\ g \in Seq(1 .. MaxTicks)
         /\ \A k \in 1 .. Len(g) : g[k] <= s.to /\ g[k] <= g[Len(g)]
         /\ s.to > s.from => Len(g) > 0 /\ g[Len(g)] = s.to
<1>1. /\ s.from \in Nat /\ s.to \in Nat /\ t.to \in Nat
      /\ t.to <= s.to
      /\ s.to - s.from \in Nat
  BY SnapshotTypes DEF Before
<1>2. PICK l \in Nat : l = Len(h)
  OBVIOUS
<1>3. PICK e \in Nat : e = s.to - s.from
  BY <1>1
<1>4. /\ Events(s) \in Seq(1 .. MaxTicks) /\ Len(Events(s)) = e
      /\ \A k \in 1 .. e : Events(s)[k] = s.from + k
  BY <1>3, EventsAre
<1>5. PICK g : g = h \o Events(s)
  OBVIOUS
<1>6. /\ g \in Seq(1 .. MaxTicks) /\ Len(g) = l + e
      /\ \A k \in 1 .. l + e : g[k] = IF k <= l THEN h[k] ELSE Events(s)[k - l]
  BY <1>2, <1>4, <1>5, ConcatProperties
<1>7. /\ \A k \in 1 .. l : g[k] = h[k] /\ h[k] \in Nat
      /\ \A k \in l + 1 .. l + e : g[k] = s.from + (k - l)
  <2>1. ASSUME NEW k \in 1 .. l PROVE g[k] = h[k] /\ h[k] \in Nat
    <3>1. k \in 1 .. l + e /\ k <= l
      OBVIOUS
    <3>2. h[k] \in 1 .. MaxTicks
      BY <1>2
    <3> QED
      BY <1>6, <3>1, <3>2
  <2>2. ASSUME NEW k \in l + 1 .. l + e PROVE g[k] = s.from + (k - l)
    <3>1. k \in 1 .. l + e /\ ~(k <= l) /\ k - l \in 1 .. e
      OBVIOUS
    <3>2. g[k] = Events(s)[k - l]
      BY <1>6, <3>1
    <3> QED
      BY <1>4, <3>1, <3>2
  <2> QED
    BY <2>1, <2>2
<1>8. ASSUME NEW k \in 1 .. l + e
      PROVE  g[k] <= s.to /\ g[k] <= g[l + e]
  <2>1. CASE e = 0
    <3>1. k \in 1 .. l /\ l \in 1 .. l /\ l + e = l
      BY <1>8, <2>1
    <3>2. /\ g[k] = h[k] /\ g[l] = h[l] /\ h[k] \in Nat
          /\ h[k] <= t.to /\ h[k] <= h[l]
      BY <1>2, <1>7, <3>1
    <3> QED
      BY <1>1, <3>1, <3>2
  <2>2. CASE e > 0
    <3>1. l + e \in l + 1 .. l + e /\ s.from + (l + e - l) = s.to
      BY <1>1, <1>3, <2>2, SMTT(30)
    <3>2. g[l + e] = s.to
      BY <1>7, <3>1
    <3>3. CASE k <= l
      <4>1. k \in 1 .. l /\ g[k] = h[k] /\ h[k] \in Nat /\ h[k] <= t.to
        BY <1>2, <1>7, <3>3
      <4> QED
        BY <1>1, <3>2, <4>1
    <3>4. CASE ~(k <= l)
      <4>1. k \in l + 1 .. l + e /\ g[k] = s.from + (k - l)
        BY <1>7, <3>4
      <4> QED
        BY <1>1, <1>3, <3>2, <4>1
    <3> QED
      BY <3>3, <3>4
  <2> QED
    BY <2>1, <2>2
<1>9. s.to > s.from => l + e > 0 /\ g[l + e] = s.to
  <2> SUFFICES ASSUME s.to > s.from PROVE l + e > 0 /\ g[l + e] = s.to
    OBVIOUS
  <2>1. l + e \in l + 1 .. l + e /\ s.from + (l + e - l) = s.to /\ l + e > 0
    BY <1>1, <1>3, SMTT(30)
  <2> QED
    BY <1>7, <2>1
<1> QED
  BY <1>5, <1>6, <1>8, <1>9

LEMMA HistoryKept ==
  ASSUME TypeOK, TypeOK', Travelling, ListedIsShown, NewestEventLast, Next
  PROVE  ListedIsShown' /\ NewestEventLast'
<1>1. CASE Frame
  <2>1. shown' = cache /\ history' = Trimmed(history \o Events(cache))
    BY <1>1 DEF Frame
  <2>2. /\ cache \in Snapshot /\ shown \in Snapshot /\ cache.from <= cache.to
        /\ Before(shown, cache) /\ history \in Seq(1 .. MaxTicks)
    <3>1. 1 \in 1 .. Stages /\ 2 \in 1 .. Stages /\ Occupied(1) /\ Occupied(2)
          /\ Stage(1) = shown /\ Stage(2) = cache
      BY StageTypes DEF StageForm
    <3> QED
      BY <3>1, SMTT(30) DEF Travelling, Genuine, EventsTravelOnce, TypeOK
  <2>3. PICK g \in Seq(1 .. MaxTicks) :
          /\ g = history \o Events(cache)
          /\ \A k \in 1 .. Len(g) : g[k] <= cache.to /\ g[k] <= g[Len(g)]
          /\ cache.to > cache.from => g[Len(g)] = cache.to
    BY <2>2, BatchEndsList DEF ListedIsShown, NewestEventLast
  <2>4. PICK off \in Nat :
          /\ Len(g) = Len(Trimmed(g)) + off
          /\ \A k \in 1 .. Len(Trimmed(g)) : Trimmed(g)[k] = g[k + off]
    BY TrimmedKeepsEnd
  <2>5. Len(Trimmed(g)) \in Nat /\ Len(g) \in Nat
    BY TrimmedKeepsEnd
  <2>6. ASSUME NEW k \in 1 .. Len(history')
        PROVE  /\ history'[k] <= shown'.to
               /\ history'[k] <= history'[Len(history')]
               /\ shown'.to > shown'.from => history'[Len(history')] = shown'.to
    <3>1. /\ k + off \in 1 .. Len(g)
          /\ Len(Trimmed(g)) \in 1 .. Len(Trimmed(g))
      BY <2>1, <2>3, <2>4, <2>5, <2>6
    <3>2. history'[k] = g[k + off] /\ history'[Len(history')] = g[Len(g)]
      BY <2>1, <2>3, <2>4, <2>6, <3>1
    <3> QED
      BY <2>1, <2>3, <3>1, <3>2
  <2> QED
    BY <2>6 DEF ListedIsShown, NewestEventLast
<1>2. CASE RecreateOverlay
  <2>1. Len(history') = 0
    BY <1>2, EmptySeq DEF RecreateOverlay
  <2> QED
    BY <2>1 DEF ListedIsShown, NewestEventLast
<1>3. CASE UNCHANGED <<shown, history>>
  BY <1>3 DEF ListedIsShown, NewestEventLast
<1> QED
  BY <1>1, <1>2, <1>3
     DEF Next, Client, Server, GameTick, ThreadStarts, Connect, ReadGame, SendLength,
         SendPayload, SendFails, WakeUp, ThreadEnds, Detach, Listen, Accept, ReadLength,
         ReadPayload, Store, overlayVars

----------------------------------------------------------------------------
(* The invariant, and what it implies. *)

LEMMA InitHolds == Init => PipeInv
<1> SUFFICES ASSUME Init PROVE PipeInv
  OBVIOUS
<1>1. /\ wire = <<>> /\ Len(wire) = 0 /\ history = <<>> /\ Len(history) = 0
      /\ game = 0 /\ log = 0 /\ lastNode = 0 /\ link = "none" /\ srv = "start" /\ pc = "start"
      /\ packet = NoData /\ got = NoData /\ cache = NoData /\ shown = NoData
      /\ restarts = 0 /\ running = TRUE
  BY EmptySeq DEF Init
<1>2. NoData \in Snapshot /\ NoData.ver = 0 /\ NoData.from = 0 /\ NoData.to = 0
  BY DEF NoData, Snapshot
<1>3. TypeOK
  <2>1. wire \in Seq(Message) /\ history \in Seq(1 .. MaxTicks)
    BY <1>1
  <2> QED
    BY <1>1, <1>2, <2>1 DEF TypeOK
<1>4. Connection /\ EofIsLast /\ PayloadFollowsLength /\ StartsAfresh
  BY <1>1 DEF Connection, EofIsLast, PayloadFollowsLength, StartsAfresh
<1>5. Stages = 4 /\ ~Occupied(3) /\ ~Occupied(4) /\ Stage(1) = NoData /\ Stage(2) = NoData
  BY <1>1, <1>3, StageTypes DEF StageForm
<1>6. \A k \in 1 .. 4 : Occupied(k) => Stage(k) = NoData
  BY <1>5
<1>7. Genuine /\ EventsTravelOnce /\ NoGapOnTheWire
  BY <1>1, <1>2, <1>5, <1>6 DEF Genuine, EventsTravelOnce, NoGapOnTheWire, Before
<1>8. ListedIsShown /\ NewestEventLast
  BY <1>1 DEF ListedIsShown, NewestEventLast
<1> QED
  BY <1>3, <1>4, <1>7, <1>8 DEF PipeInv

LEMMA StepKeeps == PipeInv /\ [Next]_vars => PipeInv'
<1> SUFFICES ASSUME PipeInv, [Next]_vars PROVE PipeInv'
  OBVIOUS
<1>1. CASE Next
  <2>1. TypeOK'
    BY <1>1, TypesKept DEF PipeInv
  <2>2. Connection' /\ StartsAfresh'
    BY <1>1, ConnectionKept DEF PipeInv
  <2>3. EofIsLast' /\ PayloadFollowsLength'
    BY <1>1, <2>1, FramingKept DEF PipeInv
  <2>4. Travelling'
    BY <1>1, <2>1, TravellingKept DEF PipeInv, Travelling
  <2>5. ListedIsShown' /\ NewestEventLast'
    BY <1>1, <2>1, HistoryKept DEF PipeInv, Travelling
  <2> QED
    BY <2>1, <2>2, <2>3, <2>4, <2>5 DEF PipeInv, Travelling
<1>2. CASE UNCHANGED vars
  <2>1. UNCHANGED <<game, log, pc, running, lastNode, packet, link, wire, srv, got, cache,
                    restarts, shown, history>>
    BY <1>2 DEF vars, gameVars, clientVars, linkVars, readerVars, overlayVars
  <2>2. TypeOK' /\ Connection' /\ EofIsLast' /\ PayloadFollowsLength' /\ StartsAfresh'
    BY <2>1 DEF PipeInv, TypeOK, Connection, EofIsLast, PayloadFollowsLength, StartsAfresh
  <2>3. Travelling'
    BY <2>1, <2>2, NothingMoves DEF PipeInv, Travelling, TypeOK
  <2>4. ListedIsShown' /\ NewestEventLast'
    BY <2>1 DEF PipeInv, ListedIsShown, NewestEventLast
  <2> QED
    BY <2>2, <2>3, <2>4 DEF PipeInv, Travelling
<1> QED
  BY <1>1, <1>2

(* The inductive invariant: connection, framing, order of the snapshots    *)
(* under way and history, tied together (SocketClientThread, ServerLoop,   *)
(* UpdateGameData).                                                        *)
THEOREM PipeInvariance == Spec => []PipeInv
BY InitHolds, StepKeeps, PTL DEF Spec

(* Type correctness for every bound; the history never outgrows            *)
(* kMaxHistory (WowDataModel::Update).                                     *)
THEOREM TypeCorrect == Spec => []TypeOK
<1>1. PipeInv => TypeOK
  BY DEF PipeInv
<1> QED
  BY <1>1, PipeInvariance, PTL

(* The stream keeps its framing through broken connections, a detached DLL *)
(* and re-created overlays (SendExactly, ReadExactly).                     *)
THEOREM FramingHolds == Spec => []PayloadFollowsLength
<1>1. PipeInv => PayloadFollowsLength
  BY DEF PipeInv
<1> QED
  BY <1>1, PipeInvariance, PTL

(* No event travels in two snapshots and none is overtaken, whatever the   *)
(* sizes of the log, the socket buffers and the batches (ReadGameData).    *)
THEOREM EventsTravelAtMostOnce == Spec => []EventsTravelOnce
<1>1. PipeInv => EventsTravelOnce
  BY DEF PipeInv
<1> QED
  BY <1>1, PipeInvariance, PTL

(* A live connection skips no event (SocketClientThread).                  *)
THEOREM NothingSkipped == Spec => []NoGapOnTheWire
<1>1. PipeInv => NoGapOnTheWire
  BY DEF PipeInv
<1> QED
  BY <1>1, PipeInvariance, PTL

(* The newest event delivered ends the history (WowDataModel::Update).     *)
THEOREM NewestIsLast == Spec => []NewestEventLast
<1>1. PipeInv => NewestEventLast
  BY DEF PipeInv
<1> QED
  BY <1>1, PipeInvariance, PTL

----------------------------------------------------------------------------
(* The pipe implements the register: the game changes as it may, a frame   *)
(* shows the same snapshot or a later one, a re-creation starts again.     *)

LEMMA StepRefines == PipeInv /\ [Next]_vars => [Register!Next]_(Register!vars)
<1> SUFFICES ASSUME PipeInv, [Next]_vars PROVE [Register!Next]_(Register!vars)
  OBVIOUS
<1>1. CASE GameTick
  BY <1>1 DEF GameTick, overlayVars, Register!Next, Register!Change
<1>2. CASE Frame
  <2>1. shown' = cache /\ game' = game /\ log' = log
    BY <1>2 DEF Frame, gameVars
  <2>2. /\ cache \in Snapshot /\ cache.from <= cache.to /\ cache.to <= lastNode
        /\ cache.ver <= game /\ Before(shown, cache) /\ shown \in Snapshot
    <3>1. 1 \in 1 .. Stages /\ 2 \in 1 .. Stages /\ Occupied(1) /\ Occupied(2)
          /\ Stage(1) = shown /\ Stage(2) = cache
      BY StageTypes DEF StageForm, PipeInv
    <3> QED
      BY <3>1 DEF PipeInv, Genuine, EventsTravelOnce, TypeOK
  <2>3. log \in Nat /\ lastNode \in 0 .. log /\ game \in Nat
    BY DEF PipeInv, TypeOK
  <2>4. CASE cache = shown
    BY <2>1, <2>4 DEF Register!vars
  <2>5. CASE cache # shown
    <3>1. cache.from >= shown.to /\ cache.ver >= shown.ver /\ cache.to >= cache.from
      BY <2>2, <2>5, SnapshotTypes DEF Before
    <3>2. cache.ver \in 0 .. game /\ cache.from \in 0 .. log /\ cache.to \in 0 .. log
      BY <2>2, <2>3, SnapshotTypes
    <3>3. cache \in Register!Snapshot
      BY <2>2, <3>2 DEF Snapshot, Register!Snapshot
    <3> QED
      BY <2>1, <3>1, <3>3 DEF Register!Next, Register!Refresh
  <2> QED
    BY <2>4, <2>5
<1>3. CASE RecreateOverlay
  BY <1>3 DEF RecreateOverlay, gameVars, NoData, Register!NoData, Register!Next, Register!Restart
<1>4. CASE UNCHANGED <<game, log, shown>>
  BY <1>4 DEF Register!vars
<1> QED
  BY <1>1, <1>2, <1>3, <1>4
     DEF Next, Client, Server, ThreadStarts, Connect, ReadGame, SendLength,
         SendPayload, SendFails, WakeUp, ThreadEnds, Detach, Listen, Accept, ReadLength,
         ReadPayload, Store, gameVars, overlayVars, vars

(* The overlay shows snapshots the game was in, later and later ones, with *)
(* disjoint batches of events, for every bound.                            *)
THEOREM PipeImplementsRegister == Spec => ImplementsRegister
<1>1. Init => Register!Init
  BY DEF Init, NoData, Register!Init, Register!NoData
<1> QED
  BY <1>1, StepRefines, PipeInvariance, PTL DEF Spec, ImplementsRegister, Register!Spec

----------------------------------------------------------------------------
(* The pipe takes its events as EventFeed hands them out, which is what    *)
(* CombatLogReader is shown to do: a call of ReadGame is one Read of the   *)
(* feed, no other step moves the position, and the feed is never lost.     *)
Feed == INSTANCE EventFeed WITH log <- log, last <- lastNode,
                                Batch <- kMaxCombatLogEvents

LEMMA StepFeeds == PipeInv /\ [Next]_vars => [Feed!Next]_(Feed!vars)
<1> SUFFICES ASSUME PipeInv, [Next]_vars PROVE [Feed!Next]_(Feed!vars)
  OBVIOUS
<1>1. CASE GameTick
  BY <1>1 DEF GameTick, clientVars, Feed!Next, Feed!Append, Feed!vars
<1>2. CASE ReadGame
  <2>1. lastNode # -1
    BY DEF PipeInv, TypeOK
  <2>2. /\ lastNode' = Feed!AtMost(log, lastNode + kMaxCombatLogEvents)
        /\ log' = log
    BY <1>2 DEF ReadGame, gameVars, AtMost, Feed!AtMost
  <2> QED
    BY <2>1, <2>2 DEF Feed!Next, Feed!Read, Feed!Lost
<1>3. CASE UNCHANGED <<log, lastNode>>
  BY <1>3 DEF Feed!vars
<1> QED
  BY <1>1, <1>2, <1>3
     DEF Next, Client, Server, ThreadStarts, Connect, SendLength, SendPayload,
         SendFails, WakeUp, ThreadEnds, Detach, Listen, Accept, ReadLength,
         ReadPayload, Store, Frame, RecreateOverlay, gameVars, clientVars, vars

(* What the pipe assumes of ReadCombatLogEvents is what CombatLogReader    *)
(* provides: both are behaviours of EventFeed (ReadGameData, its call).    *)
THEOREM PipeReadsFromFeed == Spec => Feed!Spec
<1>1. Init => Feed!Init
  BY DEF Init, Feed!Init
<1> QED
  BY <1>1, StepFeeds, PipeInvariance, PTL DEF Spec, Feed!Spec
=============================================================================

---------------------------- MODULE GameDataPipe ----------------------------
(***************************************************************************)
(* The way of a snapshot from the game's memory to the overlay: the thread *)
(* of wowmemory.dll (SocketClientThread) reads and sends it, a loopback    *)
(* TCP stream carries it as a length and a payload, ServerLoop of the      *)
(* GameDataReader receives and caches it, and every rendered frame copies  *)
(* the cache into the data model.  A swapchain re-creation replaces the    *)
(* overlay, and with it the reader, at any moment.                         *)
(*                                                                         *)
(* Combat log events are numbered in the order the game appends them.      *)
(***************************************************************************)
EXTENDS Integers, Sequences

CONSTANTS
  MaxTicks,             \* bound: changes of the game's state
  MaxRestarts,          \* bound: re-creations of the overlay
  WireCap,              \* messages the socket buffers hold before send blocks
  kMaxCombatLogEvents,  \* GameData::kMaxCombatLogEvents
  kMaxHistory           \* kMaxHistory of WowDataModel::Update

ASSUME PipeAssumption ==
  /\ MaxTicks \in Nat
  /\ MaxRestarts \in Nat
  /\ WireCap \in Nat \ {0}
  /\ kMaxCombatLogEvents \in Nat \ {0}
  /\ kMaxHistory \in Nat \ {0}

VARIABLES
  (* the game *)
  game,      \* changes of its state so far
  log,       \* combat log events among them
  (* wowmemory.dll *)
  pc,        \* where SocketClientThread is
  running,   \* g_Running
  lastNode,  \* m_lastCombatLogNodeAddr, as the number of the event
  packet,    \* the snapshot being sent
  (* the TCP connection *)
  link,      \* none, backlog, open, reset or dead, as the client finds it
  wire,      \* messages sent and not received
  (* the GameDataReader of the current overlay *)
  srv,       \* where ServerLoop is
  got,       \* the snapshot just received
  cache,     \* m_cachedData
  (* the overlay *)
  restarts,  \* re-creations so far
  shown,     \* the snapshot in the data model
  history    \* m_combatLogHistory

gameVars    == <<game, log>>
clientVars  == <<pc, running, lastNode, packet>>
linkVars    == <<link, wire>>
readerVars  == <<srv, got, cache>>
overlayVars == <<restarts, shown, history>>
vars == <<gameVars, clientVars, linkVars, readerVars, overlayVars>>

NoData   == [ver |-> 0, from |-> 0, to |-> 0]
Snapshot == [ver : 0 .. MaxTicks, from : 0 .. MaxTicks, to : 0 .. MaxTicks]

\* A snapshot without its data: the length that announces it, the end of the
\* stream.
Length == [kind |-> "length", data |-> NoData]
Eof    == [kind |-> "eof", data |-> NoData]
Payload(s) == [kind |-> "payload", data |-> s]

AtMost(n, limit) == IF n > limit THEN limit ELSE n

Init ==
  /\ game = 0 /\ log = 0
  /\ pc = "start" /\ running = TRUE /\ lastNode = 0 /\ packet = NoData
  /\ link = "none" /\ wire = <<>>
  /\ srv = "start" /\ got = NoData /\ cache = NoData
  /\ restarts = 0 /\ shown = NoData /\ history = <<>>

----------------------------------------------------------------------------
(* The game goes on; a change may append an event to its combat log. *)
GameTick ==
  /\ game < MaxTicks
  /\ game' = game + 1
  /\ log' \in {log, log + 1}
  /\ UNCHANGED <<clientVars, linkVars, readerVars, overlayVars>>

----------------------------------------------------------------------------
(* SocketClientThread.  An unsupported client or a failing WSAStartup ends *)
(* it at once; only the former clears g_Running.                           *)
ThreadStarts ==
  /\ pc = "start"
  /\ \/ pc' = "connect" /\ UNCHANGED running
     \/ pc' = "ended" /\ running' \in {running, FALSE}
  /\ UNCHANGED <<gameVars, lastNode, packet, linkVars, readerVars, overlayVars>>

Listening == srv \in {"accept", "length", "payload", "store"}

(* A connect attempt that succeeds; the ones that fail only wait. *)
Connect ==
  /\ pc = "connect"
  /\ running
  /\ Listening
  /\ link' = "backlog"
  /\ wire' = <<>>
  /\ pc' = "read"
  /\ UNCHANGED <<gameVars, running, lastNode, packet, readerVars, overlayVars>>

\* The last node not remembered.
ReadGameForgetting ==
  /\ pc = "read"
  /\ packet' = [ver |-> game, from |-> lastNode,
                to |-> AtMost(log, lastNode + kMaxCombatLogEvents)]
  /\ pc' = "sendLength"
  /\ UNCHANGED <<gameVars, running, lastNode, linkVars, readerVars, overlayVars>>

\* The last node remembered is the one before the last.
ReadGameOffByOne ==
  /\ pc = "read"
  /\ packet' = [ver |-> game, from |-> lastNode,
                to |-> AtMost(log, lastNode + kMaxCombatLogEvents)]
  /\ lastNode' = IF packet'.to > lastNode THEN packet'.to - 1 ELSE lastNode
  /\ pc' = "sendLength"
  /\ UNCHANGED <<gameVars, running, linkVars, readerVars, overlayVars>>

\* The last node remembered is the tail of the log, read or not.
ReadGameSkipping ==
  /\ pc = "read"
  /\ packet' = [ver |-> game, from |-> lastNode,
                to |-> AtMost(log, lastNode + kMaxCombatLogEvents)]
  /\ lastNode' = log
  /\ pc' = "sendLength"
  /\ UNCHANGED <<gameVars, running, linkVars, readerVars, overlayVars>>

(* ReadGameData and SerializeGameData: the events after the last one read, *)
(* a bounded number of them.                                               *)
ReadGame ==
  /\ pc = "read"
  /\ packet' = [ver |-> game, from |-> lastNode,
                to |-> AtMost(log, lastNode + kMaxCombatLogEvents)]
  /\ lastNode' = packet'.to
  /\ pc' = "sendLength"
  /\ UNCHANGED <<gameVars, running, linkVars, readerVars, overlayVars>>

(* SendExactly of one message succeeds: it is buffered, or lost because    *)
(* the peer's reset has not been noticed yet.  A full buffer blocks.       *)
Sent(message) ==
  \/ /\ link \in {"backlog", "open"}
     /\ Len(wire) < WireCap
     /\ wire' = Append(wire, message)
     /\ UNCHANGED link
  \/ /\ link = "reset"
     /\ link' = "dead"
     /\ UNCHANGED wire

SendLength ==
  /\ pc = "sendLength"
  /\ Sent(Length)
  /\ pc' = "sendPayload"
  /\ UNCHANGED <<gameVars, running, lastNode, packet, readerVars, overlayVars>>

\* A payload held back once g_Running is cleared.
SendPayloadIfRunning ==
  /\ pc = "sendPayload"
  /\ Sent(IF running THEN Payload(packet) ELSE Eof)
  /\ pc' = IF running THEN "sleep" ELSE "ended"
  /\ UNCHANGED <<gameVars, running, lastNode, packet, readerVars, overlayVars>>

SendPayload ==
  /\ pc = "sendPayload"
  /\ Sent(Payload(packet))
  /\ pc' = "sleep"
  /\ UNCHANGED <<gameVars, running, lastNode, packet, readerVars, overlayVars>>

\* A failed send that goes on with the same socket.
SendFailsContinuing ==
  /\ pc \in {"sendLength", "sendPayload"}
  /\ link \in {"reset", "dead"}
  /\ pc' = "read"
  /\ UNCHANGED <<gameVars, running, lastNode, packet, linkVars, readerVars,
                 overlayVars>>

(* SendExactly fails: the socket is closed, and the snapshot is gone. *)
SendFails ==
  /\ pc \in {"sendLength", "sendPayload"}
  /\ link \in {"reset", "dead"}
  /\ link' = "none"
  /\ pc' = "connect"
  /\ UNCHANGED <<gameVars, running, lastNode, packet, wire, readerVars,
                 overlayVars>>

(* After the pause, while g_Running. *)
WakeUp ==
  /\ pc = "sleep"
  /\ running
  /\ pc' = "read"
  /\ UNCHANGED <<gameVars, running, lastNode, packet, linkVars, readerVars,
                 overlayVars>>

(* g_Running was cleared: the socket, if any, is closed and the thread     *)
(* ends.  What is buffered still arrives.                                  *)
ThreadEnds ==
  /\ pc \in {"connect", "sleep"}
  /\ ~running
  /\ pc' = "ended"
  /\ IF link \in {"backlog", "open"}
     THEN wire' = Append(wire, Eof) /\ UNCHANGED link
     ELSE link' = "none" /\ UNCHANGED wire
  /\ UNCHANGED <<gameVars, running, lastNode, packet, readerVars, overlayVars>>

(* DllMain, DLL_PROCESS_DETACH. *)
Detach ==
  /\ running
  /\ running' = FALSE
  /\ UNCHANGED <<gameVars, pc, lastNode, packet, linkVars, readerVars, overlayVars>>

----------------------------------------------------------------------------
(* ServerLoop.  A bind or listen that fails - the port may still belong to *)
(* the previous overlay - ends the thread for good.                        *)
Listen ==
  /\ srv = "start"
  /\ srv' \in {"accept", "deaf"}
  /\ UNCHANGED <<gameVars, clientVars, linkVars, got, cache, overlayVars>>

Accept ==
  /\ srv = "accept"
  /\ link = "backlog"
  /\ link' = "open"
  /\ srv' = "length"
  /\ UNCHANGED <<gameVars, clientVars, wire, got, cache, overlayVars>>

(* A length arrives, or the connection ends. *)
ReadLength ==
  /\ srv = "length"
  /\ link = "open"
  /\ wire # <<>>
  /\ \/ /\ Head(wire) = Length
        /\ wire' = Tail(wire)
        /\ srv' = "payload"
        /\ UNCHANGED link
     \/ /\ Head(wire) = Eof
        /\ wire' = <<>>
        /\ link' = "none"
        /\ srv' = "accept"
  /\ UNCHANGED <<gameVars, clientVars, got, cache, overlayVars>>

ReadPayload ==
  /\ srv = "payload"
  /\ link = "open"
  /\ wire # <<>>
  /\ Head(wire).kind = "payload"
  /\ got' = Head(wire).data
  /\ wire' = Tail(wire)
  /\ srv' = "store"
  /\ UNCHANGED <<gameVars, clientVars, link, cache, overlayVars>>

(* DeserializeGameData and the copy under m_cacheMutex. *)
Store ==
  /\ srv = "store"
  /\ cache' = got
  /\ srv' = "length"
  /\ UNCHANGED <<gameVars, clientVars, linkVars, got, overlayVars>>

----------------------------------------------------------------------------
Events(s) == [k \in 1 .. s.to - s.from |-> s.from + k]

\* The history never trimmed.
TrimmedNever(h) == h

\* The history trimmed at its end.
TrimmedAtEnd(h) == SubSeq(h, 1, AtMost(Len(h), kMaxHistory))

Trimmed(h) ==
  IF Len(h) > kMaxHistory THEN SubSeq(h, Len(h) - kMaxHistory + 1, Len(h)) ELSE h

(* UpdateGameData of a rendered frame: the cache is copied, not emptied,   *)
(* and all its events are appended to the history.                         *)
Frame ==
  /\ shown' = cache
  /\ history' = Trimmed(history \o Events(cache))
  /\ UNCHANGED <<gameVars, clientVars, linkVars, readerVars, restarts>>

(* TryInitRmlUi after a re-creation of the swapchain: the old overlay goes *)
(* with its server thread, its connection and its cache.                   *)
RecreateOverlay ==
  /\ restarts < MaxRestarts
  /\ restarts' = restarts + 1
  /\ srv' = "start" /\ got' = NoData /\ cache' = NoData
  /\ link' = IF link \in {"backlog", "open"} THEN "reset" ELSE link
  /\ wire' = <<>>
  /\ shown' = NoData /\ history' = <<>>
  /\ UNCHANGED <<gameVars, clientVars>>

----------------------------------------------------------------------------
Client == \/ ThreadStarts \/ Connect \/ ReadGame \/ SendLength \/ SendPayload
          \/ SendFails \/ WakeUp \/ ThreadEnds
Server == Listen \/ Accept \/ ReadLength \/ ReadPayload \/ Store

Next == GameTick \/ Client \/ Detach \/ Server \/ Frame \/ RecreateOverlay

Spec == Init /\ [][Next]_vars

(* Both threads are scheduled and the game presents frames.  Nothing makes *)
(* the game change, unload the DLL or re-create its swapchain.             *)
FairSpec == Spec /\ WF_vars(Client) /\ WF_vars(Server) /\ WF_vars(Frame)

----------------------------------------------------------------------------
(* Every variable has its type; the history never outgrows kMaxHistory     *)
(* (WowDataModel::Update).                                                 *)
Message == {Length, Eof} \cup {Payload(s) : s \in Snapshot}

TypeOK ==
  /\ game \in 0 .. MaxTicks
  /\ log \in 0 .. game
  /\ pc \in {"start", "connect", "read", "sendLength", "sendPayload", "sleep",
             "ended"}
  /\ running \in BOOLEAN
  /\ lastNode \in 0 .. log
  /\ packet \in Snapshot
  /\ link \in {"none", "backlog", "open", "reset", "dead"}
  /\ wire \in Seq(Message)
  /\ srv \in {"start", "accept", "length", "payload", "store", "deaf"}
  /\ got \in Snapshot
  /\ cache \in Snapshot
  /\ restarts \in 0 .. MaxRestarts
  /\ shown \in Snapshot
  /\ history \in Seq(1 .. MaxTicks) /\ Len(history) <= kMaxHistory

(* The stream never loses its framing: whatever is received, sent or cut   *)
(* off, a payload follows each length and nothing else does (SendExactly,  *)
(* ReadExactly, the two loops of ServerLoop).                              *)
PayloadFollowsLength ==
  LET before(k) == IF k = 1 THEN srv = "payload" ELSE wire[k - 1] = Length IN
  /\ \A k \in 1 .. Len(wire) : before(k) <=> wire[k].kind = "payload"
  /\ link \in {"backlog", "open"} =>
       (before(Len(wire) + 1) <=> pc = "sendPayload")

\* The snapshots on their way from the DLL to the display, oldest first: what is
\* shown, what is cached, what was just received, the messages in flight and what is
\* being sent.  A stage may be empty.
Stages == Len(wire) + 4

Stage(k) ==
  CASE k = 1 -> shown
    [] k = 2 -> cache
    [] k = 3 -> got
    [] k \in 4 .. Stages - 1 -> wire[k - 3].data
    [] OTHER -> packet

Occupied(k) ==
  \/ k \in {1, 2}
  \/ k = 3 /\ srv = "store"
  \/ k \in 4 .. Stages - 1 /\ wire[k - 3].kind = "payload"
  \/ k = Stages /\ pc \in {"sendLength", "sendPayload"}

\* t is s, or reports only what comes after it.
Before(s, t) == s = t \/ (t.from >= s.to /\ t.ver >= s.ver)

(* No event travels in two snapshots and none is overtaken: along the whole *)
(* way from the display to the DLL's last node, a snapshot is the very one *)
(* before it or starts after all its events.                               *)
EventsTravelOnce ==
  /\ \A j, k \in 1 .. Stages :
       j < k /\ Occupied(j) /\ Occupied(k) => Before(Stage(j), Stage(k))
  /\ \A k \in 1 .. Stages : Occupied(k) => Stage(k).to <= lastNode

(* While a connection lasts no event is skipped on it: the snapshots after *)
(* the first one received join up, without a gap, to the last node the DLL *)
(* has read.                                                               *)
NoGapOnTheWire ==
  link \in {"backlog", "open"} =>
    \A j \in 2 .. Stages : Occupied(j) /\ Stage(j) # NoData =>
      \/ \E k \in j + 1 .. Stages :
           /\ Occupied(k) /\ Stage(k).from = Stage(j).to
           /\ \A i \in j + 1 .. k - 1 : ~Occupied(i)
      \/ /\ \A k \in j + 1 .. Stages : ~Occupied(k)
         /\ Stage(j).to = lastNode

(* The newest event delivered is the last line of the history, however     *)
(* often a frame repeated a batch and whatever the trimming removed.       *)
NewestEventLast ==
  \A k \in 1 .. Len(history) :
     /\ history[k] <= history[Len(history)]
     /\ shown.to > shown.from => history[Len(history)] = shown.to

(* The overlay shows snapshots the game was in, later and later ones, with *)
(* disjoint batches of events: the pipe implements SnapshotRegister.       *)
Register == INSTANCE SnapshotRegister WITH game <- game, log <- log, shown <- shown
ImplementsRegister == Register!Spec

(* Every change of the game is displayed in the end - after reconnections  *)
(* too - unless the DLL has ended or the reader could not bind its port.   *)
ChangesAreShown ==
  \A v \in 1 .. MaxTicks :
    game >= v ~> (shown.ver >= v \/ ~running \/ pc = "ended" \/ srv = "deaf")

(* An event is entered in the combat log history once. *)
EventsListedOnce ==
  \A j, k \in 1 .. Len(history) : history[j] = history[k] => j = k
=============================================================================

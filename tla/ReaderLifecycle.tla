-------------------------- MODULE ReaderLifecycle --------------------------
(***************************************************************************)
(* The server thread of a GameDataReader (ServerLoop) against the thread   *)
(* that constructs and destroys readers: TryInitRmlUi builds the new       *)
(* OverlayUI, whose reader starts its thread at once, before the old       *)
(* overlay and its reader are destroyed.  Both threads use the plain       *)
(* integers m_serverFd and m_clientFd, so what matters is the process's    *)
(* descriptor table, in which numbers are reused, and the kernel objects   *)
(* the entries, blocked calls and forked injectors keep alive.             *)
(***************************************************************************)
EXTENDS Integers, FiniteSets

CONSTANTS
  MaxReaders,  \* bound: readers ever constructed
  NFds,        \* bound: descriptor numbers in use at a time
  NConns,      \* bound: connections alive at a time
  MaxFiles     \* bound: descriptors the game opens meanwhile

ASSUME LifecycleAssumption ==
  /\ MaxReaders \in Nat \ {0}
  /\ NFds \in Nat \ {0}
  /\ NConns \in Nat \ {0}
  /\ MaxFiles \in Nat

Reader == 1 .. MaxReaders
Fd     == 1 .. NFds
None   == -1

\* Kernel objects: the socket of a reader, a connection, a file of the game.
Sock(r) == <<"sock", r>>
Conn(k) == <<"conn", k>>
File    == <<"file", 0>>
Nothing == <<"nothing", 0>>
Objects == {Sock(r) : r \in Reader} \cup {Conn(k) : k \in 1 .. NConns}
             \cup {File, Nothing}

VARIABLES
  (* the process and the kernel *)
  table,     \* descriptor -> the object and the reader that opened it
  listening, \* sockets listen() was called on
  backlog,   \* the connection waiting on the socket of a reader (0: none)
  held,      \* objects the forked injectors inherited
  files,     \* descriptors opened by the game
  (* readers *)
  pc,        \* where the ServerLoop of a reader is
  ref,       \* the object its blocked call holds
  stop,      \* m_stopServer
  serverFd,  \* m_serverFd
  clientFd,  \* m_clientFd
  (* the thread of the layer's hooks *)
  hook,      \* where it is
  made,      \* readers constructed
  live,      \* the reader of rmlOverlay (0: none)
  dying,     \* the reader being destroyed (0: none)
  (* wowmemory.dll *)
  dll,       \* its thread runs
  dllConn,   \* its connection (0: none)
  confused   \* history: a call reached an object its caller did not open

kernelVars == <<table, listening, backlog, held, files>>
threadVars == <<pc, ref, stop, serverFd, clientFd>>
hookVars   == <<hook, made, live, dying>>
dllVars    == <<dll, dllConn>>
vars == <<kernelVars, threadVars, hookVars, dllVars, confused>>

Free == [obj |-> Nothing, by |-> 0]

Init ==
  /\ table = [n \in Fd |-> Free] /\ listening = {}
  /\ backlog = [r \in Reader |-> 0] /\ held = {} /\ files = 0
  /\ pc = [r \in Reader |-> "unborn"]
  /\ ref = [r \in Reader |-> Nothing]
  /\ stop = [r \in Reader |-> FALSE]
  /\ serverFd = [r \in Reader |-> None]
  /\ clientFd = [r \in Reader |-> None]
  /\ hook = "idle" /\ made = 0 /\ live = 0 /\ dying = 0
  /\ dll = FALSE /\ dllConn = 0 /\ confused = FALSE

----------------------------------------------------------------------------
(* The kernel. *)

\* What a descriptor number refers to now.
At(n) == IF n \in Fd THEN table[n] ELSE Free

\* An object is there while an entry, a child or a blocked call refers to it.
Referenced(o) ==
  \/ \E n \in Fd : table[n].obj = o
  \/ o \in held
  \/ \E r \in Reader : ref[r] = o

LiveListeners == {r \in Reader : Sock(r) \in listening /\ Referenced(Sock(r))}

ConnAlive(k) == Referenced(Conn(k)) \/ \E r \in LiveListeners : backlog[r] = k

\* POSIX hands out the lowest free number.
Lowest(n) == n \in Fd /\ table[n] = Free /\ \A m \in 1 .. n - 1 : table[m] # Free

\* close(n) by reader r; a number that is not open is only an error.
Close(n, r) ==
  /\ table' = IF n \in Fd THEN [table EXCEPT ![n] = Free] ELSE table
  /\ confused' = (confused \/ (At(n) # Free /\ At(n).by # r))

(* The rest of the game opens descriptors as it likes. *)
GameOpens ==
  /\ files < MaxFiles
  /\ \E n \in Fd : Lowest(n) /\ table' = [table EXCEPT ![n] = [obj |-> File, by |-> 0]]
  /\ files' = files + 1
  /\ UNCHANGED <<listening, backlog, held, threadVars, hookVars, dllVars, confused>>

(* Injector processes end and give up what they inherited. *)
InjectorExits ==
  /\ held # {}
  /\ held' = {}
  /\ UNCHANGED <<table, listening, backlog, files, threadVars, hookVars, dllVars,
                 confused>>

----------------------------------------------------------------------------
(* ServerLoop of reader r. *)

Goto(r, from, to) == pc[r] = from /\ pc' = [pc EXCEPT ![r] = to]

OpenSocket(r) ==
  /\ \/ /\ Goto(r, "socket", "bind")
        /\ \E n \in Fd :
             /\ Lowest(n)
             /\ table' = [table EXCEPT ![n] = [obj |-> Sock(r), by |-> r]]
             /\ serverFd' = [serverFd EXCEPT ![r] = n]
     \/ /\ Goto(r, "socket", "done")
        /\ UNCHANGED <<table, serverFd>>
  /\ UNCHANGED <<listening, backlog, held, files, ref, stop, clientFd, hookVars,
                 dllVars, confused>>

(* bind and listen: refused while another socket listens on the port, or   *)
(* when the destructor has closed the descriptor.                          *)
BindListen(r) ==
  /\ IF At(serverFd[r]).obj = Sock(r) /\ LiveListeners = {}
     THEN Goto(r, "bind", "loop") /\ listening' = listening \cup {Sock(r)}
     ELSE Goto(r, "bind", "lastClose") /\ UNCHANGED listening
  /\ UNCHANGED <<table, backlog, held, files, ref, stop, serverFd, clientFd,
                 hookVars, dllVars, confused>>

(* The head of the outer loop and accept.  An error leaves -1 in           *)
(* m_clientFd and, after a pause, comes back here.                         *)
EnterAccept(r) ==
  /\ \/ /\ stop[r]
        /\ Goto(r, "loop", "lastClose")
        /\ UNCHANGED <<ref, clientFd, confused>>
     \/ /\ ~stop[r]
        /\ At(serverFd[r]).obj \in listening
        /\ Goto(r, "loop", "accept")
        /\ ref' = [ref EXCEPT ![r] = At(serverFd[r]).obj]
        /\ confused' = (confused \/ At(serverFd[r]).by # r)
        /\ UNCHANGED clientFd
     \/ /\ ~stop[r]
        /\ At(serverFd[r]).obj \notin listening
        /\ Goto(r, "loop", "loop")
        /\ clientFd' = [clientFd EXCEPT ![r] = None]
        /\ confused' = (confused \/ (At(serverFd[r]) # Free /\ At(serverFd[r]).by # r))
        /\ UNCHANGED ref
  /\ UNCHANGED <<kernelVars, stop, serverFd, hookVars, dllVars>>

(* accept returns.  It sleeps on the socket, not on the number: closing    *)
(* the descriptor does not wake it.                                        *)
AcceptReturns(r) ==
  /\ Goto(r, "accept", "inner")
  /\ \E s \in Reader, n \in Fd :
       /\ ref[r] = Sock(s)
       /\ backlog[s] # 0
       /\ Lowest(n)
       /\ table' = [table EXCEPT ![n] = [obj |-> Conn(backlog[s]), by |-> r]]
       /\ clientFd' = [clientFd EXCEPT ![r] = n]
       /\ backlog' = [backlog EXCEPT ![s] = 0]
  /\ ref' = [ref EXCEPT ![r] = Nothing]
  /\ UNCHANGED <<listening, held, files, stop, serverFd, hookVars, dllVars, confused>>

\* An inner loop that does not look at m_stopServer.
InnerLoopForever(r) ==
  /\ Goto(r, "inner", "length")
  /\ UNCHANGED <<kernelVars, ref, stop, serverFd, clientFd, hookVars, dllVars, confused>>

(* The head of the inner loop. *)
InnerLoop(r) ==
  /\ IF stop[r] THEN Goto(r, "inner", "clientClose") ELSE Goto(r, "inner", "length")
  /\ UNCHANGED <<kernelVars, ref, stop, serverFd, clientFd, hookVars, dllVars, confused>>

(* recv on whatever m_clientFd refers to now. *)
EnterRecv(r) ==
  /\ pc[r] \in {"length", "payload"}
  /\ ref[r] = Nothing
  /\ IF \E k \in 1 .. NConns : At(clientFd[r]).obj = Conn(k)
     THEN /\ ref' = [ref EXCEPT ![r] = At(clientFd[r]).obj]
          /\ UNCHANGED pc
     ELSE /\ pc' = [pc EXCEPT ![r] = "clientClose"]
          /\ UNCHANGED ref
  /\ confused' = (confused \/ (At(clientFd[r]) # Free /\ At(clientFd[r]).by # r))
  /\ UNCHANGED <<kernelVars, stop, serverFd, clientFd, hookVars, dllVars>>

(* recv returns: data while the DLL is at the other end, else the end of   *)
(* the stream.  m_stopServer is looked at again after a whole message.     *)
RecvReturns(r) ==
  /\ ref[r] # Nothing
  /\ \/ /\ ref[r] = Conn(dllConn)
        /\ Goto(r, "length", "payload") \/ Goto(r, "payload", "inner")
     \/ /\ ref[r] # Conn(dllConn)
        /\ Goto(r, "length", "clientClose") \/ Goto(r, "payload", "clientClose")
  /\ ref' = [ref EXCEPT ![r] = Nothing]
  /\ UNCHANGED <<kernelVars, stop, serverFd, clientFd, hookVars, dllVars, confused>>

CloseClient(r) ==
  /\ Goto(r, "clientClose", "clientForget")
  /\ Close(clientFd[r], r)
  /\ UNCHANGED <<listening, backlog, held, files, ref, stop, serverFd, clientFd,
                 hookVars, dllVars>>

\* m_clientFd left as it is.
KeepClient(r) ==
  /\ Goto(r, "clientForget", "loop")
  /\ UNCHANGED <<kernelVars, ref, stop, serverFd, clientFd, hookVars, dllVars, confused>>

ForgetClient(r) ==
  /\ Goto(r, "clientForget", "loop")
  /\ clientFd' = [clientFd EXCEPT ![r] = None]
  /\ UNCHANGED <<kernelVars, ref, stop, serverFd, hookVars, dllVars, confused>>

\* The early return of a failed bind without its close.
CloseServerForgotten(r) ==
  /\ Goto(r, "lastClose", "lastForget")
  /\ UNCHANGED <<kernelVars, ref, stop, serverFd, clientFd, hookVars, dllVars, confused>>

(* The last lines of ServerLoop, and those of its early returns. *)
CloseServer(r) ==
  /\ Goto(r, "lastClose", "lastForget")
  /\ Close(serverFd[r], r)
  /\ UNCHANGED <<listening, backlog, held, files, ref, stop, serverFd, clientFd,
                 hookVars, dllVars>>

ForgetServer(r) ==
  /\ Goto(r, "lastForget", "done")
  /\ serverFd' = [serverFd EXCEPT ![r] = None]
  /\ UNCHANGED <<kernelVars, ref, stop, clientFd, hookVars, dllVars, confused>>

Server(r) ==
  \/ OpenSocket(r) \/ BindListen(r) \/ EnterAccept(r) \/ AcceptReturns(r)
  \/ InnerLoop(r) \/ EnterRecv(r) \/ RecvReturns(r) \/ CloseClient(r)
  \/ ForgetClient(r) \/ CloseServer(r) \/ ForgetServer(r)

----------------------------------------------------------------------------
(* TryInitRmlUi: make_unique constructs the new overlay with its reader... *)
Construct ==
  /\ hook = "idle"
  /\ made < MaxReaders
  /\ made' = made + 1
  /\ pc' = [pc EXCEPT ![made + 1] = "socket"]
  /\ hook' = "assign"
  /\ UNCHANGED <<kernelVars, ref, stop, serverFd, clientFd, live, dying, dllVars,
                 confused>>

(* ...and its assignment destroys the old one, if any. *)
Assign ==
  /\ hook = "assign"
  /\ live' = made
  /\ dying' = live
  /\ hook' = IF live = 0 THEN "initialize" ELSE "stop"
  /\ UNCHANGED <<kernelVars, threadVars, made, dllVars, confused>>

(* Initialize succeeds, and the injector is forked with every descriptor,  *)
(* or it fails and the new overlay is destroyed as well.                   *)
Initialize ==
  /\ hook = "initialize"
  /\ \/ /\ held' = held \cup ({table[n].obj : n \in Fd} \ {Nothing})
        /\ hook' = "idle"
        /\ UNCHANGED <<live, dying>>
     \/ /\ dying' = live
        /\ live' = 0
        /\ hook' = "stop"
        /\ UNCHANGED held
  /\ UNCHANGED <<table, listening, backlog, files, threadVars, made, dllVars, confused>>

(* ~GameDataReader, statement by statement. *)
DtorStop ==
  /\ hook = "stop"
  /\ stop' = [stop EXCEPT ![dying] = TRUE]
  /\ hook' = "closeServer"
  /\ UNCHANGED <<kernelVars, pc, ref, serverFd, clientFd, made, live, dying, dllVars,
                 confused>>

DtorCloseServer ==
  /\ hook = "closeServer"
  /\ Close(serverFd[dying], dying)
  /\ hook' = "closeClient"
  /\ UNCHANGED <<listening, backlog, held, files, threadVars, made, live, dying, dllVars>>

DtorCloseClient ==
  /\ hook = "closeClient"
  /\ Close(clientFd[dying], dying)
  /\ hook' = "join"
  /\ UNCHANGED <<listening, backlog, held, files, threadVars, made, live, dying, dllVars>>

\* detach() in place of join().
DtorDetach ==
  /\ hook = "join"
  /\ dying' = 0
  /\ hook' = IF live = 0 THEN "idle" ELSE "initialize"
  /\ UNCHANGED <<kernelVars, threadVars, made, live, dllVars, confused>>

DtorJoin ==
  /\ hook = "join"
  /\ pc[dying] = "done"
  /\ dying' = 0
  /\ hook' = IF live = 0 THEN "idle" ELSE "initialize"
  /\ UNCHANGED <<kernelVars, threadVars, made, live, dllVars, confused>>

Destructor == DtorStop \/ DtorCloseServer \/ DtorCloseClient \/ DtorJoin

----------------------------------------------------------------------------
(* wowmemory.dll: started by an injector, stopped with the client. *)
DllStarts ==
  /\ ~dll /\ live # 0 /\ hook = "idle"
  /\ dll' = TRUE
  /\ UNCHANGED <<kernelVars, threadVars, hookVars, dllConn, confused>>

DllStops ==
  /\ dll
  /\ dll' = FALSE
  /\ dllConn' = 0
  /\ UNCHANGED <<kernelVars, threadVars, hookVars, confused>>

(* Its connect loop reaches whoever listens on the port. *)
DllConnects ==
  /\ dll /\ dllConn = 0
  /\ \E r \in LiveListeners, k \in 1 .. NConns :
       /\ backlog[r] = 0
       /\ ~ConnAlive(k)
       /\ backlog' = [backlog EXCEPT ![r] = k]
       /\ dllConn' = k
  /\ UNCHANGED <<table, listening, held, files, threadVars, hookVars, dll, confused>>

(* A connection nobody holds any more fails its next send. *)
DllDisconnects ==
  /\ dllConn # 0
  /\ ~ConnAlive(dllConn)
  /\ dllConn' = 0
  /\ UNCHANGED <<kernelVars, threadVars, hookVars, dll, confused>>

----------------------------------------------------------------------------
Next ==
  \/ \E r \in Reader : Server(r)
  \/ Construct \/ Assign \/ Initialize \/ Destructor
  \/ DllStarts \/ DllStops \/ DllConnects \/ DllDisconnects
  \/ GameOpens \/ InjectorExits

Spec == Init /\ [][Next]_vars

(* Threads that can run do, the DLL retries its connection and injectors   *)
(* end.  The DLL need not ever start.                                      *)
FairSpec ==
  /\ Spec
  /\ \A r \in Reader : WF_vars(Server(r))
  /\ WF_vars(Destructor)
  /\ WF_vars(DllConnects) /\ WF_vars(DllDisconnects)
  /\ WF_vars(InjectorExits)

----------------------------------------------------------------------------
Entry == [obj : Objects, by : 0 .. MaxReaders]

Connected == {"inner", "length", "payload", "clientClose", "clientForget"}
Opened    == {"bind", "loop", "accept", "lastClose", "lastForget"} \cup Connected

KernelTypes ==
  /\ table \in [Fd -> Entry]
  /\ listening \subseteq {Sock(r) : r \in Reader}
  /\ backlog \in [Reader -> 0 .. NConns]
  /\ held \subseteq Objects \ {Nothing}
  /\ files \in 0 .. MaxFiles

ThreadTypes ==
  /\ pc \in [Reader -> {"unborn", "socket", "done"} \cup Opened]
  /\ ref \in [Reader -> Objects]
  /\ serverFd \in [Reader -> Fd \cup {None}]
  /\ clientFd \in [Reader -> Fd \cup {None}]
  /\ \A r \in Reader : serverFd[r] # None => pc[r] \in Opened
  /\ \A r \in Reader : clientFd[r] # None => pc[r] \in Connected

HookTypes ==
  /\ hook \in {"idle", "assign", "initialize", "stop", "closeServer",
               "closeClient", "join"}
  /\ made \in 0 .. MaxReaders
  /\ live \in 0 .. MaxReaders
  /\ dying \in 0 .. MaxReaders
  /\ dllConn \in 0 .. NConns

Flags ==
  /\ stop \in [Reader -> BOOLEAN]
  /\ dll \in BOOLEAN
  /\ confused \in BOOLEAN

(* Every variable has its type; the two fields of GameDataReader are -1    *)
(* whenever ServerLoop has nothing open (the assignments after its closes). *)
TypeOK == KernelTypes /\ ThreadTypes /\ HookTypes /\ Flags

Destroyed(r) == r <= made /\ r \notin {live, dying} /\ ~(r = made /\ hook = "assign")

(* A destroyed reader leaves no descriptor behind and no thread of its     *)
(* own: whatever the destructor's closes missed - a socket opened or a     *)
(* connection accepted after it looked - the server thread closes before   *)
(* the join returns (GameDataReader::~GameDataReader, ServerLoop).         *)
NothingLeaks ==
  \A r \in Reader : Destroyed(r) =>
    /\ pc[r] = "done" /\ ref[r] = Nothing
    /\ \A n \in Fd : table[n].by # r

(* The first use of a descriptor by a thread that did not open it happens  *)
(* while a destructor and a server thread close descriptors at once: when  *)
(* none is being destroyed, each number in the two fields is its reader's  *)
(* own, early returns and errors included.                                 *)
ConfusionStartsInDestructors ==
  [][~confused /\ confused' => hook \in {"closeServer", "closeClient", "join"}]_vars

(* The destructor of a reader returns as long as the DLL keeps connecting  *)
(* and sending and no descriptor was confused: the connection or the next  *)
(* message wakes the server thread.                                        *)
DestructorReturnsToTheDll ==
  (hook = "join") ~> (hook # "join" \/ ~dll \/ confused)

(* The destructor of a reader returns.                                     *)
DestructorReturns == (hook = "join") ~> (hook # "join")

----------------------------------------------------------------------------
(* The strengthening used by ReaderProofs. *)

InDestructor == hook \in {"stop", "closeServer", "closeClient", "join"}

\* Which readers the hook thread has in hand at each point.
HookOrder ==
  /\ hook = "idle" => live \in {0, made} /\ dying = 0
  /\ hook = "assign" => live < made /\ dying = 0
  /\ hook = "initialize" => live = made /\ made # 0 /\ dying = 0
  /\ InDestructor => live \in {0, made} /\ dying \in 1 .. made /\ dying # live

\* A thread exists from the construction of its reader and outlives no join.
ThreadsJoined ==
  \A r \in Reader : /\ pc[r] = "unborn" <=> r > made
                    /\ Destroyed(r) => pc[r] = "done"

\* An entry opened by a reader is still known to it, and will be closed.
EntriesKnown ==
  \A n \in Fd, r \in Reader : table[n].by = r =>
    \/ n = serverFd[r] /\ pc[r] \in Opened \ {"lastForget"}
    \/ n = clientFd[r] /\ pc[r] \in Connected \ {"clientForget"}

\* Only a call that can block holds an object.
RefsBlock ==
  \A r \in Reader : ref[r] # Nothing => pc[r] \in {"accept", "length", "payload"}

IInv == TypeOK /\ HookOrder /\ ThreadsJoined /\ EntriesKnown /\ RefsBlock

\* A reader whose descriptors no destructor has closed.
Intact(r) == ~(r = dying /\ hook \in {"closeClient", "join"})

\* While nothing is confused, the numbers an intact reader still has open are
\* two different ones of its own.
OwnNumbers ==
  ~confused => \A r \in Reader : Intact(r) =>
    /\ pc[r] \in Opened \ {"lastForget"} =>
         serverFd[r] \in Fd /\ table[serverFd[r]].by = r
    /\ pc[r] \in Connected \ {"clientForget"} =>
         clientFd[r] \in Fd \ {serverFd[r]} /\ table[clientFd[r]].by = r

OwnInv == IInv /\ OwnNumbers
=============================================================================

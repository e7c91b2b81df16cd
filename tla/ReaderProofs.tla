---------------------------- MODULE ReaderProofs ----------------------------
(***************************************************************************)
(* Theorems about ReaderLifecycle for every number of readers, descriptors *)
(* and connections.  The steps of a server thread share what they do to    *)
(* the hook thread's view (ServerStepShape); each keeps the types and the  *)
(* accounting of descriptors by a lemma of its own.                        *)
(***************************************************************************)
EXTENDS ReaderLifecycle, TLAPS

USE LifecycleAssumption
    DEF Reader, Fd, None, kernelVars, threadVars, hookVars, dllVars

\* What the steps of a server thread can disturb.
Accounts == KernelTypes /\ ThreadTypes /\ EntriesKnown /\ RefsBlock

----------------------------------------------------------------------------
(* Kernel objects. *)

\* An object is a socket, a connection, the game's file or none of them.
LEMMA ObjectKinds ==
  /\ \A r \in Reader : Sock(r) \in Objects /\ Sock(r) # Nothing
  /\ \A k \in 1 .. NConns : Conn(k) \in Objects /\ Conn(k) # Nothing
  /\ File \in Objects /\ File # Nothing
  /\ Nothing \in Objects
BY DEF Objects, Sock, Conn, File, Nothing

\* The free entry is an entry, opened by no reader.
LEMMA FreeIsEntry == Free \in Entry /\ Free.by \notin Reader /\ Free.by = 0
BY ObjectKinds DEF Free, Entry

\* A number that is open or not refers to an entry.
LEMMA AtIsEntry ==
  ASSUME KernelTypes, NEW n
  PROVE  At(n) \in Entry
BY FreeIsEntry DEF KernelTypes, At

\* Closing frees at most one entry.
LEMMA CloseFrees ==
  ASSUME KernelTypes, NEW n, NEW r \in Reader, Close(n, r)
  PROVE  /\ table' \in [Fd -> Entry]
         /\ \A m \in Fd : table'[m] = table[m] \/ table'[m] = Free
         /\ n \in Fd => table'[n] = Free
BY FreeIsEntry DEF KernelTypes, Close

\* Freeing entries loses no accounting.
LEMMA FreeingKeepsKnown ==
  ASSUME EntriesKnown, UNCHANGED <<serverFd, clientFd, pc>>,
         \A m \in Fd : table'[m] = table[m] \/ table'[m] = Free
  PROVE  EntriesKnown'
BY FreeIsEntry DEF EntriesKnown

----------------------------------------------------------------------------
(* Initial states. *)

\* Before the first hook nothing is open and no reader exists.
LEMMA InitSafe ==
  ASSUME Init
  PROVE  IInv
<1>1. KernelTypes
  BY FreeIsEntry DEF Init, KernelTypes
<1>2. ThreadTypes
  BY ObjectKinds DEF Init, ThreadTypes
<1>3. HookTypes /\ HookOrder
  BY DEF Init, HookTypes, HookOrder, InDestructor
<1>4. Flags
  BY DEF Init, Flags
<1>5. ThreadsJoined
  BY DEF Init, ThreadsJoined, Destroyed
<1>6. EntriesKnown
  BY FreeIsEntry DEF Init, EntriesKnown
<1>7. RefsBlock
  BY DEF Init, RefsBlock
<1>8. QED
  BY <1>1, <1>2, <1>3, <1>4, <1>5, <1>6, <1>7 DEF IInv, TypeOK
----------------------------------------------------------------------------
(* The steps of ServerLoop. *)

\* OpenSocket adds one entry, for a thread that had none.
LEMMA OpenSocketKeeps ==
  ASSUME NEW r \in Reader, Accounts, OpenSocket(r)
  PROVE  Accounts'
<1> USE DEF Accounts, OpenSocket, Goto
<1>1. CASE pc' = [pc EXCEPT ![r] = "bind"]
  <2>1. PICK n \in Fd : /\ Lowest(n)
                        /\ table' = [table EXCEPT ![n] = [obj |-> Sock(r), by |-> r]]
                        /\ serverFd' = [serverFd EXCEPT ![r] = n]
    BY <1>1 DEF ThreadTypes
  <2>2. KernelTypes'
    BY <2>1, ObjectKinds DEF KernelTypes, Entry
  <2>3. ThreadTypes'
    BY <1>1, <2>1 DEF ThreadTypes, Opened, Connected
  <2>4. EntriesKnown'
    BY <1>1, <2>1, SMTT(30) DEF EntriesKnown, KernelTypes, ThreadTypes, Opened, Connected, Entry
  <2>5. RefsBlock'
    BY <1>1 DEF RefsBlock, ThreadTypes
  <2>6. QED
    BY <2>2, <2>3, <2>4, <2>5
<1>2. CASE pc' = [pc EXCEPT ![r] = "done"] /\ UNCHANGED <<table, serverFd>>
  <2>1. pc[r] = "socket"
    OBVIOUS
  <2>2. KernelTypes'
    BY <1>2 DEF KernelTypes
  <2>3. ThreadTypes'
    BY <1>2, <2>1 DEF ThreadTypes, Opened, Connected
  <2>4. EntriesKnown'
    BY <1>2, <2>1 DEF EntriesKnown, ThreadTypes, Opened, Connected
  <2>5. RefsBlock'
    BY <1>2, <2>1 DEF RefsBlock, ThreadTypes
  <2>6. QED
    BY <2>2, <2>3, <2>4, <2>5
<1>3. QED
  BY <1>1, <1>2

\* A step of the thread that changes neither descriptors nor fields, only its
\* place, within the stretch where both are still known.
LEMMA MovingKeeps ==
  ASSUME NEW r \in Reader, Accounts,
         NEW from, NEW to, Goto(r, from, to),
         UNCHANGED <<table, backlog, held, files, ref, serverFd, clientFd>>,
         listening' \subseteq {Sock(q) : q \in Reader},
         \/ from \in {"bind", "loop"} /\ to \in {"loop", "accept", "lastClose"}
         \/ /\ from \in {"inner", "length", "payload"}
            /\ to \in {"length", "payload", "inner", "clientClose"},
         ref[r] # Nothing => to \in {"accept", "length", "payload"}
  PROVE  Accounts'
<1> USE DEF Accounts, Goto
<1>1. KernelTypes'
  BY DEF KernelTypes
<1>2. ThreadTypes'
  BY DEF ThreadTypes, Opened, Connected
<1>3. EntriesKnown'
  <2> SUFFICES ASSUME NEW n \in Fd, NEW q \in Reader, table[n].by = q
               PROVE  \/ n = serverFd[q] /\ pc'[q] \in Opened \ {"lastForget"}
                      \/ n = clientFd[q] /\ pc'[q] \in Connected \ {"clientForget"}
    BY DEF EntriesKnown
  <2>1. \/ n = serverFd[q] /\ pc[q] \in Opened \ {"lastForget"}
        \/ n = clientFd[q] /\ pc[q] \in Connected \ {"clientForget"}
    BY DEF EntriesKnown
  <2>2. CASE q # r
    <3>1. pc'[q] = pc[q]
      BY <2>2 DEF ThreadTypes
    <3> QED
      BY <2>1, <3>1
  <2>3. CASE q = r
    <3>1. pc[q] = from /\ pc'[q] = to
      BY <2>3 DEF ThreadTypes
    <3> QED
      BY <2>1, <3>1 DEF Opened, Connected
  <2> QED
    BY <2>2, <2>3
<1>4. RefsBlock'
  BY DEF RefsBlock, ThreadTypes
<1>5. QED
  BY <1>1, <1>2, <1>3, <1>4

\* BindListen marks the socket at most.
LEMMA BindListenKeeps ==
  ASSUME NEW r \in Reader, Accounts, BindListen(r)
  PROVE  Accounts'
<1>1. ref[r] = Nothing
  BY DEF Accounts, RefsBlock, BindListen, Goto
<1>2. listening' \subseteq {Sock(q) : q \in Reader}
  BY DEF Accounts, KernelTypes, BindListen
<1>3. QED
  BY <1>1, <1>2, MovingKeeps DEF BindListen

\* EnterAccept takes a reference to a listening socket or clears m_clientFd.
LEMMA EnterAcceptKeeps ==
  ASSUME NEW r \in Reader, Accounts, EnterAccept(r)
  PROVE  Accounts'
<1> USE DEF Accounts, EnterAccept
<1>0. pc[r] = "loop" /\ ref[r] = Nothing
  BY DEF Goto, RefsBlock
<1>1. CASE Goto(r, "loop", "lastClose") /\ UNCHANGED <<ref, clientFd>>
  BY <1>0, <1>1, MovingKeeps DEF KernelTypes
<1>2. CASE /\ At(serverFd[r]).obj \in listening
           /\ Goto(r, "loop", "accept")
           /\ ref' = [ref EXCEPT ![r] = At(serverFd[r]).obj]
           /\ UNCHANGED clientFd
  <2>1. At(serverFd[r]).obj \in Objects
    BY <1>2, ObjectKinds DEF KernelTypes
  <2>2. KernelTypes'
    BY DEF KernelTypes
  <2>3. ThreadTypes'
    BY <1>0, <1>2, <2>1 DEF ThreadTypes, Goto, Opened, Connected
  <2>4. EntriesKnown'
    BY <1>0, <1>2 DEF EntriesKnown, ThreadTypes, Goto, Opened, Connected
  <2>5. RefsBlock'
    BY <1>0, <1>2 DEF RefsBlock, ThreadTypes, Goto
  <2>6. QED
    BY <2>2, <2>3, <2>4, <2>5
<1>3. CASE /\ Goto(r, "loop", "loop")
           /\ clientFd' = [clientFd EXCEPT ![r] = None]
           /\ UNCHANGED ref
  <2>2. KernelTypes'
    BY DEF KernelTypes
  <2>3. ThreadTypes'
    BY <1>0, <1>3 DEF ThreadTypes, Goto, Opened, Connected
  <2>4. EntriesKnown'
    BY <1>0, <1>3 DEF EntriesKnown, ThreadTypes, Goto, Opened, Connected
  <2>5. RefsBlock'
    BY <1>0, <1>3 DEF RefsBlock, ThreadTypes, Goto
  <2>6. QED
    BY <2>2, <2>3, <2>4, <2>5
<1>4. QED
  BY <1>1, <1>2, <1>3

\* AcceptReturns adds one entry and records its number.
LEMMA AcceptReturnsKeeps ==
  ASSUME NEW r \in Reader, Accounts, AcceptReturns(r)
  PROVE  Accounts'
<1> USE DEF Accounts, AcceptReturns
<1>1. PICK s \in Reader, n \in Fd :
        /\ ref[r] = Sock(s)
        /\ backlog[s] # 0
        /\ Lowest(n)
        /\ table' = [table EXCEPT ![n] = [obj |-> Conn(backlog[s]), by |-> r]]
        /\ clientFd' = [clientFd EXCEPT ![r] = n]
        /\ backlog' = [backlog EXCEPT ![s] = 0]
  OBVIOUS
<1>2. pc[r] = "accept" /\ pc' = [pc EXCEPT ![r] = "inner"]
  BY DEF Goto
<1>3. backlog[s] \in 1 .. NConns
  BY <1>1 DEF KernelTypes
<1>4. [obj |-> Conn(backlog[s]), by |-> r] \in Entry
  BY <1>3, ObjectKinds DEF Entry
<1>5. KernelTypes'
  BY <1>1, <1>4 DEF KernelTypes
<1>6. ThreadTypes'
  BY <1>1, <1>2, ObjectKinds DEF ThreadTypes, Opened, Connected
<1>7. EntriesKnown'
  BY <1>1, <1>2, SMTT(30) DEF EntriesKnown, KernelTypes, ThreadTypes, Opened, Connected
<1>8. RefsBlock'
  BY <1>2 DEF RefsBlock, ThreadTypes
<1>9. QED
  BY <1>5, <1>6, <1>7, <1>8

\* InnerLoop only moves.
LEMMA InnerLoopKeeps ==
  ASSUME NEW r \in Reader, Accounts, InnerLoop(r)
  PROVE  Accounts'
<1>1. ref[r] = Nothing
  BY DEF Accounts, RefsBlock, InnerLoop, Goto
<1>2. listening' \subseteq {Sock(q) : q \in Reader}
  BY DEF Accounts, KernelTypes, InnerLoop
<1>3. QED
  BY <1>1, <1>2, MovingKeeps DEF InnerLoop

\* EnterRecv takes a reference to a connection, or gives up.
LEMMA EnterRecvKeeps ==
  ASSUME NEW r \in Reader, Accounts, EnterRecv(r)
  PROVE  Accounts'
<1> USE DEF Accounts, EnterRecv
<1>1. CASE /\ \E k \in 1 .. NConns : At(clientFd[r]).obj = Conn(k)
           /\ ref' = [ref EXCEPT ![r] = At(clientFd[r]).obj]
           /\ UNCHANGED pc
  <2>1. At(clientFd[r]).obj \in Objects
    BY <1>1, ObjectKinds
  <2>2. KernelTypes'
    BY DEF KernelTypes
  <2>3. ThreadTypes'
    BY <1>1, <2>1 DEF ThreadTypes
  <2>4. EntriesKnown'
    BY <1>1 DEF EntriesKnown
  <2>5. RefsBlock'
    BY <1>1 DEF RefsBlock, ThreadTypes
  <2>6. QED
    BY <2>2, <2>3, <2>4, <2>5
<1>2. CASE pc' = [pc EXCEPT ![r] = "clientClose"] /\ UNCHANGED ref
  <2>1. Goto(r, pc[r], "clientClose") /\ pc[r] \in {"length", "payload"}
    BY <1>2 DEF Goto
  <2>2. listening' \subseteq {Sock(q) : q \in Reader}
    BY DEF KernelTypes
  <2>3. QED
    BY <1>2, <2>1, <2>2, MovingKeeps
<1>3. QED
  BY <1>1, <1>2

\* RecvReturns gives the reference back.
LEMMA RecvReturnsKeeps ==
  ASSUME NEW r \in Reader, Accounts, RecvReturns(r)
  PROVE  Accounts'
<1> USE DEF Accounts, RecvReturns
<1>1. PICK to \in {"length", "payload", "inner", "clientClose"} :
        pc[r] \in {"length", "payload"} /\ pc' = [pc EXCEPT ![r] = to]
  BY DEF Goto
<1>2. KernelTypes'
  BY DEF KernelTypes
<1>3. ThreadTypes'
  BY <1>1, ObjectKinds DEF ThreadTypes, Opened, Connected
<1>4. EntriesKnown'
  BY <1>1 DEF EntriesKnown, ThreadTypes, Opened, Connected
<1>5. RefsBlock'
  BY <1>1 DEF RefsBlock, ThreadTypes
<1>6. QED
  BY <1>2, <1>3, <1>4, <1>5

\* CloseClient frees the number in m_clientFd.
LEMMA CloseClientKeeps ==
  ASSUME NEW r \in Reader, Accounts, CloseClient(r)
  PROVE  Accounts'
<1> USE DEF Accounts, CloseClient, Goto
<1>1. /\ table' \in [Fd -> Entry]
      /\ \A m \in Fd : table'[m] = table[m] \/ table'[m] = Free
      /\ clientFd[r] \in Fd => table'[clientFd[r]] = Free
  BY CloseFrees
<1>2. KernelTypes'
  BY <1>1 DEF KernelTypes
<1>3. ThreadTypes'
  BY DEF ThreadTypes, Opened, Connected
<1>4. EntriesKnown'
  <2> SUFFICES ASSUME NEW m \in Fd, NEW q \in Reader, table'[m].by = q
               PROVE  \/ m = serverFd'[q] /\ pc'[q] \in Opened \ {"lastForget"}
                      \/ m = clientFd'[q] /\ pc'[q] \in Connected \ {"clientForget"}
    BY DEF EntriesKnown
  <2>1. table'[m] = table[m] /\ m # clientFd[r]
    BY <1>1, FreeIsEntry
  <2>2. \/ m = serverFd[q] /\ pc[q] \in Opened \ {"lastForget"}
        \/ m = clientFd[q] /\ pc[q] \in Connected \ {"clientForget"}
    BY <2>1 DEF EntriesKnown
  <2>3. CASE q = r
    BY <2>1, <2>2, <2>3 DEF ThreadTypes, Opened, Connected
  <2>4. CASE q # r
    BY <2>2, <2>4 DEF ThreadTypes
  <2>5. QED
    BY <2>3, <2>4
<1>5. RefsBlock'
  BY DEF RefsBlock, ThreadTypes
<1>6. QED
  BY <1>2, <1>3, <1>4, <1>5

\* ForgetClient drops a number whose entry is gone.
LEMMA ForgetClientKeeps ==
  ASSUME NEW r \in Reader, Accounts, ForgetClient(r)
  PROVE  Accounts'
<1> USE DEF Accounts, ForgetClient, Goto
<1>1. KernelTypes'
  BY DEF KernelTypes
<1>2. ThreadTypes'
  BY DEF ThreadTypes, Opened, Connected
<1>3. EntriesKnown'
  BY DEF EntriesKnown, ThreadTypes, Opened, Connected
<1>4. RefsBlock'
  BY DEF RefsBlock, ThreadTypes
<1>5. QED
  BY <1>1, <1>2, <1>3, <1>4

\* CloseServer frees the number in m_serverFd.
LEMMA CloseServerKeeps ==
  ASSUME NEW r \in Reader, Accounts, CloseServer(r)
  PROVE  Accounts'
<1> USE DEF Accounts, CloseServer, Goto
<1>1. /\ table' \in [Fd -> Entry]
      /\ \A m \in Fd : table'[m] = table[m] \/ table'[m] = Free
      /\ serverFd[r] \in Fd => table'[serverFd[r]] = Free
  BY CloseFrees
<1>2. KernelTypes'
  BY <1>1 DEF KernelTypes
<1>3. ThreadTypes'
  BY DEF ThreadTypes, Opened, Connected
<1>4. EntriesKnown'
  <2> SUFFICES ASSUME NEW m \in Fd, NEW q \in Reader, table'[m].by = q
               PROVE  \/ m = serverFd'[q] /\ pc'[q] \in Opened \ {"lastForget"}
                      \/ m = clientFd'[q] /\ pc'[q] \in Connected \ {"clientForget"}
    BY DEF EntriesKnown
  <2>1. table'[m] = table[m] /\ m # serverFd[r]
    BY <1>1, FreeIsEntry
  <2>2. \/ m = serverFd[q] /\ pc[q] \in Opened \ {"lastForget"}
        \/ m = clientFd[q] /\ pc[q] \in Connected \ {"clientForget"}
    BY <2>1 DEF EntriesKnown
  <2>3. CASE q = r
    BY <2>1, <2>2, <2>3 DEF ThreadTypes, Opened, Connected
  <2>4. CASE q # r
    BY <2>2, <2>4 DEF ThreadTypes
  <2>5. QED
    BY <2>3, <2>4
<1>5. RefsBlock'
  BY DEF RefsBlock, ThreadTypes
<1>6. QED
  BY <1>2, <1>3, <1>4, <1>5

\* ForgetServer drops a number whose entry is gone.
LEMMA ForgetServerKeeps ==
  ASSUME NEW r \in Reader, Accounts, ForgetServer(r)
  PROVE  Accounts'
<1> USE DEF Accounts, ForgetServer, Goto
<1>1. KernelTypes'
  BY DEF KernelTypes
<1>2. ThreadTypes'
  BY DEF ThreadTypes, Opened, Connected
<1>3. EntriesKnown'
  BY DEF EntriesKnown, ThreadTypes, Opened, Connected
<1>4. RefsBlock'
  BY DEF RefsBlock, ThreadTypes
<1>5. QED
  BY <1>1, <1>2, <1>3, <1>4
\* Every step of ServerLoop keeps the accounts.
LEMMA ServerKeepsAccounts ==
  ASSUME NEW r \in Reader, Accounts, Server(r)
  PROVE  Accounts'
BY OpenSocketKeeps, BindListenKeeps, EnterAcceptKeeps, AcceptReturnsKeeps,
   InnerLoopKeeps, EnterRecvKeeps, RecvReturnsKeeps, CloseClientKeeps,
   ForgetClientKeeps, CloseServerKeeps, ForgetServerKeeps DEF Server

\* A step of ServerLoop is one of a thread that has begun and not ended, and
\* the hook thread's variables are not its business.
LEMMA ServerStepShape ==
  ASSUME NEW r \in Reader, Accounts, Server(r)
  PROVE  /\ pc[r] \notin {"unborn", "done"}
         /\ \E to : to # "unborn" /\ pc' = [pc EXCEPT ![r] = to]
         /\ UNCHANGED <<stop, hookVars, dllVars>>
         /\ confused' \in BOOLEAN \/ UNCHANGED confused
<1> USE DEF Server
<1>1. UNCHANGED <<stop, hookVars, dllVars>>
  BY DEF OpenSocket, BindListen, EnterAccept, AcceptReturns, InnerLoop, EnterRecv,
         RecvReturns, CloseClient, ForgetClient, CloseServer, ForgetServer
<1>2. confused' \in BOOLEAN \/ UNCHANGED confused
  BY DEF OpenSocket, BindListen, EnterAccept, AcceptReturns, InnerLoop, EnterRecv,
         RecvReturns, CloseClient, ForgetClient, CloseServer, ForgetServer, Close
<1>3. /\ pc[r] \notin {"unborn", "done"}
      /\ \E to : to # "unborn" /\ pc' = [pc EXCEPT ![r] = to]
  <2>1. CASE OpenSocket(r) \/ BindListen(r) \/ EnterAccept(r) \/ AcceptReturns(r)
    BY <2>1 DEF OpenSocket, BindListen, EnterAccept, AcceptReturns, Goto
  <2>2. CASE InnerLoop(r) \/ RecvReturns(r) \/ CloseClient(r)
    BY <2>2 DEF InnerLoop, RecvReturns, CloseClient, Goto
  <2>3. CASE ForgetClient(r) \/ CloseServer(r) \/ ForgetServer(r)
    BY <2>3 DEF ForgetClient, CloseServer, ForgetServer, Goto
  <2>4. CASE EnterRecv(r)
    <3>1. pc[r] \in {"length", "payload"}
      BY <2>4 DEF EnterRecv
    <3>2. pc' = [pc EXCEPT ![r] = "clientClose"] \/ pc' = [pc EXCEPT ![r] = pc[r]]
      BY <2>4 DEF EnterRecv, Accounts, ThreadTypes
    <3>3. QED
      BY <3>1, <3>2
  <2>5. QED
    BY <2>1, <2>2, <2>3, <2>4
<1>4. QED
  BY <1>1, <1>2, <1>3

\* A step of ServerLoop keeps the invariant.
LEMMA ServerKeeps ==
  ASSUME NEW r \in Reader, IInv, Server(r)
  PROVE  IInv'
<1>0. Accounts
  BY DEF IInv, TypeOK, Accounts
<1>1. Accounts'
  BY <1>0, ServerKeepsAccounts
<1>2. /\ pc[r] \notin {"unborn", "done"}
      /\ UNCHANGED <<stop, hookVars, dllVars>>
      /\ confused' \in BOOLEAN \/ UNCHANGED confused
  BY <1>0, ServerStepShape
<1>3. PICK to : to # "unborn" /\ pc' = [pc EXCEPT ![r] = to]
  BY <1>0, ServerStepShape
<1>4. HookTypes' /\ HookOrder'
  BY <1>2 DEF IInv, TypeOK, HookTypes, HookOrder, InDestructor
<1>5. Flags'
  BY <1>2 DEF IInv, TypeOK, Flags
<1>6. ThreadsJoined'
  BY <1>2, <1>3 DEF IInv, TypeOK, ThreadTypes, ThreadsJoined, Destroyed
<1>7. QED
  BY <1>1, <1>4, <1>5, <1>6 DEF Accounts, IInv, TypeOK

----------------------------------------------------------------------------
(* The thread of the hooks. *)

\* Construct starts a thread for the next reader.
LEMMA ConstructKeeps ==
  ASSUME IInv, Construct
  PROVE  IInv'
<1> USE DEF IInv, TypeOK, Construct
<1>0. made + 1 \in Reader /\ live \in 0 .. made
  BY DEF HookTypes, HookOrder
<1>1. KernelTypes'
  BY DEF KernelTypes
<1>2. ThreadTypes'
  BY <1>0 DEF ThreadTypes, ThreadsJoined, HookTypes, Opened, Connected
<1>3. HookTypes'
  BY <1>0 DEF HookTypes
<1>4. HookOrder'
  BY <1>0 DEF HookOrder, InDestructor, HookTypes
<1>5. Flags'
  BY DEF Flags
<1>6. ThreadsJoined'
  BY <1>0 DEF ThreadsJoined, Destroyed, ThreadTypes, HookTypes, HookOrder
<1>7. EntriesKnown'
  BY <1>0 DEF EntriesKnown, ThreadTypes, ThreadsJoined, HookTypes, Opened, Connected
<1>8. RefsBlock'
  BY <1>0 DEF RefsBlock, ThreadTypes, ThreadsJoined, HookTypes
<1>9. QED
  BY <1>1, <1>2, <1>3, <1>4, <1>5, <1>6, <1>7, <1>8

\* Assign makes the new reader the live one and takes the old one in hand.
LEMMA AssignKeeps ==
  ASSUME IInv, Assign
  PROVE  IInv'
<1> USE DEF IInv, TypeOK, Assign
<1>1. KernelTypes' /\ ThreadTypes' /\ EntriesKnown' /\ RefsBlock'
  BY DEF KernelTypes, ThreadTypes, EntriesKnown, RefsBlock
<1>2. HookTypes'
  BY DEF HookTypes
<1>3. HookOrder'
  BY DEF HookOrder, InDestructor, HookTypes
<1>4. Flags'
  BY DEF Flags
<1>5. ThreadsJoined'
  BY DEF ThreadsJoined, Destroyed, HookOrder, HookTypes
<1>6. QED
  BY <1>1, <1>2, <1>3, <1>4, <1>5

\* Initialize keeps the live reader or takes it in hand.
LEMMA InitializeKeeps ==
  ASSUME IInv, Initialize
  PROVE  IInv'
<1> USE DEF IInv, TypeOK, Initialize
<1>1. KernelTypes'
  BY DEF KernelTypes, Entry
<1>2. ThreadTypes' /\ EntriesKnown' /\ RefsBlock'
  BY DEF ThreadTypes, EntriesKnown, RefsBlock
<1>3. HookTypes'
  BY DEF HookTypes
<1>4. HookOrder'
  BY DEF HookOrder, InDestructor, HookTypes
<1>5. Flags'
  BY DEF Flags
<1>6. ThreadsJoined'
  BY DEF ThreadsJoined, Destroyed, HookOrder, HookTypes
<1>7. QED
  BY <1>1, <1>2, <1>3, <1>4, <1>5, <1>6

\* The destructor, statement by statement.
LEMMA DestructorKeeps ==
  ASSUME IInv, Destructor
  PROVE  IInv'
<1> USE DEF IInv, TypeOK
<1>0. dying \in Reader /\ live \in {0, made} /\ dying # live /\ InDestructor
  BY DEF HookOrder, HookTypes, InDestructor, Destructor, DtorStop, DtorCloseServer,
         DtorCloseClient, DtorJoin
<1>1. CASE DtorStop
  <2> USE <1>1 DEF DtorStop
  <2>1. KernelTypes' /\ ThreadTypes' /\ EntriesKnown' /\ RefsBlock'
    BY DEF KernelTypes, ThreadTypes, EntriesKnown, RefsBlock
  <2>2. HookTypes' /\ HookOrder' /\ ThreadsJoined'
    BY DEF HookTypes, HookOrder, InDestructor, ThreadsJoined, Destroyed
  <2>3. Flags'
    BY <1>0 DEF Flags
  <2>4. QED
    BY <2>1, <2>2, <2>3
<1>2. CASE DtorCloseServer \/ DtorCloseClient
  <2> USE <1>2 DEF DtorCloseServer, DtorCloseClient
  <2>1. /\ table' \in [Fd -> Entry]
        /\ \A m \in Fd : table'[m] = table[m] \/ table'[m] = Free
    BY <1>0, CloseFrees
  <2>2. KernelTypes'
    BY <2>1 DEF KernelTypes
  <2>3. EntriesKnown'
    BY <2>1, FreeingKeepsKnown
  <2>4. ThreadTypes' /\ RefsBlock'
    BY DEF ThreadTypes, RefsBlock
  <2>5. HookTypes' /\ HookOrder' /\ ThreadsJoined'
    BY DEF HookTypes, HookOrder, InDestructor, ThreadsJoined, Destroyed
  <2>6. Flags'
    BY DEF Flags, Close
  <2>7. QED
    BY <2>2, <2>3, <2>4, <2>5, <2>6
<1>3. CASE DtorJoin
  <2> USE <1>3 DEF DtorJoin
  <2>1. KernelTypes' /\ ThreadTypes' /\ EntriesKnown' /\ RefsBlock'
    BY DEF KernelTypes, ThreadTypes, EntriesKnown, RefsBlock
  <2>2. HookTypes'
    BY DEF HookTypes
  <2>3. HookOrder'
    BY <1>0 DEF HookOrder, InDestructor, HookTypes
  <2>4. ThreadsJoined'
    BY <1>0 DEF ThreadsJoined, Destroyed, HookTypes
  <2>5. Flags'
    BY DEF Flags
  <2>6. QED
    BY <2>1, <2>2, <2>3, <2>4, <2>5
<1>4. QED
  BY <1>1, <1>2, <1>3 DEF Destructor

----------------------------------------------------------------------------
(* The game, the injectors and the DLL. *)

\* A descriptor opened by the game belongs to no reader.
LEMMA GameOpensKeeps ==
  ASSUME IInv, GameOpens
  PROVE  IInv'
<1> USE DEF IInv, TypeOK, GameOpens
<1>1. PICK n \in Fd : table' = [table EXCEPT ![n] = [obj |-> File, by |-> 0]]
  OBVIOUS
<1>2. KernelTypes'
  BY <1>1, ObjectKinds DEF KernelTypes, Entry
<1>3. EntriesKnown'
  BY <1>1 DEF EntriesKnown, KernelTypes
<1>4. ThreadTypes' /\ RefsBlock'
  BY DEF ThreadTypes, RefsBlock
<1>5. HookTypes' /\ HookOrder' /\ ThreadsJoined'
  BY DEF HookTypes, HookOrder, InDestructor, ThreadsJoined, Destroyed
<1>6. Flags'
  BY DEF Flags
<1>7. QED
  BY <1>2, <1>3, <1>4, <1>5, <1>6

\* Neither the injectors nor the DLL touch the process's table.
LEMMA OutsideKeeps ==
  ASSUME IInv,
         InjectorExits \/ DllStarts \/ DllStops \/ DllConnects \/ DllDisconnects
  PROVE  IInv'
<1> USE DEF IInv, TypeOK, InjectorExits, DllStarts, DllStops, DllConnects, DllDisconnects
<1>1. KernelTypes'
  BY SMTT(30) DEF KernelTypes
<1>2. ThreadTypes' /\ EntriesKnown' /\ RefsBlock'
  BY DEF ThreadTypes, EntriesKnown, RefsBlock
<1>3. HookTypes'
  BY DEF HookTypes
<1>4. HookOrder' /\ ThreadsJoined'
  BY DEF HookOrder, InDestructor, ThreadsJoined, Destroyed
<1>5. Flags'
  BY DEF Flags
<1>6. QED
  BY <1>1, <1>2, <1>3, <1>4, <1>5

\* A stuttering step keeps the invariant.
LEMMA StutterKeeps ==
  ASSUME IInv, UNCHANGED vars
  PROVE  IInv'
<1> USE DEF IInv, TypeOK, vars
<1>1. KernelTypes' /\ ThreadTypes' /\ EntriesKnown' /\ RefsBlock'
  BY DEF KernelTypes, ThreadTypes, EntriesKnown, RefsBlock
<1>2. HookTypes' /\ HookOrder' /\ ThreadsJoined'
  BY DEF HookTypes, HookOrder, InDestructor, ThreadsJoined, Destroyed
<1>3. Flags'
  BY DEF Flags
<1>4. QED
  BY <1>1, <1>2, <1>3

----------------------------------------------------------------------------
\* Every step keeps the invariant.
LEMMA NextKeeps == IInv /\ [Next]_vars => IInv'
BY ServerKeeps, ConstructKeeps, AssignKeeps, InitializeKeeps, DestructorKeeps,
   GameOpensKeeps, OutsideKeeps, StutterKeeps DEF Next

\* The inductive invariant holds in every reachable state.
THEOREM Invariance == Spec => []IInv
<1>1. QED
  BY InitSafe, NextKeeps, PTL DEF Spec

\* The fields of GameDataReader are well typed, and -1 outside the stretch in
\* which ServerLoop has something open.
THEOREM TypeCorrect == Spec => []TypeOK
<1>1. IInv => TypeOK
  BY DEF IInv
<1>2. QED
  BY <1>1, Invariance, PTL

\* Whatever the race between ~GameDataReader and ServerLoop, a destroyed
\* reader has no thread, no blocked call and no open descriptor left.
THEOREM ReadersLeakNothing == Spec => []NothingLeaks
<1>1. IInv => NothingLeaks
  <2> SUFFICES ASSUME IInv, NEW r \in Reader, Destroyed(r)
               PROVE  /\ pc[r] = "done" /\ ref[r] = Nothing
                      /\ \A n \in Fd : table[n].by # r
    BY DEF NothingLeaks
  <2>1. pc[r] = "done"
    BY DEF IInv, ThreadsJoined
  <2>2. ref[r] = Nothing
    BY <2>1 DEF IInv, RefsBlock
  <2>3. \A n \in Fd : table[n].by # r
    BY <2>1 DEF IInv, EntriesKnown, Opened, Connected
  <2>4. QED
    BY <2>1, <2>2, <2>3
<1>2. QED
  BY <1>1, Invariance, PTL
----------------------------------------------------------------------------
(* Descriptors stay their reader's own until a destructor closes one. *)

\* Confusion is never undone.
LEMMA ConfusionStays ==
  ASSUME Next, ~confused'
  PROVE  ~confused
BY ZenonT(40) DEF Next, Server, OpenSocket, BindListen, EnterAccept, AcceptReturns, InnerLoop,
       EnterRecv, RecvReturns, CloseClient, ForgetClient, CloseServer, ForgetServer,
       Close, Construct, Assign, Initialize, Destructor, DtorStop, DtorCloseServer,
       DtorCloseClient, DtorJoin, DllStarts, DllStops, DllConnects, DllDisconnects,
       GameOpens, InjectorExits

\* An unconfused close frees nobody else's entry.
LEMMA OwnClose ==
  ASSUME KernelTypes, NEW n, NEW q \in Reader, Close(n, q), ~confused'
  PROVE  \A m \in Fd : table[m].by \in Reader \ {q} => table'[m] = table[m]
<1>1. At(n) # Free => At(n).by = q
  BY DEF Close
<1>2. CASE n \in Fd
  BY <1>1, <1>2, FreeIsEntry DEF Close, At, KernelTypes
<1>3. CASE n \notin Fd
  BY <1>3 DEF Close
<1>4. QED
  BY <1>2, <1>3

\* Opening takes a number nobody has.
LEMMA OpeningIsFresh ==
  ASSUME KernelTypes, NEW n \in Fd, Lowest(n), NEW e, table' = [table EXCEPT ![n] = e]
  PROVE  \A m \in Fd : table[m].by \in Reader => table'[m] = table[m]
BY FreeIsEntry DEF Lowest, KernelTypes

\* An unconfused step of ServerLoop leaves the other readers' entries alone.
LEMMA OthersUntouched ==
  ASSUME NEW q \in Reader, Accounts, Server(q), ~confused'
  PROVE  /\ \A m \in Fd : table[m].by \in Reader \ {q} => table'[m] = table[m]
         /\ \A r \in Reader \ {q} : /\ pc'[r] = pc[r]
                                    /\ serverFd'[r] = serverFd[r]
                                    /\ clientFd'[r] = clientFd[r]
<1> USE DEF Accounts
<1>1. \A m \in Fd : table[m].by \in Reader \ {q} => table'[m] = table[m]
  <2>1. CASE OpenSocket(q)
    BY <2>1, OpeningIsFresh DEF OpenSocket
  <2>2. CASE AcceptReturns(q)
    BY <2>2, OpeningIsFresh DEF AcceptReturns
  <2>3. CASE CloseClient(q) \/ CloseServer(q)
    BY <2>3, OwnClose DEF CloseClient, CloseServer
  <2>4. CASE UNCHANGED table
    BY <2>4
  <2>5. QED
    BY <2>1, <2>2, <2>3, <2>4 DEF Server, BindListen, EnterAccept, InnerLoop,
       EnterRecv, RecvReturns, ForgetClient, ForgetServer
<1>2. \A r \in Reader \ {q} : pc'[r] = pc[r]
  BY ServerStepShape DEF ThreadTypes
<1>3. \A r \in Reader \ {q} : serverFd'[r] = serverFd[r] /\ clientFd'[r] = clientFd[r]
  BY DEF Server, OpenSocket, BindListen, EnterAccept, AcceptReturns, InnerLoop,
         EnterRecv, RecvReturns, CloseClient, ForgetClient, CloseServer, ForgetServer,
         ThreadTypes
<1>4. QED
  BY <1>1, <1>2, <1>3

\* What OwnNumbers says of one reader.
Owns(r) ==
  /\ pc[r] \in Opened \ {"lastForget"} =>
       serverFd[r] \in Fd /\ table[serverFd[r]].by = r
  /\ pc[r] \in Connected \ {"clientForget"} =>
       clientFd[r] \in Fd \ {serverFd[r]} /\ table[clientFd[r]].by = r

\* A step of an owner's own thread keeps its numbers its own.
LEMMA StepOwns ==
  ASSUME NEW q \in Reader, Accounts, Server(q), Owns(q)
  PROVE  Owns(q)'
<1> USE DEF Accounts, Owns, Opened, Connected, Goto
<1>1. CASE OpenSocket(q)
  BY <1>1, SMTT(30) DEF OpenSocket, ThreadTypes, KernelTypes
<1>2. CASE BindListen(q)
  BY <1>2 DEF BindListen, ThreadTypes
<1>3. CASE EnterAccept(q)
  BY <1>3 DEF EnterAccept, ThreadTypes
<1>4. CASE AcceptReturns(q)
  <2>1. PICK n \in Fd : /\ Lowest(n)
                        /\ \E o : table' = [table EXCEPT ![n] = [obj |-> o, by |-> q]]
                        /\ clientFd' = [clientFd EXCEPT ![q] = n]
    BY <1>4 DEF AcceptReturns
  <2>2. pc[q] = "accept" /\ pc' = [pc EXCEPT ![q] = "inner"] /\ UNCHANGED serverFd
    BY <1>4 DEF AcceptReturns
  <2>3. serverFd[q] \in Fd /\ table[serverFd[q]].by = q
    BY <2>2
  <2>4. n # serverFd[q]
    BY <2>1, <2>3, FreeIsEntry DEF Lowest
  <2>5. QED
    BY <2>1, <2>2, <2>3, <2>4 DEF ThreadTypes, KernelTypes
<1>5. CASE InnerLoop(q)
  BY <1>5 DEF InnerLoop, ThreadTypes
<1>6. CASE EnterRecv(q)
  BY <1>6 DEF EnterRecv, ThreadTypes
<1>7. CASE RecvReturns(q)
  BY <1>7 DEF RecvReturns, ThreadTypes
<1>8. CASE CloseClient(q)
  <2>1. /\ serverFd[q] \in Fd /\ table[serverFd[q]].by = q
        /\ clientFd[q] \in Fd \ {serverFd[q]}
    BY <1>8 DEF CloseClient
  <2>2. table' = [table EXCEPT ![clientFd[q]] = Free]
    BY <1>8, <2>1 DEF CloseClient, Close
  <2>3. QED
    BY <1>8, <2>1, <2>2 DEF CloseClient, ThreadTypes, KernelTypes
<1>9. CASE ForgetClient(q)
  BY <1>9 DEF ForgetClient, ThreadTypes
<1>10. CASE CloseServer(q)
  BY <1>10 DEF CloseServer, ThreadTypes
<1>11. CASE ForgetServer(q)
  BY <1>11 DEF ForgetServer, ThreadTypes
<1>12. QED
  BY <1>1, <1>2, <1>3, <1>4, <1>5, <1>6, <1>7, <1>8, <1>9, <1>10, <1>11 DEF Server

\* Who owns its numbers keeps them when neither they nor their entries change.
LEMMA UntouchedOwns ==
  ASSUME NEW r \in Reader, Owns(r),
         \A m \in Fd : table[m].by = r => table'[m] = table[m],
         pc'[r] = pc[r], serverFd'[r] = serverFd[r], clientFd'[r] = clientFd[r]
  PROVE  Owns(r)'
BY DEF Owns

\* Every step keeps the numbers of intact readers their own.
LEMMA NextOwns ==
  ASSUME OwnInv, Next
  PROVE  OwnNumbers'
<1> USE DEF OwnInv, IInv, TypeOK
<1> SUFFICES ASSUME ~confused', NEW r \in Reader, Intact(r)'
             PROVE  Owns(r)'
  BY DEF OwnNumbers, Owns
<1>0. \A q \in Reader : Intact(q) => Owns(q)
  BY ConfusionStays DEF OwnNumbers, Owns
<1>1. CASE \E q \in Reader : Server(q)
  <2>1. PICK q \in Reader : Server(q)
    BY <1>1
  <2>2. Accounts
    BY DEF Accounts
  <2>3. Intact(r)
    BY <2>1, <2>2, ServerStepShape DEF Intact
  <2>4. CASE q = r
    BY <1>0, <2>1, <2>2, <2>3, <2>4, StepOwns
  <2>5. CASE q # r
    BY <1>0, <2>1, <2>2, <2>3, <2>5, OthersUntouched, UntouchedOwns
  <2>6. QED
    BY <2>4, <2>5
<1>2. CASE Construct
  <2>1. Intact(r)
    BY <1>2 DEF Construct, Intact
  <2>2. CASE r = made + 1
    BY <1>2, <2>2 DEF Construct, Owns, ThreadTypes, Opened, Connected
  <2>3. CASE r # made + 1
    <3>1. pc'[r] = pc[r]
      BY <1>2, <2>3 DEF Construct, ThreadTypes
    <3>2. QED
      BY <1>0, <1>2, <2>1, <3>1, UntouchedOwns DEF Construct
  <2>4. QED
    BY <2>2, <2>3
<1>3. CASE Assign \/ Initialize \/ DtorStop
  <2>1. Intact(r)
    BY <1>3 DEF Assign, Initialize, DtorStop, Intact
  <2>2. QED
    BY <1>0, <1>3, <2>1, UntouchedOwns DEF Assign, Initialize, DtorStop
<1>4. CASE DtorCloseServer \/ DtorCloseClient
  <2>1. r # dying /\ dying \in Reader
    BY <1>4 DEF DtorCloseServer, DtorCloseClient, Intact, HookOrder, HookTypes,
                InDestructor
  <2>2. \A m \in Fd : table[m].by \in Reader \ {dying} => table'[m] = table[m]
    BY <1>4, <2>1, OwnClose DEF DtorCloseServer, DtorCloseClient
  <2>3. Intact(r)
    BY <2>1 DEF Intact
  <2>4. QED
    BY <1>0, <1>4, <2>1, <2>2, <2>3, UntouchedOwns DEF DtorCloseServer, DtorCloseClient
<1>5. CASE DtorJoin
  <2>1. CASE r = dying
    BY <1>5, <2>1 DEF DtorJoin, Owns, Opened, Connected
  <2>2. CASE r # dying
    BY <1>0, <1>5, <2>2, UntouchedOwns DEF DtorJoin, Intact
  <2>3. QED
    BY <2>1, <2>2
<1>6. CASE GameOpens
  <2>1. Intact(r)
    BY <1>6 DEF GameOpens, Intact
  <2>2. \A m \in Fd : table[m].by \in Reader => table'[m] = table[m]
    BY <1>6, OpeningIsFresh DEF GameOpens
  <2>3. QED
    BY <1>0, <1>6, <2>1, <2>2, UntouchedOwns DEF GameOpens
<1>7. CASE InjectorExits \/ DllStarts \/ DllStops \/ DllConnects \/ DllDisconnects
  <2>1. Intact(r)
    BY <1>7 DEF InjectorExits, DllStarts, DllStops, DllConnects, DllDisconnects, Intact
  <2>2. QED
    BY <1>0, <1>7, <2>1, UntouchedOwns
       DEF InjectorExits, DllStarts, DllStops, DllConnects, DllDisconnects
<1>8. QED
  BY <1>1, <1>2, <1>3, <1>4, <1>5, <1>6, <1>7 DEF Next, Destructor

\* The numbers of every reader are its own, in every reachable state.
THEOREM OwnInvariance == Spec => []OwnInv
<1>1. Init => OwnInv
  BY InitSafe DEF OwnInv, OwnNumbers, Init, Opened, Connected
<1>2. OwnInv /\ [Next]_vars => OwnInv'
  <2> SUFFICES ASSUME OwnInv, [Next]_vars
               PROVE  OwnInv'
    OBVIOUS
  <2>1. IInv'
    BY NextKeeps DEF OwnInv
  <2>2. CASE Next
    BY <2>1, <2>2, NextOwns DEF OwnInv
  <2>3. CASE UNCHANGED vars
    BY <2>1, <2>3 DEF OwnInv, OwnNumbers, Intact, vars
  <2>4. QED
    BY <2>2, <2>3
<1>3. QED
  BY <1>1, <1>2, PTL DEF Spec

\* Outside the closes and the join of a destructor no thread uses a descriptor
\* it did not open.
LEMMA OwnerUsesOwn ==
  ASSUME OwnInv, Next, ~confused, hook \notin {"closeServer", "closeClient", "join"}
  PROVE  ~confused'
<1> USE DEF OwnInv, IInv, TypeOK
<1>1. \A r \in Reader : Owns(r)
  BY DEF OwnNumbers, Owns, Intact
<1>2. CASE \E q \in Reader : Server(q)
  <2>1. PICK q \in Reader : Server(q)
    BY <1>2
  <2>2. Owns(q)
    BY <1>1
  <2>3. CASE EnterAccept(q)
    BY <2>2, <2>3 DEF EnterAccept, Owns, At, Goto, Opened
  <2>4. CASE EnterRecv(q)
    BY <2>2, <2>4 DEF EnterRecv, Owns, At, Connected
  <2>5. CASE CloseClient(q)
    BY <2>2, <2>5 DEF CloseClient, Owns, At, Goto, Connected, Close
  <2>6. CASE CloseServer(q)
    BY <2>2, <2>6 DEF CloseServer, Owns, At, Goto, Opened, Close
  <2>7. CASE UNCHANGED confused
    BY <2>7
  <2>8. QED
    BY <2>1, <2>3, <2>4, <2>5, <2>6, <2>7 DEF Server, OpenSocket, BindListen,
       AcceptReturns, InnerLoop, RecvReturns, ForgetClient, ForgetServer
<1>3. CASE Destructor
  BY <1>3 DEF Destructor, DtorStop, DtorCloseServer, DtorCloseClient, DtorJoin
<1>4. QED
  BY <1>2, <1>3 DEF Next, Construct, Assign, Initialize, DllStarts, DllStops,
     DllConnects, DllDisconnects, GameOpens, InjectorExits

\* The first confusion of descriptors falls within the closes and the join of
\* ~GameDataReader.
THEOREM ConfusionNeedsDestructor == Spec => ConfusionStartsInDestructors
<1>1. OwnInv /\ [Next]_vars =>
        (~confused /\ confused' => hook \in {"closeServer", "closeClient", "join"})
  BY OwnerUsesOwn DEF vars
<1>2. QED
  BY <1>1, OwnInvariance, PTL DEF Spec, ConfusionStartsInDestructors
=============================================================================

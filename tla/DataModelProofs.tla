--------------------------- MODULE DataModelProofs ---------------------------
(***************************************************************************)
(* What DataModel promises, for all snapshots and all limits.              *)
(*                                                                         *)
(* Frame writes only the variables it finds to have changed, so it must    *)
(* find all that differ from the cache (SameList, SameGroup, Updated), and *)
(* the cache must be what was sent, which the codec's RoundTrip gives when *)
(* a payload is stored (StoreKeeps).                                       *)
(***************************************************************************)
EXTENDS DataModel, CodecProofs

----------------------------------------------------------------------------
(* Values. *)

\* The fields that the model reads by their name.
LEMMA FieldsAre ==
  /\ Written[17] = <<"playerIsIngame", "u8">> /\ Written[24] = <<"isLoading", "u8">>
  /\ Written[25] = <<"worldLoaded", "u8">> /\ Written[26] = <<"isIndoor", "u8">>
  /\ Written[37] = <<"mouseOverGUID", "u64">>
  /\ Written[41] = <<"auras", "auras">> /\ Written[42] = <<"targetAuras", "auras">>
  /\ Written[51] = <<"partyMembersList", "members">>
  /\ Written[52] = <<"raidMembersList", "members">>
BY SMTT(60) DEF Written, Named

\* Their values in a snapshot.
LEMMA FieldValues ==
  ASSUME NEW data, IsGameData(data)
  PROVE  /\ \A name \in Flags : data[name] \in Bytes(1)
         /\ data["mouseOverGUID"] \in Bytes(8)
         /\ data["auras"] \in Seq(Bytes(4)) /\ data["targetAuras"] \in Seq(Bytes(4))
         /\ data["partyMembersList"] \in Seq(GroupMember)
         /\ data["raidMembersList"] \in Seq(GroupMember)
<1>1. \A i \in 1 .. 52 : data[Written[i][1]] \in Values(Written[i][2])
  BY WrittenLength, Zenon DEF IsGameData
<1>2. /\ data[Written[17][1]] \in Values(Written[17][2])
      /\ data[Written[24][1]] \in Values(Written[24][2])
      /\ data[Written[25][1]] \in Values(Written[25][2])
      /\ data[Written[26][1]] \in Values(Written[26][2])
      /\ data[Written[37][1]] \in Values(Written[37][2])
      /\ data[Written[41][1]] \in Values(Written[41][2])
      /\ data[Written[42][1]] \in Values(Written[42][2])
      /\ data[Written[51][1]] \in Values(Written[51][2])
      /\ data[Written[52][1]] \in Values(Written[52][2])
  BY <1>1
<1>3. /\ data["playerIsIngame"] \in Values("u8") /\ data["isLoading"] \in Values("u8")
      /\ data["worldLoaded"] \in Values("u8") /\ data["isIndoor"] \in Values("u8")
      /\ data["mouseOverGUID"] \in Values("u64")
      /\ data["auras"] \in Values("auras") /\ data["targetAuras"] \in Values("auras")
      /\ data["partyMembersList"] \in Values("members")
      /\ data["raidMembersList"] \in Values("members")
  BY <1>2, FieldsAre
<1>4. /\ Values("u8") = Bytes(1) /\ Values("u64") = Bytes(8)
      /\ Values("auras") \subseteq Seq(Bytes(4)) /\ Values("members") \subseteq Seq(GroupMember)
  BY OfKind, Widths DEF Most
<1> QED
  BY <1>3, <1>4 DEF Flags

\* A field's name gives its type.
LEMMA KindIs ==
  ASSUME NEW i \in 1 .. 52
  PROVE  Kind(Written[i][1]) = Written[i][2]
<1>1. PICK j \in 1 .. 52 : /\ Written[j][1] = Written[i][1]
                           /\ Kind(Written[i][1]) = Written[j][2]
  <2>1. \E j \in 1 .. 52 : Written[j][1] = Written[i][1]
    OBVIOUS
  <2> QED
    BY <2>1, WrittenLength, Zenon DEF Kind
<1> QED
  BY <1>1, NamesDiffer, Zenon

\* A GameData is constructed as a snapshot.
LEMMA EmptyIsGameData == IsGameData(Empty)
<1>1. Empty = [name \in Fields |-> Empty[name]]
  BY Zenon DEF Empty
<1>2. ASSUME NEW i \in 1 .. 52
      PROVE  Empty[Written[i][1]] \in Values(Written[i][2])
  <2>1. Empty[Written[i][1]] = IF Written[i][2] \in {"string", "auras", "events", "members"}
                               THEN <<>> ELSE Zeros(Width[Written[i][2]])
    <3>1. Written[i][1] \in Fields
      BY WrittenLength, Zenon DEF Fields
    <3> QED
      BY <3>1, KindIs, Zenon DEF Empty
  <2>2. Written[i][2] \in Kinds
    BY WrittenKinds, Zenon
  <2>3. <<>> \in Values("string") /\ <<>> \in Values("auras") /\ <<>> \in Values("events")
        /\ <<>> \in Values("members")
    <3>1. \A S : \A n \in Nat : <<>> \in Most(S, n)
      BY DEF Most
    <3>2. kMaxAuras \in Nat /\ kMaxCombatLogEvents \in Nat
      BY CodecAssumption, Zenon
    <3>3. MaxLength \in Nat
      BY SMT DEF MaxLength
    <3>4. /\ Values("string") = Most(Byte, MaxLength)
          /\ Values("auras") = Most(Bytes(4), kMaxAuras)
          /\ Values("events") = Most(Bytes(56), kMaxCombatLogEvents)
          /\ Values("members") = Most(GroupMember, MaxLength)
      BY OfKind, Zenon
    <3> QED
      BY <3>1, <3>2, <3>3, <3>4, Zenon
  <2>4. Zeros(Width["u8"]) \in Values("u8") /\ Zeros(Width["u32"]) \in Values("u32")
        /\ Zeros(Width["u64"]) \in Values("u64")
    <3>1. \A n \in Nat : Zeros(n) \in Bytes(n)
      BY DEF Zeros, Bytes, Byte
    <3>2. Width["u8"] = 1 /\ Width["u32"] = 4 /\ Width["u64"] = 8
      BY DEF Width
    <3>3. 1 \in Nat /\ 4 \in Nat /\ 8 \in Nat
      OBVIOUS
    <3> QED
      BY <3>1, <3>2, <3>3, OfKind, Zenon
  <2> QED
    BY <2>1, <2>2, <2>3, <2>4 DEF Kinds
<1> QED
  BY <1>1, <1>2, WrittenLength, Zenon DEF IsGameData

----------------------------------------------------------------------------
(* What Update compares. *)

\* What each variable becomes.
LEMMA ValueIs ==
  ASSUME NEW data
  PROVE  /\ \A name \in Plain \cup Corpse \cup Guids : Value(name, data) = data[name]
         /\ \A name \in Flags : Value(name, data) = Flag(data[name])
         /\ Value("hasMouseOverGUID", data) = Flag(data.mouseOverGUID)
         /\ Value("corpseCoordinates", data)
              = FormatCoordinates(data.corpseX, data.corpseY, data.corpseZ)
         /\ Value("playerAuras", data) = data.auras
         /\ Value("partyMembers", data) = data.partyMembersList
         /\ Value("raidMembers", data) = data.raidMembersList
<1>1. \A name \in Plain \cup Corpse \cup Guids : Value(name, data) = data[name]
  BY DEF Value, Plain, Corpse, Guids, Flags
<1>2. \A name \in Flags : Value(name, data) = Flag(data[name])
  BY DEF Value, Flags
<1>3. /\ Value("hasMouseOverGUID", data) = Flag(data.mouseOverGUID)
      /\ Value("corpseCoordinates", data)
           = FormatCoordinates(data.corpseX, data.corpseY, data.corpseZ)
      /\ Value("playerAuras", data) = data.auras
      /\ Value("partyMembers", data) = data.partyMembersList
      /\ Value("raidMembers", data) = data.raidMembersList
  BY DEF Value, Flags
<1> QED
  BY <1>1, <1>2, <1>3, Zenon

\* A list of which Update finds nothing to have changed is the same list.
LEMMA SameList ==
  ASSUME NEW S, NEW list \in Seq(S), NEW raw \in Seq(S), ~ ListChanged(list, raw)
  PROVE  list = raw
BY DEF ListChanged

\* And a list of members, each of which has the same list of auras.
LEMMA SameGroup ==
  ASSUME NEW list \in Seq(GroupMember), NEW raw \in Seq(GroupMember), ~ GroupChanged(list, raw)
  PROVE  list = raw
<1>1. Len(list) = Len(raw) /\ \A i \in 1 .. Len(raw) : ~ MemberChanged(list[i], raw[i])
  BY Zenon DEF GroupChanged
<1>2. ASSUME NEW i \in 1 .. Len(raw) PROVE list[i] = raw[i]
  <2>1. PICK m \in GroupMember, r \in GroupMember : m = list[i] /\ r = raw[i]
    BY <1>1
  <2>2. m.guid = r.guid /\ m.name = r.name /\ m.health = r.health /\ m.maxHealth = r.maxHealth
        /\ ~ ListChanged(m.auras, r.auras)
    BY <1>1, <2>1, Zenon DEF MemberChanged
  <2>3. m.auras \in Seq(Bytes(4)) /\ r.auras \in Seq(Bytes(4))
    BY Widths DEF GroupMember, Most
  <2>4. m.auras = r.auras
    BY <2>2, <2>3, SameList, Zenon
  <2>5. m = r
    BY <2>2, <2>4 DEF GroupMember
  <2> QED
    BY <2>1, <2>5, Zenon
<1> QED
  BY <1>1, <1>2

----------------------------------------------------------------------------
(* The model behind the codec. *)

Lists == {"playerAuras", "targetAuras"}

\* The lists that are compared entry by entry are lists of such entries.
MirrorOK ==
  /\ mirror = [name \in Bound |-> mirror[name]]
  /\ \A name \in Lists : mirror[name] \in Seq(Bytes(4))
  /\ \A name \in Groups : mirror[name] \in Seq(GroupMember)

\* What is shown is what is mirrored, and the cache is what was sent.
DataInv ==
  /\ CodecInv
  /\ cache = last /\ IsGameData(last)
  /\ view = mirror
  /\ MirrorOK

\* The lists of a snapshot, as the variables they become.
LEMMA ListValues ==
  ASSUME NEW data, IsGameData(data)
  PROVE  /\ \A name \in Lists : Value(name, data) \in Seq(Bytes(4))
         /\ \A name \in Groups : Value(name, data) \in Seq(GroupMember)
<1>1. /\ data["auras"] \in Seq(Bytes(4)) /\ data["targetAuras"] \in Seq(Bytes(4))
      /\ data["partyMembersList"] \in Seq(GroupMember)
      /\ data["raidMembersList"] \in Seq(GroupMember)
  BY FieldValues, Zenon
<1>2. /\ Value("playerAuras", data) = data["auras"]
      /\ Value("targetAuras", data) = data["targetAuras"]
      /\ Value("partyMembers", data) = data["partyMembersList"]
      /\ Value("raidMembers", data) = data["raidMembersList"]
  BY ValueIs DEF Plain
<1> QED
  BY <1>1, <1>2 DEF Lists, Groups

\* A call that begins on what was written begins in the invariant.
LEMMA CodecBegins == Init => CodecInv
BY CodecInit, Zenon

\* Every call does, not only the first.
LEMMA CodecBeginsAgain == Init' => CodecInv'
BY CodecBegins, PTL

\* The invariant holds before anything is received.
LEMMA DataInvInit ==
  ASSUME DataInit
  PROVE  DataInv
<1>1. CodecInv /\ cache = last /\ IsGameData(last) /\ view = mirror
  BY CodecBegins, EmptyIsGameData, Zenon DEF DataInit
<1>2. mirror = [name \in Bound |-> Initial(name)]
  BY Zenon DEF DataInit
<1>3. \A name \in Lists \cup Groups : name \in Bound /\ Initial(name) = Value(name, Empty)
  BY DEF Lists, Groups, Bound, Initial, Guids, Plain
<1>4. MirrorOK
  BY <1>2, <1>3, EmptyIsGameData, ListValues, Zenon DEF MirrorOK
<1> QED
  BY <1>1, <1>4, Zenon DEF DataInv

\* What every variable is after a frame.
LEMMA Updated ==
  ASSUME DataInv, Frame, NEW name \in Bound
  PROVE  /\ mirror'[name] = view'[name]
         /\ name \notin Corpse => view'[name] = Value(name, last)
         /\ name \in Corpse => Equal(view'[name], Value(name, last))
<1>1. PICK v : v = Value(name, last) /\ v = Value(name, cache)
  BY Zenon DEF DataInv
<1>2. /\ mirror' = [n \in Bound |-> IF Changed(n, Value(n, cache)) THEN Value(n, cache) ELSE mirror[n]]
      /\ view' = [n \in Bound |-> IF Changed(n, Value(n, cache)) THEN mirror'[n] ELSE view[n]]
  BY DEF Frame
<1>3. CASE Changed(name, v)
  <2>1. mirror'[name] = v /\ view'[name] = v
    BY <1>1, <1>2, <1>3, Zenon
  <2> QED
    BY <1>1, <2>1, Zenon DEF Equal
<1>4. CASE ~ Changed(name, v)
  <2>1. mirror'[name] = mirror[name] /\ view'[name] = mirror[name]
    BY <1>1, <1>2, <1>4, Zenon DEF DataInv
  <2>2. CASE name \in Corpse
    BY <1>1, <1>4, <2>1, <2>2, Zenon DEF Changed
  <2>3. CASE name \in Lists
    <3>1. ~ ListChanged(mirror[name], v) /\ name \notin Corpse
      BY <1>4, <2>3, Zenon DEF Changed, Lists, Corpse
    <3>2. mirror[name] \in Seq(Bytes(4)) /\ v \in Seq(Bytes(4))
      BY <1>1, <2>3, ListValues, Zenon DEF DataInv, MirrorOK
    <3>3. mirror[name] = v
      BY <3>1, <3>2, SameList, Zenon
    <3> QED
      BY <1>1, <2>1, <3>1, <3>3, Zenon
  <2>4. CASE name \in Groups
    <3>1. ~ GroupChanged(mirror[name], v) /\ name \notin Corpse
      BY <1>4, <2>4, Zenon DEF Changed, Groups, Corpse
    <3>2. mirror[name] \in Seq(GroupMember) /\ v \in Seq(GroupMember)
      BY <1>1, <2>4, ListValues, Zenon DEF DataInv, MirrorOK
    <3>3. mirror[name] = v
      BY <3>1, <3>2, SameGroup, Zenon
    <3> QED
      BY <1>1, <2>1, <3>1, <3>3, Zenon
  <2>5. CASE name \notin Corpse \cup Lists \cup Groups
    <3>1. mirror[name] = v
      BY <1>4, <2>5, Zenon DEF Changed, Lists
    <3> QED
      BY <1>1, <2>1, <2>5, <3>1, Zenon
  <2> QED
    BY <2>2, <2>3, <2>4, <2>5, Zenon
<1> QED
  BY <1>3, <1>4

\* A frame keeps it.
LEMMA FrameKeeps ==
  ASSUME DataInv, Frame
  PROVE  DataInv'
<1>1. UNCHANGED vars /\ cache' = cache /\ last' = last
  BY DEF Frame, codecVars, vars
<1>2. CodecInv'
  BY <1>1, CodecNext, Zenon DEF DataInv
<1>3. /\ mirror' = [name \in Bound |-> mirror'[name]]
      /\ view' = [name \in Bound |-> view'[name]]
  BY Zenon DEF Frame
<1>4. \A name \in Bound : mirror'[name] = view'[name]
  BY Updated, Zenon
<1>5. view' = mirror'
  BY <1>3, <1>4, Zenon
<1>6. \A name \in Lists \cup Groups : name \in Bound /\ name \notin Corpse
  BY DEF Lists, Groups, Bound, Corpse, Plain
<1>7. \A name \in Lists \cup Groups : mirror'[name] = Value(name, last)
  BY <1>4, <1>6, Updated, Zenon
<1>8. MirrorOK'
  BY <1>3, <1>7, ListValues, Zenon DEF DataInv, MirrorOK
<1> QED
  BY <1>1, <1>2, <1>5, <1>8 DEF DataInv

\* So does a payload that replaces the cache: what was read of it is what was sent.
LEMMA StoreKeeps ==
  ASSUME DataInv, Store
  PROVE  DataInv'
<1>1. Init'
  BY DEF Store, Init
<1>2. CodecInv'
  BY <1>1, CodecBeginsAgain, Zenon
<1>3. /\ result = "true" /\ Len(buf) = Full
      /\ cache' = out /\ last' = sent /\ mirror' = mirror /\ view' = view
  BY DEF Store, modelVars, Full
<1>4. out = sent
  <2>1. RoundTrip
    BY CodecGives, Zenon DEF DataInv
  <2>2. result # "reading"
    BY <1>3
  <2> QED
    BY <1>3, <2>1, <2>2, Zenon DEF RoundTrip
<1>5. IsGameData(sent)
  BY SnapshotAssumption, Zenon DEF DataInv, CodecInv, IsSent
<1>6. MirrorOK' /\ view' = mirror'
  BY <1>3, Zenon DEF DataInv, MirrorOK
<1> QED
  BY <1>2, <1>3, <1>4, <1>5, <1>6, Zenon DEF DataInv

\* Every step keeps it.
LEMMA DataInvNext ==
  ASSUME DataInv, [DataNext]_dataVars
  PROVE  DataInv'
<1>1. CASE Receive
  <2>1. [Next]_vars /\ UNCHANGED <<cache, last, mirror, view>>
    BY <1>1 DEF Receive, Next, modelVars
  <2>2. CodecInv'
    BY <2>1, CodecNext, Zenon DEF DataInv
  <2> QED
    BY <2>1, <2>2 DEF DataInv, MirrorOK
<1>2. CASE Initialise \/ UNCHANGED dataVars
  <2>1. UNCHANGED vars /\ UNCHANGED <<cache, last, mirror, view>>
    BY <1>2 DEF Initialise, dataVars, codecVars, modelVars, vars
  <2>2. CodecInv'
    BY <2>1, CodecNext, Zenon DEF DataInv
  <2> QED
    BY <2>1, <2>2 DEF DataInv, MirrorOK
<1> QED
  BY <1>1, <1>2, StoreKeeps, FrameKeeps, Zenon DEF DataNext

\* The variables after a frame are what the property says of them.
LEMMA FrameShows ==
  ASSUME DataInv, Frame
  PROVE  /\ \A name \in Plain \cup Guids : view'[name] = last[name]
         /\ \A name \in Corpse : Equal(view'[name], last[name])
         /\ \A name \in Flags : view'[name] = <<1>> <=> last[name] # <<0>>
         /\ view'.hasMouseOverGUID = <<1>> <=> last.mouseOverGUID # Zeros(8)
         /\ view'.corpseCoordinates = FormatCoordinates(last.corpseX, last.corpseY, last.corpseZ)
         /\ view'.playerAuras = last.auras
         /\ view'.partyMembers = last.partyMembersList
         /\ view'.raidMembers = last.raidMembersList
<1> DEFINE Others == Flags \cup {"hasMouseOverGUID", "corpseCoordinates", "playerAuras"} \cup Groups
<1>1. /\ \A name \in Plain \cup Guids \cup Others : name \in Bound /\ name \notin Corpse
      /\ \A name \in Corpse : name \in Bound
  BY DEF Plain, Guids, Flags, Groups, Bound, Corpse
<1>2. \A name \in Plain \cup Guids \cup Others : view'[name] = Value(name, last)
  BY <1>1, Updated, Zenon
<1>3. \A name \in Plain \cup Guids : view'[name] = last[name]
  BY <1>2, ValueIs, Zenon
<1>4. \A name \in Corpse : Equal(view'[name], last[name])
  <2> SUFFICES ASSUME NEW name \in Corpse PROVE Equal(view'[name], last[name])
    OBVIOUS
  <2>1. Equal(view'[name], Value(name, last))
    BY <1>1, Updated, Zenon
  <2>2. Value(name, last) = last[name]
    BY ValueIs, Zenon
  <2> QED
    BY <2>1, <2>2, Zenon
<1>5. \A name \in Flags : view'[name] = <<1>> <=> last[name] # <<0>>
  <2> SUFFICES ASSUME NEW name \in Flags
               PROVE  view'[name] = <<1>> <=> last[name] # <<0>>
    OBVIOUS
  <2>1. view'[name] = Flag(last[name])
    BY <1>2, ValueIs, Zenon
  <2>2. last[name] \in Bytes(1)
    BY FieldValues, Zenon DEF DataInv
  <2>3. \A b \in Bytes(1) : Flag(b) = <<1>> <=> b # <<0>>
    BY SMTT(30) DEF Flag, Bytes, Byte, Zeros
  <2> QED
    BY <2>1, <2>2, <2>3, Zenon
<1>6. view'.hasMouseOverGUID = <<1>> <=> last.mouseOverGUID # Zeros(8)
  <2>1. view'.hasMouseOverGUID = Flag(last.mouseOverGUID)
    BY <1>2, ValueIs
  <2>2. last.mouseOverGUID \in Bytes(8)
    BY FieldValues DEF DataInv
  <2>3. \A b \in Bytes(8) : Flag(b) = <<1>> <=> b # Zeros(8)
    <3>1. \A b \in Bytes(8) : Len(b) = 8
      BY DEF Bytes
    <3>2. <<0>> # <<1>>
      OBVIOUS
    <3> QED
      BY <3>1, <3>2, Zenon DEF Flag
  <2> QED
    BY <2>1, <2>2, <2>3, Zenon
<1>7. /\ view'.corpseCoordinates = FormatCoordinates(last.corpseX, last.corpseY, last.corpseZ)
      /\ view'.playerAuras = last.auras
      /\ view'.partyMembers = last.partyMembersList
      /\ view'.raidMembers = last.raidMembersList
  BY <1>2, ValueIs DEF Groups
<1> QED
  BY <1>3, <1>4, <1>5, <1>6, <1>7, Zenon

(* The inductive invariant of the model behind the codec.                  *)
THEOREM DataInvariance == DataSpec => []DataInv
<1>1. DataInit => DataInv
  BY DataInvInit, Zenon
<1>2. DataInv /\ [DataNext]_dataVars => DataInv'
  BY DataInvNext, Zenon
<1> QED
  BY <1>1, <1>2, PTL DEF DataSpec

(* One call of DeserializeGameData after the other: the cursor stays in    *)
(* the buffer and no list outgrows its array, whole buffers give the       *)
(* snapshot sent, and of a cut one the fields that came whole survive.     *)
THEOREM CodecBehindModel == DataSpec => [](TypeOK /\ RoundTrip /\ WholeFieldsSurvive)
<1>1. DataInv => TypeOK /\ RoundTrip /\ WholeFieldsSurvive
  BY CodecGives, Zenon DEF DataInv
<1> QED
  BY <1>1, DataInvariance, PTL

(* Every frame shows the last snapshot that was sent whole, variable by    *)
(* variable, whatever was shown before (WowDataModel::Update compares each *)
(* one, lists and members entry by entry, and writes only what differs).   *)
THEOREM FramesShow == DataSpec => FramesShowWhatWasSent
<1>1. DataInv /\ [DataNext]_dataVars => [Frame =>
       /\ \A name \in Plain \cup Guids : view'[name] = last[name]
       /\ \A name \in Corpse : Equal(view'[name], last[name])
       /\ \A name \in Flags : view'[name] = <<1>> <=> last[name] # <<0>>
       /\ view'.hasMouseOverGUID = <<1>> <=> last.mouseOverGUID # Zeros(8)
       /\ view'.corpseCoordinates = FormatCoordinates(last.corpseX, last.corpseY, last.corpseZ)
       /\ view'.playerAuras = last.auras
       /\ view'.partyMembers = last.partyMembersList
       /\ view'.raidMembers = last.raidMembersList]_dataVars
  BY FrameShows, Zenon
<1> QED
  BY <1>1, DataInvariance, PTL DEF DataSpec, FramesShowWhatWasSent
=============================================================================

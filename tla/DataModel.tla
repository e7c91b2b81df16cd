----------------------------- MODULE DataModel -----------------------------
(***************************************************************************)
(* WowDataModel: the variables RmlUi documents are bound to.  Update       *)
(* compares each with the snapshot, overwrites the ones that differ and    *)
(* marks them, and only what is marked does RmlUi evaluate again.  The     *)
(* snapshots come through the codec, one after the other; frames are       *)
(* rendered at any moment, so some snapshots are never shown and others    *)
(* are shown many times.                                                   *)
(***************************************************************************)
EXTENDS GameDataCodec

CONSTANT MaxSnapshots  \* bound: snapshots received

ASSUME DataModelAssumption == MaxSnapshots \in Nat

VARIABLES
  cache,     \* m_cachedData
  received,  \* snapshots received
  handle,    \* m_handle is set
  mirror,    \* the bound variables
  view,      \* what the documents show of them
  last       \* the snapshot cache was sent as (history)

codecVars == <<sent, ends, buf, p, k, out, result>>
modelVars == <<handle, mirror, view>>
dataVars  == <<codecVars, cache, received, modelVars, last>>

Kind(f) == Written[CHOOSE i \in 1 .. Len(Written) : Written[i][1] = f][2]

(* A GameData as it is constructed. *)
Empty == [f \in Fields |-> IF Kind(f) \in {"string", "auras", "events", "members"}
                           THEN <<>> ELSE Zeros(Width[Kind(f)])]

----------------------------------------------------------------------------
(* Initialise: the variables, but for the combat log.                      *)
Flags  == {"worldLoaded", "isLoading", "isIndoor", "playerIsIngame"}
Guids  == {"localPlayerGUID", "mouseOverGUID"}
Plain  == {"playerName", "realmName", "continentName", "zoneText", "subZoneText",
  "mapID", "zoneID", "playerHealth", "playerMaxHealth", "playerLevel", "playerPower",
  "playerMaxPower", "playerPowerType", "numPartyMembers", "partyDifficulty",
  "numRaidMembers", "raidDifficulty", "activeQuestsCount", "targetHealth",
  "targetMaxHealth", "targetPower", "targetMaxPower", "targetPowerType",
  "targetLevel", "targetName", "gameState", "tickCount", "targetAuras"}
Corpse == {"corpseX", "corpseY", "corpseZ"}
Groups == {"partyMembers", "raidMembers"}
Bound  == Plain \cup Corpse \cup Flags \cup Guids \cup Groups
            \cup {"hasMouseOverGUID", "corpseCoordinates", "playerAuras"}

Flag(bytes) == IF bytes = Zeros(Len(bytes)) THEN <<0>> ELSE <<1>>

(* Two decimals: numbers that differ in their last bits only are one text. *)
FormatCoordinates(x, y, z) == <<Tail(x), Tail(y), Tail(z)>>

(* What a variable becomes.  Numbers keep their bits, and a GUID is written *)
(* out with all its digits.                                                *)
Value(name, data) ==
  CASE name \in Flags             -> Flag(data[name])
    [] name = "hasMouseOverGUID"  -> Flag(data.mouseOverGUID)
    [] name = "corpseCoordinates" -> FormatCoordinates(data.corpseX, data.corpseY, data.corpseZ)
    [] name = "playerAuras"       -> data.auras
    [] name = "partyMembers"      -> data.partyMembersList
    [] name = "raidMembers"       -> data.raidMembersList
    [] OTHER                      -> data[name]

(* Before the first Update: every text is empty. *)
Initial(name) ==
  IF name \in Guids \cup {"corpseCoordinates"} THEN <<>> ELSE Value(name, Empty)

----------------------------------------------------------------------------
(* Update: is the variable to be overwritten? *)

ListChanged(list, raw) ==
  \/ Len(list) # Len(raw)
  \/ \E i \in 1 .. Len(raw) : list[i] # raw[i]

\* Auras only counted.
MemberChangedRoughly(m, raw) ==
  \/ m.guid # raw.guid \/ m.name # raw.name
  \/ m.health # raw.health \/ m.maxHealth # raw.maxHealth
  \/ Len(m.auras) # Len(raw.auras)

MemberChanged(m, raw) ==
  \/ m.guid # raw.guid \/ m.name # raw.name
  \/ m.health # raw.health \/ m.maxHealth # raw.maxHealth
  \/ ListChanged(m.auras, raw.auras)

GroupChanged(list, raw) ==
  \/ Len(list) # Len(raw)
  \/ \E i \in 1 .. Len(raw) : MemberChanged(list[i], raw[i])

(* Floats: 0 and -0 are equal, and one that is not a number is written     *)
(* again, to no effect.                                                    *)
Equal(x, y) == x = y \/ {x, y} \subseteq {<<0, 0, 0, 0>>, <<0, 0, 0, 128>>}

Changed(name, v) ==
  \/ name \in Corpse /\ ~Equal(mirror[name], v)
  \/ name \in {"playerAuras", "targetAuras"} /\ ListChanged(mirror[name], v)
  \/ name \in Groups /\ GroupChanged(mirror[name], v)
  \/ name \notin {"playerAuras", "targetAuras"} \cup Groups \cup Corpse /\ mirror[name] # v

(* The overlay gets its model after its reader, and documents then show    *)
(* what the variables are; RmlUi may refuse, and then nothing is shown.    *)
(* No frame is rendered while a buffer is cut short (a bound).             *)
Initialise ==
  /\ ~handle
  /\ Len(buf) = ends[Len(Written)]
  /\ handle' = TRUE
  /\ UNCHANGED <<codecVars, cache, received, mirror, view, last>>

(* UpdateGameData, then Context::Update. *)
Frame ==
  /\ handle
  /\ LET dirty == {name \in Bound : Changed(name, Value(name, cache))} IN
     /\ mirror' = [name \in Bound |->
          IF name \in dirty THEN Value(name, cache) ELSE mirror[name]]
     /\ view' = [name \in Bound |-> IF name \in dirty THEN mirror'[name] ELSE view[name]]
  /\ UNCHANGED <<codecVars, cache, received, handle, last>>

----------------------------------------------------------------------------
(* ServerLoop: what was read of a whole payload replaces the cache.        *)
Store ==
  /\ result = "true" /\ Len(buf) = ends[Len(Written)]
  /\ received < MaxSnapshots
  /\ received' = received + 1
  /\ cache' = out
  /\ last' = sent
  /\ \E s \in Snapshots : sent' = s /\ ends' = Ends(s) /\ buf' = SerializeGameData(s)
  /\ p' = 0 /\ k' = 0 /\ out' = <<>> /\ result' = "reading"
  /\ UNCHANGED modelVars

(* Only a payload before anything else is cut short (a bound). *)
Receive ==
  /\ \/ received = 0 /\ ~handle /\ Truncate
     \/ received < MaxSnapshots /\ (RefuseEmpty \/ ReadField \/ Return)
  /\ UNCHANGED <<cache, received, modelVars, last>>

DataInit ==
  /\ Init
  /\ cache = Empty /\ last = Empty /\ received = 0
  /\ handle = FALSE
  /\ mirror = [name \in Bound |-> Initial(name)]
  /\ view = mirror

DataNext == Receive \/ Store \/ Initialise \/ Frame

DataSpec == DataInit /\ [][DataNext]_dataVars

----------------------------------------------------------------------------
(* Every rendered frame shows, variable by variable, the last snapshot the *)
(* DLL sent whole - through both lists of fields of the codec, and though  *)
(* Update touches only what it finds to have changed since a snapshot      *)
(* before, perhaps not the one before this (WowDataModel::Update).         *)
FramesShowWhatWasSent ==
  [][Frame =>
       /\ \A name \in Plain \cup Guids : view'[name] = last[name]
       /\ \A name \in Corpse : Equal(view'[name], last[name])
       /\ \A name \in Flags : view'[name] = <<1>> <=> last[name] # <<0>>
       /\ view'.hasMouseOverGUID = <<1>> <=> last.mouseOverGUID # Zeros(8)
       /\ view'.corpseCoordinates = FormatCoordinates(last.corpseX, last.corpseY, last.corpseZ)
       /\ view'.playerAuras = last.auras
       /\ view'.partyMembers = last.partyMembersList
       /\ view'.raidMembers = last.raidMembersList]_dataVars
=============================================================================

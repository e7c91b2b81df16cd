--------------------------- MODULE GameDataCodec ---------------------------
(***************************************************************************)
(* SerializeGameData and DeserializeGameData: a snapshot is written field  *)
(* by field, and read back field by field from as much of the buffer as    *)
(* there is.                                                               *)
(*                                                                         *)
(* Values are copied byte by byte, so a scalar is the sequence of its      *)
(* bytes and a string that of its characters; a list is the sequence of    *)
(* its entries, its count the length.  Numbers are little endian.          *)
(***************************************************************************)
EXTENDS Integers, Sequences, SequencesExt

CONSTANTS
  Snapshots,           \* the snapshots written: functions of the field's name
  kMaxAuras,           \* also kMaxTargetAuras and that of GroupMemberData
  kMaxCombatLogEvents

\* No text or list of the 32-bit process that writes is longer.
MaxLength == 2147483647

ASSUME CodecAssumption ==
  /\ kMaxAuras \in Nat /\ kMaxAuras <= MaxLength
  /\ kMaxCombatLogEvents \in Nat /\ kMaxCombatLogEvents <= MaxLength

Width == [u8 |-> 1, u32 |-> 4, u64 |-> 8, spellId |-> 4, event |-> 56]

Named(kind, names) == [i \in 1 .. Len(names) |-> <<names[i], kind>>]

(* The fields in the order SerializeGameData writes them. *)
Written ==
  Named("string", <<"playerName", "realmName", "continentName", "zoneText",
    "subZoneText", "targetName">>) \o
  <<<<"localPlayerGUID", "u64">>>> \o
  Named("u32", <<"mapID", "zoneID", "playerHealth", "playerMaxHealth",
    "playerLevel", "playerPower", "playerMaxPower">>) \o
  Named("u8", <<"playerPowerType", "playerComboPoints", "playerIsIngame">>) \o
  Named("u32", <<"targetHealth", "targetMaxHealth", "targetPower", "targetMaxPower">>) \o
  <<<<"targetPowerType", "u8">>, <<"targetLevel", "u32">>>> \o
  Named("u8", <<"isLoading", "worldLoaded", "isIndoor">>) \o
  Named("u32", <<"playerPosX", "playerPosY", "playerPosZ", "playerRotation",
    "gameState", "tickCount", "corpseX", "corpseY", "corpseZ">>) \o
  Named("u64", <<"targetGUID", "mouseOverGUID", "lastTargetGUID">>) \o
  Named("u32", <<"castingSpellId", "channelSpellId">>) \o
  Named("auras", <<"auras", "targetAuras">>) \o
  <<<<"combatLogEvents", "events">>>> \o
  Named("u32", <<"cameraYaw", "cameraPitch", "numPartyMembers", "partyDifficulty",
    "numRaidMembers", "raidDifficulty", "activeQuestsCount">>) \o
  Named("members", <<"partyMembersList", "raidMembersList">>)

Fields == {Written[i][1] : i \in 1 .. Len(Written)}

Byte        == 0 .. 255
Bytes(w)    == [1 .. w -> Byte]
Most(S, n)  == {s \in Seq(S) : Len(s) <= n}
GroupMember ==
  [guid : Bytes(Width.u64), name : Most(Byte, MaxLength), health : Bytes(Width.u32),
   maxHealth : Bytes(Width.u32), auras : Most(Bytes(Width.spellId), kMaxAuras)]

(* The values of a field of each type; counts are within their arrays. *)
Values(kind) ==
  CASE kind = "string"  -> Most(Byte, MaxLength)
    [] kind = "auras"   -> Most(Bytes(Width.spellId), kMaxAuras)
    [] kind = "events"  -> Most(Bytes(Width.event), kMaxCombatLogEvents)
    [] kind = "members" -> Most(GroupMember, MaxLength)
    [] OTHER            -> Bytes(Width[kind])

IsGameData(data) ==
  /\ data = [name \in Fields |-> data[name]]
  /\ \A i \in 1 .. Len(Written) : data[Written[i][1]] \in Values(Written[i][2])

(* ReadGameData stops at the ends of the arrays. *)
ASSUME SnapshotAssumption == \A data \in Snapshots : IsGameData(data)

Swapped(s, i) == [s EXCEPT ![i] = s[i + 1], ![i + 1] = s[i]]

\* Two fields of the same width exchanged.
ReadOrderSwapped == Swapped(Written, 8)

(* The fields in the order DeserializeGameData reads them. *)
ReadOrder ==
  Named("string", <<"playerName", "realmName", "continentName", "zoneText",
    "subZoneText", "targetName">>) \o
  <<<<"localPlayerGUID", "u64">>>> \o
  Named("u32", <<"mapID", "zoneID", "playerHealth", "playerMaxHealth",
    "playerLevel", "playerPower", "playerMaxPower">>) \o
  Named("u8", <<"playerPowerType", "playerComboPoints", "playerIsIngame">>) \o
  Named("u32", <<"targetHealth", "targetMaxHealth", "targetPower", "targetMaxPower">>) \o
  <<<<"targetPowerType", "u8">>, <<"targetLevel", "u32">>>> \o
  Named("u8", <<"isLoading", "worldLoaded", "isIndoor">>) \o
  Named("u32", <<"playerPosX", "playerPosY", "playerPosZ", "playerRotation",
    "gameState", "tickCount", "corpseX", "corpseY", "corpseZ">>) \o
  Named("u64", <<"targetGUID", "mouseOverGUID", "lastTargetGUID">>) \o
  Named("u32", <<"castingSpellId", "channelSpellId">>) \o
  Named("auras", <<"auras", "targetAuras">>) \o
  <<<<"combatLogEvents", "events">>>> \o
  Named("u32", <<"cameraYaw", "cameraPitch", "numPartyMembers", "partyDifficulty",
    "numRaidMembers", "raidDifficulty", "activeQuestsCount">>) \o
  Named("members", <<"partyMembersList", "raidMembersList">>)

VARIABLES
  sent,    \* the snapshot written
  ends,    \* where each field of Written ends in the whole buffer
  buf,     \* what there is of the buffer
  p,       \* bytes read
  k,       \* fields read
  out,     \* outData, of the fields read
  result   \* "reading", then what DeserializeGameData returns

vars == <<sent, ends, buf, p, k, out, result>>

----------------------------------------------------------------------------
(* Writing. *)

U32(n) == <<n % 256, (n \div 256) % 256, (n \div 65536) % 256, n \div 16777216>>

WriteString(s) == U32(Len(s)) \o s

WriteArray(entries, max) ==
  U32(Len(entries)) \o FlattenSeq(SubSeq(entries, 1, IF Len(entries) > max THEN max ELSE Len(entries)))

WriteGroupMember(m) ==
  m.guid \o WriteString(m.name) \o m.health \o m.maxHealth \o WriteArray(m.auras, kMaxAuras)

WriteField(kind, v) ==
  CASE kind = "string"  -> WriteString(v)
    [] kind = "auras"   -> WriteArray(v, kMaxAuras)
    [] kind = "events"  -> WriteArray(v, kMaxCombatLogEvents)
    [] kind = "members" -> U32(Len(v)) \o FlattenSeq([i \in 1 .. Len(v) |-> WriteGroupMember(v[i])])
    [] OTHER            -> v

Chunks(data) == [i \in 1 .. Len(Written) |-> WriteField(Written[i][2], data[Written[i][1]])]

SerializeGameData(data) == FlattenSeq(Chunks(data))

----------------------------------------------------------------------------
(* Reading from offset q: the value, the offset after it, and whether the  *)
(* field was accepted.                                                     *)

At(q, v)      == [p |-> q, val |-> v, ok |-> TRUE]
Zeros(w)      == [i \in 1 .. w |-> 0]
Number(bytes) == bytes[1] + 256 * bytes[2] + 65536 * bytes[3] + 16777216 * bytes[4]

\* The pointer advanced before the check.
ReadValAdvancing(q, w) ==
  IF q + w > Len(buf) THEN At(q + w, Zeros(w)) ELSE At(q + w, SubSeq(buf, q + 1, q + w))

(* What is short reads as zero and is not consumed. *)
ReadVal(q, w) ==
  IF q + w > Len(buf) THEN At(q, Zeros(w)) ELSE At(q + w, SubSeq(buf, q + 1, q + w))

(* A length without its characters is consumed. *)
ReadString(q) ==
  LET length == ReadVal(q, 4)
      end    == length.p + Number(length.val)
  IN IF length.p = q \/ end > Len(buf)
     THEN At(length.p, <<>>)
     ELSE At(end, SubSeq(buf, length.p + 1, end))

Appended(list, entry) ==
  [p |-> entry.p, val |-> Append(list.val, entry.val), ok |-> entry.ok]

\* The lists of the first i entries of n, each of w bytes.
Entries(q, w, n) ==
  LET list[i \in 0 .. n] ==
        IF i = 0 THEN At(q, <<>>)
        ELSE LET read == list[i - 1] IN Appended(read, ReadVal(read.p, w))
  IN list

(* A count beyond the array is refused before anything is stored. *)
ReadArray(q, w, max) ==
  LET count == ReadVal(q, 4)
      n     == Number(count.val)
  IN IF n > max THEN [p |-> count.p, val |-> <<>>, ok |-> FALSE]
     ELSE Entries(count.p, w, n)[n]

ReadGroupMember(q) ==
  LET guid      == ReadVal(q, Width.u64)
      name      == ReadString(guid.p)
      health    == ReadVal(name.p, Width.u32)
      maxHealth == ReadVal(health.p, Width.u32)
      auras     == ReadArray(maxHealth.p, Width.spellId, kMaxAuras)
  IN [p   |-> auras.p,
      val |-> [guid |-> guid.val, name |-> name.val, health |-> health.val,
               maxHealth |-> maxHealth.val, auras |-> auras.val],
      ok  |-> auras.ok /\ auras.p <= Len(buf)]

(* Members are read while they are accepted. *)
Members(q, n) ==
  LET list[i \in 0 .. n] ==
        IF i = 0 THEN At(q, <<>>)
        ELSE LET read == list[i - 1]
             IN  IF read.ok THEN Appended(read, ReadGroupMember(read.p)) ELSE read
  IN list

ReadMembers(q) ==
  LET count == ReadVal(q, 4)
      n     == Number(count.val)
  IN Members(count.p, n)[n]

ReadKind(kind, q) ==
  CASE kind = "string"  -> ReadString(q)
    [] kind = "auras"   -> ReadArray(q, Width.spellId, kMaxAuras)
    [] kind = "events"  -> ReadArray(q, Width.event, kMaxCombatLogEvents)
    [] kind = "members" -> ReadMembers(q)
    [] OTHER            -> ReadVal(q, Width[kind])

----------------------------------------------------------------------------
\* Where each of the pieces ends, put one after the other.
Offsets(pieces) ==
  LET end[i \in 0 .. Len(pieces)] == IF i = 0 THEN 0 ELSE end[i - 1] + Len(pieces[i])
  IN end

Ends(data) == LET end == Offsets(Chunks(data)) IN [i \in 1 .. Len(Written) |-> end[i]]

Init ==
  /\ sent \in Snapshots
  /\ ends = Ends(sent)
  /\ buf = SerializeGameData(sent)
  /\ p = 0 /\ k = 0 /\ out = <<>>
  /\ result = "reading"

(* The end of the buffer is lost. *)
Truncate ==
  /\ k = 0 /\ result = "reading"
  /\ buf # <<>>
  /\ buf' = Front(buf)
  /\ UNCHANGED <<sent, ends, p, k, out, result>>

RefuseEmpty ==
  /\ result = "reading"
  /\ buf = <<>>
  /\ result' = "false"
  /\ UNCHANGED <<sent, ends, buf, p, k, out>>

(* One field; a count beyond its array ends the call. *)
ReadField ==
  /\ result = "reading"
  /\ buf # <<>> /\ k < Len(ReadOrder)
  /\ LET name  == ReadOrder[k + 1][1]
         field == ReadKind(ReadOrder[k + 1][2], p)
     IN /\ p' = field.p
        /\ out' = [f \in DOMAIN out \cup {name} |-> IF f = name THEN field.val ELSE out[f]]
        /\ result' = IF field.ok THEN result ELSE "false"
  /\ k' = k + 1
  /\ UNCHANGED <<sent, ends, buf>>

\* Bytes demanded behind the last field.
ReturnStrictly ==
  /\ result = "reading"
  /\ k = Len(ReadOrder)
  /\ result' = IF p < Len(buf) THEN "true" ELSE "false"
  /\ UNCHANGED <<sent, ends, buf, p, k, out>>

Return ==
  /\ result = "reading"
  /\ k = Len(ReadOrder)
  /\ result' = IF p <= Len(buf) THEN "true" ELSE "false"
  /\ UNCHANGED <<sent, ends, buf, p, k, out>>

Next == Truncate \/ RefuseEmpty \/ ReadField \/ Return

Spec == Init /\ [][Next]_vars

----------------------------------------------------------------------------
Full == ends[Len(Written)]

(* The cursor stays in the buffer, and no list in outData is longer than   *)
(* its array.                                                              *)
TypeOK ==
  /\ p \in 0 .. Len(buf) /\ Len(buf) <= Full
  /\ k \in 0 .. Len(ReadOrder)
  /\ DOMAIN out = {ReadOrder[i][1] : i \in 1 .. k}
  /\ \A f \in {"auras", "targetAuras"} \cap DOMAIN out : Len(out[f]) <= kMaxAuras
  /\ "combatLogEvents" \in DOMAIN out => Len(out["combatLogEvents"]) <= kMaxCombatLogEvents
  /\ result \in {"reading", "true", "false"}

(* What one process wrote the other one reads: a whole buffer is accepted, *)
(* consumed to its end, and gives the same snapshot (SerializeGameData and *)
(* DeserializeGameData name the fields and their widths separately).       *)
RoundTrip ==
  Len(buf) = Full /\ result # "reading" =>
    result = "true" /\ out = sent /\ p = Full

(* A field all of whose bytes came is read as it was written, whatever is  *)
(* missing behind it.                                                      *)
WholeFieldsSurvive ==
  \A i \in 1 .. Len(Written) :
    Written[i][1] \in DOMAIN out /\ ends[i] <= Len(buf) =>
      out[Written[i][1]] = sent[Written[i][1]]

(* "@return true on success, false if the buffer is malformed/truncated." *)
(* (wowmemory.h, DeserializeGameData)                                      *)
TruncationRefused == Len(buf) < Full => result # "true"
=============================================================================

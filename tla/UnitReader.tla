----------------------------- MODULE UnitReader -----------------------------
(***************************************************************************)
(* ReadGameData gathers the player, his target and the members of his      *)
(* group from the client's objects: it finds each by its GUID in the       *)
(* list of the object manager and reads through the pointers found there,  *)
(* while the client creates and destroys objects and reuses or unmaps      *)
(* their memory.  Nothing synchronises the two: every guard and every read *)
(* is a step.                                                              *)
(*                                                                         *)
(* Memory is a set of blocks.  A block is an object of the list, or what   *)
(* an object points to, each with a pointer of its own: its descriptor     *)
(* fields, its aura table on the heap, and its template, which units of a  *)
(* kind share and which points to the name, kept here with the template.   *)
(* The client may replace each of them while the object stays in the list. *)
(* owner is the set of units whose data a block holds.                     *)
(***************************************************************************)
EXTENDS Integers, Sequences

CONSTANTS
  NAddr,      \* addresses of blocks: two units with what they point to, at least
  NGuid,      \* units
  MaxChanges, \* bound: changes of the client
  MaxWalk,    \* objects visited by GetObjectBaseByGUID at most (5000)
  kMaxAuras,  \* GameData::kMaxAuras, kMaxTargetAuras, GroupMemberData::kMaxAuras
  NMembers    \* slots of the party and the raid

ASSUME UnitAssumption ==
  /\ NAddr \in Nat /\ NAddr >= 6
  /\ NGuid \in Nat /\ NGuid >= 2
  /\ MaxChanges \in Nat
  /\ MaxWalk \in Nat \ {0}
  /\ kMaxAuras \in Nat \ {0}
  /\ NMembers \in Nat

Addr   == 1 .. NAddr
Null   == 0
Odd    == -1   \* a pointer with its lowest bit set: the list ends here
Wrap   == -2   \* an even address so high that the range read at it wraps around
Pointer == Addr \cup {Null, Odd, Wrap}

Guid   == 1 .. NGuid
Player == 1
Nobody == 0

\* What an object points to; a template points to the name.
ObjectPart == {"fields", "auras", "template"}
Part       == ObjectPart \cup {"name"}

Block == [owner : SUBSET Guid, part : [Part -> Pointer], next : Pointer]

VARIABLES
  (* the client *)
  list,      \* the objects of the manager's list
  mem,       \* what is found at an address
  mapped,    \* addresses that can be read
  changes,   \* changes so far
  (* the reader *)
  pc,        \* the read it is at
  at,        \* the address of that read
  guard,     \* what IsReadableRange said of it: unasked, yes or no
  role,      \* whose turn it is: player, target or member
  guid,      \* the unit looked for
  base,      \* playerBasePtr, targetBasePtr, baseAddress
  fields,    \* unitFieldsAddr
  count,     \* objects visited, aura entries read
  auras,     \* auraCount
  stats,     \* statsPopulated
  targetGUID,
  left,      \* group slots not visited yet
  (* history *)
  foreign,   \* data has been entered for guid that is another unit's, or nobody's
  kept,      \* base was in the list when it was found, and since then it and what
             \* the reader holds the address of have stayed the object's
  listed,    \* guid was in the list as the walk began, and nothing left it since
  quiet      \* nothing has been unmapped since the call began

clientVars  == <<list, mem, mapped, changes>>
unitVars    == <<role, guid, base, fields, count, auras, stats>>
callVars    == <<targetGUID, left>>
controlVars == <<pc, at, guard>>
historyVars == <<foreign, kept, listed, quiet>>
vars == <<clientVars, controlVars, unitVars, callVars, historyVars>>

Objects   == {list[k] : k \in 1 .. Len(list)}
Used      == Objects \cup {mem[a].part[k] : a \in Objects, k \in ObjectPart}
Templates == {mem[a].part["template"] : a \in Objects} \ {Null}

\* The addresses that are object a's in memory m, and none.
Own(m, a) == {a, Null} \cup {m[a].part[k] : k \in ObjectPart}

\* A block with unit g's data.
Filled(g, f, u, t, n) ==
  [owner |-> {g},
   part  |-> [k \in Part |-> CASE k = "fields"   -> f [] k = "auras" -> u
                              [] k = "template" -> t [] k = "name"  -> n],
   next  |-> Null]

(* The player, his descriptor fields and his aura table; one more unit,    *)
(* its descriptor fields and its template.                                 *)
Init ==
  /\ list \in {<<1, 4>>, <<4, 1>>}
  /\ mem = [a \in Addr |->
       [CASE a = 1        -> Filled(Player, 2, 3, Null, Null)
          [] a \in {2, 3} -> Filled(Player, Null, Null, Null, Null)
          [] a = 4        -> Filled(2, 5, Null, 6, Null)
          [] a = 5        -> Filled(2, Null, Null, Null, Null)
          [] a = 6        -> Filled(2, Null, Null, Null, 6)
          [] OTHER        -> [Filled(2, Null, Null, Null, Null) EXCEPT !.owner = {}]
        EXCEPT !.next = IF a = list[1] THEN list[2] ELSE IF a = list[2] THEN Odd ELSE Null]]
  /\ mapped = Addr
  /\ changes = 0
  /\ pc = "idle" /\ at = Null /\ guard = "unasked"
  /\ role = "player" /\ guid = Nobody /\ base = Null /\ fields = Null
  /\ count = 0 /\ auras = 0 /\ stats = FALSE
  /\ targetGUID = Nobody /\ left = 0
  /\ foreign = FALSE /\ kept = FALSE /\ listed = FALSE /\ quiet = TRUE

----------------------------------------------------------------------------
(* The client. *)

Change ==
  /\ pc # "fault"
  /\ changes < MaxChanges
  /\ changes' = changes + 1

\* The next pointers of memory m for the list l.
Linked(m, l) ==
  [a \in Addr |->
     IF \E k \in 1 .. Len(l) : l[k] = a
     THEN [m[a] EXCEPT !.next = LET k == CHOOSE k \in 1 .. Len(l) : l[k] = a
                                IN  IF k = Len(l) THEN Odd ELSE l[k + 1]]
     ELSE m[a]]

\* The memory once block p holds unit g's data: as new ones do, or a template
\* that others use.
Given(p, g) ==
  [b \in Addr |-> IF b # p THEN mem[b]
                  ELSE IF p \in Used THEN [mem[p] EXCEPT !.owner = @ \cup {g}]
                  ELSE Filled(g, Null, Null, Null, p)]

(* A new object enters the list at either end, its fields with it or not   *)
(* there yet, its template a known one or none yet.                        *)
Create(g) ==
  /\ Change
  /\ \A a \in Objects : mem[a].owner # {g}
  /\ \E a \in Addr \ Used : \E d \in (Addr \ (Used \cup {a})) \cup {Null}, t \in Templates \cup {Null} :
       /\ list' \in {<<a>> \o list, Append(list, a)}
       /\ mem' = Linked([b \in Addr |-> CASE b = a -> Filled(g, d, Null, t, Null)
                                         [] b = d -> Given(d, g)[d]
                                         [] OTHER -> Given(t, g)[b]], list')
       /\ mapped' = mapped \cup ({a, d} \ {Null})
  /\ UNCHANGED <<controlVars, unitVars, callVars, historyVars>>

\* The addresses the reader goes on to use.
Holding == {at} \cup (IF pc \in {"health", "maxHealth", "targetGUID", "typePtr", "type", "power"}
                      THEN {fields} ELSE {})

(* An object gets other fields, another aura table or another template, or *)
(* loses it.  What it had is free memory unless another object shares it.  *)
Replace(a, k) ==
  /\ Change
  /\ \E g \in mem[a].owner,
        p \in (Addr \ Used) \cup {Null} \cup (IF k = "template" THEN Templates ELSE {}) :
       /\ p # mem[a].part[k]
       /\ mem' = [Given(p, g) EXCEPT ![a].part[k] = p]
       /\ mapped' = mapped \cup ({p} \ {Null})
  /\ kept' = (kept /\ (a = base => Holding \subseteq Own(mem', a)))
  /\ UNCHANGED <<list, controlVars, unitVars, callVars, foreign, listed, quiet>>

(* An object leaves the list.  Its memory is as it was. *)
Destroy(k) ==
  /\ Change
  /\ list' = SubSeq(list, 1, k - 1) \o SubSeq(list, k + 1, Len(list))
  /\ mem' = Linked(mem, list')
  /\ kept' = (kept /\ base # list[k])
  /\ listed' = FALSE
  /\ UNCHANGED <<mapped, controlVars, unitVars, callVars, foreign, quiet>>

(* Freed memory is overwritten with some value, or its page goes. *)
Reclaim(a) ==
  /\ Change
  /\ a \in mapped \ Used
  /\ \/ /\ \E p \in Pointer :
             mem' = [mem EXCEPT ![a] = [owner |-> {}, part |-> [k \in Part |-> p], next |-> p]]
        /\ UNCHANGED <<mapped, quiet>>
     \/ /\ mapped' = mapped \ {a}
        /\ quiet' = FALSE
        /\ UNCHANGED mem
  /\ UNCHANGED <<list, controlVars, unitVars, callVars, foreign, kept, listed>>

Client ==
  \/ \E g \in Guid : Create(g)
  \/ \E k \in 1 .. Len(list) : Destroy(k)
  \/ \E a \in Objects, k \in ObjectPart : Replace(a, k)
  \/ \E a \in Addr : Reclaim(a)

----------------------------------------------------------------------------
(* A guarded read: IsReadableRange, then the dereference. *)

Go(p, a) == pc' = p /\ at' = a /\ guard' = "unasked"

\* One guard less.
UnguardedFields == {"descriptor", "health"}

Unguarded == {"descriptor"}
Guarded == {"guid", "next", "present", "position", "fields", "health", "maxHealth",
            "targetGUID", "typePtr", "type", "power", "auraCount", "auraTable",
            "aura", "name", "template", "string"}

(* IsReadableRange asks about the range from the address to its end; for   *)
(* one that wraps around there is nothing to ask, and it says yes.         *)
IsReadableRange ==
  /\ pc \in Guarded
  /\ guard = "unasked"
  /\ \/ guard' = "yes" /\ at \in mapped \cup {Wrap}
     \/ guard' = "no" /\ at \notin mapped
  /\ UNCHANGED <<clientVars, pc, at, unitVars, callVars, historyVars>>

Refused == guard = "no"
Passed  == (guard = "yes" \/ pc \in Unguarded) /\ at \in mapped

(* The process ends. *)
Fault ==
  /\ guard = "yes" \/ pc \in Unguarded
  /\ pc # "present"
  /\ at \notin mapped
  /\ pc' = "fault"
  /\ UNCHANGED <<clientVars, at, guard, unitVars, callVars, historyVars>>

\* What a read returns, and whether it is about the unit looked for.
OwnerRead   == IF Refused THEN {} ELSE mem[at].owner
PartRead(k) == IF Refused THEN Null ELSE mem[at].part[k]
NextRead    == IF Refused THEN Null ELSE mem[at].next
Enter == foreign' = (foreign \/ (~Refused /\ guid \notin mem[at].owner))
Ready == Refused \/ Passed

----------------------------------------------------------------------------
(* GetObjectBaseByGUID.  Without a manager the walk ends as it does in an  *)
(* empty list.                                                             *)
Lookup(g) ==
  /\ guid' = g
  /\ count' = 0
  /\ Go("head", Null)

\* Where the player's object is, if he has one (WoWOffsets::playerBase).
PlayerBase ==
  IF \E a \in Objects : mem[a].owner = {Player}
  THEN CHOOSE a \in Objects : mem[a].owner = {Player}
  ELSE Null

(* The caller goes on with the object found, or without one. *)
Return(a) ==
  LET b == IF a = Null /\ role = "player" THEN PlayerBase ELSE a IN
  /\ base' = b
  /\ kept' = (b \in Objects)
  /\ \/ b = Null /\ role # "member" /\ Go("done", Null)
     \/ b = Null /\ role = "member" /\ Go("fallback", Null)
     \/ b # Null /\ role = "player" /\ Go("present", b)
     \/ b # Null /\ role = "target" /\ Go("fields", b)
     \/ b # Null /\ role = "member" /\ Go("name", b)

\* The limit off by one.
VisitOneLess(p) ==
  IF p \notin {Null, Odd} /\ count' + 1 < MaxWalk
  THEN Go("guid", p) /\ UNCHANGED <<base, kept>>
  ELSE Return(Null)

(* The condition of the loop, for the object it comes to. *)
Visit(p) ==
  IF p \notin {Null, Odd} /\ count' < MaxWalk
  THEN Go("guid", p) /\ UNCHANGED <<base, kept>>
  ELSE Return(Null)

ReadHead ==
  /\ pc = "head"
  /\ listed' = \E a \in Objects : mem[a].owner = {guid}
  /\ count' = 0
  /\ Visit(IF list = <<>> THEN Odd ELSE list[1])
  /\ UNCHANGED <<clientVars, role, guid, fields, auras, stats, callVars, foreign,
                 quiet>>

\* The object after the one looked for.
ReadGuidAdvancing ==
  /\ pc = "guid" /\ Ready
  /\ IF OwnerRead = {guid} THEN Return(NextRead)
     ELSE Go("next", at) /\ UNCHANGED <<base, kept>>
  /\ UNCHANGED <<clientVars, role, guid, fields, count, auras, stats, callVars,
                 foreign, listed, quiet>>

ReadGuid ==
  /\ pc = "guid" /\ Ready
  /\ IF OwnerRead = {guid} THEN Return(at)
     ELSE Go("next", at) /\ UNCHANGED <<base, kept>>
  /\ UNCHANGED <<clientVars, role, guid, fields, count, auras, stats, callVars,
                 foreign, listed, quiet>>

\* Objects visited and not counted.
ReadNextUncounted ==
  /\ pc = "next" /\ Ready
  /\ count' = count
  /\ Visit(NextRead)
  /\ UNCHANGED <<clientVars, role, guid, fields, auras, stats, callVars, foreign,
                 listed, quiet>>

ReadNext ==
  /\ pc = "next" /\ Ready
  /\ count' = count + 1
  /\ Visit(NextRead)
  /\ UNCHANGED <<clientVars, role, guid, fields, auras, stats, callVars, foreign,
                 listed, quiet>>

----------------------------------------------------------------------------
(* ReadGameData and the unit readers it calls. *)

(* A new call; the player is looked up by GUID if there is one. *)
BeginCall ==
  /\ pc = "idle"
  /\ role' = "player"
  /\ left' = NMembers
  /\ targetGUID' = Nobody
  /\ quiet' = TRUE
  /\ base' = Null /\ fields' = Null /\ auras' = 0 /\ stats' = FALSE /\ foreign' = FALSE
  /\ kept' = FALSE
  /\ \/ Lookup(Player) /\ UNCHANGED listed
     \/ /\ guid' = Player /\ count' = 0 /\ listed' = FALSE
        /\ Go("absent", Null)
  /\ UNCHANGED clientVars

(* localPlayerGUID is 0. *)
NoPlayerGuid ==
  /\ pc = "absent"
  /\ Return(Null)
  /\ UNCHANGED <<clientVars, role, guid, fields, count, auras, stats, callVars,
                 foreign, listed, quiet>>

(* An object that cannot be read counts as none. *)
Present ==
  /\ pc = "present" /\ guard # "unasked"
  /\ IF Refused THEN Go("done", Null) ELSE Go("position", base)
  /\ UNCHANGED <<clientVars, unitVars, callVars, historyVars>>

(* ReadPlayerPosition, and the fields of the object itself. *)
ReadPosition ==
  /\ pc = "position" /\ Ready
  /\ Enter
  /\ Go("fields", base)
  /\ UNCHANGED <<clientVars, unitVars, callVars, kept, listed, quiet>>

(* The pointer to the descriptor fields.  PopulateGroupMemberStats reads   *)
(* it without a guard.                                                     *)
ReadFields ==
  /\ pc \in {"fields", "descriptor"} /\ Ready
  /\ fields' = PartRead("fields")
  /\ IF PartRead("fields") = Null THEN Go("auraCount", base) ELSE Go("health", PartRead("fields"))
  /\ UNCHANGED <<clientVars, role, guid, base, count, auras, stats, callVars,
                 historyVars>>

ReadHealth ==
  /\ pc = "health" /\ Ready
  /\ Enter
  /\ stats' = ~Refused
  /\ Go("maxHealth", fields)
  /\ UNCHANGED <<clientVars, role, guid, base, fields, count, auras, callVars,
                 kept, listed, quiet>>

(* Maximum health and level; of a member there is no more. *)
ReadMaxHealth ==
  /\ pc = "maxHealth" /\ Ready
  /\ Enter
  /\ \/ role = "player" /\ Go("targetGUID", fields)
     \/ role = "target" /\ Go("typePtr", base)
     \/ role = "member" /\ Go("auraCount", base)
  /\ UNCHANGED <<clientVars, unitVars, callVars, kept, listed, quiet>>

ReadTargetGuid ==
  /\ pc = "targetGUID" /\ Ready
  /\ Enter
  /\ targetGUID' \in IF Refused THEN {Nobody} ELSE Guid \cup {Nobody}
  /\ Go("typePtr", base)
  /\ UNCHANGED <<clientVars, unitVars, left, kept, listed, quiet>>

(* The pointer to the descriptor again, for the type of power. *)
ReadTypePtr ==
  /\ pc = "typePtr" /\ Ready
  /\ IF PartRead("fields") = Null THEN Go("power", fields) ELSE Go("type", PartRead("fields"))
  /\ UNCHANGED <<clientVars, unitVars, callVars, historyVars>>

(* Only a known type of power has values. *)
ReadType ==
  /\ pc = "type" /\ Ready
  /\ Enter
  /\ \/ Go("power", fields)
     \/ ~Refused /\ Go("auraCount", base)
  /\ UNCHANGED <<clientVars, unitVars, callVars, kept, listed, quiet>>

ReadPower ==
  /\ pc = "power" /\ Ready
  /\ Enter
  /\ Go("auraCount", base)
  /\ UNCHANGED <<clientVars, unitVars, callVars, kept, listed, quiet>>

----------------------------------------------------------------------------
(* ReadAurasForUnit: no auras, a table in the object or one it points to. *)
AfterAuras ==
  \/ role = "player" /\ Go("done", Null)
  \/ role = "target" /\ Go("name", base)
  \/ role = "member" /\ stats /\ Go("done", Null)
  \/ role = "member" /\ ~stats /\ Go("fallback", Null)

ReadAuraCount ==
  /\ pc = "auraCount" /\ Ready
  /\ auras' = 0 /\ count' = 0
  /\ \/ AfterAuras
     \/ ~Refused /\ Go("aura", base)
     \/ ~Refused /\ Go("auraTable", base)
  /\ UNCHANGED <<clientVars, role, guid, base, fields, stats, callVars, historyVars>>

ReadAuraTable ==
  /\ pc = "auraTable" /\ Ready
  /\ IF PartRead("auras") = Null THEN AfterAuras ELSE Go("aura", PartRead("auras"))
  /\ UNCHANGED <<clientVars, unitVars, callVars, historyVars>>

\* The limit off by one.
ReadAuraOneMore ==
  /\ pc = "aura" /\ Ready
  /\ count' = count + 1
  /\ \/ Refused /\ AfterAuras /\ UNCHANGED <<auras, foreign>>
     \/ /\ ~Refused
        /\ \/ auras' = auras + 1 /\ Enter
           \/ UNCHANGED <<auras, foreign>>
        /\ \/ AfterAuras
           \/ count' <= kMaxAuras /\ Go("aura", at)
  /\ UNCHANGED <<clientVars, role, guid, base, fields, stats, callVars, kept,
                 listed, quiet>>

(* One entry, which may be empty; the first unreadable one ends the table, *)
(* and so does the limit.                                                  *)
ReadAura ==
  /\ pc = "aura" /\ Ready
  /\ count' = count + 1
  /\ \/ Refused /\ AfterAuras /\ UNCHANGED <<auras, foreign>>
     \/ /\ ~Refused
        /\ \/ auras' = auras + 1 /\ Enter
           \/ UNCHANGED <<auras, foreign>>
        /\ \/ AfterAuras
           \/ count' < kMaxAuras /\ Go("aura", at)
  /\ UNCHANGED <<clientVars, role, guid, base, fields, stats, callVars, kept,
                 listed, quiet>>

----------------------------------------------------------------------------
(* GetUnitName: of a player from the name cache, of a creature through its *)
(* template.                                                               *)
AfterName ==
  \/ role = "target" /\ Go("done", Null)
  \/ role = "member" /\ Go("descriptor", base)

ReadName ==
  /\ pc = "name" /\ (Ready \/ guard = "unasked")
  /\ \/ guard = "unasked" /\ AfterName
     \/ Ready /\ IF PartRead("template") = Null THEN AfterName
                 ELSE Go("template", PartRead("template"))
  /\ UNCHANGED <<clientVars, unitVars, callVars, historyVars>>

(* The pointer to the name, in the template.                               *)
ReadTemplate ==
  /\ pc = "template" /\ Ready
  /\ IF PartRead("name") = Null THEN AfterName ELSE Go("string", PartRead("name"))
  /\ UNCHANGED <<clientVars, unitVars, callVars, historyVars>>

ReadString ==
  /\ pc = "string" /\ Ready
  /\ Enter
  /\ AfterName
  /\ UNCHANGED <<clientVars, unitVars, callVars, kept, listed, quiet>>

(* What the object did not give comes from the party's cache. *)
Fallback ==
  /\ pc = "fallback"
  /\ Go("done", Null)
  /\ UNCHANGED <<clientVars, unitVars, callVars, historyVars>>

(* The next unit, if its GUID is not 0: the target, then the slots of the  *)
(* party and the raid; then the call returns.                              *)
NextUnit ==
  /\ pc = "done"
  /\ base' = Null /\ fields' = Null /\ auras' = 0 /\ stats' = FALSE /\ foreign' = FALSE
  /\ kept' = FALSE /\ listed' = FALSE
  /\ \/ /\ role = "player"
        /\ role' = "target"
        /\ IF targetGUID # Nobody THEN Lookup(targetGUID)
           ELSE Go("done", Null) /\ guid' = Nobody /\ count' = 0
        /\ UNCHANGED left
     \/ /\ role # "player" /\ left > 0
        /\ role' = "member" /\ left' = left - 1
        /\ \E g \in Guid \cup {Nobody} :
             IF g # Nobody THEN Lookup(g)
             ELSE Go("done", Null) /\ guid' = Nobody /\ count' = 0
     \/ /\ role # "player" /\ left = 0
        /\ Go("idle", Null)
        /\ guid' = Nobody /\ count' = 0
        /\ UNCHANGED <<role, left>>
  /\ UNCHANGED <<clientVars, targetGUID, quiet>>

----------------------------------------------------------------------------
Reader ==
  \/ IsReadableRange \/ Fault
  \/ ReadHead \/ ReadGuid \/ ReadNext
  \/ BeginCall \/ NoPlayerGuid \/ Present \/ ReadPosition \/ ReadFields
  \/ ReadHealth \/ ReadMaxHealth \/ ReadTargetGuid \/ ReadTypePtr \/ ReadType
  \/ ReadPower \/ ReadAuraCount \/ ReadAuraTable \/ ReadAura \/ ReadName
  \/ ReadTemplate \/ ReadString \/ Fallback \/ NextUnit

Next == Reader \/ Client

Spec == Init /\ [][Next]_vars

(* The thread of the DLL goes on; the client owes nothing. *)
FairSpec == Spec /\ WF_vars(Reader)

----------------------------------------------------------------------------
(* Every variable has its type; no table outgrows its array. *)
TypeOK ==
  /\ list \in Seq(Addr)
  /\ mem \in [Addr -> Block]
  /\ mapped \subseteq Addr
  /\ changes \in 0 .. MaxChanges
  /\ pc \in Guarded \cup Unguarded
             \cup {"idle", "head", "absent", "fallback", "done", "fault"}
  /\ at \in Pointer
  /\ guard \in {"unasked", "yes", "no"}
  /\ role \in {"player", "target", "member"}
  /\ guid \in Guid \cup {Nobody}
  /\ base \in Pointer
  /\ fields \in Pointer
  /\ count \in Nat /\ auras \in 0 .. kMaxAuras
  /\ stats \in BOOLEAN
  /\ targetGUID \in Guid \cup {Nobody}
  /\ left \in 0 .. NMembers
  /\ foreign \in BOOLEAN
  /\ kept \in BOOLEAN /\ listed \in BOOLEAN /\ quiet \in BOOLEAN

(* Whatever the client does to the list, to the memory of other units and  *)
(* to the pointers of the object itself, everything entered for a unit is  *)
(* of that unit, unless the object left the list or the very block whose   *)
(* address the reader held was taken from it: no pointer of another unit   *)
(* is followed, and none is used longer than from its reading to the end   *)
(* of what is read through it (ReadGameData, PopulateGroupMemberStats,     *)
(* ReadAurasForUnit, GetUnitName).                                         *)
UnitDataMatchesGuid == kept => ~foreign

(* Reading never faults in a call during which the client takes no page    *)
(* away, except at a range that wraps around the end of the address space: *)
(* the one read without a guard relies on those before it.                 *)
NoFaultWhenQuiet == pc = "fault" => ~quiet \/ at = Wrap

(* A unit that is in the list as the walk begins, and while nothing leaves *)
(* it, is found unless the walk gives up at its limit (GetObjectBaseByGUID). *)
FoundUnlessRemoved ==
  [][/\ pc \in {"guid", "next"} /\ pc' \notin {"guid", "next", "fault"}
     /\ listed
     => base' # Null \/ count' >= MaxWalk]_vars

(* A call returns, whatever the client makes of the list, unless the       *)
(* process ends.                                                           *)
CallReturns == []<>(pc \in {"idle", "fault"})
=============================================================================

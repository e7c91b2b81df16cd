----------------------------- MODULE UnitProofs -----------------------------
(***************************************************************************)
(* Proofs about UnitReader, for any number of addresses, units, changes    *)
(* and slots, and any limits.                                              *)
(*                                                                         *)
(* What an object of the list points to is of its unit and is no object of *)
(* the list, and stays so until the client takes it away (Coherent).  So a *)
(* reader whose object is in the list since it was found, and from whose   *)
(* hands nothing was taken, holds at every read addresses of that object   *)
(* only (OwnPointers).  What IsReadableRange has passed stays readable     *)
(* while no page goes (GuardHolds), and so does the object of a member,    *)
(* whose GUID was read behind a guard (MemberReadable).                    *)
(***************************************************************************)
EXTENDS UnitReader, SequenceTheorems, TLAPS

(* The walk over the list, and the reads of an object once it was found:   *)
(* at its address, at its fields, while the reader holds their address,    *)
(* and all of them.                                                        *)
Walking == {"head", "absent", "guid", "next"}
AtBase  == {"present", "position", "fields", "descriptor", "typePtr", "auraCount",
            "auraTable", "name"}
AtField == {"health", "maxHealth", "targetGUID", "power"}
Holds   == AtField \cup {"typePtr", "type"}
AtOwn   == AtBase \cup AtField \cup {"type", "aura", "template", "string"}

(* Of the objects: each is one unit's, holds no other object, and whatever *)
(* it points to is about its unit and names nothing but itself.            *)
OneUnit(m, a) == \E g \in Guid : m[a].owner = {g}

Apart(m, a, objects) == \A k \in ObjectPart : m[a].part[k] \notin objects

AboutItsUnit(m, a, p) ==
  p \in Addr /\ m[a].owner \subseteq m[p].owner /\ m[p].part["name"] \in {Null, p}

Coherent ==
  \A a \in Objects :
    /\ OneUnit(mem, a) /\ Apart(mem, a, Objects)
    /\ \A p \in Own(mem, a) \ {Null} : AboutItsUnit(mem, a, p)

Searching ==
  /\ pc \in Walking => guid # Nobody /\ fields = Null /\ ~kept /\ ~foreign
  /\ pc \in Walking /\ role = "player" => guid = Player

Addresses ==
  /\ pc \in AtBase => at = base
  /\ pc \in AtField => at = fields
  /\ pc \in AtOwn => base \in Addr

OwnPointers ==
  kept => /\ base \in Objects
          /\ mem[base].owner = {guid}
          /\ pc \in AtOwn => Holding \subseteq Own(mem, base)
          /\ ~foreign

AurasCounted ==
  /\ pc = "auraTable" => auras = 0 /\ count = 0
  /\ pc = "aura" => auras <= count /\ count < kMaxAuras

GuardHolds == quiet /\ guard = "yes" => at \in mapped \cup {Wrap}

MemberReadable ==
  /\ pc = "descriptor" => role = "member"
  /\ quiet /\ role = "member" /\ pc \in AtOwn => base \in mapped

UnitInv ==
  /\ TypeOK /\ Coherent /\ Searching /\ Addresses /\ OwnPointers
  /\ AurasCounted /\ GuardHolds /\ MemberReadable /\ NoFaultWhenQuiet

----------------------------------------------------------------------------
(* The types of the client's half and of the reader's. *)
ClientTyped ==
  /\ list \in Seq(Addr)
  /\ mem \in [Addr -> Block]
  /\ mapped \subseteq Addr
  /\ changes \in 0 .. MaxChanges

ReaderTyped ==
  /\ pc \in Guarded \cup Unguarded
             \cup {"idle", "head", "absent", "fallback", "done", "fault"}
  /\ at \in Pointer
  /\ guard \in {"unasked", "yes", "no"}
  /\ role \in {"player", "target", "member"}
  /\ guid \in Guid \cup {Nobody}
  /\ base \in Pointer
  /\ fields \in Pointer
  /\ count \in Nat /\ auras \in 0 .. kMaxAuras
  /\ stats \in BOOLEAN
  /\ targetGUID \in Guid \cup {Nobody}
  /\ left \in 0 .. NMembers
  /\ foreign \in BOOLEAN
  /\ kept \in BOOLEAN /\ listed \in BOOLEAN /\ quiet \in BOOLEAN

LEMMA TypesSplit == TypeOK <=> ClientTyped /\ ReaderTyped
  BY DEF TypeOK, ClientTyped, ReaderTyped

LEMMA TypesSplitNext == TypeOK' <=> ClientTyped' /\ ReaderTyped'
  BY DEF TypeOK, ClientTyped, ReaderTyped

Items(l) == {l[i] : i \in 1 .. Len(l)}

(* An object put at either end of a list. *)
LEMMA Joined ==
  ASSUME NEW l \in Seq(Addr), NEW a \in Addr, NEW m \in {<<a>> \o l, Append(l, a)}
  PROVE  m \in Seq(Addr) /\ Items(m) = Items(l) \cup {a}
<1>1. CASE m = <<a>> \o l
  <2>1. m \in Seq(Addr) /\ Len(m) = Len(l) + 1
    BY <1>1
  <2>2. m[1] = a /\ \A i \in 1 .. Len(l) : m[i + 1] = l[i]
    BY <1>1
  <2>3. \A i \in 1 .. Len(m) : i = 1 \/ (i - 1 \in 1 .. Len(l) /\ m[i] = l[i - 1])
    BY <1>1, <2>1
  <2>4. Items(m) \subseteq Items(l) \cup {a}
    <3> SUFFICES ASSUME NEW i \in 1 .. Len(m) PROVE m[i] \in Items(l) \cup {a}
      BY DEF Items
    <3>1. CASE i = 1
      BY <2>2, <3>1
    <3>2. CASE i - 1 \in 1 .. Len(l) /\ m[i] = l[i - 1]
      BY <3>2 DEF Items
    <3> QED
      BY <2>3, <3>1, <3>2
  <2>5. a \in Items(m)
    BY <2>1, <2>2 DEF Items
  <2>6. Items(l) \subseteq Items(m)
    <3> SUFFICES ASSUME NEW i \in 1 .. Len(l) PROVE l[i] \in Items(m)
      BY DEF Items
    <3> QED
      BY <2>1, <2>2 DEF Items
  <2> QED
    BY <2>1, <2>4, <2>5, <2>6
<1>2. CASE m = Append(l, a)
  <2>1. m \in Seq(Addr) /\ Len(m) = Len(l) + 1
    BY <1>2
  <2>2. m[Len(l) + 1] = a /\ \A i \in 1 .. Len(l) : m[i] = l[i]
    BY <1>2
  <2> QED
    BY <2>1, <2>2 DEF Items
<1> QED
  BY <1>1, <1>2

(* An object taken out of a list. *)
LEMMA Cut ==
  ASSUME NEW l \in Seq(Addr), NEW n \in 1 .. Len(l)
  PROVE  LET m == SubSeq(l, 1, n - 1) \o SubSeq(l, n + 1, Len(l))
         IN  /\ m \in Seq(Addr)
             /\ Items(m) \subseteq Items(l)
             /\ Items(l) \ {l[n]} \subseteq Items(m)
<1> DEFINE p == SubSeq(l, 1, n - 1)
           q == SubSeq(l, n + 1, Len(l))
           m == p \o q
<1>1. p \in Seq(Addr) /\ Len(p) = n - 1 /\ \A i \in 1 .. n - 1 : p[i] = l[i]
  OBVIOUS
<1>2. q \in Seq(Addr) /\ Len(q) = Len(l) - n /\ \A i \in 1 .. Len(l) - n : q[i] = l[n + i]
  OBVIOUS
<1> HIDE DEF p, q
<1>3. m \in Seq(Addr) /\ Len(m) = Len(l) - 1
  BY <1>1, <1>2
<1>4. \A i \in 1 .. n - 1 : m[i] = l[i]
  BY <1>1, <1>2
<1>5. ASSUME NEW i \in n .. Len(l) - 1 PROVE m[i] = l[i + 1]
  <2>1. m[i] = q[i - (n - 1)]
    BY <1>1, <1>2
  <2>2. i - (n - 1) \in 1 .. Len(l) - n /\ n + (i - (n - 1)) = i + 1
    OBVIOUS
  <2> QED
    BY <1>2, <2>1, <2>2
<1> HIDE DEF m
<1>6. Items(m) \subseteq Items(l)
  <2> SUFFICES ASSUME NEW i \in 1 .. Len(m) PROVE m[i] \in Items(l)
    BY DEF Items
  <2> QED
    BY <1>3, <1>4, <1>5 DEF Items
<1>7. Items(l) \ {l[n]} \subseteq Items(m)
  <2> SUFFICES ASSUME NEW i \in 1 .. Len(l), l[i] # l[n] PROVE l[i] \in Items(m)
    BY DEF Items
  <2>1. CASE i < n
    BY <2>1, <1>3, <1>4 DEF Items
  <2>2. CASE i > n
    <3>1. i - 1 \in n .. Len(l) - 1 /\ m[i - 1] = l[i]
      BY <2>2, <1>5
    <3> QED
      BY <3>1, <1>3 DEF Items
  <2> QED
    BY <2>1, <2>2
<1> QED
  BY <1>3, <1>6, <1>7 DEF m, p, q

(* Linking a list changes next pointers only. *)
LEMMA LinkedKeeps ==
  ASSUME NEW m \in [Addr -> Block], NEW l \in Seq(Addr)
  PROVE  /\ Linked(m, l) \in [Addr -> Block]
         /\ \A a \in Addr : /\ Linked(m, l)[a].owner = m[a].owner
                            /\ Linked(m, l)[a].part = m[a].part
<1> SUFFICES ASSUME NEW a \in Addr
             PROVE  /\ Linked(m, l)[a] \in Block
                    /\ Linked(m, l)[a].owner = m[a].owner
                    /\ Linked(m, l)[a].part = m[a].part
  BY DEF Linked
<1>1. CASE ~ \E i \in 1 .. Len(l) : l[i] = a
  BY <1>1 DEF Linked
<1>2. CASE \E i \in 1 .. Len(l) : l[i] = a
  <2> DEFINE n == CHOOSE i \in 1 .. Len(l) : l[i] = a
             x == IF n = Len(l) THEN Odd ELSE l[n + 1]
  <2>1. n \in 1 .. Len(l)
    BY <1>2
  <2>2. x \in Pointer
    <3> HIDE DEF n
    <3> QED BY <2>1 DEF Pointer
  <2>3. Linked(m, l)[a] = [m[a] EXCEPT !.next = x]
    BY <1>2 DEF Linked
  <2> HIDE DEF x
  <2> QED
    BY <2>2, <2>3 DEF Block
<1> QED
  BY <1>1, <1>2

(* A block filled with a unit's data. *)
LEMMA FilledIs ==
  ASSUME NEW g \in Guid, NEW f \in Pointer, NEW u \in Pointer, NEW t \in Pointer,
         NEW n \in Pointer
  PROVE  /\ Filled(g, f, u, t, n) \in Block
         /\ Filled(g, f, u, t, n).owner = {g}
         /\ Filled(g, f, u, t, n).part["fields"] = f
         /\ Filled(g, f, u, t, n).part["auras"] = u
         /\ Filled(g, f, u, t, n).part["template"] = t
         /\ Filled(g, f, u, t, n).part["name"] = n
<1> DEFINE h == [k \in Part |-> CASE k = "fields"   -> f [] k = "auras" -> u
                                 [] k = "template" -> t [] k = "name"  -> n]
<1>1. h["fields"] = f /\ h["auras"] = u /\ h["template"] = t /\ h["name"] = n
  BY DEF Part, ObjectPart
<1>2. \A k \in Part : k \in {"fields", "auras", "template", "name"}
  BY DEF Part, ObjectPart
<1>3. \A k \in Part : h[k] \in Pointer
  BY <1>1, <1>2
<1>4. h \in [Part -> Pointer]
  BY <1>3
<1>5. Null \in Pointer
  BY DEF Pointer
<1>6. Filled(g, f, u, t, n) = [owner |-> {g}, part |-> h, next |-> Null]
  BY DEF Filled
<1> HIDE DEF h
<1> QED
  BY <1>1, <1>4, <1>5, <1>6 DEF Block

(* What is an object's is in use; its pointers are pointers. *)
LEMMA OwnIsUsed ==
  ASSUME NEW a \in Objects
  PROVE  Own(mem, a) \subseteq Used \cup {Null}
BY DEF Own, Used

LEMMA OfObjects ==
  ASSUME ClientTyped
  PROVE  /\ Objects \subseteq Used \cap Addr /\ Null \notin Addr
         /\ Addr \cup {Null} \subseteq Pointer
         /\ "name" \in Part /\ ObjectPart \subseteq Part \ {"name"}
<1>1. Objects \subseteq Used /\ Objects \subseteq Addr
  BY DEF ClientTyped, Objects, Used
<1>2. Null \notin Addr
  BY DEF Addr, Null
<1>3. Addr \cup {Null} \subseteq Pointer
  BY DEF Pointer
<1>4. "name" \in Part /\ ObjectPart \subseteq Part \ {"name"}
  BY DEF Part, ObjectPart
<1> QED
  BY <1>1, <1>2, <1>3, <1>4

----------------------------------------------------------------------------
LEMMA InitInv == Init => UnitInv
<1> SUFFICES ASSUME Init PROVE UnitInv
  OBVIOUS
<1> USE UnitAssumption
<1>1. list \in Seq(Addr) /\ Len(list) = 2 /\ Objects = {1, 4}
  <2>1. CASE list = <<1, 4>>
    BY <2>1 DEF Objects, Addr
  <2>2. CASE list = <<4, 1>>
    BY <2>2 DEF Objects, Addr
  <2> QED
    BY <2>1, <2>2 DEF Init
<1> DEFINE x(a) == IF a = list[1] THEN list[2] ELSE IF a = list[2] THEN Odd ELSE Null
           free == [Filled(2, Null, Null, Null, Null) EXCEPT !.owner = {}]
           block(a) == CASE a = 1        -> Filled(Player, 2, 3, Null, Null)
                         [] a \in {2, 3} -> Filled(Player, Null, Null, Null, Null)
                         [] a = 4        -> Filled(2, 5, Null, 6, Null)
                         [] a = 5        -> Filled(2, Null, Null, Null, Null)
                         [] a = 6        -> Filled(2, Null, Null, Null, 6)
                         [] OTHER        -> free
<1>2. \A a \in Addr : x(a) \in Pointer
  BY DEF Init, Pointer, Addr
<1>3. /\ Player \in Guid /\ 2 \in Guid
      /\ {2, 3, 5, 6, Null} \subseteq Pointer
      /\ {1, 2, 3, 4, 5, 6} \subseteq Addr /\ Null \notin Addr
  BY DEF Player, Guid, Pointer, Addr, Null
<1>4. mem = [a \in Addr |-> [block(a) EXCEPT !.next = x(a)]]
  BY DEF Init
<1>5. /\ block(1) = Filled(Player, 2, 3, Null, Null)
      /\ block(2) = Filled(Player, Null, Null, Null, Null)
      /\ block(3) = Filled(Player, Null, Null, Null, Null)
      /\ block(4) = Filled(2, 5, Null, 6, Null)
      /\ block(5) = Filled(2, Null, Null, Null, Null)
      /\ block(6) = Filled(2, Null, Null, Null, 6)
  OBVIOUS
<1>6. \A a \in Addr : block(a) \in Block
  <2>1. /\ Filled(Player, 2, 3, Null, Null) \in Block
        /\ Filled(Player, Null, Null, Null, Null) \in Block
        /\ Filled(2, 5, Null, 6, Null) \in Block
        /\ Filled(2, Null, Null, Null, Null) \in Block
        /\ Filled(2, Null, Null, Null, 6) \in Block
    BY <1>3, FilledIs
  <2>2. free \in Block
    BY <2>1 DEF Block
  <2> HIDE DEF free
  <2>3. ASSUME NEW a \in Addr
        PROVE  \/ a = 1 \/ a \in {2, 3} \/ a = 4 \/ a = 5 \/ a = 6
               \/ block(a) = free
    OBVIOUS
  <2> QED
    BY <1>5, <2>1, <2>2, <2>3
<1> HIDE DEF block, x
<1>7. ASSUME NEW a \in Addr
      PROVE  mem[a] \in Block /\ mem[a].owner = block(a).owner /\ mem[a].part = block(a).part
  BY <1>2, <1>4, <1>6 DEF Block
<1>8. mem \in [Addr -> Block]
  BY <1>4, <1>7
<1>a. 2 \in Pointer /\ 3 \in Pointer /\ 5 \in Pointer /\ 6 \in Pointer /\ Null \in Pointer
  BY <1>3
<1>9. /\ mem[1].owner = {Player} /\ mem[1].part["fields"] = 2 /\ mem[1].part["auras"] = 3
      /\ mem[1].part["template"] = Null /\ mem[1].part["name"] = Null
  <2>1. 1 \in Addr /\ Player \in Guid
    BY <1>3
  <2>2. mem[1].owner = Filled(Player, 2, 3, Null, Null).owner
        /\ mem[1].part = Filled(Player, 2, 3, Null, Null).part
    BY <1>5, <1>7, <2>1, Zenon
  <2>3. /\ Filled(Player, 2, 3, Null, Null).owner = {Player}
        /\ Filled(Player, 2, 3, Null, Null).part["fields"] = 2
        /\ Filled(Player, 2, 3, Null, Null).part["auras"] = 3
        /\ Filled(Player, 2, 3, Null, Null).part["template"] = Null
        /\ Filled(Player, 2, 3, Null, Null).part["name"] = Null
    BY DEF Filled, Part, ObjectPart
  <2> QED
    BY <2>2, <2>3, Zenon
<1>10. \A a \in {2, 3} : mem[a].owner = {Player} /\ mem[a].part["name"] = Null
  <2>1. 2 \in Addr /\ 3 \in Addr /\ Player \in Guid
    BY <1>3
  <2>2. /\ Filled(Player, Null, Null, Null, Null).owner = {Player}
        /\ Filled(Player, Null, Null, Null, Null).part["name"] = Null
    BY DEF Filled, Part, ObjectPart
  <2>3. /\ mem[2].owner = {Player} /\ mem[2].part["name"] = Null
        /\ mem[3].owner = {Player} /\ mem[3].part["name"] = Null
    BY <1>5, <1>7, <2>1, <2>2, Zenon
  <2> QED
    BY <2>3
<1>11. /\ mem[4].owner = {2} /\ mem[4].part["fields"] = 5 /\ mem[4].part["auras"] = Null
       /\ mem[4].part["template"] = 6 /\ mem[4].part["name"] = Null
  <2>1. 4 \in Addr /\ 2 \in Guid
    BY <1>3
  <2>2. mem[4].owner = Filled(2, 5, Null, 6, Null).owner
        /\ mem[4].part = Filled(2, 5, Null, 6, Null).part
    BY <1>5, <1>7, <2>1, Zenon
  <2>3. /\ Filled(2, 5, Null, 6, Null).owner = {2}
        /\ Filled(2, 5, Null, 6, Null).part["fields"] = 5
        /\ Filled(2, 5, Null, 6, Null).part["auras"] = Null
        /\ Filled(2, 5, Null, 6, Null).part["template"] = 6
        /\ Filled(2, 5, Null, 6, Null).part["name"] = Null
    BY DEF Filled, Part, ObjectPart
  <2> QED
    BY <2>2, <2>3, Zenon
<1>12. /\ mem[5].owner = {2} /\ mem[5].part["name"] = Null
       /\ mem[6].owner = {2} /\ mem[6].part["name"] = 6
  <2>1. 5 \in Addr /\ 6 \in Addr /\ 2 \in Guid
    BY <1>3
  <2>2. /\ Filled(2, Null, Null, Null, Null).owner = {2}
        /\ Filled(2, Null, Null, Null, Null).part["name"] = Null
    BY DEF Filled, Part, ObjectPart
  <2>3. /\ Filled(2, Null, Null, Null, 6).owner = {2}
        /\ Filled(2, Null, Null, Null, 6).part["name"] = 6
    BY DEF Filled, Part, ObjectPart
  <2> QED
    BY <1>5, <1>7, <2>1, <2>2, <2>3, Zenon
<1>13. \A k \in ObjectPart : k = "fields" \/ k = "auras" \/ k = "template"
  BY DEF ObjectPart
<1>14. Own(mem, 1) \subseteq {1, 2, 3, Null} /\ Own(mem, 4) \subseteq {4, 5, 6, Null}
  BY <1>9, <1>11, <1>13 DEF Own
<1>15. Coherent
  <2>1. OneUnit(mem, 1) /\ OneUnit(mem, 4)
    BY <1>3, <1>9, <1>11 DEF OneUnit
  <2>2. Apart(mem, 1, Objects) /\ Apart(mem, 4, Objects)
    BY <1>1, <1>9, <1>11, <1>13 DEF Apart, Null
  <2>3. \A p \in {1, 2, 3} : AboutItsUnit(mem, 1, p)
    BY <1>3, <1>9, <1>10 DEF AboutItsUnit
  <2>4. \A p \in {4, 5, 6} : AboutItsUnit(mem, 4, p)
    BY <1>3, <1>11, <1>12 DEF AboutItsUnit
  <2> QED
    BY <1>1, <1>14, <2>1, <2>2, <2>3, <2>4 DEF Coherent
<1>16. ClientTyped
  <2>1. mapped \subseteq Addr /\ changes \in 0 .. MaxChanges
    BY DEF Init
  <2> QED
    BY <1>1, <1>8, <2>1 DEF ClientTyped
<1>17. ReaderTyped
  <2>1. at \in Pointer /\ base \in Pointer /\ fields \in Pointer
    BY DEF Init, Pointer
  <2>2. count \in Nat /\ auras \in 0 .. kMaxAuras /\ left \in 0 .. NMembers
    BY DEF Init
  <2>3. guid \in Guid \cup {Nobody} /\ targetGUID \in Guid \cup {Nobody}
    BY DEF Init
  <2>4. /\ stats \in BOOLEAN /\ kept \in BOOLEAN /\ listed \in BOOLEAN /\ quiet \in BOOLEAN
        /\ foreign \in BOOLEAN
    BY DEF Init
  <2> QED
    BY <2>1, <2>2, <2>3, <2>4 DEF Init, ReaderTyped
<1>18. Searching /\ Addresses /\ OwnPointers /\ AurasCounted
  BY DEF Init, Searching, Addresses, OwnPointers, AurasCounted, Walking, AtOwn, AtBase, AtField
<1>19. GuardHolds /\ MemberReadable /\ NoFaultWhenQuiet
  BY DEF Init, GuardHolds, MemberReadable, NoFaultWhenQuiet
<1> QED
  BY <1>15, <1>16, <1>17, <1>18, <1>19, TypesSplit DEF UnitInv

----------------------------------------------------------------------------
(* What a step of the client leaves to the reader: the object he has is    *)
(* his, and what he holds of it, and nothing readable goes away unnoticed. *)
ClientLeaves ==
  /\ ClientTyped' /\ Coherent'
  /\ kept' => /\ kept /\ base \in Objects' /\ mem'[base].owner = mem[base].owner
              /\ Own(mem', base) = Own(mem, base) \/ Holding \subseteq Own(mem', base)
  /\ quiet' => (quiet /\ mapped \subseteq mapped')
  /\ quiet' \in BOOLEAN /\ kept' \in BOOLEAN /\ listed' \in BOOLEAN

LEMMA ClientStep ==
  ASSUME UnitInv, ClientLeaves, pc # "fault",
         UNCHANGED <<controlVars, unitVars, callVars, foreign>>
  PROVE  UnitInv'
<1> USE DEF controlVars, unitVars, callVars
<1>1. TypeOK
  BY DEF UnitInv
<1>2. ReaderTyped'
  BY <1>1, TypesSplit DEF ReaderTyped, ClientLeaves
<1>3. TypeOK'
  BY <1>2, TypesSplitNext DEF ClientLeaves
<1>4. Searching' /\ Addresses' /\ AurasCounted'
  BY DEF UnitInv, ClientLeaves, Searching, Addresses, AurasCounted
<1>5. OwnPointers'
  <2> SUFFICES ASSUME kept' PROVE OwnPointers'
    BY DEF OwnPointers
  <2>1. Holding' = Holding
    BY DEF Holding
  <2> QED
    BY <2>1 DEF UnitInv, ClientLeaves, OwnPointers
<1>6. GuardHolds' /\ MemberReadable' /\ NoFaultWhenQuiet'
  BY DEF UnitInv, ClientLeaves, GuardHolds, MemberReadable, NoFaultWhenQuiet
<1> QED
  BY <1>3, <1>4, <1>5, <1>6 DEF UnitInv, ClientLeaves

LEMMA ChangesCounted ==
  ASSUME ClientTyped, Change
  PROVE  changes' \in 0 .. MaxChanges
  BY UnitAssumption DEF ClientTyped, Change

(* What is in use only gets further owners. *)
Undisturbed(m) ==
  \A b \in Used \cap Addr :
    mem[b].owner \subseteq m[b].owner /\ m[b].part["name"] = mem[b].part["name"]

(* So what is an object's goes on to be about its unit. *)
LEMMA StaysAbout ==
  ASSUME ClientTyped, Coherent, NEW m, Undisturbed(m), NEW a \in Objects,
         m[a].owner = mem[a].owner, NEW p \in Own(mem, a) \ {Null}
  PROVE  AboutItsUnit(m, a, p)
<1>1. AboutItsUnit(mem, a, p)
  BY DEF Coherent
<1>2. p \in Used
  BY OwnIsUsed
<1> QED
  BY <1>1, <1>2 DEF AboutItsUnit, Undisturbed

(* A block given to a unit: what is there is its unit's, also. *)
LEMMA GivenKeeps ==
  ASSUME UnitInv, NEW g \in Guid,
         NEW p \in (Addr \ Used) \cup {Null} \cup Templates
  PROVE  /\ Given(p, g) \in [Addr -> Block] /\ Undisturbed(Given(p, g))
         /\ \A b \in Addr : b # p => Given(p, g)[b] = mem[b]
         /\ p # Null => /\ p \in Addr \ Objects /\ g \in Given(p, g)[p].owner
                        /\ Given(p, g)[p].part["name"] \in {Null, p}
                        /\ p \notin Used => Given(p, g)[p] = Filled(g, Null, Null, Null, p)
<1>1. ClientTyped /\ Coherent
  BY TypesSplit DEF UnitInv
<1>2. /\ mem \in [Addr -> Block] /\ "name" \in Part
      /\ Null \notin Addr /\ Addr \cup {Null} \subseteq Pointer
  BY <1>1, OfObjects DEF ClientTyped
<1>3. \A b \in Addr : b # p => Given(p, g)[b] = mem[b]
  BY DEF Given
<1>4. CASE p = Null
  <2>1. Given(p, g) = mem
    BY <1>2, <1>4 DEF Given
  <2> QED
    BY <1>2, <1>3, <1>4, <2>1 DEF Undisturbed
<1>5. CASE p \in Addr \ Used
  <2>1. Given(p, g)[p] = Filled(g, Null, Null, Null, p)
    BY <1>5 DEF Given
  <2>2. /\ Filled(g, Null, Null, Null, p) \in Block
        /\ Filled(g, Null, Null, Null, p).owner = {g}
        /\ Filled(g, Null, Null, Null, p).part["name"] = p
    BY <1>2, <1>5, FilledIs
  <2>3. Given(p, g) \in [Addr -> Block]
    <3>1. \A b \in Addr : Given(p, g)[b] \in Block
      BY <1>2, <1>3, <2>1, <2>2
    <3> QED
      BY <3>1 DEF Given
  <2>4. Undisturbed(Given(p, g))
    BY <1>3, <1>5 DEF Undisturbed
  <2>5. p \notin Objects
    BY <1>5 DEF Used
  <2> QED
    BY <1>3, <1>5, <2>1, <2>2, <2>3, <2>4, <2>5
<1>6. CASE p \in Templates /\ p # Null
  <2>1. PICK c \in Objects : p = mem[c].part["template"]
    BY <1>6 DEF Templates
  <2>2. "template" \in ObjectPart
    BY DEF ObjectPart
  <2>3. p \in Own(mem, c) \ {Null} /\ p \in Used
    BY <1>6, <2>1, <2>2 DEF Own, Used
  <2>4. p \in Addr \ Objects /\ mem[p].part["name"] \in {Null, p}
    BY <1>1, <2>1, <2>2, <2>3 DEF Coherent, Apart, AboutItsUnit
  <2>5. Given(p, g)[p] = [mem[p] EXCEPT !.owner = @ \cup {g}]
    BY <2>3, <2>4 DEF Given
  <2>6. mem[p] \in Block
    BY <1>2, <2>4
  <2>7. /\ Given(p, g)[p] \in Block /\ Given(p, g)[p].owner = mem[p].owner \cup {g}
        /\ Given(p, g)[p].part = mem[p].part
    BY <2>5, <2>6 DEF Block
  <2>8. Given(p, g) \in [Addr -> Block]
    <3>1. \A b \in Addr : Given(p, g)[b] \in Block
      BY <1>2, <1>3, <2>7
    <3> QED
      BY <3>1 DEF Given
  <2>9. Undisturbed(Given(p, g))
    BY <1>3, <2>7 DEF Undisturbed
  <2> QED
    BY <1>3, <2>3, <2>4, <2>7, <2>8, <2>9
<1> QED
  BY <1>4, <1>5, <1>6

(* A new object of unit g at a, with its fields at d and its template at   *)
(* t; m is the memory before the list is linked.                           *)
Added(g, a, d, t, m) ==
  /\ list' \in {<<a>> \o list, Append(list, a)}
  /\ mem' = Linked(m, list')
  /\ mapped' = mapped \cup ({a, d} \ {Null})
  /\ Undisturbed(m) /\ \A b \in Objects : m[b] = mem[b]
  /\ m[a] = Filled(g, d, Null, t, Null)
  /\ \A p \in {d, t} \ {Null} : /\ p \in Addr \ (Objects \cup {a}) /\ g \in m[p].owner
                                /\ m[p].part["name"] \in {Null, p}

LEMMA CreateAdds ==
  ASSUME UnitInv, NEW g \in Guid, Create(g)
  PROVE  \E a \in Addr \ Used, d \in Addr \cup {Null}, t \in Addr \cup {Null} :
           \E m \in [Addr -> Block] : Added(g, a, d, t, m)
<1>0. PICK a \in Addr \ Used :
        \E d \in (Addr \ (Used \cup {a})) \cup {Null}, t \in Templates \cup {Null} :
          /\ list' \in {<<a>> \o list, Append(list, a)}
          /\ mem' = Linked([b \in Addr |-> CASE b = a -> Filled(g, d, Null, t, Null)
                                            [] b = d -> Given(d, g)[d]
                                            [] OTHER -> Given(t, g)[b]], list')
          /\ mapped' = mapped \cup ({a, d} \ {Null})
  BY DEF Create
<1>1. PICK d \in (Addr \ (Used \cup {a})) \cup {Null}, t \in Templates \cup {Null} :
        /\ list' \in {<<a>> \o list, Append(list, a)}
        /\ mem' = Linked([b \in Addr |-> CASE b = a -> Filled(g, d, Null, t, Null)
                                          [] b = d -> Given(d, g)[d]
                                          [] OTHER -> Given(t, g)[b]], list')
        /\ mapped' = mapped \cup ({a, d} \ {Null})
  BY <1>0
<1> DEFINE m == [b \in Addr |-> CASE b = a -> Filled(g, d, Null, t, Null)
                                  [] b = d -> Given(d, g)[d]
                                  [] OTHER -> Given(t, g)[b]]
<1>2. ClientTyped
  BY TypesSplit DEF UnitInv
<1>3. /\ Objects \subseteq Used \cap Addr /\ Null \notin Addr
      /\ Addr \cup {Null} \subseteq Pointer
  BY <1>2, OfObjects
<1>4. /\ Given(d, g) \in [Addr -> Block]
      /\ d # Null => /\ d \in Addr \ Objects /\ g \in Given(d, g)[d].owner
                     /\ Given(d, g)[d].part["name"] \in {Null, d}
  <2>1. d \in (Addr \ Used) \cup {Null} \cup Templates
    OBVIOUS
  <2> QED
    BY <2>1, GivenKeeps
<1>5. /\ Given(t, g) \in [Addr -> Block] /\ Undisturbed(Given(t, g))
      /\ \A b \in Addr : b # t => Given(t, g)[b] = mem[b]
      /\ t # Null => /\ t \in Addr \ Objects /\ g \in Given(t, g)[t].owner
                     /\ Given(t, g)[t].part["name"] \in {Null, t}
  <2>1. t \in (Addr \ Used) \cup {Null} \cup Templates
    OBVIOUS
  <2> QED
    BY <2>1, GivenKeeps
<1>6. t # Null => t \in Used
  BY DEF Templates, Used, ObjectPart
<1>7. a # d /\ a # t /\ (d # Null => d # t)
  BY <1>3, <1>6
<1>8. d \in Addr \cup {Null} /\ t \in Addr \cup {Null}
  BY <1>5
<1>9. Filled(g, d, Null, t, Null) \in Block
  BY <1>3, <1>8, FilledIs
<1>10. /\ m[a] = Filled(g, d, Null, t, Null)
       /\ d # Null => m[d] = Given(d, g)[d]
       /\ \A b \in Addr \ {a, d} : m[b] = Given(t, g)[b]
  BY <1>7, <1>8
<1>11. m \in [Addr -> Block]
  <2>1. \A b \in Addr : m[b] \in Block
    BY <1>3, <1>4, <1>5, <1>9, <1>10
  <2> QED
    BY <2>1
<1>12. mem' = Linked(m, list')
  BY <1>1
<1> HIDE DEF m
<1>13. \A b \in Used \cap Addr : m[b] = Given(t, g)[b]
  BY <1>3, <1>10
<1>14. Undisturbed(m)
  BY <1>5, <1>13 DEF Undisturbed
<1>15. \A b \in Objects : m[b] = mem[b]
  BY <1>3, <1>5, <1>13
<1>16. \A p \in {d, t} \ {Null} : /\ p \in Addr \ (Objects \cup {a}) /\ g \in m[p].owner
                                  /\ m[p].part["name"] \in {Null, p}
  <2>1. d # Null => /\ d \in Addr \ (Objects \cup {a}) /\ g \in m[d].owner
                    /\ m[d].part["name"] \in {Null, d}
    BY <1>4, <1>7, <1>10
  <2>2. t # Null => /\ t \in Addr \ (Objects \cup {a}) /\ g \in m[t].owner
                    /\ m[t].part["name"] \in {Null, t}
    BY <1>5, <1>6, <1>7, <1>13
  <2> QED
    BY <2>1, <2>2
<1>17. Added(g, a, d, t, m)
  BY <1>1, <1>10, <1>12, <1>14, <1>15, <1>16 DEF Added
<1> QED
  BY <1>8, <1>11, <1>17

LEMMA CreateInv ==
  ASSUME UnitInv, NEW g \in Guid, Create(g)
  PROVE  UnitInv'
<1>1. PICK a \in Addr \ Used, d \in Addr \cup {Null}, t \in Addr \cup {Null} :
        \E m \in [Addr -> Block] : Added(g, a, d, t, m)
  BY CreateAdds
<1>2. PICK m \in [Addr -> Block] : Added(g, a, d, t, m)
  BY <1>1
<1>3. ClientTyped /\ ReaderTyped /\ Coherent
  BY TypesSplit DEF UnitInv
<1>a. /\ Objects \subseteq Used \cap Addr /\ Null \notin Addr
      /\ Addr \cup {Null} \subseteq Pointer
  BY <1>3, OfObjects
<1>4. list' \in Seq(Addr) /\ Objects' = Objects \cup {a}
  <2>1. list \in Seq(Addr)
    BY <1>3 DEF ClientTyped
  <2>2. list' \in Seq(Addr) /\ Items(list') = Items(list) \cup {a}
    <3>1. \A l \in {<<a>> \o list, Append(list, a)} :
             l \in Seq(Addr) /\ Items(l) = Items(list) \cup {a}
      BY <2>1, Joined
    <3> QED
      BY <1>2, <3>1 DEF Added
  <2> QED
    BY <2>2 DEF Items, Objects
<1>5. /\ mem' \in [Addr -> Block]
      /\ \A b \in Addr : mem'[b].owner = m[b].owner /\ mem'[b].part = m[b].part
  BY <1>4, <1>2, LinkedKeeps DEF Added
<1>6. Undisturbed(mem')
  BY <1>2, <1>5 DEF Added, Undisturbed
<1>7. \A b \in Objects : mem'[b].owner = mem[b].owner /\ mem'[b].part = mem[b].part
  BY <1>2, <1>5, <1>a DEF Added
<1>8. /\ mem'[a].owner = {g} /\ mem'[a].part["name"] = Null
      /\ mem'[a].part["fields"] = d /\ mem'[a].part["auras"] = Null
      /\ mem'[a].part["template"] = t
  <2>1. d \in Pointer /\ t \in Pointer /\ Null \in Pointer
    BY <1>a
  <2>2. /\ Filled(g, d, Null, t, Null).owner = {g}
        /\ Filled(g, d, Null, t, Null).part["name"] = Null
        /\ Filled(g, d, Null, t, Null).part["fields"] = d
        /\ Filled(g, d, Null, t, Null).part["auras"] = Null
        /\ Filled(g, d, Null, t, Null).part["template"] = t
    BY <2>1, FilledIs
  <2>3. /\ m[a] = Filled(g, d, Null, t, Null)
        /\ mem'[a].owner = m[a].owner /\ mem'[a].part = m[a].part
    BY <1>2, <1>5 DEF Added
  <2> QED
    BY <2>2, <2>3
<1>b. \A k \in ObjectPart : k = "fields" \/ k = "auras" \/ k = "template"
  BY DEF ObjectPart
<1>9. Coherent'
  <2> SUFFICES ASSUME NEW b \in Objects'
               PROVE  /\ OneUnit(mem', b) /\ Apart(mem', b, Objects')
                      /\ \A p \in Own(mem', b) \ {Null} : AboutItsUnit(mem', b, p)
    BY DEF Coherent
  <2>1. CASE b = a
    <3>1. OneUnit(mem', a)
      BY <1>8 DEF OneUnit
    <3>2. \A p \in {d, t} \ {Null} : p \in Addr \ Objects' /\ AboutItsUnit(mem', a, p)
      BY <1>4, <1>2, <1>5, <1>8 DEF Added, AboutItsUnit
    <3>3. Own(mem', a) \subseteq {a, d, t, Null}
      BY <1>8, <1>b DEF Own
    <3>4. AboutItsUnit(mem', a, a)
      BY <1>8 DEF AboutItsUnit
    <3>5. Null \notin Objects'
      BY <1>4, <1>a
    <3>6. \A k \in ObjectPart : mem'[a].part[k] \in {d, t, Null}
      BY <1>8, <1>b
    <3>7. Apart(mem', a, Objects')
      BY <3>2, <3>5, <3>6 DEF Apart
    <3> QED
      BY <2>1, <3>1, <3>2, <3>3, <3>4, <3>7
  <2>2. CASE b \in Objects
    <3>1. mem'[b].owner = mem[b].owner /\ mem'[b].part = mem[b].part
      BY <2>2, <1>7
    <3>2. OneUnit(mem', b)
      BY <2>2, <3>1, <1>3 DEF Coherent, OneUnit
    <3>3. Apart(mem', b, Objects')
      <4> SUFFICES ASSUME NEW k \in ObjectPart PROVE mem[b].part[k] \notin Objects \cup {a}
        BY <1>4, <3>1 DEF Apart
      <4>1. mem[b].part[k] \in Used
        BY <2>2 DEF Used
      <4> QED
        BY <2>2, <4>1, <1>3 DEF Coherent, Apart
    <3>4. Own(mem', b) = Own(mem, b)
      BY <3>1 DEF Own
    <3> QED
      BY <2>2, <3>1, <3>2, <3>3, <3>4, <1>3, <1>6, StaysAbout
  <2> QED
    BY <1>4, <2>1, <2>2
<1>10. ClientTyped'
  <2>1. mapped' \subseteq Addr
    BY <1>3, <1>2 DEF ClientTyped, Added
  <2>2. changes' \in 0 .. MaxChanges
    BY <1>3, ChangesCounted DEF Create
  <2> QED
    BY <1>4, <1>5, <2>1, <2>2 DEF ClientTyped
<1>11. UNCHANGED <<controlVars, unitVars, callVars, historyVars>> /\ pc # "fault"
  BY DEF Create, Change
<1>12. ClientLeaves
  <2>1. kept => /\ base \in Objects' /\ mem'[base].owner = mem[base].owner
                /\ Own(mem', base) = Own(mem, base)
    BY <1>4, <1>7 DEF UnitInv, OwnPointers, Own
  <2>2. mapped \subseteq mapped'
    BY <1>2 DEF Added
  <2> QED
    BY <1>3, <1>9, <1>10, <1>11, <2>1, <2>2
    DEF ClientLeaves, ReaderTyped, historyVars
<1> QED
  BY <1>11, <1>12, ClientStep DEF historyVars

LEMMA DestroyInv ==
  ASSUME UnitInv, NEW n \in 1 .. Len(list), Destroy(n)
  PROVE  UnitInv'
<1>1. ClientTyped /\ ReaderTyped /\ Coherent
  BY TypesSplit DEF UnitInv
<1>2. list \in Seq(Addr) /\ mem \in [Addr -> Block]
  BY <1>1 DEF ClientTyped
<1>3. /\ list' \in Seq(Addr)
      /\ Objects' \subseteq Objects
      /\ Objects \ {list[n]} \subseteq Objects'
  <2>1. /\ list' \in Seq(Addr)
        /\ Items(list') \subseteq Items(list)
        /\ Items(list) \ {list[n]} \subseteq Items(list')
    BY <1>2, Cut DEF Destroy
  <2> QED
    BY <2>1 DEF Items, Objects
<1>4. /\ mem' \in [Addr -> Block]
      /\ \A b \in Addr : mem'[b].owner = mem[b].owner /\ mem'[b].part = mem[b].part
  BY <1>2, <1>3, LinkedKeeps DEF Destroy
<1>5. Objects \subseteq Addr
  BY <1>1, OfObjects
<1>6. Undisturbed(mem')
  BY <1>4 DEF Undisturbed
<1>7. Coherent'
  <2> SUFFICES ASSUME NEW b \in Objects
               PROVE  /\ OneUnit(mem', b) /\ Apart(mem', b, Objects')
                      /\ \A p \in Own(mem', b) \ {Null} : AboutItsUnit(mem', b, p)
    BY <1>3 DEF Coherent
  <2>1. mem'[b].owner = mem[b].owner /\ mem'[b].part = mem[b].part
    BY <1>4, <1>5
  <2>2. OneUnit(mem', b) /\ Apart(mem', b, Objects')
    BY <1>1, <1>3, <2>1 DEF Coherent, OneUnit, Apart
  <2>3. Own(mem', b) = Own(mem, b)
    BY <2>1 DEF Own
  <2> QED
    BY <1>1, <1>6, <2>1, <2>2, <2>3, StaysAbout
<1>8. ClientTyped'
  <2>1. mapped' \subseteq Addr
    BY <1>1 DEF ClientTyped, Destroy
  <2>2. changes' \in 0 .. MaxChanges
    BY <1>1, ChangesCounted DEF Destroy
  <2> QED
    BY <1>3, <1>4, <2>1, <2>2 DEF ClientTyped
<1>9. kept' => /\ kept /\ base \in Objects' /\ mem'[base].owner = mem[base].owner
               /\ Own(mem', base) = Own(mem, base)
  BY <1>3, <1>4, <1>5 DEF Destroy, UnitInv, OwnPointers, Own
<1>10. ClientLeaves
  <2>1. quiet' = quiet /\ listed' = FALSE /\ kept' = (kept /\ base # list[n]) /\ mapped' = mapped
    BY DEF Destroy
  <2> QED
    BY <1>1, <1>7, <1>8, <1>9, <2>1 DEF ClientLeaves, ReaderTyped
<1> QED
  BY <1>10, ClientStep DEF Destroy, Change

(* The object gets what is given to its unit; no other object changes. *)
LEMMA ReplaceGives ==
  ASSUME UnitInv, NEW a \in Objects, NEW k \in ObjectPart, Replace(a, k)
  PROVE  /\ mem' \in [Addr -> Block] /\ Undisturbed(mem')
         /\ \A b \in Objects : mem'[b].owner = mem[b].owner /\ mem'[b].next = mem[b].next
         /\ \A b \in Objects \ {a} : mem'[b].part = mem[b].part
         /\ mapped \subseteq mapped' /\ mapped' \subseteq Addr
         /\ \E p \in Addr \cup {Null} :
              /\ \A j \in ObjectPart : mem'[a].part[j] \in {mem[a].part[j], p}
              /\ p # Null => p \notin Objects /\ AboutItsUnit(mem', a, p)
<1>1. ClientTyped /\ Coherent
  BY TypesSplit DEF UnitInv
<1>2. /\ Objects \subseteq Used \cap Addr /\ Null \notin Addr
      /\ Addr \cup {Null} \subseteq Pointer
      /\ "name" \in Part /\ ObjectPart \subseteq Part \ {"name"}
  BY <1>1, OfObjects
<1>3. PICK g \in mem[a].owner,
           p \in (Addr \ Used) \cup {Null} \cup (IF k = "template" THEN Templates ELSE {}) :
        /\ mem' = [Given(p, g) EXCEPT ![a].part[k] = p]
        /\ mapped' = mapped \cup ({p} \ {Null})
  BY DEF Replace
<1>4. g \in Guid /\ mem[a].owner = {g} /\ mem[a] \in Block
  <2>1. mem[a] \in Block
    BY <1>1, <1>2 DEF ClientTyped
  <2> QED
    BY <1>1, <2>1 DEF Coherent, OneUnit, Block
<1>5. p \in (Addr \ Used) \cup {Null} \cup Templates
  OBVIOUS
<1>6. /\ Given(p, g) \in [Addr -> Block] /\ Undisturbed(Given(p, g))
      /\ \A b \in Addr : b # p => Given(p, g)[b] = mem[b]
      /\ p # Null => /\ p \in Addr \ Objects /\ g \in Given(p, g)[p].owner
                     /\ Given(p, g)[p].part["name"] \in {Null, p}
  BY <1>4, <1>5, GivenKeeps
<1>7. p \in Addr \cup {Null} /\ p \in Pointer /\ a \in Addr /\ a # p
  BY <1>2, <1>6
<1> DEFINE G == Given(p, g)
<1> HIDE DEF G
<1>8. G[a] = mem[a] /\ G \in [Addr -> Block]
  BY <1>6, <1>7 DEF G
<1>9. mem' = [G EXCEPT ![a] = [mem[a] EXCEPT !.part = [@ EXCEPT ![k] = p]]]
  BY <1>3, <1>7, <1>8 DEF G
<1>10. /\ mem'[a] = [mem[a] EXCEPT !.part = [@ EXCEPT ![k] = p]]
       /\ \A b \in Addr \ {a} : mem'[b] = G[b]
  BY <1>7, <1>8, <1>9
<1>11. mem[a].part \in [Part -> Pointer] /\ k \in Part /\ k # "name"
  BY <1>2, <1>4 DEF Block
<1>12. /\ mem'[a].part = [mem[a].part EXCEPT ![k] = p]
       /\ mem'[a].owner = mem[a].owner /\ mem'[a].next = mem[a].next
       /\ mem'[a] \in Block
  <2>1. [mem[a].part EXCEPT ![k] = p] \in [Part -> Pointer]
    BY <1>7, <1>11
  <2> QED
    BY <1>4, <1>10, <2>1 DEF Block
<1>13. mem' \in [Addr -> Block]
  BY <1>8, <1>9, <1>10, <1>12
<1>14. mem'[a].part["name"] = mem[a].part["name"]
  BY <1>2, <1>11, <1>12
<1>15. Undisturbed(mem')
  <2> SUFFICES ASSUME NEW b \in Used \cap Addr
               PROVE  /\ mem[b].owner \subseteq mem'[b].owner
                      /\ mem'[b].part["name"] = mem[b].part["name"]
    BY DEF Undisturbed
  <2>1. CASE b = a
    BY <1>12, <1>14, <2>1
  <2>2. CASE b # a
    BY <1>6, <1>10, <2>2 DEF Undisturbed, G
  <2> QED
    BY <2>1, <2>2
<1>16. \A b \in Objects \ {a} : mem'[b] = mem[b]
  BY <1>2, <1>6, <1>10 DEF G
<1>17. \A j \in ObjectPart : mem'[a].part[j] \in {mem[a].part[j], p}
  BY <1>2, <1>11, <1>12
<1>18. p # Null => p \notin Objects /\ AboutItsUnit(mem', a, p)
  BY <1>4, <1>6, <1>7, <1>10, <1>12 DEF AboutItsUnit, G
<1>19. mapped \subseteq mapped' /\ mapped' \subseteq Addr
  BY <1>1, <1>3, <1>7 DEF ClientTyped
<1> QED
  BY <1>7, <1>12, <1>13, <1>15, <1>16, <1>17, <1>18, <1>19

LEMMA ReplaceInv ==
  ASSUME UnitInv, NEW a \in Objects, NEW k \in ObjectPart, Replace(a, k)
  PROVE  UnitInv'
<1>1. ClientTyped /\ ReaderTyped /\ Coherent
  BY TypesSplit DEF UnitInv
<1>2. list' = list /\ Objects' = Objects
  BY DEF Replace, Objects
<1>3. /\ mem' \in [Addr -> Block] /\ Undisturbed(mem')
      /\ \A b \in Objects : mem'[b].owner = mem[b].owner
      /\ \A b \in Objects \ {a} : mem'[b].part = mem[b].part
      /\ mapped \subseteq mapped' /\ mapped' \subseteq Addr
  BY ReplaceGives
<1>4. PICK p \in Addr \cup {Null} :
        /\ \A j \in ObjectPart : mem'[a].part[j] \in {mem[a].part[j], p}
        /\ p # Null => p \notin Objects /\ AboutItsUnit(mem', a, p)
  BY ReplaceGives
<1>5. \A b \in Objects \ {a} : Own(mem', b) = Own(mem, b)
  BY <1>3 DEF Own
<1>6. Coherent'
  <2> SUFFICES ASSUME NEW b \in Objects
               PROVE  /\ OneUnit(mem', b) /\ Apart(mem', b, Objects)
                      /\ \A q \in Own(mem', b) \ {Null} : AboutItsUnit(mem', b, q)
    BY <1>2 DEF Coherent
  <2>1. OneUnit(mem', b)
    BY <1>1, <1>3 DEF Coherent, OneUnit
  <2>2. \A q \in Own(mem, b) \ {Null} : AboutItsUnit(mem', b, q)
    BY <1>1, <1>3, StaysAbout
  <2>3. CASE b = a
    <3>1. Own(mem', a) \subseteq Own(mem, a) \cup {p}
      BY <1>4 DEF Own
    <3>2. Null \notin Objects
      BY <1>1, OfObjects
    <3>3. Apart(mem', a, Objects)
      BY <1>1, <1>4, <3>2 DEF Coherent, Apart
    <3> QED
      BY <1>4, <2>1, <2>2, <2>3, <3>1, <3>3
  <2>4. CASE b # a
    <3>1. Apart(mem', b, Objects)
      BY <1>1, <1>3, <2>4 DEF Coherent, Apart
    <3> QED
      BY <1>5, <2>1, <2>2, <2>4, <3>1
  <2> QED
    BY <2>3, <2>4
<1>7. ClientTyped'
  <2>1. changes' \in 0 .. MaxChanges
    BY <1>1, ChangesCounted DEF Replace
  <2> QED
    BY <1>1, <1>2, <1>3, <2>1 DEF ClientTyped
<1>8. /\ kept' = (kept /\ (a = base => Holding \subseteq Own(mem', a)))
      /\ UNCHANGED <<controlVars, unitVars, callVars, foreign, listed, quiet>> /\ pc # "fault"
  BY DEF Replace, Change
<1>9. kept' => /\ kept /\ base \in Objects' /\ mem'[base].owner = mem[base].owner
               /\ Own(mem', base) = Own(mem, base) \/ Holding \subseteq Own(mem', base)
  BY <1>2, <1>3, <1>5, <1>8 DEF UnitInv, OwnPointers
<1>10. ClientLeaves
  BY <1>1, <1>3, <1>6, <1>7, <1>8, <1>9 DEF ClientLeaves, ReaderTyped
<1> QED
  BY <1>8, <1>10, ClientStep

(* Only what is found at the address changes. *)
LEMMA ReclaimKeeps ==
  ASSUME UnitInv, NEW a \in Addr, Reclaim(a)
  PROVE  mem' \in [Addr -> Block] /\ \A b \in Addr \ {a} : mem'[b] = mem[b]
<1>0. mem \in [Addr -> Block]
  BY DEF UnitInv, TypeOK
<1>1. CASE UNCHANGED mem
  BY <1>1, <1>0
<1>2. ASSUME NEW x \in Pointer,
             mem' = [mem EXCEPT ![a] = [owner |-> {}, part |-> [k \in Part |-> x], next |-> x]]
      PROVE  mem' \in [Addr -> Block] /\ \A b \in Addr \ {a} : mem'[b] = mem[b]
  <2>1. [owner |-> {}, part |-> [k \in Part |-> x], next |-> x] \in Block
    BY DEF Block
  <2> QED
    BY <1>0, <1>2, <2>1
<1> QED
  BY <1>1, <1>2 DEF Reclaim

LEMMA ReclaimInv ==
  ASSUME UnitInv, NEW a \in Addr, Reclaim(a)
  PROVE  UnitInv'
<1>1. ClientTyped /\ ReaderTyped /\ Coherent
  BY TypesSplit DEF UnitInv
<1>2. list \in Seq(Addr) /\ mem \in [Addr -> Block] /\ a \in mapped \ Used /\ list' = list
  BY <1>1 DEF ClientTyped, Reclaim
<1>3. mem' \in [Addr -> Block] /\ \A b \in Addr \ {a} : mem'[b] = mem[b]
  BY ReclaimKeeps
<1>4. Objects' = Objects /\ Objects \subseteq Addr \ {a}
  BY <1>1, <1>2, OfObjects DEF Objects
<1>5. Undisturbed(mem')
  BY <1>2, <1>3 DEF Undisturbed
<1>6. \A b \in Objects : mem'[b] = mem[b] /\ Own(mem', b) = Own(mem, b)
  BY <1>3, <1>4 DEF Own
<1>7. Coherent'
  <2> SUFFICES ASSUME NEW b \in Objects
               PROVE  /\ OneUnit(mem', b) /\ Apart(mem', b, Objects)
                      /\ \A p \in Own(mem', b) \ {Null} : AboutItsUnit(mem', b, p)
    BY <1>4 DEF Coherent
  <2>1. OneUnit(mem', b) /\ Apart(mem', b, Objects)
    BY <1>1, <1>6 DEF Coherent, OneUnit, Apart
  <2> QED
    BY <1>1, <1>5, <1>6, <2>1, StaysAbout
<1>8. ClientTyped'
  <2>1. mapped' \subseteq Addr
    BY <1>1 DEF ClientTyped, Reclaim
  <2>2. changes' \in 0 .. MaxChanges
    BY <1>1, ChangesCounted DEF Reclaim
  <2> QED
    BY <1>2, <1>3, <2>1, <2>2 DEF ClientTyped
<1>9. UNCHANGED <<controlVars, unitVars, callVars, foreign, kept, listed>> /\ pc # "fault"
  BY DEF Reclaim, Change
<1>10. /\ quiet' \in BOOLEAN
       /\ quiet' => (quiet /\ mapped \subseteq mapped')
  <2>1. CASE UNCHANGED <<mapped, quiet>>
    BY <1>1, <2>1 DEF ReaderTyped
  <2>2. CASE quiet' = FALSE
    BY <2>2
  <2> QED
    BY <2>1, <2>2 DEF Reclaim
<1>11. kept => base \in Objects
  BY DEF UnitInv, OwnPointers
<1>12. ClientLeaves
  BY <1>1, <1>4, <1>6, <1>7, <1>8, <1>9, <1>10, <1>11 DEF ClientLeaves, ReaderTyped
<1> QED
  BY <1>9, <1>12, ClientStep

----------------------------------------------------------------------------
(* What a read returns. *)
LEMMA ReadsTyped ==
  ASSUME UnitInv, Ready
  PROVE  NextRead \in Pointer /\ \A k \in Part : PartRead(k) \in Pointer
<1>1. mem \in [Addr -> Block] /\ mapped \subseteq Addr
  BY DEF UnitInv, TypeOK
<1>2. CASE Refused
  BY <1>2 DEF PartRead, NextRead, Pointer
<1>3. CASE ~Refused
  <2>1. at \in Addr
    BY <1>1, <1>3 DEF Ready, Passed
  <2>2. mem[at] \in Block
    BY <1>1, <2>1
  <2> QED
    BY <1>3, <2>2 DEF PartRead, NextRead, Block
<1> QED
  BY <1>2, <1>3

(* What is entered while nothing is taken from the reader's object is of   *)
(* its unit.                                                               *)
LEMMA EntersOwn ==
  ASSUME UnitInv, Ready, pc \in AtOwn, Enter
  PROVE  foreign' \in BOOLEAN /\ (kept => ~foreign')
<1>1. /\ mapped \subseteq Addr /\ foreign \in BOOLEAN /\ Null \notin Addr
      /\ kept => ~foreign
  BY DEF UnitInv, TypeOK, OwnPointers, Addr, Null
<1>2. foreign' = (foreign \/ (~Refused /\ guid \notin mem[at].owner))
  BY DEF Enter
<1>3. ASSUME kept, ~Refused PROVE guid \in mem[at].owner
  <2>1. at \in Addr /\ at # Null
    BY <1>1, <1>3 DEF Ready, Passed
  <2>2. base \in Objects /\ mem[base].owner = {guid} /\ at \in Own(mem, base)
    BY <1>3 DEF UnitInv, OwnPointers, Holding
  <2> QED
    BY <2>1, <2>2 DEF UnitInv, Coherent, AboutItsUnit
<1> QED
  BY <1>1, <1>2, <1>3

(* A pointer read at the object's address is the object's own. *)
LEMMA ReadsOwnPointer ==
  ASSUME UnitInv, Ready, pc \in AtBase, kept, NEW k \in ObjectPart
  PROVE  PartRead(k) \in Own(mem, base)
<1>1. at = base
  BY DEF UnitInv, Addresses
<1> QED
  BY <1>1 DEF PartRead, Own

(* So is the name found in its template. *)
LEMMA ReadsOwnName ==
  ASSUME UnitInv, Ready, pc = "template", kept
  PROVE  PartRead("name") \in Own(mem, base)
<1>1. base \in Objects /\ at \in Own(mem, base) /\ Null \in Own(mem, base)
  BY DEF UnitInv, OwnPointers, AtOwn, Holding, Own
<1>2. CASE Refused
  BY <1>1, <1>2 DEF PartRead
<1>3. CASE ~Refused
  <2>1. at # Null
    BY <1>3 DEF UnitInv, TypeOK, Ready, Passed, Addr, Null
  <2>2. mem[at].part["name"] \in {Null, at}
    BY <1>1, <2>1 DEF UnitInv, Coherent, AboutItsUnit
  <2> QED
    BY <1>1, <1>3, <2>2 DEF PartRead
<1> QED
  BY <1>2, <1>3

(* A step from one read of the object found to another, or to its end. *)
LEMMA OwnStep ==
  ASSUME UnitInv, pc \in AtOwn,
         UNCHANGED <<clientVars, role, guid, base, left, kept, listed, quiet>>,
         NEW q \in AtOwn \cup {"done", "fallback"}, NEW a \in Pointer, Go(q, a),
         q \in AtBase => a = base,
         q \in AtField => a = fields',
         kept => a \in Own(mem, base),
         fields' \in Pointer,
         kept /\ q \in Holds => fields' \in Own(mem, base),
         foreign' \in BOOLEAN, kept => ~foreign',
         count' \in Nat, auras' \in 0 .. kMaxAuras, stats' \in BOOLEAN,
         targetGUID' \in Guid \cup {Nobody},
         q = "auraTable" => auras' = 0 /\ count' = 0,
         q = "aura" => auras' <= count' /\ count' < kMaxAuras,
         q = "descriptor" => role = "member"
  PROVE  UnitInv'
<1> USE DEF clientVars
<1>1. ClientTyped /\ ReaderTyped
  BY TypesSplit DEF UnitInv
<1>2. ClientTyped'
  BY <1>1 DEF ClientTyped
<1>3. pc' = q /\ at' = a /\ guard' = "unasked"
  BY DEF Go
<1>4. ReaderTyped'
  <2>1. pc' \in Guarded \cup Unguarded \cup {"idle", "head", "absent", "fallback", "done", "fault"}
    BY <1>3 DEF AtOwn, AtBase, AtField, Guarded, Unguarded
  <2> QED
    BY <1>1, <1>3, <2>1 DEF ReaderTyped
<1>5. TypeOK'
  BY <1>2, <1>4, TypesSplitNext
<1>6. pc' \notin Walking /\ pc' # "fault"
  BY <1>3 DEF AtOwn, AtBase, AtField, Walking
<1>7. Coherent' /\ Searching' /\ GuardHolds' /\ NoFaultWhenQuiet'
  BY <1>3, <1>6 DEF UnitInv, Coherent, Objects, Searching, GuardHolds, NoFaultWhenQuiet
<1>8. Addresses'
  BY <1>3 DEF UnitInv, Addresses
<1>9. OwnPointers'
  <2>1. kept => Holding' \subseteq Own(mem, base)
    BY <1>3 DEF Holding, Holds, AtField
  <2> QED
    BY <2>1 DEF UnitInv, OwnPointers, Objects
<1>10. AurasCounted'
  BY <1>3 DEF AurasCounted
<1>11. MemberReadable'
  BY <1>3 DEF UnitInv, MemberReadable
<1> QED
  BY <1>5, <1>7, <1>8, <1>9, <1>10, <1>11 DEF UnitInv

(* The end of the walk: with an object whose GUID was just read, or without. *)
LEMMA ReturnStep ==
  ASSUME UnitInv, pc \in Walking, NEW a \in Addr \cup {Null}, Return(a),
         a # Null => mem[a].owner = {guid} /\ a \in mapped,
         UNCHANGED <<clientVars, role, guid, fields, auras, stats, callVars, foreign, quiet>>,
         count' \in Nat, listed' \in BOOLEAN
  PROVE  UnitInv'
<1> USE DEF clientVars, callVars
<1> DEFINE b == IF a = Null /\ role = "player" THEN PlayerBase ELSE a
<1>1. ClientTyped /\ ReaderTyped
  BY TypesSplit DEF UnitInv
<1>2. ClientTyped'
  BY <1>1 DEF ClientTyped
<1>3. Objects \subseteq Addr /\ Null \notin Addr /\ Addr \cup {Null} \subseteq Pointer
  <2>1. Objects \subseteq Addr
    BY <1>1 DEF ClientTyped, Objects
  <2>2. Null \notin Addr
    BY DEF Addr, Null
  <2> QED
    BY <2>1, <2>2 DEF Pointer
<1>4. b \in Addr \cup {Null} /\ (b # Null => mem[b].owner = {guid})
  <2>1. CASE a = Null /\ role = "player"
    <3>1. guid = Player
      BY <2>1 DEF UnitInv, Searching
    <3>2. PlayerBase = Null \/ (PlayerBase \in Objects /\ mem[PlayerBase].owner = {Player})
      BY DEF PlayerBase
    <3> QED
      BY <1>3, <2>1, <3>1, <3>2
  <2> QED
    BY <2>1
<1>5. role = "member" /\ b # Null => b \in mapped
  OBVIOUS
<1>6. base' = b /\ kept' = (b \in Objects)
  BY DEF Return
<1>7. /\ guard' = "unasked"
      /\ \/ b = Null /\ pc' \in {"done", "fallback"} /\ at' = Null
         \/ b # Null /\ pc' \in {"present", "fields", "name"} /\ at' = b
  BY DEF Return, Go
<1> HIDE DEF b
<1>8. ReaderTyped'
  <2>1. pc' \in Guarded \cup Unguarded \cup {"idle", "head", "absent", "fallback", "done", "fault"}
    BY <1>7 DEF Guarded, Unguarded
  <2>2. kept' \in BOOLEAN
    BY <1>6
  <2>3. at' \in Pointer /\ base' \in Pointer
    BY <1>3, <1>4, <1>6, <1>7
  <2> QED
    BY <1>1, <1>7, <2>1, <2>2, <2>3 DEF ReaderTyped
<1>9. TypeOK'
  BY <1>2, <1>8, TypesSplitNext
<1>10. pc' \notin Walking \cup AtField \cup {"fault", "aura", "auraTable", "descriptor"}
  BY <1>7 DEF Walking, AtField
<1>11. pc' \in AtOwn => b \in Addr /\ at' = b
  BY <1>4, <1>7 DEF AtOwn, AtBase, AtField
<1>12. pc' \in AtBase => at' = b
  BY <1>7 DEF AtBase
<1>13. Coherent' /\ Searching' /\ GuardHolds' /\ NoFaultWhenQuiet' /\ AurasCounted'
  BY <1>7, <1>10
  DEF UnitInv, Coherent, Objects, Searching, GuardHolds, NoFaultWhenQuiet, AurasCounted
<1>14. Addresses'
  BY <1>6, <1>10, <1>11, <1>12 DEF Addresses
<1>15. OwnPointers'
  <2> SUFFICES ASSUME b \in Objects
               PROVE  /\ mem[b].owner = {guid}
                      /\ pc' \in AtOwn => Holding' \subseteq Own(mem, b)
                      /\ ~foreign
    BY <1>6 DEF OwnPointers, Objects
  <2>1. pc' \in AtOwn => Holding' \subseteq {b}
    BY <1>7, <1>11 DEF Holding
  <2> QED
    BY <1>3, <1>4, <2>1 DEF UnitInv, Searching, Own
<1>16. MemberReadable'
  BY <1>5, <1>6, <1>10, <1>11, <1>3 DEF MemberReadable
<1> QED
  BY <1>9, <1>13, <1>14, <1>15, <1>16 DEF UnitInv

(* From one read of the walk to another. *)
LEMMA WalkStep ==
  ASSUME UnitInv, pc \in Walking, NEW q \in {"guid", "next"}, NEW a \in Pointer, Go(q, a),
         UNCHANGED <<clientVars, role, guid, base, fields, auras, stats, callVars, foreign,
                     kept, quiet>>,
         count' \in Nat, listed' \in BOOLEAN
  PROVE  UnitInv'
<1> USE DEF clientVars, callVars
<1>1. ClientTyped /\ ReaderTyped
  BY TypesSplit DEF UnitInv
<1>2. ClientTyped'
  BY <1>1 DEF ClientTyped
<1>3. pc' = q /\ at' = a /\ guard' = "unasked"
  BY DEF Go
<1>4. ReaderTyped'
  <2>1. pc' \in Guarded
    BY <1>3 DEF Guarded
  <2> QED
    BY <1>1, <1>3, <2>1 DEF ReaderTyped
<1>5. TypeOK'
  BY <1>2, <1>4, TypesSplitNext
<1>6. pc' \notin AtOwn \cup {"fault", "descriptor", "aura", "auraTable"}
  BY <1>3 DEF AtOwn, AtBase, AtField
<1>7. pc' \notin AtBase \cup AtField
  BY <1>6 DEF AtOwn
<1>8. Coherent' /\ Searching' /\ GuardHolds' /\ NoFaultWhenQuiet' /\ AurasCounted'
  BY <1>3, <1>6
  DEF UnitInv, Coherent, Objects, Searching, GuardHolds, NoFaultWhenQuiet, AurasCounted
<1>9. Addresses' /\ OwnPointers' /\ MemberReadable'
  BY <1>6, <1>7 DEF UnitInv, Addresses, Searching, OwnPointers, MemberReadable
<1> QED
  BY <1>5, <1>8, <1>9 DEF UnitInv

LEMMA VisitStep ==
  ASSUME UnitInv, pc \in Walking, NEW x \in Pointer, Visit(x),
         UNCHANGED <<clientVars, role, guid, fields, auras, stats, callVars, foreign, quiet>>,
         count' \in Nat, listed' \in BOOLEAN
  PROVE  UnitInv'
<1>1. CASE Go("guid", x) /\ UNCHANGED <<base, kept>>
  BY <1>1, WalkStep
<1>2. CASE Return(Null)
  BY <1>2, ReturnStep
<1> QED
  BY <1>1, <1>2 DEF Visit

(* A new unit, or none. *)
LEMMA StartStep ==
  ASSUME UnitInv, UNCHANGED clientVars,
         NEW q \in {"head", "absent", "done", "idle"}, Go(q, Null),
         base' = Null, fields' = Null, count' = 0, auras' = 0, stats' = FALSE,
         foreign' = FALSE, kept' = FALSE, listed' \in BOOLEAN, quiet' \in BOOLEAN,
         role' \in {"player", "target", "member"}, left' \in 0 .. NMembers,
         guid' \in Guid \cup {Nobody}, targetGUID' \in Guid \cup {Nobody},
         q \in Walking => guid' # Nobody,
         q \in Walking => (role' = "player" => guid' = Player)
  PROVE  UnitInv'
<1> USE DEF clientVars
<1>1. ClientTyped /\ ReaderTyped
  BY TypesSplit DEF UnitInv
<1>2. ClientTyped'
  BY <1>1 DEF ClientTyped
<1>3. pc' = q /\ at' = Null /\ guard' = "unasked"
  BY DEF Go
<1>4. ReaderTyped'
  <2>1. auras' \in 0 .. kMaxAuras /\ count' \in Nat
    BY UnitAssumption
  <2>2. Null \in Pointer
    BY DEF Pointer
  <2> QED
    BY <1>3, <2>1, <2>2 DEF ReaderTyped
<1>5. TypeOK'
  BY <1>2, <1>4, TypesSplitNext
<1>6. pc' \notin AtOwn \cup {"fault", "descriptor", "aura", "auraTable"}
  BY <1>3 DEF AtOwn, AtBase, AtField
<1>7. pc' \notin AtBase \cup AtField
  BY <1>6 DEF AtOwn
<1>8. Coherent' /\ Searching' /\ GuardHolds' /\ NoFaultWhenQuiet' /\ AurasCounted'
  BY <1>3, <1>6
  DEF UnitInv, Coherent, Objects, Searching, GuardHolds, NoFaultWhenQuiet, AurasCounted
<1>9. Addresses' /\ OwnPointers' /\ MemberReadable'
  BY <1>6, <1>7 DEF Addresses, OwnPointers, MemberReadable
<1> QED
  BY <1>5, <1>8, <1>9 DEF UnitInv

----------------------------------------------------------------------------
(* The steps of the reader. *)

LEMMA GuardInv ==
  ASSUME UnitInv, IsReadableRange
  PROVE  UnitInv'
<1> USE DEF IsReadableRange, clientVars, unitVars, callVars, historyVars
<1>1. ClientTyped /\ ReaderTyped
  BY TypesSplit DEF UnitInv
<1>2. ClientTyped' /\ ReaderTyped'
  BY <1>1 DEF ClientTyped, ReaderTyped
<1>3. GuardHolds'
  BY DEF GuardHolds
<1>4. Coherent' /\ Searching' /\ Addresses' /\ AurasCounted'
  BY DEF UnitInv, Coherent, Objects, Searching, Addresses, AurasCounted
<1>5. OwnPointers' /\ MemberReadable' /\ NoFaultWhenQuiet'
  BY DEF UnitInv, OwnPointers, Objects, Holding, MemberReadable, NoFaultWhenQuiet
<1> QED
  BY <1>2, <1>3, <1>4, <1>5, TypesSplitNext DEF UnitInv

LEMMA FaultInv ==
  ASSUME UnitInv, Fault
  PROVE  UnitInv'
<1> USE DEF Fault, clientVars, unitVars, callVars, historyVars
<1>1. ClientTyped /\ ReaderTyped
  BY TypesSplit DEF UnitInv
<1>2. ClientTyped' /\ ReaderTyped'
  BY <1>1 DEF ClientTyped, ReaderTyped
<1>3. pc' \notin Walking \cup AtOwn \cup AtBase \cup AtField
  BY DEF Walking, AtOwn, AtBase, AtField
<1>4. NoFaultWhenQuiet'
  <2>1. CASE guard = "yes"
    BY <2>1 DEF UnitInv, GuardHolds, NoFaultWhenQuiet
  <2>2. CASE pc = "descriptor"
    <3>1. pc \in AtBase /\ pc \in AtOwn
      BY <2>2 DEF AtBase, AtOwn
    <3>2. at = base /\ (quiet => base \in mapped)
      BY <2>2, <3>1 DEF UnitInv, Addresses, MemberReadable
    <3> QED
      BY <3>2 DEF NoFaultWhenQuiet
  <2> QED
    BY <2>1, <2>2 DEF Unguarded
<1>5. Coherent' /\ Searching' /\ Addresses' /\ AurasCounted'
  BY <1>3 DEF UnitInv, Coherent, Objects, Searching, Addresses, AurasCounted
<1>6. OwnPointers' /\ MemberReadable' /\ GuardHolds'
  BY <1>3 DEF UnitInv, OwnPointers, Objects, MemberReadable, GuardHolds
<1> QED
  BY <1>2, <1>4, <1>5, <1>6, TypesSplitNext DEF UnitInv

LEMMA WalkInv ==
  ASSUME UnitInv, ReadHead \/ ReadGuid \/ ReadNext \/ NoPlayerGuid
  PROVE  UnitInv'
<1>1. /\ list \in Seq(Addr) /\ mem \in [Addr -> Block] /\ mapped \subseteq Addr
      /\ count \in Nat /\ listed \in BOOLEAN /\ at \in Pointer
  BY DEF UnitInv, TypeOK
<1>2. CASE ReadHead
  <2>1. (IF list = <<>> THEN Odd ELSE list[1]) \in Pointer
    BY <1>1 DEF Pointer
  <2>2. listed' \in BOOLEAN /\ count' \in Nat /\ pc \in Walking
    BY <1>2 DEF ReadHead, Walking
  <2> QED
    BY <1>2, <2>1, <2>2, VisitStep DEF ReadHead
<1>3. CASE ReadGuid
  <2>1. pc \in Walking
    BY <1>3 DEF ReadGuid, Walking
  <2>2. CASE OwnerRead = {guid} /\ Return(at)
    <3>1. ~Refused
      BY <2>2 DEF OwnerRead
    <3>2. at \in mapped /\ at \in Addr /\ mem[at].owner = {guid}
      BY <1>1, <1>3, <2>2, <3>1 DEF ReadGuid, Ready, Passed, OwnerRead
    <3> QED
      BY <1>1, <1>3, <2>1, <2>2, <3>2, ReturnStep DEF ReadGuid
  <2>3. CASE Go("next", at) /\ UNCHANGED <<base, kept>>
    BY <1>1, <1>3, <2>1, <2>3, WalkStep DEF ReadGuid
  <2> QED
    BY <1>3, <2>2, <2>3 DEF ReadGuid
<1>4. CASE ReadNext
  <2>1. pc \in Walking /\ count' \in Nat /\ listed' \in BOOLEAN
    BY <1>1, <1>4 DEF ReadNext, Walking
  <2>2. NextRead \in Pointer
    BY <1>4, ReadsTyped DEF ReadNext
  <2> QED
    BY <1>4, <2>1, <2>2, VisitStep DEF ReadNext
<1>5. CASE NoPlayerGuid
  <2>1. pc \in Walking /\ count' \in Nat /\ listed' \in BOOLEAN
    BY <1>1, <1>5 DEF NoPlayerGuid, Walking
  <2> QED
    BY <1>5, <2>1, ReturnStep DEF NoPlayerGuid
<1> QED
  BY <1>2, <1>3, <1>4, <1>5

LEMMA StartInv ==
  ASSUME UnitInv, BeginCall \/ NextUnit
  PROVE  UnitInv'
<1>1. ReaderTyped
  BY TypesSplit DEF UnitInv
<1>2. Player \in Guid /\ Nobody \notin Guid /\ Player # Nobody
  BY UnitAssumption DEF Player, Guid, Nobody
<1>3. CASE BeginCall
  <2>1. /\ role' = "player" /\ guid' = Player /\ left' = NMembers /\ targetGUID' = Nobody
        /\ count' = 0 /\ listed' \in BOOLEAN
        /\ Go("head", Null) \/ Go("absent", Null)
    BY <1>1, <1>3 DEF BeginCall, Lookup, ReaderTyped
  <2>2. left' \in 0 .. NMembers
    BY <2>1, UnitAssumption
  <2> QED
    BY <1>2, <1>3, <2>1, <2>2, StartStep DEF BeginCall
<1>4. CASE NextUnit
  <2>1. /\ listed' = FALSE /\ quiet' = quiet /\ quiet \in BOOLEAN
        /\ targetGUID' = targetGUID /\ targetGUID \in Guid \cup {Nobody}
        /\ left \in 0 .. NMembers /\ role \in {"player", "target", "member"}
    BY <1>1, <1>4 DEF NextUnit, ReaderTyped
  <2>2. CASE role' = "target" /\ left' = left
    <3>1. \/ guid' = targetGUID /\ targetGUID # Nobody /\ count' = 0 /\ Go("head", Null)
          \/ guid' = Nobody /\ count' = 0 /\ Go("done", Null)
          \/ guid' = Nobody /\ count' = 0 /\ Go("idle", Null)
      BY <1>4, <2>2 DEF NextUnit, Lookup
    <3> QED
      BY <1>4, <2>1, <2>2, <3>1, StartStep DEF NextUnit, Walking
  <2>3. CASE role' = "member" /\ left > 0 /\ left' = left - 1
    <3>1. left' \in 0 .. NMembers
      BY <2>1, <2>3, UnitAssumption
    <3>2. PICK g \in Guid \cup {Nobody} :
            \/ guid' = g /\ g # Nobody /\ count' = 0 /\ Go("head", Null)
            \/ guid' = Nobody /\ count' = 0 /\ Go("done", Null)
      BY <1>4, <2>3 DEF NextUnit, Lookup
    <3> QED
      BY <1>4, <2>1, <2>3, <3>1, <3>2, StartStep DEF NextUnit, Walking
  <2>4. CASE UNCHANGED <<role, left>> /\ Go("idle", Null) /\ guid' = Nobody /\ count' = 0
    BY <1>4, <2>1, <2>4, StartStep DEF NextUnit, Walking
  <2> QED
    BY <1>4, <2>2, <2>3, <2>4 DEF NextUnit
<1> QED
  BY <1>3, <1>4

(* Nothing but what is shown of a unit's own changes: the next read is at  *)
(* the object, at its fields, or there is none.                            *)
LEMMA PlainStep ==
  ASSUME UnitInv, pc \in AtOwn,
         UNCHANGED <<clientVars, role, guid, base, fields, left, kept, listed, quiet>>,
         NEW q \in AtBase \cup AtField \cup {"done", "fallback"}, NEW a, Go(q, a),
         q \in AtBase => a = base,
         q \in AtField => a = fields,
         q \notin AtBase \cup AtField => a = Null,
         q = "descriptor" => role = "member",
         q = "auraTable" => auras' = 0 /\ count' = 0,
         q \in Holds => pc \in Holds,
         foreign' \in BOOLEAN, kept => ~foreign',
         count' \in Nat, auras' \in 0 .. kMaxAuras, stats' \in BOOLEAN,
         targetGUID' \in Guid \cup {Nobody}
  PROVE  UnitInv'
<1>1. a \in Pointer /\ fields \in Pointer
  BY DEF UnitInv, TypeOK, Pointer
<1>2. kept /\ q \in Holds => fields \in Own(mem, base)
  BY DEF UnitInv, OwnPointers, Holding, Holds, AtField
<1>3. kept => a \in Own(mem, base)
  <2>1. base \in Own(mem, base) /\ Null \in Own(mem, base)
    BY DEF Own
  <2>2. q \in AtField => q \in Holds
    BY DEF Holds
  <2> QED
    BY <1>2, <2>1, <2>2
<1>4. q \in AtOwn \cup {"done", "fallback"} /\ q # "aura"
  BY DEF AtOwn, AtBase, AtField
<1> QED
  BY <1>1, <1>2, <1>4, <1>3, OwnStep

LEMMA ObjectInv ==
  ASSUME UnitInv, Present \/ ReadPosition \/ ReadFields
  PROVE  UnitInv'
<1> USE DEF unitVars, callVars, historyVars
<1>1. ReaderTyped /\ (kept => ~foreign)
  BY TypesSplit DEF UnitInv, OwnPointers
<1>2. CASE Present
  <2>1. pc \in AtOwn
    BY <1>2 DEF Present, AtOwn, AtBase
  <2>2. Go("done", Null) \/ Go("position", base)
    BY <1>2 DEF Present
  <2> QED
    BY <1>1, <1>2, <2>1, <2>2, PlainStep DEF Present, AtBase, AtField, Holds, ReaderTyped
<1>3. CASE ReadPosition
  <2>1. pc \in AtOwn /\ "fields" \in AtBase \ Holds
    BY <1>3 DEF ReadPosition, AtOwn, AtBase, AtField, Holds
  <2>2. foreign' \in BOOLEAN /\ (kept => ~foreign')
    BY <1>3, <2>1, EntersOwn DEF ReadPosition
  <2> QED
    BY <1>1, <1>3, <2>1, <2>2, PlainStep DEF ReadPosition, AtField, ReaderTyped
<1>4. CASE ReadFields
  <2>1. pc \in AtOwn /\ pc \in AtBase
    BY <1>4 DEF ReadFields, AtOwn, AtBase
  <2>2. PartRead("fields") \in Pointer /\ (kept => PartRead("fields") \in Own(mem, base))
    BY <1>4, <2>1, ReadsTyped, ReadsOwnPointer DEF ObjectPart, Part, ReadFields
  <2>3. base \in Pointer /\ fields' = PartRead("fields")
    BY <1>1, <1>4 DEF ReadFields, ReaderTyped
  <2>4. CASE Go("auraCount", base)
    <3>1. "auraCount" \in AtOwn /\ "auraCount" \notin AtField \cup Holds
      BY DEF AtOwn, AtBase, AtField, Holds
    <3>2. base \in Own(mem, base)
      BY DEF Own
    <3> QED
      BY <1>1, <1>4, <2>1, <2>2, <2>3, <2>4, <3>1, <3>2, OwnStep DEF ReadFields, ReaderTyped
  <2>5. CASE Go("health", PartRead("fields"))
    <3>1. "health" \in AtOwn /\ "health" \notin AtBase
      BY DEF AtOwn, AtBase, AtField
    <3> QED
      BY <1>1, <1>4, <2>1, <2>2, <2>3, <2>5, <3>1, OwnStep DEF ReadFields, ReaderTyped
  <2> QED
    BY <1>4, <2>4, <2>5 DEF ReadFields
<1> QED
  BY <1>2, <1>3, <1>4

LEMMA FieldsInv ==
  ASSUME UnitInv, ReadHealth \/ ReadMaxHealth \/ ReadTargetGuid \/ ReadPower
  PROVE  UnitInv'
<1> USE DEF unitVars, callVars
<1>1. ReaderTyped
  BY TypesSplit DEF UnitInv
<1>2. pc \in AtOwn
  BY DEF ReadHealth, ReadMaxHealth, ReadTargetGuid, ReadPower, AtOwn, AtField
<1>a. pc \in Holds
  BY DEF ReadHealth, ReadMaxHealth, ReadTargetGuid, ReadPower, Holds, AtField
<1>3. foreign' \in BOOLEAN /\ (kept => ~foreign')
  BY <1>2, EntersOwn DEF ReadHealth, ReadMaxHealth, ReadTargetGuid, ReadPower
<1>4. /\ {"maxHealth", "targetGUID"} \subseteq AtField \ AtBase
      /\ {"typePtr", "auraCount"} \subseteq AtBase \ AtField
  BY DEF AtBase, AtField
<1>5. CASE ReadHealth
  <2>1. stats' \in BOOLEAN
    BY <1>5 DEF ReadHealth
  <2> QED
    BY <1>1, <1>2, <1>a, <1>3, <1>4, <1>5, <2>1, PlainStep DEF ReadHealth, ReaderTyped
<1>6. CASE ReadMaxHealth
  <2>1. Go("targetGUID", fields) \/ Go("typePtr", base) \/ Go("auraCount", base)
    BY <1>6 DEF ReadMaxHealth
  <2> QED
    BY <1>1, <1>2, <1>a, <1>3, <1>4, <1>6, <2>1, PlainStep DEF ReadMaxHealth, ReaderTyped
<1>7. CASE ReadTargetGuid
  <2>1. targetGUID' \in Guid \cup {Nobody}
    BY <1>7 DEF ReadTargetGuid
  <2> QED
    BY <1>1, <1>2, <1>a, <1>3, <1>4, <1>7, <2>1, PlainStep DEF ReadTargetGuid, ReaderTyped
<1>8. CASE ReadPower
  BY <1>1, <1>2, <1>a, <1>3, <1>4, <1>8, PlainStep DEF ReadPower, ReaderTyped
<1> QED
  BY <1>5, <1>6, <1>7, <1>8

LEMMA TypeInv ==
  ASSUME UnitInv, ReadTypePtr \/ ReadType
  PROVE  UnitInv'
<1> USE DEF unitVars, callVars, historyVars
<1>1. ReaderTyped /\ (kept => ~foreign)
  BY TypesSplit DEF UnitInv, OwnPointers
<1>2. /\ "power" \in AtField \ AtBase /\ "auraCount" \in AtBase \ (AtField \cup Holds)
      /\ pc \in Holds
  BY DEF AtBase, AtField, Holds, ReadTypePtr, ReadType
<1>3. CASE ReadTypePtr
  <2>1. pc \in AtOwn /\ pc \in AtBase
    BY <1>3 DEF ReadTypePtr, AtOwn, AtBase
  <2>2. PartRead("fields") \in Pointer /\ (kept => PartRead("fields") \in Own(mem, base))
    BY <1>3, <2>1, ReadsTyped, ReadsOwnPointer DEF ObjectPart, Part, ReadTypePtr
  <2>3. CASE Go("power", fields)
    BY <1>1, <1>2, <1>3, <2>1, <2>3, PlainStep DEF ReadTypePtr, ReaderTyped
  <2>4. CASE Go("type", PartRead("fields"))
    <3>1. "type" \in AtOwn /\ "type" \notin AtBase \cup AtField
      BY DEF AtOwn, AtBase, AtField
    <3>2. kept => fields \in Own(mem, base)
      BY <1>3 DEF UnitInv, OwnPointers, Holding, ReadTypePtr, AtOwn, AtBase
    <3> QED
      BY <1>1, <1>3, <2>1, <2>2, <2>4, <3>1, <3>2, OwnStep DEF ReadTypePtr, ReaderTyped
  <2> QED
    BY <1>3, <2>3, <2>4 DEF ReadTypePtr
<1>4. CASE ReadType
  <2>1. pc \in AtOwn
    BY <1>4 DEF ReadType, AtOwn
  <2>2. foreign' \in BOOLEAN /\ (kept => ~foreign')
    BY <1>4, <2>1, EntersOwn DEF ReadType
  <2>3. Go("power", fields) \/ Go("auraCount", base)
    BY <1>4 DEF ReadType
  <2> QED
    BY <1>1, <1>2, <1>4, <2>1, <2>2, <2>3, PlainStep DEF ReadType, ReaderTyped
<1> QED
  BY <1>3, <1>4

LEMMA AurasInv ==
  ASSUME UnitInv, ReadAuraCount \/ ReadAuraTable \/ ReadAura
  PROVE  UnitInv'
<1> USE DEF unitVars, callVars, historyVars
<1>1. ReaderTyped /\ (kept => ~foreign)
  BY TypesSplit DEF UnitInv, OwnPointers
<1>2. /\ {"name", "auraTable"} \subseteq AtBase \ (AtField \cup Holds)
      /\ "aura" \in AtOwn
      /\ {"done", "fallback", "aura"} \cap (AtBase \cup AtField \cup Holds) = {}
  BY DEF AtBase, AtField, AtOwn, Holds
<1>3. AfterAuras => \/ Go("done", Null) \/ Go("name", base) \/ Go("fallback", Null)
  BY DEF AfterAuras
<1>4. 0 \in 0 .. kMaxAuras /\ 0 < kMaxAuras
  BY UnitAssumption
<1>5. CASE ReadAuraCount
  <2>1. /\ pc \in AtOwn
        /\ auras' = 0 /\ count' = 0
        /\ UNCHANGED <<clientVars, role, guid, base, fields, stats, targetGUID, left,
                       foreign, kept, listed, quiet>>
    BY <1>5 DEF ReadAuraCount, AtOwn, AtBase
  <2>2. CASE AfterAuras
    BY <1>1, <1>2, <1>3, <1>4, <2>1, <2>2, PlainStep DEF ReaderTyped
  <2>3. CASE Go("auraTable", base)
    BY <1>1, <1>2, <1>4, <2>1, <2>3, PlainStep DEF ReaderTyped
  <2>4. CASE Go("aura", base)
    <3>1. base \in Own(mem, base)
      BY DEF Own
    <3> QED
      BY <1>1, <1>2, <1>4, <2>1, <2>4, <3>1, OwnStep DEF ReaderTyped
  <2> QED
    BY <1>5, <2>2, <2>3, <2>4 DEF ReadAuraCount
<1>6. CASE ReadAuraTable
  <2>1. /\ pc \in AtOwn /\ pc \in AtBase
        /\ auras = 0 /\ count = 0
        /\ UNCHANGED <<clientVars, role, guid, base, fields, count, auras, stats,
                       targetGUID, left, foreign, kept, listed, quiet>>
    BY <1>6 DEF ReadAuraTable, AtOwn, AtBase, UnitInv, AurasCounted
  <2>2. PartRead("auras") \in Pointer /\ (kept => PartRead("auras") \in Own(mem, base))
    BY <1>6, <2>1, ReadsTyped, ReadsOwnPointer DEF ObjectPart, Part, ReadAuraTable
  <2>3. CASE AfterAuras
    BY <1>1, <1>2, <1>3, <2>1, <2>3, PlainStep DEF ReaderTyped
  <2>4. CASE Go("aura", PartRead("auras"))
    BY <1>1, <1>2, <1>4, <2>1, <2>2, <2>4, OwnStep DEF ReaderTyped
  <2> QED
    BY <1>6, <2>3, <2>4 DEF ReadAuraTable
<1>7. CASE ReadAura
  <2>1. /\ pc \in AtOwn
        /\ UNCHANGED <<clientVars, role, guid, base, fields, stats, targetGUID, left,
                       kept, listed, quiet>>
    BY <1>7 DEF ReadAura, AtOwn
  <2>2. foreign' \in BOOLEAN /\ (kept => ~foreign')
    <3>1. CASE foreign' = foreign
      BY <1>1, <3>1 DEF ReaderTyped
    <3>2. CASE Enter
      BY <1>7, <2>1, <3>2, EntersOwn DEF ReadAura
    <3> QED
      BY <1>7, <3>1, <3>2 DEF ReadAura
  <2>3. /\ count' \in Nat /\ count' = count + 1
        /\ auras' \in 0 .. kMaxAuras /\ auras' <= count'
    <3>1. auras <= count /\ count < kMaxAuras
      BY <1>7 DEF ReadAura, UnitInv, AurasCounted
    <3>2. count' = count + 1 /\ auras' \in {auras, auras + 1}
      BY <1>7 DEF ReadAura
    <3> QED
      BY <1>1, <3>1, <3>2, UnitAssumption DEF ReaderTyped
  <2>4. CASE AfterAuras
    BY <1>1, <1>2, <1>3, <2>1, <2>2, <2>3, <2>4, PlainStep DEF ReaderTyped
  <2>5. CASE count' < kMaxAuras /\ Go("aura", at)
    <3>1. at \in Pointer /\ (kept => at \in Own(mem, base))
      BY <1>1, <2>1 DEF ReaderTyped, UnitInv, OwnPointers, Holding
    <3> QED
      BY <1>1, <1>2, <2>1, <2>2, <2>3, <2>5, <3>1, OwnStep DEF ReaderTyped
  <2> QED
    BY <1>7, <2>4, <2>5 DEF ReadAura
<1> QED
  BY <1>5, <1>6, <1>7

LEMMA NameInv ==
  ASSUME UnitInv, ReadName \/ ReadTemplate \/ ReadString
  PROVE  UnitInv'
<1> USE DEF unitVars, callVars, historyVars
<1>1. ReaderTyped /\ (kept => ~foreign)
  BY TypesSplit DEF UnitInv, OwnPointers
<1>2. /\ "descriptor" \in AtBase \ AtField
      /\ {"template", "string"} \subseteq AtOwn \ (AtBase \cup AtField \cup Holds)
      /\ {"done", "descriptor"} \cap Holds = {} /\ "done" \notin AtBase \cup AtField
  BY DEF AtBase, AtField, AtOwn, Holds
<1>3. AfterName => \/ Go("done", Null)
                   \/ role = "member" /\ Go("descriptor", base)
  BY DEF AfterName
<1>4. CASE ReadName
  <2>1. /\ pc \in AtOwn /\ pc \in AtBase
        /\ UNCHANGED <<clientVars, role, guid, base, fields, count, auras, stats,
                       targetGUID, left, foreign, kept, listed, quiet>>
    BY <1>4 DEF ReadName, AtOwn, AtBase
  <2>2. CASE AfterName
    BY <1>1, <1>2, <1>3, <2>1, <2>2, PlainStep DEF ReaderTyped
  <2>3. CASE Ready /\ Go("template", PartRead("template"))
    <3>1. PartRead("template") \in Pointer /\ (kept => PartRead("template") \in Own(mem, base))
      BY <2>1, <2>3, ReadsTyped, ReadsOwnPointer DEF Part, ObjectPart
    <3> QED
      BY <1>1, <1>2, <2>1, <2>3, <3>1, OwnStep DEF ReaderTyped
  <2> QED
    BY <1>4, <2>2, <2>3 DEF ReadName
<1>5. CASE ReadTemplate
  <2>1. /\ pc \in AtOwn /\ pc = "template" /\ Ready
        /\ UNCHANGED <<clientVars, role, guid, base, fields, count, auras, stats,
                       targetGUID, left, foreign, kept, listed, quiet>>
    BY <1>5 DEF ReadTemplate, AtOwn
  <2>2. CASE AfterName
    BY <1>1, <1>2, <1>3, <2>1, <2>2, PlainStep DEF ReaderTyped
  <2>3. CASE Go("string", PartRead("name"))
    <3>1. PartRead("name") \in Pointer /\ (kept => PartRead("name") \in Own(mem, base))
      BY <2>1, ReadsTyped, ReadsOwnName DEF Part
    <3> QED
      BY <1>1, <1>2, <2>1, <2>3, <3>1, OwnStep DEF ReaderTyped
  <2> QED
    BY <1>5, <2>2, <2>3 DEF ReadTemplate
<1>6. CASE ReadString
  <2>1. /\ pc \in AtOwn
        /\ UNCHANGED <<clientVars, role, guid, base, fields, count, auras, stats,
                       targetGUID, left, kept, listed, quiet>>
    BY <1>6 DEF ReadString, AtOwn
  <2>2. foreign' \in BOOLEAN /\ (kept => ~foreign')
    BY <1>6, <2>1, EntersOwn DEF ReadString
  <2> QED
    BY <1>1, <1>2, <1>3, <1>6, <2>1, <2>2, PlainStep DEF ReadString, ReaderTyped
<1> QED
  BY <1>4, <1>5, <1>6

LEMMA FallbackInv ==
  ASSUME UnitInv, Fallback
  PROVE  UnitInv'
<1> USE DEF Fallback, Go, clientVars, unitVars, callVars, historyVars
<1>1. ClientTyped /\ ReaderTyped
  BY TypesSplit DEF UnitInv
<1>2. ClientTyped'
  BY <1>1 DEF ClientTyped
<1>3. ReaderTyped'
  BY <1>1 DEF ReaderTyped, Pointer
<1>4. pc' \notin Walking \cup AtOwn \cup AtBase \cup AtField
  BY DEF Walking, AtOwn, AtBase, AtField
<1>5. Coherent' /\ Searching' /\ Addresses' /\ AurasCounted'
  BY <1>4 DEF UnitInv, Coherent, Objects, Searching, Addresses, AurasCounted
<1>6. OwnPointers' /\ MemberReadable' /\ GuardHolds' /\ NoFaultWhenQuiet'
  BY <1>4 DEF UnitInv, OwnPointers, Objects, MemberReadable, GuardHolds, NoFaultWhenQuiet
<1> QED
  BY <1>2, <1>3, <1>5, <1>6, TypesSplitNext DEF UnitInv

LEMMA StutterInv ==
  ASSUME UnitInv, UNCHANGED vars
  PROVE  UnitInv'
<1> USE DEF vars, clientVars, controlVars, unitVars, callVars, historyVars
<1>1. TypeOK'
  BY DEF UnitInv, TypeOK
<1>2. Coherent' /\ Searching' /\ Addresses' /\ AurasCounted'
  BY DEF UnitInv, Coherent, Objects, Searching, Addresses, AurasCounted
<1>3. OwnPointers' /\ MemberReadable' /\ GuardHolds' /\ NoFaultWhenQuiet'
  BY DEF UnitInv, OwnPointers, Objects, Holding, MemberReadable, GuardHolds,
         NoFaultWhenQuiet
<1> QED
  BY <1>1, <1>2, <1>3 DEF UnitInv

LEMMA NextInv ==
  ASSUME UnitInv, [Next]_vars
  PROVE  UnitInv'
<1>1. CASE Client
  BY <1>1, CreateInv, DestroyInv, ReplaceInv, ReclaimInv DEF Client
<1>2. CASE Reader
  BY <1>2, GuardInv, FaultInv, WalkInv, StartInv, ObjectInv, FieldsInv, TypeInv, AurasInv,
     NameInv, FallbackInv DEF Reader
<1> QED
  BY <1>1, <1>2, StutterInv DEF Next

----------------------------------------------------------------------------
(* The walk finds what stays in the list.  The pointers of the list are in *)
(* order (Chained) and its pages readable; so as long as nothing leaves    *)
(* the list, the walk stands at an object of it, and the unit looked for   *)
(* is that one or behind it (Ahead).                                       *)
Injective(l) == \A i, j \in 1 .. Len(l) : l[i] = l[j] => i = j

Chained ==
  /\ Injective(list)
  /\ \A i \in 1 .. Len(list) :
       mem[list[i]].next = IF i = Len(list) THEN Odd ELSE list[i + 1]

Readable == Objects \subseteq mapped

Ahead ==
  listed /\ pc \in {"guid", "next"} =>
    /\ guard # "no"
    /\ \E i, j \in 1 .. Len(list) :
         /\ at = list[i] /\ mem[list[j]].owner = {guid} /\ i <= j
         /\ pc = "next" => i # j

FindInv == UnitInv /\ Chained /\ Readable /\ Ahead

LEMMA LinkedChains ==
  ASSUME NEW m \in [Addr -> Block], NEW l \in Seq(Addr), Injective(l), NEW i \in 1 .. Len(l)
  PROVE  Linked(m, l)[l[i]].next = IF i = Len(l) THEN Odd ELSE l[i + 1]
<1> DEFINE n == CHOOSE n \in 1 .. Len(l) : l[n] = l[i]
           x == IF n = Len(l) THEN Odd ELSE l[n + 1]
<1>1. n \in 1 .. Len(l) /\ l[n] = l[i]
  OBVIOUS
<1>2. n = i
  <2> HIDE DEF n
  <2> QED BY <1>1 DEF Injective
<1>3. l[i] \in Addr /\ \E k \in 1 .. Len(l) : l[k] = l[i]
  OBVIOUS
<1>4. Linked(m, l)[l[i]] = [m[l[i]] EXCEPT !.next = x]
  BY <1>3 DEF Linked
<1> HIDE DEF n
<1>5. m[l[i]] \in Block
  BY <1>3
<1> QED
  BY <1>2, <1>4, <1>5 DEF Block

(* An object put at either end moves the others by one place or by none. *)
LEMMA JoinedInOrder ==
  ASSUME NEW l \in Seq(Addr), NEW a \in Addr \ Items(l), NEW m \in {<<a>> \o l, Append(l, a)},
         Injective(l)
  PROVE  /\ Injective(m)
         /\ \E s \in {0, 1} : \A i \in 1 .. Len(l) : i + s \in 1 .. Len(m) /\ m[i + s] = l[i]
<1>0. \A i \in 1 .. Len(l) : l[i] # a
  BY DEF Items
<1>1. CASE m = <<a>> \o l
  <2>1. Len(m) = Len(l) + 1 /\ m[1] = a
    BY <1>1
  <2>2. \A i \in 1 .. Len(l) : i + 1 \in 1 .. Len(m) /\ m[i + 1] = l[i]
    BY <1>1
  <2>3. \A i \in 1 .. Len(m) : i = 1 \/ (i - 1 \in 1 .. Len(l) /\ m[i] = l[i - 1])
    BY <1>1
  <2>4. Injective(m)
    <3> SUFFICES ASSUME NEW i \in 1 .. Len(m), NEW j \in 1 .. Len(m), m[i] = m[j] PROVE i = j
      BY DEF Injective
    <3>1. CASE i = 1
      BY <1>0, <2>1, <2>3, <3>1
    <3>2. CASE j = 1
      BY <1>0, <2>1, <2>3, <3>2
    <3>3. CASE i # 1 /\ j # 1
      <4>1. i - 1 \in 1 .. Len(l) /\ j - 1 \in 1 .. Len(l) /\ l[i - 1] = l[j - 1]
        BY <2>3, <3>3
      <4>2. i - 1 = j - 1
        BY <4>1 DEF Injective
      <4> QED
        BY <4>2
    <3> QED
      BY <3>1, <3>2, <3>3
  <2> QED
    BY <2>2, <2>4
<1>2. CASE m = Append(l, a)
  <2>1. Len(m) = Len(l) + 1 /\ m[Len(l) + 1] = a
    BY <1>2
  <2>2. \A i \in 1 .. Len(l) : i + 0 \in 1 .. Len(m) /\ m[i + 0] = l[i]
    BY <1>2
  <2>3. Injective(m)
    BY <1>0, <2>1, <2>2 DEF Injective
  <2> QED
    BY <2>2, <2>3
<1> QED
  BY <1>1, <1>2

LEMMA CutInOrder ==
  ASSUME NEW l \in Seq(Addr), NEW n \in 1 .. Len(l), Injective(l)
  PROVE  Injective(SubSeq(l, 1, n - 1) \o SubSeq(l, n + 1, Len(l)))
<1> DEFINE p == SubSeq(l, 1, n - 1)
           q == SubSeq(l, n + 1, Len(l))
           m == p \o q
           old(i) == IF i < n THEN i ELSE i + 1
<1>1. p \in Seq(Addr) /\ Len(p) = n - 1 /\ \A i \in 1 .. n - 1 : p[i] = l[i]
  OBVIOUS
<1>2. q \in Seq(Addr) /\ Len(q) = Len(l) - n /\ \A i \in 1 .. Len(l) - n : q[i] = l[n + i]
  OBVIOUS
<1> HIDE DEF p, q
<1>3. m \in Seq(Addr) /\ Len(m) = Len(l) - 1
  BY <1>1, <1>2
<1>a. \A i \in 1 .. n - 1 : m[i] = l[i]
  BY <1>1, <1>2
<1>4. ASSUME NEW i \in 1 .. Len(m) PROVE old(i) \in 1 .. Len(l) /\ m[i] = l[old(i)]
  <2>1. CASE i < n
    <3>1. i \in 1 .. n - 1 /\ i \in 1 .. Len(l) /\ old(i) = i
      BY <1>3, <2>1
    <3> QED
      BY <1>a, <3>1
  <2>2. CASE ~(i < n)
    <3>1. m[i] = q[i - (n - 1)]
      BY <1>1, <1>2, <1>3, <2>2
    <3>2. i - (n - 1) \in 1 .. Len(l) - n /\ n + (i - (n - 1)) = i + 1
      BY <1>3, <2>2
    <3> QED
      BY <1>2, <1>3, <2>2, <3>1, <3>2
  <2> QED
    BY <2>1, <2>2
<1> HIDE DEF m
<1>5. Injective(m)
  <2> SUFFICES ASSUME NEW i \in 1 .. Len(m), NEW j \in 1 .. Len(m), m[i] = m[j] PROVE i = j
    BY DEF Injective
  <2>1. old(i) = old(j)
    BY <1>4 DEF Injective
  <2> QED
    BY <2>1
<1> QED
  BY <1>5 DEF m, p, q

LEMMA FindInit == Init => FindInv
<1> SUFFICES ASSUME Init PROVE FindInv
  OBVIOUS
<1>1. list \in {<<1, 4>>, <<4, 1>>} /\ 1 \in Addr /\ 4 \in Addr
  BY UnitAssumption DEF Init, Addr
<1>2. Len(list) = 2 /\ list[1] \in Addr /\ list[2] \in Addr /\ list[1] # list[2]
  BY <1>1
<1> DEFINE x(a) == IF a = list[1] THEN list[2] ELSE IF a = list[2] THEN Odd ELSE Null
<1>3. mem[list[1]].next = list[2] /\ mem[list[2]].next = Odd
  <2>1. /\ mem[1] = [Filled(Player, 2, 3, Null, Null) EXCEPT !.next = x(1)]
        /\ mem[4] = [Filled(2, 5, Null, 6, Null) EXCEPT !.next = x(4)]
    BY <1>1 DEF Init
  <2>2. mem[1].next = x(1) /\ mem[4].next = x(4)
    BY <2>1 DEF Filled
  <2> QED
    BY <1>1, <1>2, <2>2
<1>4. Chained
  BY <1>2, <1>3 DEF Chained, Injective
<1>5. Readable /\ Ahead
  BY <1>2 DEF Init, Readable, Objects, Ahead
<1> QED
  BY <1>4, <1>5, InitInv DEF FindInv

(* What a step of the client leaves of the way ahead. *)
LEMMA StaysAhead ==
  ASSUME FindInv, UNCHANGED <<controlVars, unitVars, listed>>,
         \E s \in {0, 1} : \A i \in 1 .. Len(list) :
           i + s \in 1 .. Len(list') /\ list'[i + s] = list[i],
         \A a \in Objects : mem'[a].owner = mem[a].owner
  PROVE  Ahead'
<1> SUFFICES ASSUME listed, pc \in {"guid", "next"}
             PROVE  /\ guard # "no"
                    /\ \E i, j \in 1 .. Len(list') :
                         /\ at = list'[i] /\ mem'[list'[j]].owner = {guid} /\ i <= j
                         /\ pc = "next" => i # j
  BY DEF Ahead, controlVars, unitVars
<1>1. PICK s \in {0, 1} : \A i \in 1 .. Len(list) :
        i + s \in 1 .. Len(list') /\ list'[i + s] = list[i]
  OBVIOUS
<1>2. /\ guard # "no"
      /\ \E i, j \in 1 .. Len(list) :
           /\ at = list[i] /\ mem[list[j]].owner = {guid} /\ i <= j
           /\ pc = "next" => i # j
  BY DEF FindInv, Ahead
<1>3. PICK i \in 1 .. Len(list), j \in 1 .. Len(list) :
        /\ at = list[i] /\ mem[list[j]].owner = {guid} /\ i <= j
        /\ pc = "next" => i # j
  BY <1>2
<1>4. /\ i + s \in 1 .. Len(list') /\ j + s \in 1 .. Len(list')
      /\ i + s <= j + s /\ (pc = "next" => i + s # j + s)
  BY <1>1, <1>3
<1>5. at = list'[i + s] /\ mem'[list'[j + s]].owner = {guid}
  BY <1>1, <1>3 DEF Objects
<1> QED
  BY <1>2, <1>4, <1>5

LEMMA CreateFinds ==
  ASSUME FindInv, NEW g \in Guid, Create(g)
  PROVE  Chained' /\ Readable' /\ Ahead'
<1>1. list \in Seq(Addr) /\ mem \in [Addr -> Block] /\ Injective(list) /\ Objects \subseteq mapped
  BY DEF FindInv, UnitInv, TypeOK, Chained, Readable
<1>2. PICK a \in Addr \ Used, d \in Addr \cup {Null}, t \in Addr \cup {Null} :
        \E m \in [Addr -> Block] : Added(g, a, d, t, m)
  BY CreateAdds DEF FindInv
<1>3. PICK m \in [Addr -> Block] : Added(g, a, d, t, m)
  BY <1>2
<1>a. /\ a \in Addr /\ list' \in {<<a>> \o list, Append(list, a)}
      /\ mem' = Linked(m, list') /\ mapped \cup {a} \subseteq mapped'
      /\ \A b \in Objects : m[b] = mem[b]
  BY <1>3 DEF Added, Addr, Null
<1>4. a \notin Items(list)
  BY DEF Items, Objects, Used
<1>5. /\ list' \in Seq(Addr) /\ Items(list') = Items(list) \cup {a} /\ Injective(list')
      /\ \E s \in {0, 1} : \A i \in 1 .. Len(list) :
           i + s \in 1 .. Len(list') /\ list'[i + s] = list[i]
  <2>0. list \in Seq(Addr) /\ a \in Addr /\ list' \in {<<a>> \o list, Append(list, a)}
    BY <1>1, <1>a
  <2>1. list' \in Seq(Addr) /\ Items(list') = Items(list) \cup {a}
    <3>1. \A l \in {<<a>> \o list, Append(list, a)} :
             l \in Seq(Addr) /\ Items(l) = Items(list) \cup {a}
      BY <2>0, Joined
    <3> QED
      BY <2>0, <3>1
  <2>2. a \in Addr \ Items(list) /\ Injective(list)
    BY <1>1, <1>4, <2>0
  <2>3. /\ Injective(list')
        /\ \E s \in {0, 1} : \A i \in 1 .. Len(list) :
             i + s \in 1 .. Len(list') /\ list'[i + s] = list[i]
    BY <2>0, <2>2, JoinedInOrder, Zenon
  <2> QED
    BY <2>1, <2>3
<1>6. Chained'
  BY <1>a, <1>5, LinkedChains DEF Chained
<1>7. Readable'
  BY <1>1, <1>a, <1>5 DEF Readable, Objects, Items
<1>8. \A b \in Objects : mem'[b].owner = mem[b].owner
  <2>1. Objects \subseteq Addr
    BY <1>1 DEF Objects
  <2> QED
    BY <1>a, <1>5, <2>1, LinkedKeeps
<1>9. UNCHANGED <<controlVars, unitVars, listed>>
  BY DEF Create, historyVars
<1> QED
  BY <1>5, <1>6, <1>7, <1>8, <1>9, StaysAhead

LEMMA DestroyFinds ==
  ASSUME FindInv, NEW n \in 1 .. Len(list), Destroy(n)
  PROVE  Chained' /\ Readable' /\ Ahead'
<1>1. list \in Seq(Addr) /\ mem \in [Addr -> Block] /\ Injective(list) /\ Objects \subseteq mapped
  BY DEF FindInv, UnitInv, TypeOK, Chained, Readable
<1>2. /\ list' = SubSeq(list, 1, n - 1) \o SubSeq(list, n + 1, Len(list))
      /\ mem' = Linked(mem, list') /\ listed' = FALSE /\ mapped' = mapped
  BY DEF Destroy
<1>3. list' \in Seq(Addr) /\ Items(list') \subseteq Items(list) /\ Injective(list')
  BY <1>1, <1>2, Cut, CutInOrder
<1>4. Chained'
  BY <1>1, <1>2, <1>3, LinkedChains DEF Chained
<1>5. Readable' /\ Ahead'
  BY <1>1, <1>2, <1>3 DEF Readable, Objects, Items, Ahead
<1> QED
  BY <1>4, <1>5

LEMMA ReplaceFinds ==
  ASSUME FindInv, NEW a \in Objects, NEW k \in ObjectPart, Replace(a, k)
  PROVE  Chained' /\ Readable' /\ Ahead'
<1>1. list \in Seq(Addr) /\ list' = list /\ UNCHANGED <<controlVars, unitVars, listed>>
  BY DEF FindInv, UnitInv, TypeOK, Replace
<1>2. /\ \A b \in Objects : mem'[b].owner = mem[b].owner /\ mem'[b].next = mem[b].next
      /\ mapped \subseteq mapped'
  BY ReplaceGives DEF FindInv
<1>3. \A i \in 1 .. Len(list) : list[i] \in Objects
  BY DEF Objects
<1>4. Chained'
  BY <1>1, <1>2, <1>3 DEF FindInv, Chained
<1>5. Readable'
  BY <1>1, <1>2 DEF FindInv, Readable, Objects
<1>6. \A i \in 1 .. Len(list) : i + 0 \in 1 .. Len(list') /\ list'[i + 0] = list[i]
  BY <1>1
<1> QED
  BY <1>1, <1>2, <1>4, <1>5, <1>6, StaysAhead

LEMMA ReclaimFinds ==
  ASSUME FindInv, NEW a \in Addr, Reclaim(a)
  PROVE  Chained' /\ Readable' /\ Ahead'
<1>1. /\ list \in Seq(Addr) /\ mem \in [Addr -> Block]
      /\ a \notin Used /\ list' = list /\ UNCHANGED <<controlVars, unitVars, listed>>
  BY DEF FindInv, UnitInv, TypeOK, Reclaim
<1>2. \A b \in Addr \ {a} : mem'[b] = mem[b]
  BY ReclaimKeeps DEF FindInv
<1>3. \A i \in 1 .. Len(list) : list[i] \in Objects /\ list[i] \in Addr \ {a}
  BY <1>1 DEF Objects, Used
<1>4. Chained'
  BY <1>1, <1>2, <1>3 DEF FindInv, Chained
<1>5. mapped \ {a} \subseteq mapped'
  BY DEF Reclaim
<1>6. Readable'
  BY <1>1, <1>3, <1>5 DEF FindInv, Readable, Objects
<1>7. \A i \in 1 .. Len(list) : i + 0 \in 1 .. Len(list') /\ list'[i + 0] = list[i]
  BY <1>1
<1>8. \A b \in Objects : mem'[b].owner = mem[b].owner
  BY <1>2, <1>3 DEF Objects
<1> QED
  BY <1>1, <1>4, <1>6, <1>7, <1>8, StaysAhead

LEMMA ClientFinds ==
  ASSUME FindInv, Client
  PROVE  Chained' /\ Readable' /\ Ahead'
<1>1. ASSUME NEW g \in Guid, Create(g) PROVE Chained' /\ Readable' /\ Ahead'
  BY <1>1, CreateFinds
<1>2. ASSUME NEW n \in 1 .. Len(list), Destroy(n) PROVE Chained' /\ Readable' /\ Ahead'
  BY <1>2, DestroyFinds
<1>3. ASSUME NEW a \in Addr, Reclaim(a) PROVE Chained' /\ Readable' /\ Ahead'
  BY <1>3, ReclaimFinds
<1>4. ASSUME NEW a \in Objects, NEW k \in ObjectPart, Replace(a, k)
      PROVE  Chained' /\ Readable' /\ Ahead'
  BY <1>4, ReplaceFinds
<1> QED
  BY <1>1, <1>2, <1>3, <1>4 DEF Client

(* The reader writes nothing to the client's memory. *)
LEMMA ReaderFinds ==
  ASSUME FindInv, UNCHANGED clientVars, Ahead'
  PROVE  Chained' /\ Readable' /\ Ahead'
BY DEF FindInv, Chained, Readable, Objects, clientVars

LEMMA ReadHeadFinds ==
  ASSUME FindInv, ReadHead
  PROVE  Chained' /\ Readable' /\ Ahead'
<1>1. list \in Seq(Addr) /\ UNCHANGED clientVars /\ guid' = guid /\ base \in Pointer
  BY DEF FindInv, UnitInv, TypeOK, ReadHead
<1>2. ASSUME listed', pc' \in {"guid", "next"} PROVE Ahead'
  <2>1. PICK a \in Objects : mem[a].owner = {guid}
    BY <1>2 DEF ReadHead
  <2>2. PICK j \in 1 .. Len(list) : a = list[j]
    BY <2>1 DEF Objects
  <2>3. list # <<>> /\ 1 \in 1 .. Len(list) /\ 1 <= j
    BY <1>1, <2>2
  <2>4. Go("guid", list[1])
    BY <1>2, <2>3 DEF ReadHead, Visit, Return, Go
  <2> QED
    BY <1>1, <2>1, <2>2, <2>3, <2>4 DEF Ahead, Go, clientVars
<1>3. Ahead'
  BY <1>2 DEF Ahead
<1> QED
  BY <1>1, <1>3, ReaderFinds

(* Where the walk stands, as long as nothing leaves the list. *)
LEMMA StandsInList ==
  ASSUME FindInv, listed, pc \in {"guid", "next"}, Ready
  PROVE  /\ ~Refused
         /\ \E i, j \in 1 .. Len(list) :
              /\ at = list[i] /\ mem[list[j]].owner = {guid} /\ i <= j
              /\ pc = "next" => i # j
BY DEF FindInv, Ahead, Refused

(* At the GUID of an object the walk has found the unit or goes on. *)
LEMMA GuidFinds ==
  ASSUME FindInv, ReadGuid
  PROVE  /\ Chained' /\ Readable' /\ Ahead'
         /\ listed => pc' = "next" \/ base' # Null
<1>1. /\ list \in Seq(Addr) /\ mem \in [Addr -> Block]
      /\ pc = "guid" /\ Ready /\ UNCHANGED <<clientVars, guid, listed>>
  BY DEF FindInv, UnitInv, TypeOK, ReadGuid
<1>2. CASE ~listed
  BY <1>1, <1>2, ReaderFinds DEF Ahead
<1>3. CASE listed
  <2>1. ~Refused /\ OwnerRead = mem[at].owner
    BY <1>1, <1>3, StandsInList DEF OwnerRead
  <2>2. PICK i \in 1 .. Len(list), j \in 1 .. Len(list) :
          at = list[i] /\ mem[list[j]].owner = {guid} /\ i <= j
    BY <1>1, <1>3, StandsInList
  <2>3. at # Null
    BY <1>1, <2>2 DEF Addr, Null
  <2>4. CASE OwnerRead = {guid}
    <3>1. base' = at /\ pc' \notin {"guid", "next"}
      BY <2>3, <2>4 DEF ReadGuid, Return, Go
    <3> QED
      BY <1>1, <2>3, <3>1, ReaderFinds DEF Ahead
  <2>5. CASE OwnerRead # {guid}
    <3>1. pc' = "next" /\ at' = at /\ guard' = "unasked"
      BY <2>5 DEF ReadGuid, Go
    <3>2. i # j
      BY <2>1, <2>2, <2>5
    <3>3. Ahead'
      BY <1>1, <2>2, <3>1, <3>2 DEF Ahead, clientVars
    <3> QED
      BY <1>1, <3>1, <3>3, ReaderFinds
  <2> QED
    BY <2>4, <2>5
<1> QED
  BY <1>2, <1>3

(* From an object before the unit the walk goes on to the next one, unless *)
(* it has visited as many as it may.                                       *)
LEMMA NextFinds ==
  ASSUME FindInv, ReadNext
  PROVE  /\ Chained' /\ Readable' /\ Ahead'
         /\ listed => pc' = "guid" \/ count' >= MaxWalk
<1>1. /\ list \in Seq(Addr) /\ count \in Nat /\ count' = count + 1
      /\ pc = "next" /\ Ready /\ UNCHANGED <<clientVars, guid, listed>>
  BY DEF FindInv, UnitInv, TypeOK, ReadNext
<1>2. CASE ~listed
  BY <1>1, <1>2, ReaderFinds DEF Ahead
<1>3. CASE listed
  <2>1. PICK i \in 1 .. Len(list), j \in 1 .. Len(list) :
          at = list[i] /\ mem[list[j]].owner = {guid} /\ i <= j /\ i # j
    BY <1>1, <1>3, StandsInList
  <2>2. i + 1 \in 1 .. Len(list) /\ i + 1 <= j /\ i # Len(list)
    BY <1>1, <2>1
  <2>3. NextRead = list[i + 1]
    <3>1. ~Refused /\ mem[list[i]].next = list[i + 1]
      BY <1>1, <1>3, <2>2, StandsInList DEF FindInv, Chained
    <3> QED
      BY <2>1, <3>1 DEF NextRead
  <2>4. list[i + 1] \in Addr /\ list[i + 1] \notin {Null, Odd}
    <3>1. list[i + 1] \in Addr
      BY <1>1, <2>2
    <3> QED
      BY <3>1 DEF Addr, Null, Odd
  <2>5. CASE count' < MaxWalk
    <3>1. pc' = "guid" /\ at' = list[i + 1] /\ guard' = "unasked"
      BY <2>3, <2>4, <2>5 DEF ReadNext, Visit, Go
    <3>2. Ahead'
      BY <1>1, <2>1, <2>2, <3>1 DEF Ahead, clientVars
    <3> QED
      BY <1>1, <3>1, <3>2, ReaderFinds
  <2>6. CASE ~(count' < MaxWalk)
    <3>1. pc' \notin {"guid", "next"}
      BY <2>6 DEF ReadNext, Visit, Return, Go
    <3>2. count' >= MaxWalk
      BY <1>1, <2>6, UnitAssumption
    <3> QED
      BY <1>1, <3>1, <3>2, ReaderFinds DEF Ahead
  <2> QED
    BY <2>5, <2>6
<1> QED
  BY <1>2, <1>3

(* A guard says yes of what is in the list. *)
LEMMA GuardFinds ==
  ASSUME FindInv, IsReadableRange
  PROVE  Chained' /\ Readable' /\ Ahead'
<1>1. UNCHANGED <<clientVars, pc, at, unitVars, historyVars>>
  BY DEF IsReadableRange
<1>2. ASSUME listed, pc \in {"guid", "next"} PROVE guard' # "no"
  <2>1. at \in Objects
    BY <1>2 DEF FindInv, Ahead, Objects
  <2> QED
    BY <2>1 DEF FindInv, Readable, IsReadableRange
<1>3. Ahead'
  BY <1>1, <1>2 DEF FindInv, Ahead, clientVars, unitVars, historyVars
<1> QED
  BY <1>1, <1>3, ReaderFinds

(* No other step of the reader is part of the walk. *)
LEMMA OthersFind ==
  ASSUME FindInv, UNCHANGED clientVars, pc' \notin {"guid", "next"}
  PROVE  Chained' /\ Readable' /\ Ahead'
BY ReaderFinds DEF Ahead

LEMMA FindNext ==
  ASSUME FindInv, [Next]_vars
  PROVE  FindInv'
<1>1. UnitInv'
  BY NextInv DEF FindInv
<1>2. CASE Client
  BY <1>1, <1>2, ClientFinds DEF FindInv
<1>3. CASE ReadHead \/ ReadGuid \/ ReadNext \/ IsReadableRange
  BY <1>1, <1>3, ReadHeadFinds, GuidFinds, NextFinds, GuardFinds DEF FindInv
<1>4. CASE BeginCall \/ NextUnit
  <2>1. UNCHANGED clientVars /\ pc' \notin {"guid", "next"}
    BY <1>4 DEF BeginCall, NextUnit, Lookup, Go
  <2> QED
    BY <1>1, <2>1, OthersFind DEF FindInv
<1>5. CASE NoPlayerGuid \/ Fault \/ Present \/ ReadPosition \/ ReadFields
  <2>1. UNCHANGED clientVars /\ pc' \notin {"guid", "next"}
    BY <1>5 DEF NoPlayerGuid, Return, Fault, Present, ReadPosition, ReadFields, Go
  <2> QED
    BY <1>1, <2>1, OthersFind DEF FindInv
<1>6. CASE ReadHealth \/ ReadMaxHealth \/ ReadTargetGuid \/ ReadTypePtr \/ ReadType \/ ReadPower
  <2>1. UNCHANGED clientVars /\ pc' \notin {"guid", "next"}
    BY <1>6 DEF ReadHealth, ReadMaxHealth, ReadTargetGuid, ReadTypePtr, ReadType, ReadPower, Go
  <2> QED
    BY <1>1, <2>1, OthersFind DEF FindInv
<1>7. CASE \/ ReadAuraCount \/ ReadAuraTable \/ ReadAura
           \/ ReadName \/ ReadTemplate \/ ReadString \/ Fallback
  <2>1. UNCHANGED clientVars /\ pc' \notin {"guid", "next"}
    BY <1>7 DEF ReadAuraCount, ReadAuraTable, ReadAura, AfterAuras, ReadName, AfterName,
                ReadTemplate, ReadString, Fallback, Go
  <2> QED
    BY <1>1, <2>1, OthersFind DEF FindInv
<1>8. CASE UNCHANGED vars
  <2>1. UNCHANGED clientVars /\ Ahead'
    BY <1>8 DEF FindInv, Ahead, vars, clientVars, controlVars, unitVars, historyVars
  <2> QED
    BY <1>1, <2>1, ReaderFinds DEF FindInv
<1> QED
  BY <1>2, <1>3, <1>4, <1>5, <1>6, <1>7, <1>8 DEF Next, Reader

----------------------------------------------------------------------------
(* The inductive invariant holds in every state of ReadGameData against    *)
(* its client.                                                             *)
THEOREM UnitInvariance == Spec => []UnitInv
  BY InitInv, NextInv, PTL DEF Spec

(* Every variable keeps its type; the aura tables never outgrow their      *)
(* arrays, whatever count the client's memory holds (ReadAurasForUnit).    *)
THEOREM TypeCorrect == Spec => []TypeOK
<1>1. UnitInv => TypeOK
  BY DEF UnitInv
<1> QED
  BY <1>1, UnitInvariance, PTL

(* Whatever becomes of the list, of other units' memory and of the         *)
(* pointers of the object itself, what is entered for a unit is its own,   *)
(* unless the object left the list or the block whose address the reader   *)
(* held was taken from it: an object's fields, aura table and template may *)
(* change at any step, and a template have many users (ReadGameData,       *)
(* PopulateGroupMemberStats, ReadAurasForUnit, GetUnitName).               *)
THEOREM DataIsTheUnits == Spec => []UnitDataMatchesGuid
<1>1. UnitInv => UnitDataMatchesGuid
  BY DEF UnitInv, OwnPointers, UnitDataMatchesGuid
<1> QED
  BY <1>1, UnitInvariance, PTL

(* Without a page going away during the call, reading faults at most at an *)
(* address whose range wraps around (IsReadableRange).                     *)
THEOREM QuietCallsDoNotFault == Spec => []NoFaultWhenQuiet
<1>1. UnitInv => NoFaultWhenQuiet
  BY DEF UnitInv
<1> QED
  BY <1>1, UnitInvariance, PTL

(* A unit that is in the list as the walk begins is found, while nothing   *)
(* leaves the list, unless the walk gives up at its limit, and whatever    *)
(* enters the list meanwhile (GetObjectBaseByGUID).                        *)
THEOREM ListedUnitsAreFound == Spec => FoundUnlessRemoved
<1> DEFINE Found == /\ pc \in {"guid", "next"} /\ pc' \notin {"guid", "next", "fault"}
                    /\ listed
                    => base' # Null \/ count' >= MaxWalk
<1>1. FindInv /\ [Next]_vars => [Found]_vars
  <2> SUFFICES ASSUME FindInv, Next, pc \in {"guid", "next"},
                      pc' \notin {"guid", "next", "fault"}, listed
               PROVE  base' # Null \/ count' >= MaxWalk
    OBVIOUS
  <2>1. ~Client
    BY DEF Client, Create, Destroy, Replace, Reclaim, controlVars
  <2>2. ReadGuid \/ ReadNext
    <3>1. ~IsReadableRange /\ ~Fault /\ ~ReadHead /\ ~BeginCall /\ ~NoPlayerGuid /\ ~NextUnit
      BY DEF IsReadableRange, Fault, ReadHead, BeginCall, NoPlayerGuid, NextUnit
    <3>2. ~Present /\ ~ReadPosition /\ ~ReadFields /\ ~ReadHealth /\ ~ReadMaxHealth
      BY DEF Present, ReadPosition, ReadFields, ReadHealth, ReadMaxHealth
    <3>3. ~ReadTargetGuid /\ ~ReadTypePtr /\ ~ReadType /\ ~ReadPower /\ ~ReadAuraCount
      BY DEF ReadTargetGuid, ReadTypePtr, ReadType, ReadPower, ReadAuraCount
    <3>4. ~ReadAuraTable /\ ~ReadAura /\ ~ReadName /\ ~ReadTemplate /\ ~ReadString /\ ~Fallback
      BY DEF ReadAuraTable, ReadAura, ReadName, ReadTemplate, ReadString, Fallback
    <3> QED
      BY <2>1, <3>1, <3>2, <3>3, <3>4 DEF Next, Reader
  <2> QED
    BY <2>2, GuidFinds, NextFinds
<1>2. Spec => []FindInv
  BY FindInit, FindNext, PTL DEF Spec
<1> QED
  BY <1>1, <1>2, PTL DEF Spec, FoundUnlessRemoved
=============================================================================

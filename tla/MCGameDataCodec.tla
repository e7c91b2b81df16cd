-------------------------- MODULE MCGameDataCodec --------------------------
(* Snapshots in which every scalar has a value of its own. *)
EXTENDS GameDataCodec

Text(n)      == [j \in 1 .. n |-> 64 + j]
Scalar(v, w) == [j \in 1 .. w |-> IF j = 1 THEN v ELSE 0]
Spells(n)    == [i \in 1 .. n |-> Scalar(80 + i, 4)]

(* timestamp, amount, overkill and schoolMask of an event. *)
Event(e) ==
  [j \in 1 .. 56 |-> CASE j = 1 -> e [] j = 25 -> 7 [] j = 29 -> e - 1 [] j = 33 -> 1 [] OTHER -> 0]

Member(m) ==
  [guid |-> Scalar(90 + m, 8), name |-> Text(m), health |-> Scalar(m, 4),
   maxHealth |-> Scalar(m + 1, 4), auras |-> Spells(m)]

(* The snapshots in which a flag is set. *)
On == [isLoading |-> {1}, worldLoaded |-> {2}, isIndoor |-> {1, 2},
       playerIsIngame |-> {0, 1, 2}]

(* A snapshot with strings of n characters and n entries in its lists. *)
Snapshot(n, party, raid) ==
  LET value(i) ==
        LET name == Written[i][1]
            kind == Written[i][2]
        IN CASE kind = "string" -> Text(n)
             [] kind = "auras"  -> Spells(n)
             [] kind = "events" -> [e \in 1 .. n |-> Event(e)]
             [] name = "partyMembersList" -> [m \in 1 .. party |-> Member(m)]
             [] name = "raidMembersList"  -> [m \in 1 .. raid |-> Member(m)]
             [] name \in DOMAIN On -> <<IF n \in On[name] THEN 1 ELSE 0>>
             [] name = "corpseZ" /\ n = 2 -> <<0, 0, 0, 0>>
             [] name \in {"corpseX", "corpseY", "corpseZ"} -> <<i, 0, n, 65>>
             [] name = "mouseOverGUID" /\ n = 1 -> Scalar(0, 8)
             [] OTHER -> Scalar(i, Width[kind])
      position(name) == CHOOSE i \in 1 .. Len(Written) : Written[i][1] = name
  IN [name \in {Written[i][1] : i \in 1 .. Len(Written)} |-> value(position(name))]

(* One aura of one member changes, a coordinate by less than is shown, and *)
(* another by its sign only.                                               *)
Slightly(data) ==
  [data EXCEPT !.partyMembersList[2].auras[2] = Scalar(99, 4), !.corpseX[1] = 1,
               !.corpseZ[4] = 128]

MCSnapshots ==
  {Snapshot(0, 0, 0), Snapshot(1, 0, 1), Snapshot(2, 2, 1), Slightly(Snapshot(2, 2, 1))}
=============================================================================

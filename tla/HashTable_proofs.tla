-------------------------- MODULE HashTable_proofs --------------------------
(* Proofs about HashTable, for every set of keys, every hash function and  *)
(* every capacity.                                                         *)
EXTENDS HashTable, FiniteSetTheorems, WellFoundedInduction, TLAPS

-----------------------------------------------------------------------------
(* The inductive invariant.                                                *)

Slot == [state : {"fresh", "tomb", "live"}, key : Keys \cup {NoKey},
         val : Values \cup {NoValue}]

(* A table of n slots *)
IsTable(t, n) ==
  /\ n \in Nat \ {0} /\ t \in [0 .. n-1 -> Slot]
  /\ \A i \in 0 .. n-1 : IsLive(t[i]) => t[i].key \in Keys

LiveIn(t, n) == {i \in 0 .. n-1 : IsLive(t[i])}

OnceIn(t, n) == \A i, j \in LiveIn(t, n) : t[i].key = t[j].key => i = j

(* A search for a key that is there meets no slot that was never used.     *)
Reach(t, n) ==
  \A k \in Keys, i \in 0 .. n-1 : Holds(t[Place(k, i, n)], k) =>
    \A j \in 0 .. i-1 : t[Place(k, j, n)].state # "fresh"

Tidy(t, n) == OnceIn(t, n) /\ Reach(t, n)

NoTombs(t, n) == \A i \in 0 .. n-1 : t[i].state # "tomb"

TableKept ==
  /\ kind \in {"map", "set"} /\ IsTable(slots, capacity)
  /\ count = Cardinality(LiveSlots) /\ size = count
  /\ holes \in Nat
  /\ kind = "map" \/ holes = 0 => Tidy(slots, capacity)
  /\ kind = "set" => /\ NoTombs(slots, capacity)
                     /\ \A i \in LiveSlots : slots[i].val = NoValue

(* The keys that the iterator owes lie ahead, those it has returned behind. *)
IterKept ==
  /\ index \in Int
  /\ index >= 0 /\ ~resized =>
       /\ \A k \in due : \E i \in LiveSlots : i >= index /\ slots[i].key = k
       /\ \A k \in present \ due : \E i \in LiveSlots : i < index /\ slots[i].key = k
       /\ ~again

TableInv == TableKept /\ IterKept /\ LossNeedsTombs

-----------------------------------------------------------------------------
(* Searching                                                               *)

(* Quotient and remainder by a positive number. *)
LEMMA ModDef ==
  ASSUME NEW n \in Nat \ {0}, NEW a \in Int
  PROVE  a % n \in 0 .. n-1 /\ a \div n \in Int /\ a = n * (a \div n) + (a % n)
OBVIOUS

(* The remainder is the only one. *)
LEMMA ModUnique ==
  ASSUME NEW n \in Nat \ {0}, NEW a \in Int, NEW q \in Int, NEW r \in 0 .. n-1,
         a = n * q + r
  PROVE  a % n = r
OBVIOUS

(* A search looks at slots of the table. *)
LEMMA PlaceIn ==
  ASSUME NEW k \in Keys, NEW n \in Nat \ {0}, NEW i \in Nat
  PROVE  Place(k, i, n) \in 0 .. n-1
<1>1. Hash[k] + i \in Int
  BY TableAssumption
<1>2. QED
  BY <1>1, ModDef DEF Place

(* It looks at no slot twice. *)
LEMMA PlaceOnce ==
  ASSUME NEW k \in Keys, NEW n \in Nat \ {0}, NEW i \in 0 .. n-1, NEW j \in 0 .. n-1,
         Place(k, i, n) = Place(k, j, n)
  PROVE  i = j
<1>1. PICK h \in Nat : h = Hash[k]
  BY TableAssumption
<1>2. PICK r : r = (h + i) % n
  OBVIOUS
<1>3. (h + j) % n = r
  BY <1>1, <1>2 DEF Place
<1>4. PICK p \in Int : r \in 0 .. n-1 /\ h + i = n * p + r
  <2>1. h + i \in Int
    BY <1>1
  <2>2. QED
    BY <1>2, <2>1, ModDef
<1>5. PICK q \in Int : h + j = n * q + r
  <2>1. h + j \in Int
    BY <1>1
  <2>2. QED
    BY <1>3, <2>1, ModDef
<1>6. i - j = n * (p - q)
  BY <1>4, <1>5
<1>7. PICK d \in Int : d = p - q
  OBVIOUS
<1>8. i - j = n * d /\ i - j < n /\ i - j > -n
  BY <1>6, <1>7
<1>9. d = 0
  BY <1>8
<1>10. QED
  BY <1>8, <1>9

(* It looks at every slot. *)
LEMMA PlaceAll ==
  ASSUME NEW k \in Keys, NEW n \in Nat \ {0}, NEW p \in 0 .. n-1
  PROVE  \E i \in 0 .. n-1 : Place(k, i, n) = p
<1>1. PICK h \in Nat : h = Hash[k]
  BY TableAssumption
<1>2. p - h \in Int
  BY <1>1
<1>3. PICK q \in Int, r \in 0 .. n-1 : p - h = n * q + r
  BY <1>2, ModDef
<1>4. h + r = n * (-q) + p /\ -q \in Int /\ h + r \in Int
  BY <1>3
<1>5. (h + r) % n = p
  BY <1>4, ModUnique
<1>6. QED
  BY <1>1, <1>3, <1>5 DEF Place

(* A set of numbers that is not empty has a smallest one. *)
LEMMA MinIs ==
  ASSUME NEW S \in SUBSET Nat, S # {}
  PROVE  Min(S) \in S /\ \A y \in S : Min(S) <= y
<1> DEFINE R == OpToRel(<, Nat)
<1>1. IsWellFoundedOn(R, Nat)
  BY NatLessThanWellFounded
<1>2. PICK x \in S : \A y \in S : ~(<<y, x>> \in R)
  BY <1>1, WFMin
<1>3. \A y \in S : ~(y < x)
  BY <1>2 DEF OpToRel
<1>4. \A y \in S : x <= y
  BY <1>3
<1>5. QED
  BY <1>4 DEF Min

(* The live slots are finite, so many that one slot is left over or not. *)
LEMMA LiveFinite ==
  ASSUME NEW t, NEW n \in Nat
  PROVE  /\ IsFiniteSet(LiveIn(t, n)) /\ Cardinality(LiveIn(t, n)) \in Nat
         /\ Cardinality(LiveIn(t, n)) <= n
<1>1. IsFiniteSet(0 .. n-1) /\ Cardinality(0 .. n-1) = n
  <2>1. 0 \in Int /\ n - 1 \in Int
    OBVIOUS
  <2>2. IsFiniteSet(0 .. n-1) /\ Cardinality(0 .. n-1) = IF 0 > n - 1 THEN 0 ELSE n - 1 - 0 + 1
    BY <2>1, FS_Interval
  <2>3. QED
    BY <2>2
<1>2. LiveIn(t, n) \subseteq 0 .. n-1
  BY DEF LiveIn
<1>3. QED
  BY <1>1, <1>2, FS_Subset, FS_CardinalityType

(* If not all slots are live a search meets one that is not. *)
LEMMA RoomLeft ==
  ASSUME NEW t, NEW n \in Nat \ {0}, Cardinality(LiveIn(t, n)) < n, NEW k \in Keys
  PROVE  Unused(t, n, k) # {}
<1>1. PICK p \in 0 .. n-1 : ~IsLive(t[p])
  <2>1. SUFFICES ASSUME \A p \in 0 .. n-1 : IsLive(t[p]) PROVE FALSE
    OBVIOUS
  <2>2. LiveIn(t, n) = 0 .. n-1
    BY <2>1 DEF LiveIn
  <2>3. Cardinality(0 .. n-1) = n
    <3>1. 0 \in Int /\ n - 1 \in Int
      OBVIOUS
    <3>2. Cardinality(0 .. n-1) = IF 0 > n - 1 THEN 0 ELSE n - 1 - 0 + 1
      BY <3>1, FS_Interval
    <3>3. QED
      BY <3>2
  <2>4. QED
    BY <2>2, <2>3
<1>2. PICK i \in 0 .. n-1 : Place(k, i, n) = p
  BY PlaceAll
<1>3. i \in Unused(t, n, k)
  BY <1>1, <1>2 DEF Unused
<1>4. QED
  BY <1>3

(* Where a search finds k *)
LEMMA FindIs ==
  ASSUME NEW t, NEW n \in Nat \ {0}, NEW k \in Keys
  PROVE  /\ \A i \in Find(t, n, k) : /\ i \in 0 .. n-1 /\ Place(k, i, n) \in LiveIn(t, n)
                                     /\ t[Place(k, i, n)].key = k
         /\ \A p \in LiveIn(t, n) : t[p].key = k => \E i \in Find(t, n, k) : Place(k, i, n) = p
<1>1. ASSUME NEW i \in Find(t, n, k)
      PROVE  i \in 0 .. n-1 /\ Place(k, i, n) \in LiveIn(t, n) /\ t[Place(k, i, n)].key = k
  <2>1. i \in 0 .. n-1 /\ Holds(t[Place(k, i, n)], k)
    BY <1>1 DEF Find
  <2>2. Place(k, i, n) \in 0 .. n-1
    BY <2>1, PlaceIn
  <2>3. QED
    BY <2>1, <2>2 DEF Holds, LiveIn
<1>2. ASSUME NEW p \in LiveIn(t, n), t[p].key = k
      PROVE  \E i \in Find(t, n, k) : Place(k, i, n) = p
  <2>1. p \in 0 .. n-1 /\ Holds(t[p], k)
    BY <1>2 DEF LiveIn, Holds
  <2>2. PICK i \in 0 .. n-1 : Place(k, i, n) = p
    BY <2>1, PlaceAll
  <2>3. i \in Find(t, n, k)
    BY <2>1, <2>2 DEF Find
  <2>4. QED
    BY <2>2, <2>3
<1>3. QED
  BY <1>1, <1>2

-----------------------------------------------------------------------------
(* Storing an entry                                                        *)

(* The table t of n slots with e in slot p *)
Stored(t, p, e) == [t EXCEPT ![p] = e]

Fits(e) == e \in Slot /\ e.state = "live" /\ e.key \in Keys

(* p may be given to k: it is not in use, or it is k's own. *)
MayTake(t, p, k) == ~IsLive(t[p]) \/ t[p].key = k

(* An entry is a live slot. *)
LEMMA EntryFits ==
  ASSUME NEW k \in Keys, NEW v \in Values \cup {NoValue}, NEW e, e = Entry(k, v)
  PROVE  Fits(e) /\ e.key = k /\ e.val = v
<1>1. e = [state |-> "live", key |-> k, val |-> v]
  BY DEF Entry
<1>2. e \in Slot
  BY <1>1 DEF Slot
<1>3. QED
  BY <1>1, <1>2 DEF Fits

(* u is t but for slot p, which holds the live entry e. *)
OnlySlot(t, u, n, p, e) ==
  /\ IsTable(u, n) /\ u[p] = e /\ \A i \in 0 .. n-1 : i # p => u[i] = t[i]
  /\ LiveIn(u, n) = LiveIn(t, n) \cup {p}

(* The slots after a store *)
LEMMA StoreShape ==
  ASSUME NEW t, NEW n, IsTable(t, n), NEW p \in 0 .. n-1, NEW e, Fits(e),
         NEW u, u = Stored(t, p, e)
  PROVE  OnlySlot(t, u, n, p, e)
<1>1. u[p] = e /\ \A i \in 0 .. n-1 : i # p => u[i] = t[i]
  BY DEF IsTable, Stored
<1>2. IsLive(e) /\ e \in Slot /\ e.key \in Keys
  BY DEF Fits, IsLive
<1>3. IsTable(u, n)
  <2>1. u \in [0 .. n-1 -> Slot]
    BY <1>2 DEF IsTable, Stored
  <2>2. \A i \in 0 .. n-1 : IsLive(u[i]) => u[i].key \in Keys
    BY <1>1, <1>2 DEF IsTable
  <2>3. QED
    BY <2>1, <2>2 DEF IsTable
<1>4. LiveIn(u, n) = LiveIn(t, n) \cup {p}
  BY <1>1, <1>2 DEF LiveIn
<1>5. QED
  BY <1>1, <1>3, <1>4 DEF OnlySlot

(* The number of live slots, c in t, once p is written: w *)
Counted(t, w, n, p, c) == Cardinality(LiveIn(w, n)) = IF IsLive(t[p]) THEN c ELSE c + 1

(* Their number *)
LEMMA StoreCount ==
  ASSUME NEW t, NEW n, IsTable(t, n), NEW p \in 0 .. n-1, NEW e, Fits(e),
         NEW u, u = Stored(t, p, e), NEW c \in Nat, c = Cardinality(LiveIn(t, n))
  PROVE  Counted(t, u, n, p, c)
<1>1. LiveIn(u, n) = LiveIn(t, n) \cup {p}
  BY StoreShape DEF OnlySlot
<1>2. IsFiniteSet(LiveIn(t, n))
  BY LiveFinite DEF IsTable
<1>3. p \in LiveIn(t, n) <=> IsLive(t[p])
  BY DEF LiveIn
<1>4. QED
  BY <1>1, <1>2, <1>3, FS_AddElement DEF Counted

(* If k had no other slot, nothing is stored twice afterwards. *)
LEMMA StoreOnce ==
  ASSUME NEW t, NEW n, IsTable(t, n), NEW e, Fits(e), OnceIn(t, n),
         NEW p \in 0 .. n-1, NEW u, u = Stored(t, p, e),
         \A q \in LiveIn(t, n) : t[q].key = e.key => q = p
  PROVE  OnceIn(u, n)
<1>1. /\ u[p] = e /\ \A q \in 0 .. n-1 : q # p => u[q] = t[q]
      /\ LiveIn(u, n) = LiveIn(t, n) \cup {p}
  BY StoreShape DEF OnlySlot
<1>2. \A q \in LiveIn(t, n) : q \in 0 .. n-1
  BY DEF LiveIn
<1>3. SUFFICES ASSUME NEW a \in LiveIn(u, n), NEW b \in LiveIn(u, n), u[a].key = u[b].key
               PROVE  a = b
  BY DEF OnceIn
<1>4. CASE a = p \/ b = p
  BY <1>1, <1>2, <1>3, <1>4
<1>5. CASE a # p /\ b # p
  <2>1. a \in LiveIn(t, n) /\ b \in LiveIn(t, n) /\ t[a].key = t[b].key
    BY <1>1, <1>2, <1>3, <1>5
  <2>2. QED
    BY <2>1 DEF OnceIn
<1>6. QED
  BY <1>4, <1>5

(* If the search for k met no fresh slot on its way, every key can still   *)
(* be reached afterwards.                                                  *)
LEMMA StoreReach ==
  ASSUME NEW t, NEW n, IsTable(t, n), NEW e, Fits(e), Reach(t, n),
         NEW i \in 0 .. n-1, NEW p, p = Place(e.key, i, n), NEW u, u = Stored(t, p, e),
         \A j \in 0 .. i-1 : t[Place(e.key, j, n)].state # "fresh"
  PROVE  Reach(u, n)
<1>1. PICK k \in Keys : k = e.key
  BY DEF Fits
<1>2. n \in Nat \ {0} /\ p \in 0 .. n-1
  BY <1>1, PlaceIn DEF IsTable
<1>3. u[p] = e /\ \A q \in 0 .. n-1 : q # p => u[q] = t[q]
  BY <1>2 DEF IsTable, Stored
<1>4. SUFFICES ASSUME NEW x \in Keys, NEW a \in 0 .. n-1, Holds(u[Place(x, a, n)], x),
                      NEW j \in 0 .. a-1
               PROVE  u[Place(x, j, n)].state # "fresh"
  BY DEF Reach
<1>5. j \in 0 .. n-1 /\ Place(x, j, n) \in 0 .. n-1 /\ Place(x, a, n) \in 0 .. n-1
  BY <1>2, <1>4, PlaceIn
<1>6. u[p].state # "fresh"
  BY <1>3 DEF Fits
<1>7. CASE Place(x, a, n) # p
  <2>1. Holds(t[Place(x, a, n)], x)
    BY <1>3, <1>4, <1>5, <1>7
  <2>2. t[Place(x, j, n)].state # "fresh"
    BY <1>4, <2>1 DEF Reach
  <2>3. QED
    BY <1>3, <1>5, <1>6, <2>2
<1>8. CASE Place(x, a, n) = p
  <2>1. x = k
    BY <1>1, <1>3, <1>4, <1>8 DEF Holds
  <2>2. a = i
    BY <1>1, <1>2, <1>8, <2>1, PlaceOnce
  <2>3. t[Place(x, j, n)].state # "fresh"
    BY <1>1, <1>4, <2>1, <2>2
  <2>4. QED
    BY <1>3, <1>5, <1>6, <2>3
<1>9. QED
  BY <1>7, <1>8

-----------------------------------------------------------------------------
(* The resize                                                              *)

EmptyTable(m) == [j \in 0 .. m-1 |-> Free]

(* One turn of its loop *)
Move(u, e, m) ==
  IF IsLive(e) THEN Stored(u, Place(e.key, Min(Unused(u, m, e.key)), m), e) ELSE u

(* f lists the new table after each turn. *)
Walk(f, t, n, m) ==
  f = [i \in 0 .. n |-> IF i = 0 THEN EmptyTable(m) ELSE Move(f[i-1], t[i-1], m)]

(* Such a list exists: a smallest n without one could be lowered. *)
LEMMA WalkExists ==
  ASSUME NEW t, NEW m, NEW n \in Nat
  PROVE  \E f : Walk(f, t, n, m)
<1> DEFINE Bad == {k \in Nat : ~\E f : Walk(f, t, k, m)}
<1>1. SUFFICES ASSUME Bad # {} PROVE FALSE
  OBVIOUS
<1>2. PICK b \in Bad : \A k \in Bad : b <= k
  BY <1>1, MinIs
<1>3. b \in Nat /\ ~\E f : Walk(f, t, b, m)
  BY <1>2
<1>4. CASE b = 0
  <2>1. Walk([i \in 0 .. 0 |-> EmptyTable(m)], t, 0, m)
    BY DEF Walk
  <2>2. QED
    BY <1>3, <1>4, <2>1
<1>5. CASE b # 0
  <2>1. PICK a \in Nat : b = a + 1
    <3>1. b - 1 \in Nat /\ b = (b - 1) + 1
      BY <1>3, <1>5
    <3>2. QED
      BY <3>1
  <2>2. a \notin Bad
    BY <1>2, <2>1
  <2>3. PICK f : Walk(f, t, a, m)
    BY <2>2
  <2> HIDE DEF Bad
  <2>4. /\ f[0] = EmptyTable(m)
        /\ \A i \in 1 .. a : f[i] = Move(f[i-1], t[i-1], m)
    BY <2>1, <2>3 DEF Walk
  <2> DEFINE g == [i \in 0 .. b |-> IF i = b THEN Move(f[a], t[a], m) ELSE f[i]]
  <2>5. \A i \in 0 .. a : g[i] = f[i]
    BY <2>1
  <2>6. g[b] = Move(f[a], t[a], m)
    BY <1>3
  <2>7. ASSUME NEW i \in 0 .. b
        PROVE  g[i] = IF i = 0 THEN EmptyTable(m) ELSE Move(g[i-1], t[i-1], m)
    <3>1. CASE i = 0
      BY <2>1, <2>4, <2>5, <3>1
    <3>2. CASE i = b
      <4>1. i # 0 /\ i - 1 = a /\ a \in 0 .. a
        BY <2>1, <3>2
      <4>2. QED
        BY <2>5, <2>6, <3>2, <4>1
    <3>3. CASE i # 0 /\ i # b
      <4>1. i \in 1 .. a /\ i \in 0 .. a /\ i - 1 \in 0 .. a
        BY <2>1, <3>3
      <4>2. QED
        BY <2>4, <2>5, <3>3, <4>1
    <3>4. QED
      BY <3>1, <3>2, <3>3
  <2>8. Walk(g, t, b, m)
    <3>1. g = [i \in 0 .. b |-> g[i]]
      OBVIOUS
    <3> HIDE DEF g
    <3>2. QED
      BY <2>7, <3>1 DEF Walk
  <2>9. QED
    BY <1>3, <2>8
<1>6. QED
  BY <1>4, <1>5

(* u holds the first i entries of t that are live, and no others. *)
MovedInto(u, m, t, i) ==
  /\ IsTable(u, m) /\ NoTombs(u, m) /\ Reach(u, m)
  /\ Cardinality(LiveIn(u, m)) = Cardinality(LiveIn(t, i))
  /\ \A p \in LiveIn(u, m) : \E l \in LiveIn(t, i) : u[p] = t[l]
  /\ \A l \in LiveIn(t, i) : \E p \in LiveIn(u, m) : u[p] = t[l]
  /\ OnceIn(t, i) => OnceIn(u, m)

(* Before the first turn *)
LEMMA MoveFirst ==
  ASSUME NEW t, NEW m \in Nat \ {0}
  PROVE  MovedInto(EmptyTable(m), m, t, 0)
<1>1. PICK u : u = EmptyTable(m)
  OBVIOUS
<1>2. Free \in Slot /\ Free.state = "fresh"
  BY DEF Free, Slot
<1>3. u \in [0 .. m-1 -> Slot] /\ \A p \in 0 .. m-1 : u[p].state = "fresh"
  BY <1>1, <1>2 DEF EmptyTable
<1>4. LiveIn(u, m) = {}
  BY <1>3 DEF LiveIn, IsLive
<1>5. LiveIn(t, 0) = {}
  BY DEF LiveIn
<1>6. IsTable(u, m) /\ NoTombs(u, m)
  BY <1>3 DEF IsTable, NoTombs, IsLive
<1>7. Reach(u, m)
  <2>1. SUFFICES ASSUME NEW k \in Keys, NEW i \in 0 .. m-1, Holds(u[Place(k, i, m)], k)
                 PROVE  FALSE
    BY DEF Reach
  <2>2. Place(k, i, m) \in 0 .. m-1
    BY PlaceIn
  <2>3. QED
    BY <1>3, <2>1, <2>2 DEF Holds, IsLive
<1>8. OnceIn(u, m)
  BY <1>4 DEF OnceIn
<1>9. QED
  BY <1>1, <1>4, <1>5, <1>6, <1>7, <1>8 DEF MovedInto

(* One turn moves one entry, if there is room. *)
LEMMA MoveNext ==
  ASSUME NEW t, NEW n, IsTable(t, n), NEW m \in Nat, n < m, NEW i \in 0 .. n-1,
         NEW u, MovedInto(u, m, t, i)
  PROVE  MovedInto(Move(u, t[i], m), m, t, i + 1)
<1>1. n \in Nat \ {0} /\ m \in Nat \ {0} /\ i \in Nat
  BY DEF IsTable
<1>2. /\ IsTable(u, m) /\ NoTombs(u, m) /\ Reach(u, m)
      /\ \A p \in LiveIn(u, m) : \E l \in LiveIn(t, i) : u[p] = t[l]
      /\ \A l \in LiveIn(t, i) : \E p \in LiveIn(u, m) : u[p] = t[l]
      /\ OnceIn(t, i) => OnceIn(u, m)
  BY DEF MovedInto
<1>3. PICK c \in Nat : c = Cardinality(LiveIn(u, m)) /\ c = Cardinality(LiveIn(t, i)) /\ c <= i
  BY <1>1, LiveFinite DEF MovedInto
<1>4. LiveIn(t, i + 1) = IF IsLive(t[i]) THEN LiveIn(t, i) \cup {i} ELSE LiveIn(t, i)
  <2>1. 0 .. (i + 1) - 1 = (0 .. i-1) \cup {i}
    BY <1>1
  <2>2. QED
    BY <2>1 DEF LiveIn
<1>5. CASE ~IsLive(t[i])
  <2>1. LiveIn(t, i + 1) = LiveIn(t, i) /\ Move(u, t[i], m) = u
    BY <1>4, <1>5 DEF Move
  <2>2. OnceIn(t, i + 1) => OnceIn(t, i)
    BY <2>1 DEF OnceIn
  <2>3. QED
    BY <1>2, <1>3, <2>1, <2>2 DEF MovedInto
<1>6. CASE IsLive(t[i])
  <2>1. PICK e : e = t[i]
    OBVIOUS
  <2>2. PICK k \in Keys : k = e.key
    BY <1>6, <2>1 DEF IsTable
  <2>3. Fits(e)
    BY <1>6, <2>1 DEF IsTable, Fits, IsLive
  <2>4. Unused(u, m, k) # {}
    <3>1. Cardinality(LiveIn(u, m)) < m
      BY <1>1, <1>3
    <3>2. QED
      BY <1>1, <3>1, RoomLeft
  <2>5. PICK s \in Unused(u, m, k) : s = Min(Unused(u, m, k)) /\ \A y \in Unused(u, m, k) : s <= y
    <3>1. Unused(u, m, k) \in SUBSET Nat
      BY <1>1 DEF Unused
    <3>2. QED
      BY <2>4, <3>1, MinIs
  <2>6. PICK p : p = Place(k, s, m)
    OBVIOUS
  <2>7. s \in 0 .. m-1 /\ p \in 0 .. m-1 /\ ~IsLive(u[p])
    <3>1. s \in 0 .. m-1 /\ ~IsLive(u[p])
      BY <2>5, <2>6 DEF Unused
    <3>2. QED
      BY <1>1, <2>6, <3>1, PlaceIn
  <2>8. PICK w : w = Stored(u, p, e)
    OBVIOUS
  <2>9. Move(u, t[i], m) = w
    BY <1>6, <2>1, <2>2, <2>5, <2>6, <2>8 DEF Move
  <2>10. /\ IsTable(w, m) /\ w[p] = e /\ \A q \in 0 .. m-1 : q # p => w[q] = u[q]
         /\ LiveIn(w, m) = LiveIn(u, m) \cup {p}
    <3>1. IsTable(u, m) /\ p \in 0 .. m-1
      BY <1>2, <2>7
    <3>2. QED
      BY <2>3, <2>8, <3>1, StoreShape DEF OnlySlot
  <2>11. LiveIn(t, i + 1) = LiveIn(t, i) \cup {i}
    BY <1>4, <1>6
  <2>12. \A q \in LiveIn(u, m) : q \in 0 .. m-1 /\ q # p
    BY <2>7 DEF LiveIn
  <2>13. NoTombs(w, m)
    BY <1>2, <2>3, <2>10 DEF NoTombs, Fits
  <2>14. Reach(w, m)
    <3>1. \A j \in 0 .. s-1 : u[Place(k, j, m)].state # "fresh"
      <4>1. SUFFICES ASSUME NEW j \in 0 .. s-1 PROVE u[Place(k, j, m)].state # "fresh"
        OBVIOUS
      <4>2. j \in 0 .. m-1 /\ ~(s <= j)
        BY <1>1, <2>7, <4>1
      <4>3. IsLive(u[Place(k, j, m)])
        BY <2>5, <4>2 DEF Unused
      <4>4. QED
        BY <4>3 DEF IsLive
    <3>2. QED
      BY <1>2, <2>2, <2>3, <2>6, <2>7, <2>8, <3>1, StoreReach
  <2>15. Cardinality(LiveIn(w, m)) = Cardinality(LiveIn(t, i + 1))
    <3>1. Cardinality(LiveIn(w, m)) = c + 1
      <4>1. IsTable(u, m) /\ c = Cardinality(LiveIn(u, m))
        BY <1>2, <1>3
      <4>2. Counted(u, w, m, p, c)
        BY <2>3, <2>7, <2>8, <4>1, StoreCount
      <4>3. QED
        BY <2>7, <4>2 DEF Counted
    <3>2. i \notin LiveIn(t, i) /\ IsFiniteSet(LiveIn(t, i))
      BY <1>1, LiveFinite DEF LiveIn
    <3>3. Cardinality(LiveIn(t, i) \cup {i}) = Cardinality(LiveIn(t, i)) + 1
      BY <3>2, FS_AddElement
    <3>4. QED
      BY <1>3, <2>11, <3>1, <3>3
  <2>16. \A q \in LiveIn(w, m) : \E l \in LiveIn(t, i + 1) : w[q] = t[l]
    BY <1>2, <2>1, <2>10, <2>11, <2>12
  <2>17. \A l \in LiveIn(t, i + 1) : \E q \in LiveIn(w, m) : w[q] = t[l]
    BY <1>2, <2>1, <2>10, <2>11, <2>12
  <2>18. ASSUME OnceIn(t, i + 1) PROVE OnceIn(w, m)
    <3>1. OnceIn(u, m)
      <4>1. OnceIn(t, i)
        BY <2>11, <2>18 DEF OnceIn
      <4>2. QED
        BY <1>2, <4>1
    <3>2. ASSUME NEW q \in LiveIn(u, m), u[q].key = k PROVE FALSE
      <4>1. PICK l \in LiveIn(t, i) : u[q] = t[l]
        BY <1>2
      <4>2. t[l].key = t[i].key /\ l \in LiveIn(t, i + 1) /\ i \in LiveIn(t, i + 1)
        BY <2>1, <2>2, <2>11, <3>2, <4>1
      <4>3. l = i
        BY <2>18, <4>2 DEF OnceIn
      <4>4. QED
        BY <1>1, <4>1, <4>3 DEF LiveIn
    <3>3. QED
      BY <1>2, <2>2, <2>3, <2>7, <2>8, <3>1, <3>2, StoreOnce
  <2>19. QED
    BY <2>9, <2>10, <2>13, <2>14, <2>15, <2>16, <2>17, <2>18 DEF MovedInto
<1>7. QED
  BY <1>5, <1>6

(* The resize moves every live entry, whatever the hashes. *)
LEMMA RehashMoves ==
  ASSUME NEW t, NEW n, IsTable(t, n), NEW m \in Nat, n < m
  PROVE  MovedInto(Rehash(t, n, m), m, t, n)
<1>1. n \in Nat \ {0} /\ m \in Nat \ {0}
  BY DEF IsTable
<1> DEFINE g == CHOOSE f : Walk(f, t, n, m)
<1>2. Walk(g, t, n, m)
  <2>1. \E f : Walk(f, t, n, m)
    BY <1>1, WalkExists
  <2>2. QED
    BY <2>1, Zenon
<1>3. Rehash(t, n, m) = g[n]
  BY DEF Rehash, Walk, Move, Stored, EmptyTable
<1>4. PICK f : f = g
  OBVIOUS
<1>5. Walk(f, t, n, m) /\ Rehash(t, n, m) = f[n]
  BY <1>2, <1>3, <1>4
<1> HIDE DEF g
<1>6. /\ f[0] = EmptyTable(m)
      /\ \A i \in 1 .. n : f[i] = Move(f[i-1], t[i-1], m)
  BY <1>1, <1>5 DEF Walk
<1> DEFINE Bad == {i \in 0 .. n : ~MovedInto(f[i], m, t, i)}
<1>7. Bad = {}
  <2>1. SUFFICES ASSUME Bad # {} PROVE FALSE
    OBVIOUS
  <2>2. PICK b \in Bad : \A k \in Bad : b <= k
    <3>1. Bad \in SUBSET Nat
      BY <1>1
    <3>2. QED
      BY <2>1, <3>1, MinIs
  <2>3. b \in 0 .. n /\ ~MovedInto(f[b], m, t, b)
    BY <2>2
  <2>4. b # 0
    BY <1>1, <1>6, <2>3, MoveFirst
  <2>5. PICK a \in 0 .. n-1 : b = a + 1
    <3>1. b - 1 \in 0 .. n-1 /\ b = (b - 1) + 1
      BY <1>1, <2>3, <2>4
    <3>2. QED
      BY <3>1
  <2>6. MovedInto(f[a], m, t, a)
    <3>1. a \in 0 .. n /\ ~(b <= a)
      BY <1>1, <2>5
    <3>2. QED
      BY <2>2, <3>1
  <2>7. f[b] = Move(f[a], t[a], m)
    <3>1. b \in 1 .. n /\ b - 1 = a
      BY <1>1, <2>3, <2>5
    <3>2. QED
      BY <1>6, <3>1
  <2> HIDE DEF Bad
  <2>8. QED
    BY <1>1, <2>3, <2>5, <2>6, <2>7, MoveNext
<1>8. MovedInto(f[n], m, t, n)
  <2>1. n \in 0 .. n
    BY <1>1
  <2>2. QED
    BY <1>7, <2>1
<1>9. QED
  BY <1>5, <1>8

-----------------------------------------------------------------------------
(* What set and add work on: the table, doubled if it must be.             *)

Grown(t, n) ==
  /\ IsTable(t, n) /\ Cardinality(LiveIn(t, n)) = count /\ count < n
  /\ \A p \in LiveIn(t, n) : \E l \in LiveSlots : t[p] = slots[l]
  /\ \A l \in LiveSlots : \E p \in LiveIn(t, n) : t[p] = slots[l]
  /\ kind = "map" \/ holes = 0 => Tidy(t, n)
  /\ MustGrow \/ kind = "set" => NoTombs(t, n)
  /\ ~MustGrow => n = capacity
  /\ n = capacity => t = slots

(* The live slots of the table *)
LEMMA LiveIs == LiveSlots = LiveIn(slots, capacity)
BY DEF LiveSlots, LiveIn

(* The resize loses no entry, and leaves room for one more. *)
LEMMA GrowFacts ==
  ASSUME TableKept
  PROVE  Grown(NewSlots, NewCapacity)
<1>1. PICK n \in Nat \ {0} : n = capacity /\ IsTable(slots, n)
  BY DEF TableKept, IsTable
<1>2. count = Cardinality(LiveIn(slots, n)) /\ count \in Nat /\ count <= n
  BY <1>1, LiveIs, LiveFinite DEF TableKept
<1>3. /\ kind = "map" \/ holes = 0 => Tidy(slots, n)
      /\ kind = "set" => NoTombs(slots, n)
  BY <1>1 DEF TableKept
<1>4. CASE MustGrow
  <2>1. PICK m \in Nat : m = 2 * n
    BY <1>1
  <2>2. PICK t : t = Rehash(slots, n, m)
    OBVIOUS
  <2>3. n < m /\ count < m /\ m # capacity
    BY <1>1, <1>2, <2>1
  <2>4. NewSlots = t /\ NewCapacity = m
    BY <1>1, <1>4, <2>1, <2>2 DEF NewSlots, NewCapacity
  <2>5. MovedInto(t, m, slots, n)
    BY <1>1, <2>2, <2>3, RehashMoves
  <2>6. kind = "map" \/ holes = 0 => Tidy(t, m)
    BY <1>3, <2>5 DEF MovedInto, Tidy
  <2>7. QED
    BY <1>1, <1>2, <1>4, <2>3, <2>4, <2>5, <2>6, LiveIs DEF MovedInto, Grown
<1>5. CASE ~MustGrow
  <2>1. NewSlots = slots /\ NewCapacity = n
    BY <1>1, <1>5 DEF NewSlots, NewCapacity
  <2>2. count < n
    BY <1>1, <1>2, <1>5 DEF MustGrow
  <2>3. QED
    BY <1>1, <1>2, <1>3, <1>5, <2>1, <2>2, LiveIs DEF Grown
<1>6. QED
  BY <1>4, <1>5

(* Step s of the search for k ends at a slot where k may be stored: not in *)
(* use or its own, and, while nothing is stored twice, the only one it may *)
(* have, with no slot on the way that was never used.                      *)
GoodPlace(t, n, k, s) ==
  /\ s \in 0 .. n-1 /\ MayTake(t, Place(k, s, n), k)
  /\ kind = "map" \/ holes = 0 =>
       /\ \A j \in 0 .. s-1 : t[Place(k, j, n)].state # "fresh"
       /\ \A q \in LiveIn(t, n) : t[q].key = k => q = Place(k, s, n)

(* A slot that a search meets before the key was used once. *)
LEMMA KeyBehind ==
  ASSUME NEW t, NEW n, IsTable(t, n), Tidy(t, n), NEW k \in Keys, NEW s \in 0 .. n-1,
         t[Place(k, s, n)].state = "fresh", \A i \in Find(t, n, k) : s <= i,
         NEW q \in LiveIn(t, n)
  PROVE  t[q].key # k
<1>1. SUFFICES ASSUME t[q].key = k PROVE FALSE
  OBVIOUS
<1>2. n \in Nat \ {0}
  BY DEF IsTable
<1>3. PICK i \in Find(t, n, k) : Place(k, i, n) = q
  BY <1>1, <1>2, FindIs
<1>4. i \in 0 .. n-1 /\ Holds(t[Place(k, i, n)], k) /\ s <= i
  BY <1>3 DEF Find
<1>5. s # i
  BY <1>4 DEF Holds, IsLive
<1>6. s \in 0 .. i-1
  BY <1>2, <1>4, <1>5
<1>7. QED
  BY <1>4, <1>6 DEF Tidy, Reach

(* map_data_set picks such a slot. *)
LEMMA MapTargetGood ==
  ASSUME NEW t, NEW n, IsTable(t, n), Tidy(t, n), NEW k \in Keys, Ends(t, n, k) # {}
  PROVE  GoodPlace(t, n, k, MapTarget(t, n, k))
<1>1. n \in Nat \ {0}
  BY DEF IsTable
<1>2. Ends(t, n, k) \in SUBSET Nat /\ Unused(t, n, k) \in SUBSET Nat
  BY <1>1 DEF Ends, Find, Unused
<1>3. PICK z \in Ends(t, n, k) : z = Min(Ends(t, n, k)) /\ \A y \in Ends(t, n, k) : z <= y
  BY <1>2, MinIs
<1>4. z \in 0 .. n-1
  BY <1>3 DEF Ends, Find
<1>5. CASE IsLive(t[Place(k, z, n)])
  <2>1. MapTarget(t, n, k) = z
    BY <1>3, <1>5 DEF MapTarget
  <2>2. z \in Find(t, n, k)
    BY <1>3, <1>5 DEF Ends, IsLive
  <2>3. Place(k, z, n) \in LiveIn(t, n) /\ t[Place(k, z, n)].key = k
    BY <1>1, <2>2, FindIs
  <2>4. ASSUME NEW j \in 0 .. z-1 PROVE t[Place(k, j, n)].state # "fresh"
    <3>1. j \in 0 .. n-1 /\ ~(z <= j)
      BY <1>1, <1>4
    <3>2. QED
      BY <1>3, <3>1 DEF Ends
  <2>5. \A q \in LiveIn(t, n) : t[q].key = k => q = Place(k, z, n)
    BY <2>3 DEF Tidy, OnceIn
  <2>6. QED
    BY <1>4, <2>1, <2>3, <2>4, <2>5 DEF GoodPlace, MayTake
<1>6. CASE ~IsLive(t[Place(k, z, n)])
  <2>1. t[Place(k, z, n)].state = "fresh" /\ z \in Unused(t, n, k)
    BY <1>3, <1>4, <1>6 DEF Ends, Find, Holds, Unused
  <2>2. PICK s \in Unused(t, n, k) : s = Min(Unused(t, n, k)) /\ \A y \in Unused(t, n, k) : s <= y
    BY <1>2, <2>1, MinIs
  <2>3. MapTarget(t, n, k) = s
    BY <1>3, <1>6, <2>2 DEF MapTarget
  <2>4. s \in 0 .. n-1 /\ ~IsLive(t[Place(k, s, n)])
    BY <2>2 DEF Unused
  <2>5. ASSUME NEW j \in 0 .. s-1 PROVE t[Place(k, j, n)].state # "fresh"
    <3>1. j \in 0 .. n-1 /\ ~(s <= j)
      BY <1>1, <2>4
    <3>2. QED
      BY <2>2, <3>1 DEF Unused, IsLive
  <2>6. \A i \in Find(t, n, k) : z <= i
    BY <1>3 DEF Ends
  <2>7. \A q \in LiveIn(t, n) : t[q].key # k
    BY <1>4, <2>1, <2>6, KeyBehind
  <2>8. QED
    BY <2>3, <2>4, <2>5, <2>7 DEF GoodPlace, MayTake
<1>7. QED
  BY <1>5, <1>6

(* So does set_data_add, which has no tombstones to look past. *)
LEMMA SetTargetGood ==
  ASSUME NEW t, NEW n, Grown(t, n), kind = "set", NEW k \in Keys
  PROVE  GoodPlace(t, n, k, Min(Unused(t, n, k) \cup Find(t, n, k)))
<1>1. n \in Nat \ {0} /\ IsTable(t, n) /\ NoTombs(t, n)
  BY DEF Grown, IsTable
<1>2. Unused(t, n, k) # {}
  <2>1. Cardinality(LiveIn(t, n)) < n
    BY DEF Grown
  <2>2. QED
    BY <1>1, <2>1, RoomLeft
<1>3. PICK U : U = Unused(t, n, k) \cup Find(t, n, k)
  OBVIOUS
<1>4. U \in SUBSET Nat /\ U # {}
  BY <1>1, <1>2, <1>3 DEF Find, Unused
<1>5. PICK s \in U : s = Min(U) /\ \A y \in U : s <= y
  BY <1>4, MinIs
<1>6. s \in 0 .. n-1
  BY <1>3, <1>5 DEF Find, Unused
<1>7. PICK p \in 0 .. n-1 : p = Place(k, s, n)
  BY <1>1, <1>6, PlaceIn
<1>8. ASSUME NEW j \in 0 .. s-1 PROVE t[Place(k, j, n)].state # "fresh"
  <2>1. j \in 0 .. n-1 /\ ~(s <= j)
    BY <1>1, <1>6
  <2>2. QED
    BY <1>3, <1>5, <2>1 DEF Unused, IsLive
<1>9. CASE s \in Find(t, n, k)
  <2>1. p \in LiveIn(t, n) /\ t[p].key = k
    BY <1>1, <1>7, <1>9, FindIs
  <2>2. ASSUME kind = "map" \/ holes = 0 PROVE \A q \in LiveIn(t, n) : t[q].key = k => q = p
    BY <2>1, <2>2 DEF Grown, Tidy, OnceIn
  <2>3. QED
    BY <1>3, <1>5, <1>6, <1>7, <1>8, <2>1, <2>2 DEF GoodPlace, MayTake
<1>10. CASE s \notin Find(t, n, k)
  <2>1. ~IsLive(t[p])
    BY <1>3, <1>5, <1>7, <1>10 DEF Unused
  <2>2. t[p].state = "fresh"
    BY <1>1, <1>7, <2>1 DEF IsTable, Slot, NoTombs, IsLive
  <2>3. ASSUME kind = "map" \/ holes = 0, NEW q \in LiveIn(t, n) PROVE t[q].key # k
    <3>1. Tidy(t, n)
      BY <2>3 DEF Grown
    <3>2. \A i \in Find(t, n, k) : s <= i
      BY <1>3, <1>5
    <3>3. QED
      BY <1>1, <1>6, <1>7, <2>2, <3>1, <3>2, KeyBehind
  <2>4. QED
    BY <1>3, <1>5, <1>6, <1>7, <1>8, <2>1, <2>3 DEF GoodPlace, MayTake
<1>11. QED
  BY <1>9, <1>10

-----------------------------------------------------------------------------
(* The operations keep the invariant.                                      *)

(* What a store does to the table and to the history variables *)
Writes(t, n, p, e) ==
  /\ capacity' = n /\ slots' = Stored(t, p, e)
  /\ count' = IF IsLive(t[p]) THEN count ELSE count + 1
  /\ size' = count' /\ lost' = FALSE
  /\ UNCHANGED <<kind, holes, index, again>>
  /\ ~resized' => n = capacity /\ ~resized /\ UNCHANGED <<present, due>>

(* StoreAt, as far as the invariant is concerned. *)
LEMMA StoreWrites ==
  ASSUME NEW t, NEW n, NEW s, NEW k, NEW v, StoreAt(t, n, s, k, v),
         UNCHANGED <<kind, iter, holes>>
  PROVE  Writes(t, n, Place(k, s, n), Entry(k, v))
BY DEF StoreAt, Writes, Stored, iter

(* set and add: a store in a slot that k may have keeps the invariant. *)
LEMMA StoreKeeps ==
  ASSUME TableInv, NEW t, NEW n, Grown(t, n), NEW k \in Keys,
         NEW v \in Values \cup {NoValue}, kind = "set" => v = NoValue,
         NEW s, GoodPlace(t, n, k, s), NEW e, e = Entry(k, v),
         Writes(t, n, Place(k, s, n), e)
  PROVE  TableInv'
<1>1. n \in Nat \ {0} /\ IsTable(t, n) /\ s \in 0 .. n-1
  BY DEF Grown, GoodPlace, IsTable
<1>2. PICK p \in 0 .. n-1 : p = Place(k, s, n)
  BY <1>1, PlaceIn
<1>3. Fits(e) /\ e.key = k /\ e.val = v
  BY EntryFits
<1>4. PICK u : u = Stored(t, p, e)
  OBVIOUS
<1>5. slots' = u /\ capacity' = n /\ kind' = kind /\ holes' = holes
  BY <1>2, <1>4 DEF Writes
<1>6. /\ IsTable(u, n) /\ u[p] = e /\ \A i \in 0 .. n-1 : i # p => u[i] = t[i]
      /\ LiveIn(u, n) = LiveIn(t, n) \cup {p}
  BY <1>1, <1>3, <1>4, StoreShape DEF OnlySlot
<1>7. LiveSlots' = LiveIn(u, n)
  BY <1>5 DEF LiveSlots, LiveIn
<1>8. count' = Cardinality(LiveSlots') /\ size' = count'
  <2>1. PICK c \in Nat : c = Cardinality(LiveIn(t, n)) /\ c = count
    BY <1>1, LiveFinite DEF Grown
  <2>2. Counted(t, u, n, p, c)
    BY <1>1, <1>3, <1>4, <2>1, StoreCount
  <2>3. count' = IF IsLive(t[p]) THEN c ELSE c + 1
    BY <1>2, <2>1 DEF Writes
  <2>4. size' = count'
    BY DEF Writes
  <2>5. QED
    BY <1>7, <2>2, <2>3, <2>4 DEF Counted
<1>9. ASSUME kind = "map" \/ holes = 0 PROVE Tidy(u, n)
  <2>1. OnceIn(t, n) /\ Reach(t, n)
    BY <1>9 DEF Grown, Tidy
  <2>2. /\ \A j \in 0 .. s-1 : t[Place(k, j, n)].state # "fresh"
        /\ \A q \in LiveIn(t, n) : t[q].key = k => q = p
    BY <1>2, <1>9 DEF GoodPlace
  <2>3. OnceIn(u, n)
    BY <1>1, <1>3, <1>4, <2>1, <2>2, StoreOnce
  <2>4. Reach(u, n)
    BY <1>1, <1>2, <1>3, <1>4, <2>1, <2>2, StoreReach
  <2>5. QED
    BY <2>3, <2>4 DEF Tidy
<1>10. ASSUME kind = "set" PROVE NoTombs(u, n) /\ \A i \in LiveIn(u, n) : u[i].val = NoValue
  <2>1. NoTombs(t, n) /\ \A i \in LiveIn(t, n) : t[i].val = NoValue
    <3>1. \A l \in LiveSlots : slots[l].val = NoValue
      BY <1>10 DEF TableInv, TableKept
    <3>2. QED
      BY <1>10, <3>1 DEF Grown
  <2>2. NoTombs(u, n)
    BY <1>3, <1>6, <2>1 DEF NoTombs, Fits
  <2>3. \A i \in LiveIn(t, n) : i \in 0 .. n-1
    BY DEF LiveIn
  <2>4. QED
    BY <1>3, <1>6, <1>10, <2>1, <2>2, <2>3
<1>11. TableKept'
  <2>1. kind' \in {"map", "set"} /\ holes' \in Nat
    BY <1>5 DEF TableInv, TableKept
  <2>2. kind' = "map" \/ holes' = 0 => Tidy(slots', capacity')
    BY <1>5, <1>9
  <2>3. kind' = "set" => NoTombs(slots', capacity') /\ \A i \in LiveSlots' : slots'[i].val = NoValue
    BY <1>5, <1>7, <1>10
  <2>4. IsTable(slots', capacity')
    BY <1>5, <1>6
  <2>5. QED
    BY <1>8, <2>1, <2>2, <2>3, <2>4 DEF TableKept
<1>12. IterKept'
  <2>1. index' = index /\ again' = again /\ index \in Int
    BY DEF Writes, TableInv, IterKept
  <2>2. SUFFICES ASSUME index >= 0, ~resized'
                 PROVE  /\ \A x \in due' : \E i \in LiveSlots' : i >= index /\ slots'[i].key = x
                        /\ \A x \in present' \ due' :
                             \E i \in LiveSlots' : i < index /\ slots'[i].key = x
                        /\ ~again
    BY <2>1 DEF IterKept
  <2>3. t = slots /\ n = capacity /\ ~resized /\ present' = present /\ due' = due
    BY <2>2 DEF Writes, Grown
  <2>4. /\ \A x \in due : \E i \in LiveSlots : i >= index /\ slots[i].key = x
        /\ \A x \in present \ due : \E i \in LiveSlots : i < index /\ slots[i].key = x
        /\ ~again
    BY <2>2, <2>3 DEF TableInv, IterKept
  <2>5. ASSUME NEW i \in LiveSlots PROVE i \in LiveSlots' /\ slots'[i].key = slots[i].key
    <3>1. i \in LiveIn(t, n) /\ i \in 0 .. n-1 /\ IsLive(t[i])
      BY <2>3, LiveIs DEF LiveIn
    <3>2. i = p => t[i].key = k
      BY <1>2, <3>1 DEF GoodPlace, MayTake
    <3>3. QED
      BY <1>3, <1>5, <1>6, <1>7, <2>3, <3>1, <3>2
  <2>6. QED
    BY <2>3, <2>4, <2>5
<1>13. LossNeedsTombs'
  BY DEF Writes, LossNeedsTombs
<1>14. QED
  BY <1>11, <1>12, <1>13 DEF TableInv

(* set and add store k with v in a slot that k may have. *)
Stores(k, v) ==
  \E t, n, s : Grown(t, n) /\ GoodPlace(t, n, k, s) /\ Writes(t, n, Place(k, s, n), Entry(k, v))

(* map_data_set does. *)
LEMMA MapSetStores ==
  ASSUME TableInv, NEW k \in Keys, NEW v \in Values, MapSet(k, v)
  PROVE  kind = "map" /\ Stores(k, v)
<1>1. PICK t, n : t = NewSlots /\ n = NewCapacity
  OBVIOUS
<1>2. Grown(t, n)
  BY <1>1, GrowFacts DEF TableInv
<1>3. kind = "map" /\ Ends(t, n, k) # {}
  BY <1>1 DEF MapSet
<1>4. PICK s : s = MapTarget(t, n, k)
  OBVIOUS
<1>5. GoodPlace(t, n, k, s)
  <2>1. IsTable(t, n) /\ Tidy(t, n)
    BY <1>2, <1>3 DEF Grown
  <2>2. QED
    BY <1>3, <1>4, <2>1, MapTargetGood
<1>6. StoreAt(t, n, s, k, v) /\ UNCHANGED <<kind, iter, holes>>
  BY <1>1, <1>4 DEF MapSet
<1>7. Writes(t, n, Place(k, s, n), Entry(k, v))
  BY <1>6, StoreWrites
<1>8. QED
  BY <1>2, <1>3, <1>5, <1>7 DEF Stores

(* set_data_add does. *)
LEMMA SetAddStores ==
  ASSUME TableInv, NEW k \in Keys, SetAdd(k)
  PROVE  kind = "set" /\ Stores(k, NoValue)
<1>1. PICK t, n : t = NewSlots /\ n = NewCapacity
  OBVIOUS
<1>2. Grown(t, n)
  BY <1>1, GrowFacts DEF TableInv
<1>3. PICK s : s = Min(Unused(t, n, k) \cup Find(t, n, k))
  OBVIOUS
<1>4. kind = "set" /\ StoreAt(t, n, s, k, NoValue) /\ UNCHANGED <<kind, iter, holes>>
  BY <1>1, <1>3 DEF SetAdd
<1>5. GoodPlace(t, n, k, s)
  BY <1>2, <1>3, <1>4, SetTargetGood
<1>6. Writes(t, n, Place(k, s, n), Entry(k, NoValue))
  BY <1>4, StoreWrites
<1>7. QED
  BY <1>2, <1>4, <1>5, <1>6 DEF Stores

(* Both keep the invariant. *)
LEMMA StoresKeeps ==
  ASSUME TableInv, NEW k \in Keys, NEW v \in Values \cup {NoValue},
         kind = "set" => v = NoValue, Stores(k, v)
  PROVE  TableInv'
<1>1. PICK t, n, s : /\ Grown(t, n) /\ GoodPlace(t, n, k, s)
                     /\ Writes(t, n, Place(k, s, n), Entry(k, v))
  BY DEF Stores
<1>2. QED
  BY <1>1, StoreKeeps

(* A step that leaves the table and the iterator alone keeps the rest. *)
LEMMA StillKept ==
  ASSUME TableInv, UNCHANGED <<table, iter, track, holes>>
  PROVE  TableKept' /\ IterKept' /\ (MustGrow' <=> MustGrow)
<1>1. UNCHANGED <<kind, slots, capacity, count, size, index, again, present, due, resized, holes>>
  BY DEF table, iter, track
<1>2. TableKept'
  BY <1>1 DEF TableInv, TableKept, IsTable, LiveSlots, Tidy, OnceIn, LiveIn, Reach, NoTombs
<1>3. IterKept'
  BY <1>1 DEF TableInv, IterKept, LiveSlots
<1>4. QED
  BY <1>1, <1>2, <1>3 DEF MustGrow

(* A set that finds no slot: the table was not doubled, or the new one     *)
(* would have a free slot; so every slot is in use or a tombstone.         *)
LEMMA MapSetRefusedKeeps ==
  ASSUME TableInv, NEW k \in Keys, MapSetRefused(k)
  PROVE  TableInv'
<1>1. UNCHANGED <<table, iter, track, holes>>
  BY DEF MapSetRefused
<1>2. PICK t, n : t = NewSlots /\ n = NewCapacity
  OBVIOUS
<1>3. Grown(t, n) /\ Ends(t, n, k) = {}
  BY <1>2, GrowFacts DEF TableInv, MapSetRefused
<1>4. IsTable(t, n) /\ n \in Nat \ {0} /\ Cardinality(LiveIn(t, n)) < n
  BY <1>3 DEF Grown, IsTable
<1>5. ~MustGrow
  <2>1. SUFFICES ASSUME NoTombs(t, n) PROVE FALSE
    BY <1>3 DEF Grown
  <2>2. PICK i : i \in Unused(t, n, k)
    BY <1>4, RoomLeft
  <2>3. i \in 0 .. n-1 /\ ~IsLive(t[Place(k, i, n)])
    BY <2>2 DEF Unused
  <2>4. PICK p \in 0 .. n-1 : p = Place(k, i, n)
    BY <1>4, <2>3, PlaceIn
  <2>5. t[p].state = "fresh"
    BY <1>4, <2>1, <2>3, <2>4 DEF IsTable, Slot, NoTombs, IsLive
  <2>6. QED
    BY <1>3, <2>3, <2>4, <2>5 DEF Ends
<1>6. t = slots /\ n = capacity
  BY <1>3, <1>5 DEF Grown
<1>7. ASSUME NEW p \in 0 .. n-1 PROVE t[p].state # "fresh"
  <2>1. PICK i \in 0 .. n-1 : Place(k, i, n) = p
    BY <1>4, PlaceAll
  <2>2. QED
    BY <1>3, <2>1 DEF Ends
<1>8. slots' = slots /\ capacity' = capacity
  BY <1>1 DEF table
<1>9. LossNeedsTombs'
  BY <1>6, <1>7, <1>8 DEF LossNeedsTombs
<1>10. QED
  BY <1>1, <1>9, StillKept DEF TableInv

(* A failed resize changes nothing. *)
LEMMA GrowFailsKeeps ==
  ASSUME TableInv, NEW k \in Keys, GrowFails(k)
  PROVE  TableInv'
<1>1. UNCHANGED <<table, iter, track, holes>> /\ MemoryFails /\ MustGrow
  BY DEF GrowFails
<1>2. TableKept' /\ IterKept' /\ MustGrow'
  BY <1>1, StillKept
<1>3. QED
  BY <1>1, <1>2 DEF TableInv, LossNeedsTombs

(* delete: the slot p that held k holds e, which is not live. *)
Drops(k, p, e) ==
  /\ p \in LiveSlots /\ slots[p].key = k /\ slots' = Stored(slots, p, e)
  /\ e \in Slot /\ ~IsLive(e)
  /\ count' = count - 1 /\ size' = count' /\ Forget(k) /\ lost' = FALSE
  /\ UNCHANGED <<kind, capacity, index, again, resized>>

(* A search that finds k ends at a slot of k. *)
LEMMA FirstFound ==
  ASSUME TableKept, NEW k \in Keys, Find(slots, capacity, k) # {},
         NEW p, p = Place(k, Min(Find(slots, capacity, k)), capacity)
  PROVE  p \in LiveSlots /\ slots[p].key = k
<1>1. capacity \in Nat \ {0}
  BY DEF TableKept, IsTable
<1>2. Find(slots, capacity, k) \in SUBSET Nat
  BY <1>1 DEF Find
<1>3. Min(Find(slots, capacity, k)) \in Find(slots, capacity, k)
  BY <1>2, MinIs
<1>4. QED
  BY <1>1, <1>3, FindIs, LiveIs

(* map_data_delete leaves a tombstone. *)
LEMMA MapDeleteDrops ==
  ASSUME TableInv, NEW k \in Keys, MapDelete(k)
  PROVE  kind = "map" /\ holes' = holes /\ \E p : Drops(k, p, Tomb)
<1>1. PICK p : p = Place(k, Min(Find(slots, capacity, k)), capacity)
  OBVIOUS
<1>2. p \in LiveSlots /\ slots[p].key = k
  BY <1>1, FirstFound DEF MapDelete, TableInv
<1>3. Tomb \in Slot /\ ~IsLive(Tomb)
  BY DEF Tomb, Free, Slot, IsLive
<1>4. kind = "map" /\ holes' = holes /\ Drops(k, p, Tomb)
  BY <1>1, <1>2, <1>3 DEF MapDelete, Drops, Stored, iter
<1>5. QED
  BY <1>4

(* set_data_delete leaves a slot like a free one. *)
LEMMA SetDeleteDrops ==
  ASSUME TableInv, NEW k \in Keys, SetDelete(k)
  PROVE  kind = "set" /\ holes' = holes + 1 /\ \E p : Drops(k, p, Free)
<1>1. PICK p : p = Place(k, Min(Find(slots, capacity, k)), capacity)
  OBVIOUS
<1>2. p \in LiveSlots /\ slots[p].key = k
  BY <1>1, FirstFound DEF SetDelete, TableInv
<1>3. Free \in Slot /\ ~IsLive(Free)
  BY DEF Free, Slot, IsLive
<1>4. kind = "set" /\ holes' = holes + 1 /\ Drops(k, p, Free)
  BY <1>1, <1>2, <1>3 DEF SetDelete, Drops, Stored, iter
<1>5. QED
  BY <1>4

(* The slots after a delete *)
LEMMA DropShape ==
  ASSUME TableInv, NEW k, NEW p, NEW e, Drops(k, p, e)
  PROVE  /\ p \in 0 .. capacity-1 /\ capacity' = capacity
         /\ slots'[p] = e /\ \A i \in 0 .. capacity-1 : i # p => slots'[i] = slots[i]
         /\ LiveSlots' = LiveSlots \ {p}
         /\ IsTable(slots', capacity)
<1>1. /\ p \in LiveSlots /\ slots' = Stored(slots, p, e) /\ capacity' = capacity
      /\ e \in Slot /\ ~IsLive(e)
  BY DEF Drops
<1>2. IsTable(slots, capacity) /\ p \in 0 .. capacity-1
  BY <1>1 DEF TableInv, TableKept, LiveSlots
<1>3. slots'[p] = e /\ \A i \in 0 .. capacity-1 : i # p => slots'[i] = slots[i]
  BY <1>1, <1>2 DEF IsTable, Stored
<1>4. LiveSlots' = LiveSlots \ {p}
  BY <1>1, <1>2, <1>3 DEF LiveSlots
<1>5. IsTable(slots', capacity)
  <2>1. slots' \in [0 .. capacity-1 -> Slot]
    BY <1>1, <1>2 DEF IsTable, Stored
  <2>2. \A i \in 0 .. capacity-1 : IsLive(slots'[i]) => slots'[i].key \in Keys
    BY <1>1, <1>2, <1>3 DEF IsTable
  <2>3. QED
    BY <1>2, <2>1, <2>2 DEF IsTable
<1>6. QED
  BY <1>1, <1>2, <1>3, <1>4, <1>5

(* The part of the invariant that does not depend on what is left in the slot *)
LEMMA DropKeeps ==
  ASSUME TableInv, NEW k, NEW p, NEW e, Drops(k, p, e)
  PROVE  /\ count' = Cardinality(LiveSlots') /\ size' = count'
         /\ IterKept' /\ LossNeedsTombs'
<1>1. /\ p \in 0 .. capacity-1 /\ capacity' = capacity
      /\ slots'[p] = e /\ \A i \in 0 .. capacity-1 : i # p => slots'[i] = slots[i]
      /\ LiveSlots' = LiveSlots \ {p}
  BY DropShape
<1>2. p \in LiveSlots /\ slots[p].key = k /\ count' = count - 1 /\ size' = count' /\ lost' = FALSE
  BY DEF Drops
<1>3. count' = Cardinality(LiveSlots')
  <2>1. IsFiniteSet(LiveSlots) /\ count = Cardinality(LiveSlots)
    BY LiveIs, LiveFinite DEF TableInv, TableKept, IsTable
  <2>2. Cardinality(LiveSlots \ {p}) = Cardinality(LiveSlots) - 1
    BY <1>2, <2>1, FS_RemoveElement
  <2>3. QED
    BY <1>1, <1>2, <2>1, <2>2
<1>4. IterKept'
  <2>1. /\ index' = index /\ again' = again /\ index \in Int /\ resized' = resized
        /\ present' = present \ {k} /\ due' = due \ {k}
    BY DEF Drops, TableInv, IterKept, Forget
  <2>2. SUFFICES ASSUME index >= 0, ~resized
                 PROVE  /\ \A x \in due' : \E i \in LiveSlots' : i >= index /\ slots'[i].key = x
                        /\ \A x \in present' \ due' :
                             \E i \in LiveSlots' : i < index /\ slots'[i].key = x
                        /\ ~again
    BY <2>1 DEF IterKept
  <2>3. /\ \A x \in due : \E i \in LiveSlots : i >= index /\ slots[i].key = x
        /\ \A x \in present \ due : \E i \in LiveSlots : i < index /\ slots[i].key = x
        /\ ~again
    BY <2>2 DEF TableInv, IterKept
  <2>4. ASSUME NEW i \in LiveSlots, slots[i].key # k
        PROVE  i \in LiveSlots' /\ slots'[i].key = slots[i].key
    BY <1>1, <1>2, <2>4 DEF LiveSlots
  <2>5. QED
    BY <2>1, <2>3, <2>4
<1>5. QED
  BY <1>2, <1>3, <1>4 DEF LossNeedsTombs

(* A tombstone keeps the later keys of a probe sequence in reach. *)
LEMMA MapDeleteKeeps ==
  ASSUME TableInv, NEW k \in Keys, MapDelete(k)
  PROVE  TableInv'
<1>1. PICK p : kind = "map" /\ holes' = holes /\ Drops(k, p, Tomb)
  BY MapDeleteDrops
<1>2. /\ p \in 0 .. capacity-1 /\ capacity' = capacity
      /\ slots'[p] = Tomb /\ \A i \in 0 .. capacity-1 : i # p => slots'[i] = slots[i]
      /\ LiveSlots' = LiveSlots \ {p} /\ IsTable(slots', capacity)
  BY <1>1, DropShape
<1>3. kind' = kind /\ holes \in Nat /\ Tidy(slots, capacity) /\ capacity \in Nat \ {0}
  BY <1>1 DEF Drops, TableInv, TableKept, IsTable
<1>4. OnceIn(slots', capacity)
  <2>1. LiveIn(slots', capacity) = LiveIn(slots, capacity) \ {p}
    BY <1>2 DEF LiveSlots, LiveIn
  <2>2. \A i \in LiveIn(slots', capacity) : slots'[i] = slots[i]
    BY <1>2, <2>1 DEF LiveIn
  <2>3. QED
    BY <1>3, <2>1, <2>2 DEF Tidy, OnceIn
<1>5. Reach(slots', capacity)
  <2>1. SUFFICES ASSUME NEW x \in Keys, NEW a \in 0 .. capacity-1,
                        Holds(slots'[Place(x, a, capacity)], x), NEW j \in 0 .. a-1
                 PROVE  slots'[Place(x, j, capacity)].state # "fresh"
    BY DEF Reach
  <2>2. /\ j \in 0 .. capacity-1 /\ Place(x, j, capacity) \in 0 .. capacity-1
        /\ Place(x, a, capacity) \in 0 .. capacity-1
    BY <1>3, <2>1, PlaceIn
  <2>3. Tomb.state = "tomb"
    BY DEF Tomb, Free
  <2>4. Place(x, a, capacity) # p
    BY <1>2, <2>1, <2>3 DEF Holds, IsLive
  <2>5. slots[Place(x, j, capacity)].state # "fresh"
    BY <1>2, <1>3, <2>1, <2>2, <2>4 DEF Tidy, Reach
  <2>6. QED
    BY <1>2, <2>2, <2>3, <2>5
<1>6. TableKept'
  <2>1. count' = Cardinality(LiveSlots') /\ size' = count'
    BY <1>1, DropKeeps
  <2>2. QED
    BY <1>1, <1>2, <1>3, <1>4, <1>5, <2>1 DEF TableKept, Tidy
<1>7. QED
  BY <1>1, <1>6, DropKeeps DEF TableInv

(* A Set that has lost an entry may hold a value twice from now on. *)
LEMMA SetDeleteKeeps ==
  ASSUME TableInv, NEW k \in Keys, SetDelete(k)
  PROVE  TableInv'
<1>1. PICK p : kind = "set" /\ holes' = holes + 1 /\ Drops(k, p, Free)
  BY SetDeleteDrops
<1>2. /\ p \in 0 .. capacity-1 /\ capacity' = capacity
      /\ slots'[p] = Free /\ \A i \in 0 .. capacity-1 : i # p => slots'[i] = slots[i]
      /\ LiveSlots' = LiveSlots \ {p} /\ IsTable(slots', capacity)
  BY <1>1, DropShape
<1>3. /\ kind' = kind /\ holes \in Nat /\ NoTombs(slots, capacity)
      /\ \A i \in LiveSlots : slots[i].val = NoValue
  BY <1>1 DEF Drops, TableInv, TableKept
<1>4. holes' # 0 /\ holes' \in Nat
  BY <1>1, <1>3
<1>5. NoTombs(slots', capacity)
  BY <1>2, <1>3 DEF NoTombs, Free
<1>6. \A i \in LiveSlots' : slots'[i].val = NoValue
  BY <1>2, <1>3 DEF LiveSlots
<1>7. TableKept'
  <2>1. count' = Cardinality(LiveSlots') /\ size' = count'
    BY <1>1, DropKeeps
  <2>2. QED
    BY <1>1, <1>2, <1>3, <1>4, <1>5, <1>6, <2>1 DEF TableKept
<1>8. QED
  BY <1>1, <1>7, DropKeeps DEF TableInv

(* The slots after clear *)
LEMMA ClearShape ==
  ASSUME TableInv, Clear
  PROVE  /\ slots' \in [0 .. capacity-1 -> Slot]
         /\ \A i \in 0 .. capacity-1 : /\ ~IsLive(slots'[i])
                                       /\ slots'[i].state = "tomb" => slots[i].state = "tomb"
<1>1. slots \in [0 .. capacity-1 -> Slot]
  BY DEF TableInv, TableKept, IsTable
<1>2. Free \in Slot /\ Free.state = "fresh"
  BY DEF Free, Slot
<1>3. slots' = [i \in 0 .. capacity-1 |-> IF IsLive(slots[i]) THEN Free ELSE slots[i]]
  BY <1>1 DEF Clear
<1>4. QED
  BY <1>1, <1>2, <1>3 DEF IsLive

(* clear leaves no live slot; the tombstones stay. *)
LEMMA ClearKeeps ==
  ASSUME TableInv, Clear
  PROVE  TableInv'
<1>1. /\ slots' \in [0 .. capacity-1 -> Slot]
      /\ \A i \in 0 .. capacity-1 : /\ ~IsLive(slots'[i])
                                    /\ slots'[i].state = "tomb" => slots[i].state = "tomb"
  BY ClearShape
<1>2. /\ capacity' = capacity /\ kind' = kind /\ holes' = holes /\ count' = 0 /\ size' = 0
      /\ present' = {} /\ due' = {} /\ lost' = FALSE /\ resized' = resized
      /\ index' = index /\ again' = again
  BY DEF Clear, iter
<1>3. LiveSlots' = {} /\ LiveIn(slots', capacity) = {}
  BY <1>1, <1>2 DEF LiveSlots, LiveIn
<1>4. capacity \in Nat \ {0} /\ kind \in {"map", "set"} /\ holes \in Nat
  BY DEF TableInv, TableKept, IsTable
<1>5. IsTable(slots', capacity)
  BY <1>1, <1>4 DEF IsTable
<1>6. Tidy(slots', capacity)
  <2>1. ASSUME NEW x \in Keys, NEW i \in 0 .. capacity-1
        PROVE  ~Holds(slots'[Place(x, i, capacity)], x)
    <3>1. Place(x, i, capacity) \in 0 .. capacity-1
      BY <1>4, PlaceIn
    <3>2. QED
      BY <1>1, <3>1 DEF Holds
  <2>2. QED
    BY <1>3, <2>1 DEF Tidy, OnceIn, Reach
<1>7. kind = "set" => NoTombs(slots', capacity)
  BY <1>1 DEF NoTombs, TableInv, TableKept
<1>8. TableKept'
  <2>1. Cardinality({}) = 0
    BY FS_EmptySet
  <2>2. QED
    BY <1>2, <1>3, <1>4, <1>5, <1>6, <1>7, <2>1 DEF TableKept
<1>9. IterKept' /\ LossNeedsTombs'
  BY <1>2 DEF TableInv, IterKept, LossNeedsTombs
<1>10. QED
  BY <1>8, <1>9 DEF TableInv

(* The keys in the table are those of its live slots. *)
LEMMA KeysAre ==
  ASSUME NEW t, NEW n, IsTable(t, n)
  PROVE  \A x : x \in KeysIn(t) <=> \E i \in LiveIn(t, n) : t[i].key = x
<1>1. DOMAIN t = 0 .. n-1
  BY DEF IsTable
<1>2. {j \in DOMAIN t : IsLive(t[j])} = LiveIn(t, n)
  BY <1>1 DEF LiveIn
<1>3. QED
  BY <1>2 DEF KeysIn

(* A step of the iterator leaves the table alone. *)
LEMMA TableStays ==
  ASSUME TableInv, UNCHANGED <<table, holes>>
  PROVE  TableKept' /\ LiveSlots' = LiveSlots
<1>1. UNCHANGED <<kind, slots, capacity, count, size, holes>>
  BY DEF table
<1>2. QED
  BY <1>1 DEF TableInv, TableKept, IsTable, LiveSlots, Tidy, OnceIn, LiveIn, Reach, NoTombs

(* A new iterator owes every key of the table. *)
LEMMA IterNewKeeps ==
  ASSUME TableInv, IterNew
  PROVE  TableInv'
<1>1. TableKept' /\ LiveSlots' = LiveSlots /\ slots' = slots
  BY TableStays DEF IterNew, table
<1>2. index' = 0 /\ again' = FALSE /\ due' = present' /\ present' = KeysIn(slots) /\ lost' = FALSE
  BY DEF IterNew
<1>3. \A x \in due' : \E i \in LiveSlots : slots[i].key = x
  BY <1>2, KeysAre, LiveIs DEF TableInv, TableKept
<1>4. \A i \in LiveSlots : i >= 0
  BY DEF LiveSlots
<1>5. IterKept'
  BY <1>1, <1>2, <1>3, <1>4 DEF IterKept
<1>6. QED
  BY <1>1, <1>2, <1>5 DEF TableInv, LossNeedsTombs

(* The next live slot is the first one ahead. *)
LEMMA IterNextKeeps ==
  ASSUME TableInv, IterNext
  PROVE  TableInv'
<1>1. TableKept' /\ LiveSlots' = LiveSlots /\ slots' = slots
  BY TableStays DEF IterNext, table
<1>2. /\ index >= 0 /\ index \in Int /\ capacity \in Nat /\ lost' = FALSE
      /\ present' = present /\ resized' = resized
  BY DEF IterNext, TableInv, IterKept, TableKept, IsTable
<1>3. \A i : i \in LiveFrom(index) <=> i \in LiveSlots /\ i >= index
  BY <1>2 DEF LiveFrom, LiveSlots
<1>4. /\ ~resized =>
           /\ \A x \in due : \E i \in LiveSlots : i >= index /\ slots[i].key = x
           /\ \A x \in present \ due : \E i \in LiveSlots : i < index /\ slots[i].key = x
           /\ ~again
  BY <1>2 DEF TableInv, IterKept
<1>5. \A i \in LiveSlots : i \in Nat
  BY DEF LiveSlots
<1>6. CASE LiveFrom(index) # {}
  <2>1. PICK j \in LiveFrom(index) : j = Min(LiveFrom(index)) /\ \A i \in LiveFrom(index) : j <= i
    <3>1. LiveFrom(index) \in SUBSET Nat
      BY <1>3, <1>5
    <3>2. QED
      BY <1>6, <3>1, MinIs
  <2>2. PICK k : k = slots[j].key
    OBVIOUS
  <2>3. /\ index' = j + 1 /\ due' = due \ {k}
        /\ again' = (again \/ (k \in present \ due /\ Once))
    BY <1>6, <2>1, <2>2 DEF IterNext
  <2>4. j \in LiveSlots /\ j >= index /\ j \in Nat
    BY <1>3, <1>5, <2>1
  <2>5. ASSUME ~resized, NEW x \in due \ {k}
        PROVE  \E i \in LiveSlots : i >= j + 1 /\ slots[i].key = x
    <3>1. PICK i \in LiveSlots : i >= index /\ slots[i].key = x
      BY <1>4, <2>5
    <3>2. j <= i /\ i # j /\ i \in Nat
      BY <1>3, <1>5, <2>1, <2>2, <3>1
    <3>3. QED
      BY <2>4, <3>1, <3>2
  <2>6. ASSUME ~resized, NEW x \in present \ due'
        PROVE  \E i \in LiveSlots : i < j + 1 /\ slots[i].key = x
    <3>1. CASE x = k
      BY <2>2, <2>4, <3>1
    <3>2. CASE x # k
      <4>1. PICK i \in LiveSlots : i < index /\ slots[i].key = x
        BY <1>4, <2>3, <2>6, <3>2
      <4>2. i < j + 1
        BY <1>2, <1>5, <2>4, <4>1
      <4>3. QED
        BY <4>1, <4>2
    <3>3. QED
      BY <3>1, <3>2
  <2>7. ASSUME ~resized PROVE ~(k \in present \ due /\ Once)
    <3>1. SUFFICES ASSUME k \in present \ due, Once PROVE FALSE
      OBVIOUS
    <3>2. PICK i \in LiveSlots : i < index /\ slots[i].key = k
      BY <1>4, <2>7, <3>1
    <3>3. i = j
      BY <2>2, <2>4, <3>1, <3>2 DEF Once
    <3>4. QED
      BY <1>2, <2>4, <3>2, <3>3
  <2>8. IterKept'
    <3>1. ASSUME ~resized PROVE ~again'
      BY <1>4, <2>3, <2>7, <3>1, Zenon
    <3>2. index' \in Int
      BY <2>3, <2>4
    <3>3. ASSUME ~resized, NEW x \in due'
          PROVE  \E i \in LiveSlots' : i >= index' /\ slots'[i].key = x
      BY <1>1, <2>3, <2>5, <3>3
    <3>4. ASSUME ~resized, NEW x \in present' \ due'
          PROVE  \E i \in LiveSlots' : i < index' /\ slots'[i].key = x
      BY <1>1, <1>2, <2>3, <2>6, <3>4
    <3>5. QED
      BY <1>2, <3>1, <3>2, <3>3, <3>4 DEF IterKept
  <2>9. QED
    BY <1>1, <1>2, <2>8 DEF TableInv, LossNeedsTombs
<1>7. CASE LiveFrom(index) = {}
  <2>1. index' = Max({index, capacity}) /\ due' = due /\ again' = again
    BY <1>6, <1>7 DEF IterNext
  <2>2. index' \in Int /\ index <= index'
    <3>1. \E z \in {index, capacity} : \A y \in {index, capacity} : z >= y
      BY <1>2
    <3>2. /\ Max({index, capacity}) \in {index, capacity}
          /\ \A y \in {index, capacity} : Max({index, capacity}) >= y
      BY <3>1 DEF Max
    <3>3. QED
      BY <1>2, <2>1, <3>2
  <2>3. ~resized => due = {}
    BY <1>3, <1>4, <1>7
  <2>4. ASSUME ~resized, NEW x \in present \ due
        PROVE  \E i \in LiveSlots : i < index' /\ slots[i].key = x
    <3>1. PICK i \in LiveSlots : i < index /\ slots[i].key = x
      BY <1>4, <2>4
    <3>2. QED
      BY <1>2, <1>5, <2>2, <3>1
  <2>5. IterKept'
    BY <1>1, <1>2, <1>4, <2>1, <2>2, <2>3, <2>4 DEF IterKept
  <2>6. QED
    BY <1>1, <1>2, <2>5 DEF TableInv, LossNeedsTombs
<1>8. QED
  BY <1>6, <1>7

(* A new table is empty. *)
LEMMA InitKeeps ==
  ASSUME Init
  PROVE  TableInv
<1>1. PICK n \in Nat \ {0} : n = capacity /\ slots = EmptyTable(n)
  BY TableAssumption DEF Init, EmptyTable
<1>2. MovedInto(slots, n, slots, 0)
  BY <1>1, MoveFirst
<1>3. LiveIn(slots, 0) = {}
  BY DEF LiveIn
<1>4. LiveSlots = {} /\ IsTable(slots, n) /\ NoTombs(slots, n) /\ Tidy(slots, n)
  <2>1. LiveIn(slots, n) = {}
    BY <1>2, <1>3 DEF MovedInto
  <2>2. OnceIn(slots, n)
    BY <2>1 DEF OnceIn
  <2>3. QED
    BY <1>1, <1>2, <2>1, <2>2, LiveIs DEF MovedInto, Tidy
<1>5. count = Cardinality(LiveSlots)
  <2>1. Cardinality({}) = 0
    BY FS_EmptySet
  <2>2. QED
    BY <1>4, <2>1 DEF Init
<1>6. TableKept
  BY <1>1, <1>4, <1>5 DEF Init, TableKept
<1>7. IterKept /\ LossNeedsTombs
  BY DEF Init, IterKept, LossNeedsTombs
<1>8. QED
  BY <1>6, <1>7 DEF TableInv

(* Every step keeps the invariant. *)
LEMMA NextKeeps ==
  ASSUME TableInv, [Next]_vars
  PROVE  TableInv'
<1>1. ASSUME NEW k \in Keys, NEW v \in Values, MapSet(k, v) PROVE TableInv'
  BY <1>1, MapSetStores, StoresKeeps
<1>2. ASSUME NEW k \in Keys, SetAdd(k) PROVE TableInv'
  BY <1>2, SetAddStores, StoresKeeps
<1>3. ASSUME NEW k \in Keys, MapSetRefused(k) \/ MapDelete(k) \/ SetDelete(k) \/ GrowFails(k)
      PROVE  TableInv'
  BY <1>3, MapSetRefusedKeeps, MapDeleteKeeps, SetDeleteKeeps, GrowFailsKeeps
<1>4. ASSUME Clear \/ IterNew \/ IterNext PROVE TableInv'
  BY <1>4, ClearKeeps, IterNewKeeps, IterNextKeeps
<1>5. CASE UNCHANGED vars
  <2>1. UNCHANGED <<table, iter, track, holes>> /\ lost' = lost
    BY <1>5 DEF vars
  <2>2. slots' = slots /\ capacity' = capacity
    BY <2>1 DEF table
  <2>3. LossNeedsTombs'
    BY <2>1, <2>2, StillKept DEF LossNeedsTombs, TableInv
  <2>4. QED
    BY <2>1, <2>3, StillKept DEF TableInv
<1>6. QED
  BY <1>1, <1>2, <1>3, <1>4, <1>5 DEF Next

(* The inductive invariant: the state that the operations of lr_map.c and  *)
(* lr_set.c leave behind.                                                  *)
THEOREM TableInvariant == Spec => []TableInv
<1>1. Init => TableInv
  BY InitKeeps
<1>2. TableInv /\ [Next]_vars => TableInv'
  BY NextKeeps
<1>3. QED
  BY <1>1, <1>2, PTL DEF Spec

(* count and size stay the number of live slots, and no key of a Map has   *)
(* two, whatever was deleted, reused or rehashed: map_data_set,            *)
(* map_data_delete and map_data_resize for every hash function.            *)
THEOREM TableKeptSound == Spec => []TableSound
<1>1. TableInv => TableSound
  <2>1. SUFFICES ASSUME TableInv PROVE TableSound
    OBVIOUS
  <2>2. kind = "map" \/ holes = 0 => Once
    BY <2>1, LiveIs DEF TableInv, TableKept, Tidy, OnceIn, Once
  <2>3. QED
    BY <2>1, <2>2 DEF TableInv, TableKept, TableSound
<1>2. QED
  BY <1>1, TableInvariant, PTL

(* map_data_set gives up only if calloc failed or every slot is in use or  *)
(* a tombstone: never because of a table it has just doubled.              *)
THEOREM LossExplained == Spec => []LossNeedsTombs
<1>1. TableInv => LossNeedsTombs
  BY DEF TableInv
<1>2. QED
  BY <1>1, TableInvariant, PTL

(* An iteration (map_iterator_next, set_iterator_next) returns every key   *)
(* that stays in the table, and none twice, unless the table is doubled.   *)
THEOREM IterationKept == Spec => []IterVisitsOnce
<1>1. TableInv => IterVisitsOnce
  <2>1. SUFFICES ASSUME TableInv, index >= 0, ~resized
                 PROVE  ~again /\ (index >= capacity => due = {})
    BY DEF IterVisitsOnce
  <2>2. ~again /\ \A x \in due : \E i \in LiveSlots : i >= index /\ slots[i].key = x
    BY <2>1 DEF TableInv, IterKept
  <2>3. \A i \in LiveSlots : i \in 0 .. capacity-1
    BY DEF LiveSlots
  <2>4. capacity \in Nat /\ index \in Int
    BY <2>1 DEF TableInv, TableKept, IsTable, IterKept
  <2>5. QED
    BY <2>2, <2>3, <2>4
<1>2. QED
  BY <1>1, TableInvariant, PTL

-----------------------------------------------------------------------------
(* The table implements a dictionary.                                      *)

(* Contents of a table t of n slots *)
ContentsOf(t, n) == [k \in KeysIn(t) |-> t[Place(k, Min(Find(t, n, k)), n)].val]

(* Contents is that of the table. *)
LEMMA ContentsAre == Contents = ContentsOf(slots, capacity)
BY DEF Contents, ContentsOf

(* Two slots of one key agree on its value. *)
Consistent(t, n) ==
  \A i, j \in LiveIn(t, n) : t[i].key = t[j].key => t[i].val = t[j].val

(* f is what is stored in t. *)
IsContents(f, t, n) ==
  /\ f = [x \in KeysIn(t) |-> f[x]]
  /\ \A x : x \in KeysIn(t) <=> \E i \in LiveIn(t, n) : t[i].key = x
  /\ \A i \in LiveIn(t, n) : f[t[i].key] = t[i].val

(* A Map has one slot for each key, and the values of a Set are all alike. *)
LEMMA KeptConsistent ==
  ASSUME TableKept
  PROVE  IsTable(slots, capacity) /\ Consistent(slots, capacity)
<1>1. IsTable(slots, capacity) /\ kind \in {"map", "set"}
  BY DEF TableKept
<1>2. CASE kind = "map"
  BY <1>1, <1>2 DEF TableKept, Tidy, OnceIn, Consistent
<1>3. CASE kind = "set"
  BY <1>1, <1>3, LiveIs DEF TableKept, Consistent
<1>4. QED
  BY <1>1, <1>2, <1>3

(* What get finds is the value of any slot of the key. *)
LEMMA Reads ==
  ASSUME NEW t, NEW n, IsTable(t, n), Consistent(t, n)
  PROVE  IsContents(ContentsOf(t, n), t, n)
<1>1. n \in Nat \ {0}
  BY DEF IsTable
<1>2. \A x : x \in KeysIn(t) <=> \E i \in LiveIn(t, n) : t[i].key = x
  BY KeysAre
<1>3. ASSUME NEW i \in LiveIn(t, n) PROVE ContentsOf(t, n)[t[i].key] = t[i].val
  <2>1. PICK k : k = t[i].key
    OBVIOUS
  <2>2. k \in Keys /\ k \in KeysIn(t)
    BY <1>2, <2>1 DEF IsTable, LiveIn
  <2>3. Find(t, n, k) \in SUBSET Nat /\ Find(t, n, k) # {}
    BY <1>1, <2>1, <2>2, FindIs DEF Find
  <2>4. Min(Find(t, n, k)) \in Find(t, n, k)
    BY <2>3, MinIs
  <2>5. PICK p \in LiveIn(t, n) : p = Place(k, Min(Find(t, n, k)), n) /\ t[p].key = k
    BY <1>1, <2>2, <2>4, FindIs
  <2>6. ContentsOf(t, n)[k] = t[p].val
    BY <2>2, <2>5 DEF ContentsOf
  <2>7. QED
    BY <2>1, <2>5, <2>6 DEF Consistent
<1>4. ContentsOf(t, n) = [x \in KeysIn(t) |-> ContentsOf(t, n)[x]]
  BY DEF ContentsOf
<1>5. QED
  BY <1>2, <1>3, <1>4 DEF IsContents

(* Before and after a step *)
LEMMA ContentsNow ==
  ASSUME TableKept
  PROVE  IsContents(Contents, slots, capacity)
BY KeptConsistent, Reads, ContentsAre

(* Contents after the step *)
LEMMA ContentsThen ==
  ASSUME TableKept'
  PROVE  IsContents(Contents', slots', capacity')
<1>1. IsTable(slots', capacity') /\ Consistent(slots', capacity')
  <2>1. IsTable(slots', capacity') /\ kind' \in {"map", "set"}
    BY DEF TableKept
  <2>2. CASE kind' = "map"
    BY <2>1, <2>2 DEF TableKept, Tidy, OnceIn, Consistent
  <2>3. CASE kind' = "set"
    <3>1. LiveSlots' = LiveIn(slots', capacity')
      BY DEF LiveSlots, LiveIn
    <3>2. QED
      BY <2>1, <2>3, <3>1 DEF TableKept, Consistent
  <2>4. QED
    BY <2>1, <2>2, <2>3
<1>2. Contents' = ContentsOf(slots', capacity')
  BY DEF Contents, ContentsOf
<1>3. QED
  BY <1>1, <1>2, Reads

(* set and add change what is stored for their own key only. *)
LEMMA StoresPut ==
  ASSUME TableInv, TableInv', NEW k \in Keys, NEW v \in Values \cup {NoValue}, Stores(k, v)
  PROVE  Contents' = [x \in DOMAIN Contents \cup {k} |-> IF x = k THEN v ELSE Contents[x]]
<1>1. PICK t, n, s : /\ Grown(t, n) /\ GoodPlace(t, n, k, s)
                     /\ Writes(t, n, Place(k, s, n), Entry(k, v))
  BY DEF Stores
<1>2. PICK f, g : f = Contents /\ g = Contents'
  OBVIOUS
<1>3. IsContents(f, slots, capacity)
  BY <1>2, ContentsNow DEF TableInv
<1>4. IsContents(g, slots', capacity')
  BY <1>2, ContentsThen DEF TableInv
<1>5. n \in Nat \ {0} /\ IsTable(t, n) /\ s \in 0 .. n-1
  BY <1>1 DEF Grown, GoodPlace, IsTable
<1>6. PICK p \in 0 .. n-1 : p = Place(k, s, n)
  BY <1>5, PlaceIn
<1>7. PICK e : e = Entry(k, v) /\ Fits(e) /\ e.key = k /\ e.val = v
  BY EntryFits
<1>8. PICK u : u = Stored(t, p, e) /\ slots' = u /\ capacity' = n
  BY <1>1, <1>6, <1>7 DEF Writes
<1>9. /\ u[p] = e /\ \A i \in 0 .. n-1 : i # p => u[i] = t[i]
      /\ LiveIn(u, n) = LiveIn(t, n) \cup {p}
  BY <1>5, <1>7, <1>8, StoreShape DEF OnlySlot
<1>10. /\ \A q \in LiveIn(t, n) : \E l \in LiveIn(slots, capacity) : t[q] = slots[l]
       /\ \A l \in LiveIn(slots, capacity) : \E q \in LiveIn(t, n) : t[q] = slots[l]
  BY <1>1, LiveIs DEF Grown
<1>11. \A q \in LiveIn(t, n) : q \in 0 .. n-1 /\ IsLive(t[q])
  BY DEF LiveIn
<1>12. p \in LiveIn(t, n) => t[p].key = k
  BY <1>1, <1>6, <1>11 DEF GoodPlace, MayTake
<1>13. DOMAIN f = KeysIn(slots) /\ g = [x \in KeysIn(u) |-> g[x]]
  BY <1>3, <1>4, <1>8 DEF IsContents
<1>14. k \in KeysIn(u) /\ g[k] = v
  BY <1>4, <1>7, <1>8, <1>9 DEF IsContents
<1>15. ASSUME NEW x, x # k, x \in KeysIn(u) PROVE x \in KeysIn(slots) /\ g[x] = f[x]
  <2>1. PICK q \in LiveIn(u, n) : u[q].key = x
    BY <1>4, <1>8, <1>15 DEF IsContents
  <2>2. q # p /\ q \in LiveIn(t, n)
    BY <1>7, <1>9, <1>15, <2>1
  <2>3. u[q] = t[q]
    BY <1>9, <1>11, <2>2
  <2>4. PICK l \in LiveIn(slots, capacity) : t[q] = slots[l]
    BY <1>10, <2>2
  <2>5. g[x] = u[q].val
    BY <1>4, <1>8, <2>1 DEF IsContents
  <2>6. slots[l].key = x /\ f[x] = slots[l].val
    BY <1>3, <2>1, <2>3, <2>4 DEF IsContents
  <2>7. QED
    BY <1>3, <2>3, <2>4, <2>5, <2>6 DEF IsContents
<1>16. ASSUME NEW x, x # k, x \in KeysIn(slots) PROVE x \in KeysIn(u)
  <2>1. PICK l \in LiveIn(slots, capacity) : slots[l].key = x
    BY <1>3, <1>16 DEF IsContents
  <2>2. PICK q \in LiveIn(t, n) : t[q] = slots[l]
    BY <1>10
  <2>3. q # p
    BY <1>12, <1>16, <2>1, <2>2
  <2>4. q \in LiveIn(u, n) /\ u[q].key = x
    BY <1>9, <1>11, <2>1, <2>2, <2>3
  <2>5. QED
    BY <1>4, <1>8, <2>4 DEF IsContents
<1>17. KeysIn(u) = DOMAIN f \cup {k}
  BY <1>13, <1>14, <1>15, <1>16
<1>18. g = [x \in DOMAIN f \cup {k} |-> IF x = k THEN v ELSE f[x]]
  <2>1. \A x \in KeysIn(u) : g[x] = IF x = k THEN v ELSE f[x]
    BY <1>14, <1>15
  <2>2. g = [x \in KeysIn(u) |-> IF x = k THEN v ELSE f[x]]
    BY <1>13, <2>1
  <2>3. QED
    BY <1>17, <2>2
<1>19. QED
  BY <1>2, <1>18

(* delete removes its own key, or one of its copies: then nothing changes. *)
LEMMA DropsRemove ==
  ASSUME TableInv, TableInv', NEW k, NEW p, NEW e, Drops(k, p, e)
  PROVE  Contents' = Contents \/ Contents' = [x \in DOMAIN Contents \ {k} |-> Contents[x]]
<1>1. PICK f, g : f = Contents /\ g = Contents'
  OBVIOUS
<1>2. IsContents(f, slots, capacity)
  BY <1>1, ContentsNow DEF TableInv
<1>3. /\ p \in 0 .. capacity-1 /\ capacity' = capacity
      /\ slots'[p] = e /\ \A i \in 0 .. capacity-1 : i # p => slots'[i] = slots[i]
      /\ LiveSlots' = LiveSlots \ {p}
  BY DropShape
<1>4. PICK u : u = slots'
  OBVIOUS
<1>5. IsContents(g, u, capacity)
  BY <1>1, <1>3, <1>4, ContentsThen DEF TableInv
<1>6. LiveIn(u, capacity) = LiveIn(slots, capacity) \ {p}
  BY <1>3, <1>4 DEF LiveSlots, LiveIn
<1>7. \A i \in LiveIn(u, capacity) : i \in LiveIn(slots, capacity) /\ u[i] = slots[i]
  BY <1>3, <1>4, <1>6 DEF LiveIn
<1>8. p \in LiveIn(slots, capacity) /\ slots[p].key = k
  BY LiveIs DEF Drops
<1>9. /\ DOMAIN f = KeysIn(slots) /\ g = [x \in KeysIn(u) |-> g[x]]
      /\ f = [x \in KeysIn(slots) |-> f[x]]
  BY <1>2, <1>5 DEF IsContents
<1>10. ASSUME NEW x, x \in KeysIn(u) PROVE x \in KeysIn(slots) /\ g[x] = f[x]
  <2>1. PICK i \in LiveIn(u, capacity) : u[i].key = x
    BY <1>5, <1>10 DEF IsContents
  <2>2. g[x] = u[i].val
    BY <1>5, <2>1 DEF IsContents
  <2>3. i \in LiveIn(slots, capacity) /\ slots[i].key = x /\ f[x] = slots[i].val
    BY <1>2, <1>7, <2>1 DEF IsContents
  <2>4. QED
    BY <1>2, <1>7, <2>1, <2>2, <2>3 DEF IsContents
<1>11. ASSUME NEW x, x # k, x \in KeysIn(slots) PROVE x \in KeysIn(u)
  <2>1. PICK i \in LiveIn(slots, capacity) : slots[i].key = x
    BY <1>2, <1>11 DEF IsContents
  <2>2. i \in LiveIn(u, capacity) /\ u[i].key = x
    BY <1>6, <1>7, <1>8, <1>11, <2>1
  <2>3. QED
    BY <1>5, <2>2 DEF IsContents
<1>12. k \in KeysIn(slots)
  BY <1>2, <1>8 DEF IsContents
<1>13. CASE k \in KeysIn(u)
  <2>1. KeysIn(u) = KeysIn(slots)
    BY <1>10, <1>11, <1>13
  <2>2. g = f
    BY <1>9, <1>10, <2>1
  <2>3. QED
    BY <1>1, <2>2
<1>14. CASE k \notin KeysIn(u)
  <2>1. KeysIn(u) = DOMAIN f \ {k}
    BY <1>9, <1>10, <1>11, <1>14
  <2>2. g = [x \in KeysIn(u) |-> f[x]]
    BY <1>9, <1>10
  <2>3. QED
    BY <1>1, <2>1, <2>2
<1>15. QED
  BY <1>13, <1>14

(* A table without live slots *)
LEMMA NothingStored ==
  ASSUME NEW f, NEW t, NEW n, IsContents(f, t, n), LiveIn(t, n) = {}
  PROVE  f = [x \in {} |-> 0]
<1>1. KeysIn(t) = {}
  BY DEF IsContents
<1>2. f = [x \in {} |-> f[x]]
  BY <1>1 DEF IsContents
<1>3. QED
  BY <1>2

(* It depends on the slots only. *)
LEMMA ContentsStay ==
  ASSUME slots' = slots, capacity' = capacity
  PROVE  Contents' = Contents
BY DEF Contents, KeysIn, Find

(* Every step of the table is a step of the dictionary, or changes nothing. *)
LEMMA NextImplements ==
  ASSUME TableInv, TableInv', [Next]_vars
  PROVE  [D!Next]_Contents
<1>1. ASSUME NEW k \in Keys, NEW v \in Values \cup {NoValue}, Stores(k, v) PROVE D!Next
  <2>1. D!Put(k, v)
    BY <1>1, StoresPut DEF D!Put
  <2>2. QED
    BY <2>1 DEF D!Next
<1>2. ASSUME NEW k \in Keys, NEW p, NEW e, Drops(k, p, e) PROVE D!Next \/ Contents' = Contents
  <2>1. Contents' = Contents \/ D!Remove(k)
    BY <1>2, DropsRemove DEF D!Remove, D!Restrict
  <2>2. QED
    BY <2>1 DEF D!Next
<1>3. ASSUME NEW k \in Keys, NEW v \in Values, MapSet(k, v) PROVE D!Next
  BY <1>1, <1>3, MapSetStores
<1>4. ASSUME NEW k \in Keys, SetAdd(k) PROVE D!Next
  BY <1>1, <1>4, SetAddStores
<1>5. ASSUME NEW k \in Keys, MapDelete(k) \/ SetDelete(k) PROVE D!Next \/ Contents' = Contents
  BY <1>2, <1>5, MapDeleteDrops, SetDeleteDrops
<1>6. ASSUME Clear PROVE D!Next
  <2>1. /\ capacity' = capacity
        /\ \A i \in 0 .. capacity-1 : ~IsLive(slots'[i])
    BY <1>6, ClearShape DEF Clear
  <2>2. LiveIn(slots', capacity') = {}
    BY <2>1 DEF LiveIn
  <2>3. Contents' = [x \in {} |-> 0]
    BY <2>2, ContentsThen, NothingStored DEF TableInv
  <2>4. QED
    BY <2>3 DEF D!Next, D!Empty
<1>7. ASSUME UNCHANGED table PROVE Contents' = Contents
  BY <1>7, ContentsStay DEF table
<1>8. ASSUME NEW k \in Keys, MapSetRefused(k) \/ GrowFails(k) PROVE UNCHANGED table
  BY <1>8 DEF MapSetRefused, GrowFails
<1>9. ASSUME IterNew \/ IterNext \/ UNCHANGED vars PROVE UNCHANGED table
  BY <1>9 DEF IterNew, IterNext, vars
<1>10. QED
  BY <1>3, <1>4, <1>5, <1>6, <1>7, <1>8, <1>9 DEF Next

(* Map and Set behave as a dictionary: a resize, a tombstone or a probe    *)
(* past other keys loses no entry and changes none, for every hash         *)
(* function.                                                               *)
THEOREM TableImplementsDict == Spec => ImplementsDict
<1>1. Init => D!Init
  <2>1. SUFFICES ASSUME Init PROVE D!Init
    OBVIOUS
  <2>2. TableKept
    BY <2>1, InitKeeps DEF TableInv
  <2>3. LiveIn(slots, capacity) = {}
    BY <2>1 DEF Init, LiveIn, IsLive, Free
  <2>4. Contents = [x \in {} |-> 0]
    BY <2>2, <2>3, ContentsNow, NothingStored
  <2>5. QED
    BY <2>4 DEF D!Init
<1>2. TableInv /\ TableInv' /\ [Next]_vars => [D!Next]_Contents
  BY NextImplements
<1>3. QED
  BY <1>1, <1>2, TableInvariant, PTL DEF Spec, ImplementsDict, D!Spec
=============================================================================

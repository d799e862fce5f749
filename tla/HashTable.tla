----------------------------- MODULE HashTable ------------------------------
(***************************************************************************)
(* Map and Set (src/lr_map.c, src/lr_set.c): an open-addressing table with *)
(* linear probing, doubled when it would be more than three quarters full  *)
(* of LIVE entries, and iterators that are an index into the table.        *)
(*                                                                         *)
(* The two files share the hash, the look-up, the resize and the iterator. *)
(* They differ in how a deleted slot is kept: delete of a Map leaves a     *)
(* tombstone (hash = MAP_TOMBSTONE_HASH), delete of a Set a slot like any  *)
(* free one.  kind says which of the two the object is; a Set's entry has  *)
(* the value NoValue.  get, has and size read; the loops of the two        *)
(* constructors are calls of set and add before the object is handed out.  *)
(* One iterator is followed, with its index; forEach is the same walk with *)
(* the callback between two visits.                                        *)
(***************************************************************************)
EXTENDS Integers, FiniteSets, FiniteSetsExt

CONSTANTS Keys, Values, NoKey, NoValue,
          Hash,              \* hash_value of each key
          InitialCapacity,   \* MAP_INITIAL_CAPACITY
          MaxCapacity,       \* bound: the table is not doubled beyond this
          MaxSetDeletes,     \* bound: deletes of a Set
          MemoryFails        \* may calloc fail in a resize?

ASSUME TableAssumption ==
    /\ InitialCapacity \in Nat \ {0} /\ MaxCapacity \in Nat
    /\ MaxSetDeletes \in Nat
    /\ \A k \in Keys : Hash[k] \in Nat
    /\ NoKey \notin Keys /\ NoValue \notin Values
    /\ MemoryFails \in BOOLEAN

VARIABLES
    kind,       \* "map" or "set"
    slots,      \* entries: state (fresh, tomb, live), key and value
    capacity, count,
    size,       \* the data property the program reads
    index,      \* the iterator's index, or -1 when there is none
    resized,    \* history: the table was doubled since it was made
    present,    \* history: until then, the keys in the table all that time
    due,        \* history: those of them it has not returned yet
    again,      \* history: it returned one twice that is stored once
    lost,       \* history: the last call was a set that was not stored
    holes       \* history: number of deletes of the Set

table == <<kind, slots, capacity, count, size>>
iter  == <<index, again>>
track == <<present, due, resized>>
vars  == <<table, iter, track, lost, holes>>

-----------------------------------------------------------------------------
(* The table                                                               *)

Free == [state |-> "fresh", key |-> NoKey, val |-> NoValue]
Tomb == [Free EXCEPT !.state = "tomb"]
Entry(k, v) == [state |-> "live", key |-> k, val |-> v]

IsLive(e) == e.state = "live"

(* The i-th slot that a search for k looks at in a table of n slots.       *)
Place(k, i, n) == (Hash[k] + i) % n

Holds(e, k) == IsLive(e) /\ e.key = k

(* Where a search finds k; it looks at every slot if it must.              *)
Find(t, n, k) == {i \in 0..n-1 : Holds(t[Place(k, i, n)], k)}

(* The slots on its way that are not in use.                               *)
Unused(t, n, k) == {i \in 0..n-1 : ~IsLive(t[Place(k, i, n)])}

(* Mutant: the walk over the old entries stops one short. *)
Rehash_short(t, n, m) ==
    LET Insert(u, e) == [u EXCEPT ![Place(e.key, Min(Unused(u, m, e.key)), m)] = e]
        moved[i \in 0..n] ==
            IF i = 0 THEN [j \in 0..m-1 |-> Free]
            ELSE IF IsLive(t[i-1]) THEN Insert(moved[i-1], t[i-1]) ELSE moved[i-1]
    IN  moved[n-1]

(* map_data_resize: the live entries of t, in slot order, into an empty    *)
(* table of m slots; tombstones are dropped.                               *)
Rehash(t, n, m) ==
    LET Insert(u, e) == [u EXCEPT ![Place(e.key, Min(Unused(u, m, e.key)), m)] = e]
        moved[i \in 0..n] ==
            IF i = 0 THEN [j \in 0..m-1 |-> Free]
            ELSE IF IsLive(t[i-1]) THEN Insert(moved[i-1], t[i-1]) ELSE moved[i-1]
    IN  moved[n]

(* The load factor, three quarters, counts live entries only.              *)
MustGrow == 4 * (count + 1) > 3 * capacity

NewCapacity == IF MustGrow THEN 2 * capacity ELSE capacity
NewSlots == IF MustGrow THEN Rehash(slots, capacity, 2 * capacity) ELSE slots

(* The table becomes t, of n slots, with the entry stored at step i of the *)
(* search for k.                                                           *)
StoreAt(t, n, i, k, v) ==
    LET p == Place(k, i, n)
    IN  /\ capacity' = n
        /\ slots' = [t EXCEPT ![p] = Entry(k, v)]
        /\ count' = IF IsLive(t[p]) THEN count ELSE count + 1
        /\ size' = count'
        /\ resized' = (resized \/ n # capacity)
        /\ present' = IF n # capacity THEN {} ELSE present
        /\ due' = IF n # capacity THEN {} ELSE due
        /\ lost' = FALSE

(* k is no longer what it was when the iterator was made.                  *)
Forget(k) == present' = present \ {k} /\ due' = due \ {k}

(* calloc fails in the resize: the call returns and changes nothing, even  *)
(* if the key is in the table.                                             *)
GrowFails(k) ==
    /\ MemoryFails /\ MustGrow
    /\ lost' = TRUE
    /\ UNCHANGED <<table, iter, track, holes>>

-----------------------------------------------------------------------------
(* Map                                                                     *)

(* A search for set ends at the key or at a slot that was never used.      *)
Ends(t, n, k) ==
    Find(t, n, k) \cup {i \in 0..n-1 : t[Place(k, i, n)].state = "fresh"}

(* Mutant: a tombstone is taken at once, without looking further. *)
MapTarget_eager(t, n, k) ==
    Min(Unused(t, n, k) \cup Find(t, n, k))

(* The key's own slot, or the first tombstone before the free slot, or the *)
(* free slot.                                                              *)
MapTarget(t, n, k) ==
    LET end == Min(Ends(t, n, k))
    IN  IF IsLive(t[Place(k, end, n)]) THEN end ELSE Min(Unused(t, n, k))

MapSet(k, v) ==
    LET n == NewCapacity
        t == NewSlots
    IN  /\ kind = "map" /\ n <= MaxCapacity
        /\ Ends(t, n, k) # {}
        /\ StoreAt(t, n, MapTarget(t, n, k), k, v)
        /\ UNCHANGED <<kind, iter, holes>>

(* Mutant: refused as soon as the search meets a tombstone. *)
MapSetRefused_tomb(k) ==
    /\ kind = "map" /\ NewCapacity <= MaxCapacity
    /\ slots[Place(k, 0, capacity)].state = "tomb"
    /\ lost' = TRUE
    /\ UNCHANGED <<table, iter, track, holes>>

(* Every slot is another key's or a tombstone: map_data_set returns -1,    *)
(* which js_map_set does not look at.                                      *)
MapSetRefused(k) ==
    /\ kind = "map" /\ NewCapacity <= MaxCapacity
    /\ Ends(NewSlots, NewCapacity, k) = {}
    /\ lost' = TRUE
    /\ UNCHANGED <<table, iter, track, holes>>

MapDelete(k) ==
    /\ kind = "map" /\ Find(slots, capacity, k) # {}
    /\ slots' = [slots EXCEPT ![Place(k, Min(Find(slots, capacity, k)), capacity)] = Tomb]
    /\ count' = count - 1 /\ size' = count'
    /\ Forget(k) /\ lost' = FALSE
    /\ UNCHANGED <<kind, capacity, iter, resized, holes>>

-----------------------------------------------------------------------------
(* Set                                                                     *)

(* The first slot that is not in use, or the value itself: there is always *)
(* one, by the load factor.                                                *)
SetAdd(k) ==
    LET n == NewCapacity
        t == NewSlots
    IN  /\ kind = "set" /\ n <= MaxCapacity
        /\ StoreAt(t, n, Min(Unused(t, n, k) \cup Find(t, n, k)), k, NoValue)
        /\ UNCHANGED <<kind, iter, holes>>

SetDelete(k) ==
    /\ kind = "set" /\ holes < MaxSetDeletes
    /\ Find(slots, capacity, k) # {}
    /\ slots' = [slots EXCEPT ![Place(k, Min(Find(slots, capacity, k)), capacity)] = Free]
    /\ count' = count - 1 /\ size' = count'
    /\ Forget(k) /\ lost' = FALSE /\ holes' = holes + 1
    /\ UNCHANGED <<kind, capacity, iter, resized>>

-----------------------------------------------------------------------------
(* Both                                                                    *)

(* The live slots keep their hash and so become free; tombstones stay.     *)
Clear ==
    /\ slots' = [i \in DOMAIN slots |-> IF IsLive(slots[i]) THEN Free ELSE slots[i]]
    /\ count' = 0 /\ size' = 0
    /\ present' = {} /\ due' = {} /\ lost' = FALSE
    /\ UNCHANGED <<kind, capacity, iter, resized, holes>>

LiveSlots == {i \in 0..capacity-1 : IsLive(slots[i])}

(* Nothing is stored twice.                                                *)
Once == \A i, j \in LiveSlots : slots[i].key = slots[j].key => i = j

KeysIn(t) == {t[i].key : i \in {j \in DOMAIN t : IsLive(t[j])}}

(* keys(), values(), entries(): one iterator; an earlier one is dropped.   *)
IterNew ==
    /\ index' = 0 /\ again' = FALSE
    /\ present' = KeysIn(slots) /\ due' = present' /\ resized' = FALSE
    /\ lost' = FALSE
    /\ UNCHANGED <<table, holes>>

(* Mutant: the slot after a visited one is passed over. *)
LiveFrom_skip(i) == {j \in (IF i = 0 THEN 0 ELSE i + 1)..capacity-1 : IsLive(slots[j])}

(* The slots still ahead of index i, of the table as it is now.            *)
LiveFrom(i) == {j \in i..capacity-1 : IsLive(slots[j])}

IterNext ==
    /\ index >= 0
    /\ \/ /\ LiveFrom(index) # {}
          /\ LET j == Min(LiveFrom(index))
                 k == slots[j].key
             IN  /\ index' = j + 1
                 /\ due' = due \ {k}
                 /\ again' = (again \/ (k \in present \ due /\ Once))
       \/ /\ LiveFrom(index) = {}
          /\ index' = Max({index, capacity})
          /\ UNCHANGED <<due, again>>
    /\ lost' = FALSE
    /\ UNCHANGED <<table, present, resized, holes>>

-----------------------------------------------------------------------------
Init ==
    /\ kind \in {"map", "set"}
    /\ slots = [i \in 0..InitialCapacity-1 |-> Free]
    /\ capacity = InitialCapacity /\ count = 0 /\ size = 0
    /\ index = -1
    /\ present = {} /\ due = {} /\ resized = FALSE /\ again = FALSE
    /\ lost = FALSE /\ holes = 0

Next ==
    \/ \E k \in Keys :
          \/ \E v \in Values : MapSet(k, v)
          \/ MapSetRefused(k) \/ MapDelete(k)
          \/ SetAdd(k) \/ SetDelete(k) \/ GrowFails(k)
    \/ Clear \/ IterNew \/ IterNext

Spec == Init /\ [][Next]_vars

-----------------------------------------------------------------------------
(* Properties                                                              *)

(* count and the size property are the number of live slots, and a key has *)
(* one live slot whatever was deleted, reused or rehashed; a Set keeps     *)
(* this only until its first delete.                                       *)
TableSound ==
    /\ count = Cardinality(LiveSlots) /\ size = count
    /\ kind = "map" \/ holes = 0 => Once

(* What get(k) or has(k) finds: the first live slot of k in search order.  *)
Contents ==
    [k \in KeysIn(slots) |-> slots[Place(k, Min(Find(slots, capacity, k)), capacity)].val]

D == INSTANCE Dictionary WITH Values <- Values \cup {NoValue}, dict <- Contents

(* Every call changes what is stored for its own key only, or empties the  *)
(* object: a resize, a tombstone or a probe past other keys loses nothing. *)
ImplementsDict == D!Spec

(* A set is not stored only if the table could not be doubled, or if each  *)
(* of its slots is in use or a tombstone.                                  *)
LossNeedsTombs ==
    lost =>
        \/ MemoryFails /\ MustGrow
        \/ \A i \in 0..capacity-1 : slots[i].state # "fresh"

(* An iteration returns every key that is in the table from its beginning  *)
(* to its end, and exactly once if it is stored once, whatever else is     *)
(* added and deleted between two calls of next, unless the table is        *)
(* doubled meanwhile.                                                      *)
IterVisitsOnce ==
    index >= 0 /\ ~resized => ~again /\ (index >= capacity => due = {})

(* "Should not reach here if load factor is enforced": lr_map.c:281.  A    *)
(* set that could be stored is.                                            *)
NoSetLost == ~lost

(* "Value already exists, no-op": lr_set.c:242.  No value is stored twice. *)
NoDuplicate == Once
=============================================================================

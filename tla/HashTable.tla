------------------------------- MODULE HashTable -------------------------------
(***************************************************************************)
(* HashTable: buckets that begin an open chain each.  The first entry of a *)
(* chain lies in the table itself and the others in nodes of the heap, so  *)
(* removing the first one copies the second over it.  A slot that has been *)
(* emptied keeps its key, and remove looks at the key only.  The table     *)
(* doubles when its count passes its size and never shrinks.               *)
(***************************************************************************)
EXTENDS Integers, Sequences, SequencesExt

CONSTANTS
  Keys,
  Values,
  Missing,      \* no value, no key
  Hash,         \* the top HashBits bits that fib_map looks at, for each key
  HashBits,
  InitialBits,  \* INITIAL_CONTAINER_BITS
  MaxBits,      \* bound: the table does not grow beyond 2^MaxBits buckets
  CountWord     \* m_true_no wraps at this number

VARIABLES
  m_container_bits,
  m_buckets,  \* per bucket its entries and, when there are none, the key left in the slot
  m_true_no

vars == <<m_container_bits, m_buckets, m_true_no>>

Entry(key, val) == [key |-> key, val |-> val]
Bucket(chain, left) == [chain |-> chain, left |-> left]
Slots(bits) == 0 .. 2^bits - 1

\* A hash has HashBits bits, of which a table looks at no more than there are.
Hashing ==
  /\ HashBits \in Nat /\ MaxBits \in 0 .. HashBits /\ InitialBits \in 0 .. MaxBits
  /\ Hash \in [Keys -> 0 .. 2^HashBits - 1]
  /\ CountWord \in Nat \ {0}
  /\ Missing \notin Values /\ Missing \notin Keys

fib_map(key, bits) == Hash[key] \div 2^(HashBits - bits)

Init ==
  /\ m_container_bits = InitialBits
  /\ m_buckets = [i \in Slots(InitialBits) |-> Bucket(<<>>, Missing)]
  /\ m_true_no = 0

-----------------------------------------------------------------------------
\* Where the walk along a chain meets a key.
Positions(chain, key) == {i \in DOMAIN chain : chain[i].key = key}

Chain(key) == m_buckets[fib_map(key, m_container_bits)].chain

get(key) ==
  IF Positions(Chain(key), key) = {} THEN Missing
  ELSE Chain(key)[CHOOSE i \in Positions(Chain(key), key) : TRUE].val

\* Mutant of Kept: the nodes behind the first are not moved.
OnlyFirst(chain, i, bits) ==
  IF chain # <<>> /\ fib_map(chain[1].key, bits) = i THEN <<chain[1]>> ELSE <<>>

\* The entries of an old bucket that go to bucket i of a larger table, in their order.
Kept(chain, i, bits) ==
  LET kept[n \in 0 .. Len(chain)] ==
        IF n = 0 THEN <<>>
        ELSE IF fib_map(chain[n].key, bits) = i THEN Append(kept[n - 1], chain[n])
        ELSE kept[n - 1]
  IN kept[Len(chain)]

\* rehash_all: fib_map takes the top bits, so a bucket is filled from one old one.
rehash_all(buckets, bits) ==
  [i \in Slots(bits + 1) |-> Bucket(Kept(buckets[i \div 2].chain, i, bits + 1), Missing)]

\* Mutant of Added: a new entry takes the slot of the table.
AddedInFront(chain, entry) == <<entry>> \o chain

Added(chain, entry) == Append(chain, entry)

Grows == m_true_no > 2^m_container_bits

\* Callers push a key only when get does not find it, or in a table they have just made.
push(key, val) ==
  LET bits    == IF Grows THEN m_container_bits + 1 ELSE m_container_bits
      buckets == IF Grows THEN rehash_all(m_buckets, m_container_bits) ELSE m_buckets
      i       == fib_map(key, bits)
  IN /\ get(key) = Missing /\ bits <= MaxBits
     /\ m_container_bits' = bits
     /\ m_buckets' = [buckets EXCEPT ![i] = Bucket(Added(@.chain, Entry(key, val)), Missing)]
     /\ m_true_no' = (m_true_no + 1) % CountWord

\* The key in the slot: that of the first entry, or the one an emptied slot has left.
FirstKey(bucket) == IF bucket.chain = <<>> THEN bucket.left ELSE bucket.chain[1].key

remove(key) ==
  LET i     == fib_map(key, m_container_bits)
      chain == m_buckets[i].chain
      at    == Positions(chain, key)
  IN /\ UNCHANGED m_container_bits
     /\ \/ /\ FirstKey(m_buckets[i]) # key /\ at = {}
           /\ UNCHANGED <<m_buckets, m_true_no>>
        \/ /\ FirstKey(m_buckets[i]) # key /\ at # {}
           /\ m_buckets' = [m_buckets EXCEPT ![i].chain = RemoveAt(@, CHOOSE j \in at : TRUE)]
           /\ m_true_no' = (m_true_no - 1) % CountWord
        \/ /\ FirstKey(m_buckets[i]) = key
           /\ m_buckets' = [m_buckets EXCEPT ![i] =
                IF Len(chain) > 1 THEN Bucket(Tail(chain), Missing) ELSE Bucket(<<>>, key)]
           /\ m_true_no' = (m_true_no - 1) % CountWord

Next == \E key \in Keys : remove(key) \/ \E val \in Values : push(key, val)

Spec == Init /\ [][Next]_vars

-----------------------------------------------------------------------------
(* Properties *)

\* get finds what was pushed and not removed, and nothing else, whatever was removed
\* from the same chain before, however often an absent key was removed, and however
\* the table has grown meanwhile.
Abstract == INSTANCE KeyMap WITH map <- [k \in Keys |-> get(k)]
IsMap == Abstract!Spec

\* Where the pointer returned by get points: a slot of the table, or the node made for
\* the key when it was pushed.
Place(key) == LET at == CHOOSE j \in Positions(Chain(key), key) : TRUE IN
  IF at = 1 THEN <<m_container_bits, fib_map(key, m_container_bits)>> ELSE <<key>>

\* A pointer that get returned stays good until the table grows, its key is removed, or
\* the entry before it in its chain was the first and is removed.  waitpid holds one
\* across sti, resolve_cow reads one after it has removed the key.
PointersStay ==
  [][\A k \in Keys :
       get(k) # Missing /\ get(k)' # Missing /\ m_container_bits' = m_container_bits =>
         \/ Place(k)' = Place(k)
         \/ \E first \in Keys : /\ Positions(Chain(k), first) = {1}
                               /\ Positions(Chain(k), k) = {2}
                               /\ get(first)' = Missing]_vars
=============================================================================

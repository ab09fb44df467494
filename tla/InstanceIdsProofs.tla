-------------------------- MODULE InstanceIdsProofs --------------------------
(***************************************************************************)
(* Proofs about InstanceIds, for any bound on the ids, any word and cell   *)
(* size, any saved instances and any threads inside FreeInstanceId.        *)
(***************************************************************************)
EXTENDS InstanceIds, NaturalsInduction, WellFoundedInduction, TLAPS

\* The vector ends at a multiple of Word, and holds or ends with every id in use.
Sized ==
  /\ size % Word = 0
  /\ bits \subseteq Ids
  /\ live \cup rows \subseteq 1..size
  /\ nextInstanceId <= size + 1
  /\ \A t \in Threads : fpc[t] # "idle" => fid[t] <= size

\* The saved instances are registered in ascending order, before anything else.
Starting ==
  /\ \A l \in live, r \in rows : l < r
  /\ rows # {} => Idle

\* A thread in FreeInstanceId works on an id no longer in use, and the bits it is
\* about to write back include those of all ids of the cell that are in use.
Freeing ==
  \A t \in Threads :
    /\ fpc[t] # "idle" => fid[t] \notin live
    /\ fpc[t] = "write" => fcell[t] \subseteq 1..(size - 1)
    /\ fpc[t] = "write" =>
         \A id \in live : id % Word # 0 /\ id \div CellBits = fid[t] \div CellBits => id \in fcell[t]

\* The next id is in use only if it is a multiple of Word.
NextFree == nextInstanceId \in live => nextInstanceId % Word = 0

IInv == TypeOK /\ Sized /\ Starting /\ Freeing /\ NextFree /\ LiveIdsRecorded

-----------------------------------------------------------------------------
(* Arithmetic                                                               *)

\* A set of naturals has a least element.
LEMMA LeastElement ==
  ASSUME NEW S, S \subseteq Nat, S # {}
  PROVE  \E m \in S : \A n \in S : m <= n
<1> DEFINE R == OpToRel(<, Nat)
<1>1. IsWellFoundedOn(R, Nat)
  BY NatLessThanWellFounded, Zenon DEF R
<1> HIDE DEF R
<1>2. PICK m \in S : \A y \in S : ~(<<y, m>> \in R)
  BY <1>1, WFMin
<1>3. \A n \in S : ~(n < m)
  BY <1>2 DEF R, OpToRel
<1> QED
  BY <1>2, <1>3

\* A bounded set of naturals has a greatest element, or 0 stands in for it.
LEMMA GreatestElement ==
  ASSUME NEW S, NEW b \in Nat, S \subseteq 0..b
  PROVE  \E m \in S \cup {0} : \A n \in S : n <= m
<1> DEFINE U == {u \in Nat : \A n \in S : n <= u}
<1>1. b \in U
  OBVIOUS
<1>2. PICK m \in U : \A u \in U : m <= u
  BY <1>1, LeastElement
<1>3. CASE m = 0
  BY <1>2, <1>3
<1>4. CASE m # 0
  <2>1. m - 1 \in Nat /\ m - 1 \notin U
    BY <1>2, <1>4
  <2>2. PICK n \in S : ~(n <= m - 1)
    BY <2>1
  <2>3. n = m
    BY <1>2, <2>1, <2>2
  <2> QED
    BY <1>2, <2>3
<1> QED
  BY <1>3, <1>4

\* Division with rest by any positive number.
LEMMA DivMod ==
  ASSUME NEW n \in Nat, NEW w \in Nat \ {0}
  PROVE  /\ n \div w \in Nat
         /\ n % w \in Nat
         /\ n % w < w
         /\ n = (n \div w) * w + (n % w)
OBVIOUS

\* A product leaves no rest.
LEMMA ProductMod ==
  ASSUME NEW k \in Nat, NEW w \in Nat \ {0}
  PROVE  (k * w) % w = 0
<1> DEFINE q == (k * w) \div w
           r == (k * w) % w
<1>1. k * w \in Nat
  OBVIOUS
<1>2. q \in Nat /\ r \in Nat /\ r < w /\ k * w = q * w + r
  BY <1>1, DivMod
<1> HIDE DEF q, r
<1>3. CASE k <= q
  <2>1. k * w <= q * w
    BY <1>2, <1>3
  <2> QED
    BY <1>1, <1>2, <2>1 DEF r
<1>4. CASE k > q
  <2>1. PICK d \in Nat : k = q + 1 + d
    <3>1. k - q - 1 \in Nat
      BY <1>2, <1>4
    <3> QED
      BY <1>2, <3>1
  <2>2. k * w = q * w + w + d * w /\ d * w \in Nat /\ q * w \in Nat
    BY <1>2, <2>1
  <2> QED
    BY <1>2, <2>2
<1> QED
  BY <1>2, <1>3, <1>4

\* RoundUp gives the least multiple of Word that is not below its argument; what
\* matters is that it is a multiple and not below.
LEMMA RoundUpIsMultiple ==
  ASSUME NEW n \in Nat
  PROVE  RoundUp(n) \in Nat /\ RoundUp(n) >= n /\ RoundUp(n) % Word = 0
<1> DEFINE k == n \div Word
<1>1. k \in Nat /\ n % Word \in Nat /\ n % Word < Word /\ n = k * Word + (n % Word) /\ Word \in Nat \ {0}
  BY DivMod, IdsAssumption
<1> HIDE DEF k
<1>2. CASE n % Word > 0
  <2>1. RoundUp(n) = (k + 1) * Word
    BY <1>1, <1>2 DEF RoundUp, k
  <2>2. (k + 1) * Word = k * Word + Word /\ k * Word \in Nat
    BY <1>1
  <2>3. ((k + 1) * Word) % Word = 0
    BY <1>1, ProductMod
  <2> QED
    BY <1>1, <2>1, <2>2, <2>3
<1>3. CASE n % Word = 0
  <2>1. RoundUp(n) = k * Word
    BY <1>1, <1>3 DEF RoundUp, k
  <2>2. (k * Word) % Word = 0
    BY <1>1, ProductMod
  <2>3. k * Word \in Nat /\ k * Word >= n
    BY <1>1, <1>3
  <2> QED
    BY <2>1, <2>2, <2>3
<1> QED
  BY <1>1, <1>2, <1>3

\* The loop of GenerateInstanceId finds the first available id above id.
LEMMA LowestAboveFinds ==
  ASSUME NEW id \in Nat, size \in Nat
  PROVE  LET i == LowestAbove(id) IN
         /\ i \in Nat /\ i > id /\ Available(i)
         /\ i <= id + 1 \/ i <= size
         /\ \A j \in (id + 1)..(i - 1) : ~Available(j)
<1> DEFINE S == {i \in (id + 1)..(id + size + 1) : Available(i)}
<1>1. id + size + 1 \in S
  BY DEF Available
<1>2. PICK m \in S : \A n \in S : m <= n
  <2>1. S \subseteq Nat /\ S # {}
    BY <1>1
  <2> HIDE DEF S
  <2> QED
    BY <2>1, LeastElement
<1>3. m \in (id + 1)..(id + size + 1) /\ Available(m) /\ \A j \in (id + 1)..(m - 1) : ~Available(j)
  <2>1. m \in (id + 1)..(id + size + 1) /\ Available(m)
    OBVIOUS
  <2>2. ASSUME NEW j \in (id + 1)..(m - 1), Available(j) PROVE FALSE
    <3>1. j \in (id + 1)..(id + size + 1) /\ j < m
      BY <2>1
    <3>2. j \in S
      BY <2>2, <3>1
    <3> QED
      BY <1>2, <2>1, <3>1, <3>2
  <2> QED
    BY <2>1, <2>2
<1> DEFINE i == LowestAbove(id)
<1>4. i \in (id + 1)..(id + size + 1) /\ Available(i) /\ \A j \in (id + 1)..(i - 1) : ~Available(j)
  BY <1>3 DEF LowestAbove
<1> HIDE DEF i
<1>5. i <= id + 1 \/ i <= size
  <2> SUFFICES ASSUME i > id + 1, i > size PROVE FALSE
    BY <1>4
  <2>1. i - 1 \in (id + 1)..(i - 1) /\ i - 1 >= size
    BY <1>4
  <2> QED
    BY <1>4, <2>1 DEF Available
<1> QED
  BY <1>4, <1>5 DEF i
-----------------------------------------------------------------------------
(* Type correctness                                                         *)

\* What InitInstanceIds leaves satisfies the inductive invariant: the vector is
\* sized by the greatest saved id.
LEMMA InitIInv == Init => IInv
<1> SUFFICES ASSUME Init PROVE IInv
  OBVIOUS
<1>1. rows \subseteq Ids /\ live = {} /\ bits = {} /\ nextInstanceId = 1 /\ capacity \in Capacities(size)
  BY DEF Init
<1> DEFINE m == CHOOSE n \in rows \cup {0} : \A r \in rows : r <= n
<1>2. m \in rows \cup {0} /\ \A r \in rows : r <= m
  <2>1. rows \subseteq 0..MaxId /\ MaxId \in Nat
    BY <1>1, IdsAssumption DEF Ids
  <2>2. \E n \in rows \cup {0} : \A r \in rows : r <= n
    BY <2>1, GreatestElement
  <2> QED
    BY <2>2
<1>3. size = RoundUp(m)
  BY DEF Init
<1> HIDE DEF m
<1>4. size \in Nat /\ size >= m /\ size % Word = 0 /\ rows \subseteq 1..size
  <2>1. m \in Nat
    BY <1>1, <1>2, IdsAssumption DEF Ids
  <2>2. size \in Nat /\ size >= m /\ size % Word = 0
    BY <1>3, <2>1, RoundUpIsMultiple
  <2> QED
    BY <1>1, <1>2, <2>1, <2>2, IdsAssumption DEF Ids
<1>5. capacity \in Nat /\ size <= capacity /\ capacity % Word = 0
  BY <1>1, <1>4, IdsAssumption DEF Capacities
<1>6. TypeOK
  <2>1. fpc \in [Threads -> {"idle", "lower", "read", "write"}]
    BY DEF Init
  <2>2. fid \in [Threads -> Ids]
    BY IdsAssumption DEF Init, Ids
  <2>3. fcell \in [Threads -> SUBSET Ids]
    BY DEF Init
  <2>4. oob \in BOOLEAN /\ raced \in BOOLEAN
    BY DEF Init
  <2> QED
    BY <1>1, <1>4, <1>5, <2>1, <2>2, <2>3, <2>4 DEF TypeOK
<1>7. Idle /\ \A t \in Threads : fpc[t] = "idle"
  BY DEF Init, Idle
<1> QED
  BY <1>1, <1>4, <1>6, <1>7 DEF IInv, Sized, Starting, Freeing, NextFree, LiveIdsRecorded

\* Writing a bit of a vector of n bits sets this bit or is lost.
LEMMA SetBitTypes ==
  ASSUME NEW id \in Ids, NEW n \in Nat, NEW s \in Nat, s <= n, bits \subseteq 1..(s - 1), bits \subseteq Ids,
         oob \in BOOLEAN, SetBit(id, n)
  PROVE  /\ bits \subseteq bits' /\ bits' \subseteq bits \cup {id}
         /\ bits' \subseteq 1..(n - 1) /\ bits' \subseteq Ids
         /\ oob' \in BOOLEAN
         /\ id < n => id \in bits'
<1>1. bits' = IF id < n THEN bits \cup {id} ELSE bits
  BY DEF SetBit
<1>2. oob' \in BOOLEAN
  BY DEF SetBit
<1>3. id \in Nat \ {0}
  BY IdsAssumption DEF Ids
<1>4. bits \subseteq 1..(n - 1)
  OBVIOUS
<1>5. CASE id < n
  <2>1. id \in 1..(n - 1)
    BY <1>3, <1>5
  <2> QED
    BY <1>1, <1>2, <1>4, <1>5, <2>1
<1>6. CASE ~(id < n)
  BY <1>1, <1>2, <1>4, <1>6
<1> QED
  BY <1>5, <1>6

\* The vector never shrinks, reaches the id it is grown for, and keeps its sizes
\* multiples of Word.
LEMMA GrowMakesRoom ==
  ASSUME NEW id \in Nat, size \in Nat, capacity \in Nat, size <= capacity, size % Word = 0, capacity % Word = 0,
         id <= size + 1, Grow(id)
  PROVE  /\ size' \in Nat /\ capacity' \in Nat /\ size' <= capacity'
         /\ size' % Word = 0 /\ capacity' % Word = 0
         /\ size <= size' /\ id <= size'
<1>1. CASE id < size /\ UNCHANGED <<size, capacity>>
  BY <1>1
<1>2. CASE id >= size /\ size < capacity /\ size' = capacity /\ UNCHANGED capacity
  BY <1>2
<1>3. CASE /\ id >= size /\ size = capacity
           /\ size' = RoundUp(id)
           /\ IF RoundUp(id) > capacity THEN capacity' \in Capacities(RoundUp(id)) ELSE UNCHANGED capacity
  <2>1. RoundUp(id) \in Nat /\ RoundUp(id) >= id /\ RoundUp(id) % Word = 0
    BY RoundUpIsMultiple
  <2>2. CASE RoundUp(id) > capacity
    <3>1. capacity' \in Nat /\ capacity' >= RoundUp(id) /\ capacity' % Word = 0
      BY <1>3, <2>1, <2>2, IdsAssumption DEF Capacities
    <3> QED
      BY <1>3, <2>1, <3>1
  <2>3. CASE ~(RoundUp(id) > capacity)
    BY <1>3, <2>1, <2>3
  <2> QED
    BY <2>2, <2>3
<1> QED
  BY <1>1, <1>2, <1>3 DEF Grow

-----------------------------------------------------------------------------
(* The inductive invariant                                                  *)

\* A vector that reaches an id holds its bit, unless the id is a multiple of Word.
LEMMA OffWordInside ==
  ASSUME NEW id \in Nat, NEW n \in Nat, n % Word = 0, id % Word # 0, id <= n
  PROVE  id < n
OBVIOUS

\* Registering a saved instance keeps the invariant: its id is above all the
\* registered ones, and _nextInstanceId steps over it.
LEMMA RegisterKeepsIInv ==
  ASSUME IInv, NEW id \in Ids, RegisterInstanceId(id)
  PROVE  IInv'
<1>1. /\ UNCHANGED <<size, capacity, fpc, fid, fcell, raced>>
      /\ live' = live \cup {id} /\ rows' = rows \ {id}
      /\ nextInstanceId' = IF nextInstanceId = id THEN id + 1 ELSE nextInstanceId
      /\ id \in rows /\ \A r \in rows : id <= r
      /\ SetBit(id, size)
  BY DEF RegisterInstanceId
<1>2. /\ size \in Nat /\ bits \subseteq 1..(size - 1) /\ oob \in BOOLEAN /\ bits \subseteq Ids
      /\ nextInstanceId \in Nat \ {0} /\ id \in Nat /\ id <= size /\ size % Word = 0
      /\ rows \subseteq Nat /\ live \subseteq Nat
  BY <1>1, IdsAssumption DEF IInv, TypeOK, Sized, Ids
<1>3. /\ bits \subseteq bits' /\ bits' \subseteq 1..(size - 1) /\ bits' \subseteq Ids /\ oob' \in BOOLEAN
      /\ id < size => id \in bits'
  BY <1>1, <1>2, SetBitTypes
<1>4. Idle
  BY <1>1 DEF IInv, Starting
<1>5. TypeOK'
  <2>1. nextInstanceId' \in Nat \ {0}
    BY <1>1, <1>2
  <2> QED
    BY <1>1, <1>3, <2>1 DEF IInv, TypeOK
<1>6. Sized'
  <2>1. nextInstanceId' <= size + 1
    BY <1>1, <1>2 DEF IInv, Sized
  <2> QED
    BY <1>1, <1>2, <1>3, <2>1 DEF IInv, Sized
<1>7. Starting'
  <2>1. \A l \in live', r \in rows' : l < r
    BY <1>1, <1>2 DEF IInv, Starting
  <2>2. Idle'
    BY <1>1, <1>4 DEF Idle
  <2> QED
    BY <2>1, <2>2 DEF Starting
<1>8. Freeing'
  BY <1>1, <1>4 DEF Freeing, Idle
<1>9. NextFree'
  <2>1. CASE nextInstanceId = id
    <3>1. \A l \in live' : l <= id
      BY <1>1, <1>2 DEF IInv, Starting
    <3>2. nextInstanceId' = id + 1
      BY <1>1, <2>1
    <3>3. nextInstanceId' \notin live'
      BY <1>2, <3>1, <3>2
    <3> QED
      BY <3>3 DEF NextFree
  <2>2. CASE nextInstanceId # id
    BY <1>1, <2>2 DEF IInv, NextFree
  <2> QED
    BY <2>1, <2>2
<1>10. LiveIdsRecorded'
  <2>1. id % Word # 0 => id \in bits'
    BY <1>2, <1>3, OffWordInside
  <2> QED
    BY <1>1, <1>3, <2>1 DEF IInv, LiveIdsRecorded
<1> QED
  BY <1>5, <1>6, <1>7, <1>8, <1>9, <1>10 DEF IInv

\* Handing out an id keeps the invariant: the next one is available, and a live
\* id that is no multiple of Word is not.
LEMMA GenerateKeepsIInv ==
  ASSUME IInv, GenerateInstanceId
  PROVE  IInv'
<1> DEFINE id == nextInstanceId
<1>1. /\ UNCHANGED <<rows, fpc, fid, fcell, raced>>
      /\ rows = {} /\ Idle /\ id \in Ids
      /\ live' = live \cup {id}
      /\ nextInstanceId' = LowestAbove(id)
      /\ Grow(id) /\ SetBit(id, size')
  BY DEF GenerateInstanceId
<1>2. /\ size \in Nat /\ capacity \in Nat /\ size <= capacity /\ capacity % Word = 0 /\ size % Word = 0
      /\ bits \subseteq 1..(size - 1) /\ oob \in BOOLEAN /\ bits \subseteq Ids
      /\ id \in Nat \ {0} /\ id <= size + 1 /\ live \subseteq 1..size
  BY DEF IInv, TypeOK, Sized
<1>3. /\ size' \in Nat /\ capacity' \in Nat /\ size' <= capacity'
      /\ size' % Word = 0 /\ capacity' % Word = 0
      /\ size <= size' /\ id <= size'
  BY <1>1, <1>2, GrowMakesRoom
<1>4. /\ bits \subseteq bits' /\ bits' \subseteq 1..(size' - 1) /\ bits' \subseteq Ids /\ oob' \in BOOLEAN
      /\ id < size' => id \in bits'
  BY <1>1, <1>2, <1>3, SetBitTypes
<1> DEFINE next == LowestAbove(id)
<1>5. /\ next \in Nat /\ next > id /\ Available(next)
      /\ next <= id + 1 \/ next <= size
  BY <1>2, LowestAboveFinds
<1>6. nextInstanceId' = next
  BY <1>1
<1> HIDE DEF id, next
<1>7. TypeOK'
  <2>1. next \in Nat \ {0}
    BY <1>2, <1>5
  <2>2. size' \in 0..capacity'
    BY <1>3
  <2>3. live' \subseteq Ids
    BY <1>1 DEF IInv, TypeOK
  <2> QED
    BY <1>1, <1>3, <1>4, <1>6, <2>1, <2>2, <2>3 DEF IInv, TypeOK
<1>8. Sized'
  <2>1. next <= size' + 1
    <3>1. next \in Nat
      BY <1>5
    <3>2. id \in Nat /\ size \in Nat
      BY <1>2
    <3>3. PICK n \in Nat : n = size'
      BY <1>3
    <3>4. id <= n /\ size <= n
      BY <1>3, <3>3
    <3>5. next <= n + 1
      BY <1>5, <3>1, <3>2, <3>4
    <3> QED
      BY <3>1, <3>3, <3>5
  <2>2. live' \cup rows' \subseteq 1..size'
    BY <1>1, <1>2, <1>3
  <2>3. \A t \in Threads : fpc[t] = "idle"
    BY <1>1 DEF Idle
  <2> QED
    BY <1>1, <1>3, <1>4, <1>6, <2>1, <2>2, <2>3 DEF Sized
<1>9. Starting' /\ Freeing'
  BY <1>1 DEF Starting, Freeing, Idle
<1>10. NextFree'
  <2> SUFFICES ASSUME next \in live', next % Word # 0 PROVE FALSE
    BY <1>6 DEF NextFree
  <2>1. next \in live
    BY <1>1, <1>2, <1>5
  <2>2. next \in bits
    BY <2>1 DEF IInv, LiveIdsRecorded
  <2>3. next < size
    BY <1>2, <2>2
  <2> QED
    BY <1>2, <1>5, <2>2, <2>3 DEF Available
<1>11. LiveIdsRecorded'
  <2>1. id % Word # 0 => id \in bits'
    BY <1>2, <1>3, <1>4, OffWordInside
  <2> QED
    BY <1>1, <1>4, <2>1 DEF IInv, LiveIdsRecorded
<1> QED
  BY <1>7, <1>8, <1>9, <1>10, <1>11 DEF IInv

\* A call of FreeInstanceId keeps the invariant: ids in use only become fewer.
LEMMA FreeKeepsIInv ==
  ASSUME IInv, NEW t \in Threads, NEW id \in Ids, FreeInstanceId(t, id)
  PROVE  IInv'
<1>1. /\ UNCHANGED <<size, capacity, bits, oob, nextInstanceId, rows, fcell>>
      /\ rows = {} /\ id \in live /\ live' = live \ {id}
      /\ fid' = [fid EXCEPT ![t] = id]
      /\ fpc' = [fpc EXCEPT ![t] = IF id < nextInstanceId THEN "lower" ELSE "read"]
      /\ raced' = (raced \/ ~Idle)
  BY DEF FreeInstanceId, vecVars
<1>2. fpc \in [Threads -> {"idle", "lower", "read", "write"}] /\ fid \in [Threads -> Ids]
  BY DEF IInv, TypeOK
<1>3. /\ fpc'[t] \in {"lower", "read"} /\ fid'[t] = id
      /\ \A u \in Threads \ {t} : fpc'[u] = fpc[u] /\ fid'[u] = fid[u]
  BY <1>1, <1>2
<1>4. TypeOK'
  <2>1. fpc' \in [Threads -> {"idle", "lower", "read", "write"}] /\ fid' \in [Threads -> Ids]
    BY <1>1, <1>2
  <2>2. raced' \in BOOLEAN
    BY <1>1
  <2> QED
    BY <1>1, <2>1, <2>2 DEF IInv, TypeOK
<1>5. Sized'
  <2>1. \A u \in Threads : fpc'[u] # "idle" => fid'[u] <= size
    BY <1>1, <1>3 DEF IInv, TypeOK, Sized
  <2> QED
    BY <1>1, <2>1 DEF IInv, Sized
<1>6. Starting' /\ NextFree' /\ LiveIdsRecorded'
  BY <1>1 DEF IInv, Starting, NextFree, LiveIdsRecorded
<1>7. Freeing'
  <2> SUFFICES ASSUME NEW u \in Threads
               PROVE  /\ fpc'[u] # "idle" => fid'[u] \notin live'
                      /\ fpc'[u] = "write" => fcell'[u] \subseteq 1..(size' - 1)
                      /\ fpc'[u] = "write" =>
                           \A l \in live' : l % Word # 0 /\ l \div CellBits = fid'[u] \div CellBits => l \in fcell'[u]
    BY DEF Freeing
  <2>1. CASE u = t
    BY <1>1, <1>3, <2>1
  <2>2. CASE u # t
    BY <1>1, <1>3, <2>2 DEF IInv, Freeing
  <2> QED
    BY <2>1, <2>2
<1> QED
  BY <1>4, <1>5, <1>6, <1>7 DEF IInv

\* Each later step of FreeInstanceId keeps the invariant: what is written back
\* is missing no id of the cell that is in use.
LEMMA FreeStepsKeepIInv ==
  ASSUME IInv, NEW t \in Threads, Free(t)
  PROVE  IInv'
<1>1. /\ UNCHANGED <<size, capacity, live, rows, fid, raced>>
      /\ fpc[t] # "idle"
  BY DEF Free, SetNextInstanceId, ReadCell, WriteCell, vecVars
<1>2. /\ fpc \in [Threads -> {"idle", "lower", "read", "write"}]
      /\ fid \in [Threads -> Ids] /\ fcell \in [Threads -> SUBSET Ids]
      /\ bits \subseteq 1..(size - 1) /\ bits \subseteq Ids
  BY DEF IInv, TypeOK, Sized
<1>3. rows = {} /\ fid[t] \notin live /\ fid[t] <= size
  BY <1>1 DEF IInv, Starting, Freeing, Sized, Idle
<1>4. CASE SetNextInstanceId(t)
  <2>1. /\ nextInstanceId' = fid[t] /\ fpc' = [fpc EXCEPT ![t] = "read"]
        /\ UNCHANGED <<bits, oob, fcell>>
    BY <1>4 DEF SetNextInstanceId, vecVars
  <2>2. fid[t] \in Nat \ {0} /\ size \in Nat /\ fid[t] <= size + 1
    BY <1>2, <1>3, IdsAssumption DEF Ids, IInv, TypeOK
  <2>3. TypeOK'
    BY <1>1, <1>2, <2>1, <2>2 DEF IInv, TypeOK
  <2>4. Sized' /\ Starting' /\ NextFree' /\ LiveIdsRecorded'
    BY <1>1, <1>2, <1>3, <2>1, <2>2 DEF IInv, Sized, Starting, NextFree, LiveIdsRecorded
  <2>5. Freeing'
    BY <1>1, <1>2, <2>1 DEF IInv, Freeing
  <2> QED
    BY <2>3, <2>4, <2>5 DEF IInv
<1>5. CASE ReadCell(t)
  <2>1. /\ fcell' = [fcell EXCEPT ![t] = Cell(fid[t])] /\ fpc' = [fpc EXCEPT ![t] = "write"]
        /\ UNCHANGED <<bits, oob, nextInstanceId>>
    BY <1>5 DEF ReadCell, vecVars
  <2>2. Cell(fid[t]) \subseteq Ids
    BY <1>2 DEF Cell
  <2>3. TypeOK'
    BY <1>1, <1>2, <2>1, <2>2 DEF IInv, TypeOK
  <2>4. Sized' /\ Starting' /\ NextFree' /\ LiveIdsRecorded'
    BY <1>1, <1>2, <1>3, <2>1 DEF IInv, Sized, Starting, NextFree, LiveIdsRecorded
  <2>5. Freeing'
    <3> SUFFICES ASSUME NEW u \in Threads
                 PROVE  /\ fpc'[u] # "idle" => fid'[u] \notin live'
                        /\ fpc'[u] = "write" => fcell'[u] \subseteq 1..(size' - 1)
                        /\ fpc'[u] = "write" =>
                             \A l \in live' : l % Word # 0 /\ l \div CellBits = fid'[u] \div CellBits => l \in fcell'[u]
      BY DEF Freeing
    <3>1. CASE u = t
      <4>1. fcell'[u] = Cell(fid[t]) /\ fid'[u] = fid[t] /\ live' = live
        BY <1>1, <1>2, <2>1, <3>1
      <4>2. \A l \in live : l % Word # 0 => l \in bits
        BY DEF IInv, LiveIdsRecorded
      <4>3. Cell(fid[t]) \subseteq 1..(size' - 1)
        BY <1>1, <1>2 DEF Cell
      <4>4. \A l \in live : l % Word # 0 /\ l \div CellBits = fid[t] \div CellBits => l \in Cell(fid[t])
        BY <4>2 DEF Cell
      <4> QED
        BY <1>3, <4>1, <4>3, <4>4
    <3>2. CASE u # t
      BY <1>1, <1>2, <2>1, <3>2 DEF IInv, Freeing
    <3> QED
      BY <3>1, <3>2
  <2> QED
    BY <2>3, <2>4, <2>5 DEF IInv
<1>6. CASE WriteCell(t)
  <2>1. /\ fpc[t] = "write" /\ fpc' = [fpc EXCEPT ![t] = "idle"]
        /\ bits' = (bits \ Cell(fid[t])) \cup (fcell[t] \ {fid[t]})
        /\ oob' = (oob \/ fid[t] >= size)
        /\ UNCHANGED <<nextInstanceId, fcell>>
    BY <1>6 DEF WriteCell
  <2>2. bits' \subseteq Ids /\ bits' \subseteq 1..(size - 1)
    <3>1. fcell[t] \subseteq Ids /\ fcell[t] \subseteq 1..(size - 1)
      BY <1>2, <2>1 DEF IInv, Freeing
    <3> QED
      BY <1>2, <2>1, <3>1
  <2>3. TypeOK'
    <3>1. oob' \in BOOLEAN
      BY <2>1
    <3> QED
      BY <1>1, <1>2, <2>1, <2>2, <3>1 DEF IInv, TypeOK
  <2>4. Sized' /\ Starting' /\ NextFree'
    BY <1>1, <1>2, <1>3, <2>1, <2>2 DEF IInv, Sized, Starting, NextFree
  <2>5. Freeing'
    BY <1>1, <1>2, <2>1 DEF IInv, Freeing
  <2>6. LiveIdsRecorded'
    <3> SUFFICES ASSUME NEW l \in live, l % Word # 0 PROVE l \in bits'
      BY <1>1 DEF LiveIdsRecorded
    <3>1. l \in bits /\ l # fid[t]
      BY <1>3 DEF IInv, LiveIdsRecorded
    <3>2. CASE l \div CellBits = fid[t] \div CellBits
      <4>1. l \in fcell[t]
        BY <2>1, <3>2 DEF IInv, Freeing
      <4> QED
        BY <2>1, <3>1, <4>1
    <3>3. CASE l \div CellBits # fid[t] \div CellBits
      <4>1. l \notin Cell(fid[t])
        BY <3>3 DEF Cell
      <4> QED
        BY <2>1, <3>1, <4>1
    <3> QED
      BY <3>2, <3>3
  <2> QED
    BY <2>3, <2>4, <2>5, <2>6 DEF IInv
<1> QED
  BY <1>4, <1>5, <1>6 DEF Free

\* Every step keeps the inductive invariant.
LEMMA NextIInv == IInv /\ [Next]_vars => IInv'
<1> SUFFICES ASSUME IInv, [Next]_vars PROVE IInv'
  OBVIOUS
<1>1. ASSUME NEW id \in Ids, RegisterInstanceId(id) PROVE IInv'
  BY <1>1, RegisterKeepsIInv
<1>2. CASE GenerateInstanceId
  BY <1>2, GenerateKeepsIInv
<1>3. ASSUME NEW t \in Threads, NEW id \in Ids, FreeInstanceId(t, id) PROVE IInv'
  BY <1>3, FreeKeepsIInv
<1>4. ASSUME NEW t \in Threads, Free(t) PROVE IInv'
  BY <1>4, FreeStepsKeepIInv
<1>5. CASE UNCHANGED vars
  BY <1>5 DEF vars, IInv, TypeOK, Sized, Starting, Freeing, NextFree, LiveIdsRecorded, Idle
<1> QED
  BY <1>1, <1>2, <1>3, <1>4, <1>5 DEF Next

\* Every behaviour of the allocator keeps the inductive invariant.
THEOREM Inductive == Spec => []IInv
BY InitIInv, NextIInv, PTL DEF Spec

\* Every variable keeps its type: above all, no bit at or past the end of the
\* vector is ever set and _nextInstanceId never becomes 0.
THEOREM TypeCorrect == Spec => []TypeOK
<1>1. IInv => TypeOK
  BY DEF IInv
<1> QED
  BY <1>1, Inductive, PTL

\* Every id in use that is not a multiple of the word size has its bit, with any
\* number of threads writing whole cells back without a lock.
THEOREM LiveIdsAreRecorded == Spec => []LiveIdsRecorded
<1>1. IInv => LiveIdsRecorded
  BY DEF IInv
<1> QED
  BY <1>1, Inductive, PTL

\* GenerateInstanceId never hands out an id in use that is not a multiple of the
\* word size, although FreeInstanceId lowers _nextInstanceId without a lock.
THEOREM NextIdIsAvailable == Spec => []NextIsAvailableOffWords
<1>1. IInv => NextIsAvailableOffWords
  BY DEF IInv, NextFree, NextIsAvailableOffWords
<1> QED
  BY <1>1, Inductive, PTL

-----------------------------------------------------------------------------
(* While the calls of FreeInstanceId do not overlap                         *)

\* One thread at most is inside FreeInstanceId, its comparison and its copy of
\* the cell are still true, a bit is set for an id in use or about to be cleared,
\* and an id below the next one is in use or about to become the next one.
Serial ==
  /\ \A t, u \in Threads : fpc[t] # "idle" /\ fpc[u] # "idle" => t = u
  /\ \A t \in Threads : fpc[t] = "lower" => fid[t] < nextInstanceId
  /\ \A t \in Threads : fpc[t] = "write" => fcell[t] = Cell(fid[t])
  /\ \A b \in bits : b \in live \/ \E t \in Threads : fpc[t] # "idle" /\ fid[t] = b
  /\ \A i \in 1..(nextInstanceId - 1) : i \in live \/ \E t \in Threads : fpc[t] = "lower" /\ fid[t] = i

SerialUnlessRaced == ~raced => Serial

\* Registering a saved instance and handing out an id keep it: GenerateInstanceId
\* passes over set bits only, and these belong to ids in use.
LEMMA WorldKeepsSerial ==
  ASSUME IInv, Serial, GenerateInstanceId \/ \E id \in Ids : RegisterInstanceId(id)
  PROVE  Serial'
<1>1. Idle /\ UNCHANGED <<fpc, fid, fcell>> /\ size \in Nat /\ nextInstanceId \in Nat \ {0}
  BY DEF IInv, TypeOK, Starting, GenerateInstanceId, RegisterInstanceId
<1>2. \A t \in Threads : fpc[t] = "idle"
  BY <1>1 DEF Idle
<1>3. bits \subseteq live /\ \A i \in 1..(nextInstanceId - 1) : i \in live
  BY <1>2 DEF Serial
<1>4. SUFFICES bits' \subseteq live' /\ \A i \in 1..(nextInstanceId' - 1) : i \in live'
  BY <1>1, <1>2 DEF Serial
<1>5. ASSUME NEW id \in Ids, RegisterInstanceId(id)
      PROVE  bits' \subseteq live' /\ \A i \in 1..(nextInstanceId' - 1) : i \in live'
  <2>1. live' = live \cup {id} /\ SetBit(id, size)
        /\ nextInstanceId' = IF nextInstanceId = id THEN id + 1 ELSE nextInstanceId
    BY <1>5 DEF RegisterInstanceId
  <2>2. bits' \subseteq live'
    BY <1>3, <2>1 DEF SetBit
  <2>3. CASE nextInstanceId = id
    <3>1. nextInstanceId' = nextInstanceId + 1
      BY <2>1, <2>3
    <3> QED
      BY <1>1, <1>3, <2>1, <2>2, <2>3, <3>1
  <2>4. CASE nextInstanceId # id
    <3>1. nextInstanceId' = nextInstanceId
      BY <2>1, <2>4
    <3> QED
      BY <1>3, <2>1, <2>2, <3>1
  <2> QED
    BY <2>3, <2>4
<1>6. ASSUME GenerateInstanceId
      PROVE  bits' \subseteq live' /\ \A i \in 1..(nextInstanceId' - 1) : i \in live'
  <2> DEFINE next == LowestAbove(nextInstanceId)
  <2>1. live' = live \cup {nextInstanceId} /\ SetBit(nextInstanceId, size') /\ nextInstanceId' = next
    BY <1>6 DEF GenerateInstanceId
  <2>2. bits' \subseteq live'
    BY <1>3, <2>1 DEF SetBit
  <2>3. next \in Nat /\ \A j \in (nextInstanceId + 1)..(next - 1) : ~Available(j)
    BY <1>1, LowestAboveFinds
  <2> HIDE DEF next
  <2>4. ASSUME NEW i \in 1..(next - 1) PROVE i \in live'
    <3>1. i \in 1..(nextInstanceId - 1) \/ i = nextInstanceId \/ i \in (nextInstanceId + 1)..(next - 1)
      BY <1>1, <2>3
    <3>2. i \in (nextInstanceId + 1)..(next - 1) => i \in bits
      BY <2>3 DEF Available
    <3> QED
      BY <1>3, <2>1, <3>1, <3>2
  <2> QED
    BY <2>1, <2>2, <2>4
<1> QED
  BY <1>5, <1>6

\* A call of FreeInstanceId while no other is running keeps it.
LEMMA FreeKeepsSerial ==
  ASSUME IInv, Serial, Idle, NEW t \in Threads, NEW id \in Ids, FreeInstanceId(t, id)
  PROVE  Serial'
<1>1. /\ UNCHANGED <<bits, nextInstanceId, fcell>>
      /\ live' = live \ {id}
      /\ fid' = [fid EXCEPT ![t] = id]
      /\ fpc' = [fpc EXCEPT ![t] = IF id < nextInstanceId THEN "lower" ELSE "read"]
  BY DEF FreeInstanceId, vecVars
<1>2. /\ fpc \in [Threads -> {"idle", "lower", "read", "write"}] /\ fid \in [Threads -> Ids]
      /\ nextInstanceId \in Nat \ {0} /\ id \in Nat
  BY IdsAssumption DEF IInv, TypeOK, Ids
<1>3. \A u \in Threads : fpc[u] = "idle"
  BY DEF Idle
<1>4. /\ fid'[t] = id /\ fpc'[t] = IF id < nextInstanceId THEN "lower" ELSE "read"
      /\ \A u \in Threads \ {t} : fpc'[u] = "idle"
  BY <1>1, <1>2, <1>3
<1>5. bits \subseteq live /\ \A i \in 1..(nextInstanceId - 1) : i \in live
  BY <1>3 DEF Serial
<1>6. \A b \in bits' : b \in live' \/ \E u \in Threads : fpc'[u] # "idle" /\ fid'[u] = b
  BY <1>1, <1>4, <1>5
<1>7. \A i \in 1..(nextInstanceId' - 1) : i \in live' \/ \E u \in Threads : fpc'[u] = "lower" /\ fid'[u] = i
  <2> SUFFICES ASSUME NEW i \in 1..(nextInstanceId - 1), i \notin live'
               PROVE  fpc'[t] = "lower" /\ fid'[t] = i
    BY <1>1
  <2>1. i = id /\ id < nextInstanceId
    BY <1>1, <1>2, <1>5
  <2> QED
    BY <1>4, <2>1
<1>8. \A u \in Threads : fpc'[u] = "lower" => fid'[u] < nextInstanceId'
  BY <1>1, <1>4
<1> QED
  BY <1>4, <1>6, <1>7, <1>8 DEF Serial

\* The later steps of the only call keep it.
LEMMA FreeStepsKeepSerial ==
  ASSUME IInv, Serial, NEW t \in Threads, Free(t)
  PROVE  Serial'
<1>1. UNCHANGED <<live, fid>> /\ fpc[t] # "idle" /\ \A u \in Threads \ {t} : fpc[u] = "idle"
  BY DEF Free, SetNextInstanceId, ReadCell, WriteCell, Serial
<1>2. /\ fpc \in [Threads -> {"idle", "lower", "read", "write"}] /\ fcell \in [Threads -> SUBSET Ids]
      /\ nextInstanceId \in Nat \ {0} /\ fid[t] \in Nat
  BY IdsAssumption DEF IInv, TypeOK, Ids
<1>3. \A b \in bits : b \in live \/ b = fid[t]
  BY <1>1 DEF Serial
<1>4. \A i \in 1..(nextInstanceId - 1) : i \in live \/ (fpc[t] = "lower" /\ i = fid[t])
  BY <1>1 DEF Serial
<1>5. CASE SetNextInstanceId(t)
  <2>1. /\ fpc[t] = "lower" /\ nextInstanceId' = fid[t] /\ fpc' = [fpc EXCEPT ![t] = "read"]
        /\ UNCHANGED <<bits, fcell>>
    BY <1>5 DEF SetNextInstanceId, vecVars
  <2>2. fpc'[t] = "read" /\ \A u \in Threads \ {t} : fpc'[u] = "idle"
    BY <1>1, <1>2, <2>1
  <2>3. fid[t] < nextInstanceId
    BY <2>1 DEF Serial
  <2>4. \A i \in 1..(fid[t] - 1) : i \in live
    BY <1>2, <1>4, <2>3
  <2> QED
    BY <1>1, <1>3, <2>1, <2>2, <2>4 DEF Serial
<1>6. CASE ReadCell(t)
  <2>1. /\ fpc[t] = "read" /\ fcell' = [fcell EXCEPT ![t] = Cell(fid[t])] /\ fpc' = [fpc EXCEPT ![t] = "write"]
        /\ UNCHANGED <<bits, nextInstanceId>>
    BY <1>6 DEF ReadCell, vecVars
  <2>2. fpc'[t] = "write" /\ \A u \in Threads \ {t} : fpc'[u] = "idle"
    BY <1>1, <1>2, <2>1
  <2>3. fcell'[t] = Cell(fid[t]) /\ Cell(fid[t])' = Cell(fid[t])
    BY <1>1, <1>2, <2>1 DEF Cell
  <2> QED
    BY <1>1, <1>3, <1>4, <2>1, <2>2, <2>3 DEF Serial
<1>7. CASE WriteCell(t)
  <2>1. /\ fpc[t] = "write" /\ fpc' = [fpc EXCEPT ![t] = "idle"]
        /\ bits' = (bits \ Cell(fid[t])) \cup (fcell[t] \ {fid[t]})
        /\ UNCHANGED nextInstanceId
    BY <1>7 DEF WriteCell
  <2>2. \A u \in Threads : fpc'[u] = "idle"
    BY <1>1, <1>2, <2>1
  <2>3. fcell[t] = Cell(fid[t])
    BY <2>1 DEF Serial
  <2>4. bits' \subseteq bits \ {fid[t]}
    <3>1. \A b \in bits : b = fid[t] => b \in Cell(fid[t])
      BY DEF Cell
    <3>2. Cell(fid[t]) \subseteq bits
      BY DEF Cell
    <3> QED
      BY <2>1, <2>3, <3>1, <3>2
  <2> QED
    BY <1>1, <1>3, <1>4, <2>1, <2>2, <2>4 DEF Serial
<1> QED
  BY <1>5, <1>6, <1>7 DEF Free

\* The invariant for calls that do not overlap holds in every behaviour.
LEMMA SerialInductive == Spec => []SerialUnlessRaced
<1>1. Init => SerialUnlessRaced
  BY DEF Init, SerialUnlessRaced, Serial
<1>2. IInv /\ SerialUnlessRaced /\ [Next]_vars => SerialUnlessRaced'
  <2> SUFFICES ASSUME IInv, SerialUnlessRaced, [Next]_vars, ~raced' PROVE Serial'
    BY DEF SerialUnlessRaced
  <2>1. ASSUME GenerateInstanceId \/ \E id \in Ids : RegisterInstanceId(id) PROVE Serial'
    <3>1. ~raced
      BY <2>1 DEF GenerateInstanceId, RegisterInstanceId
    <3> QED
      BY <2>1, <3>1, WorldKeepsSerial DEF SerialUnlessRaced
  <2>2. ASSUME NEW t \in Threads, NEW id \in Ids, FreeInstanceId(t, id) PROVE Serial'
    <3>1. ~raced /\ Idle
      BY <2>2 DEF FreeInstanceId
    <3> QED
      BY <2>2, <3>1, FreeKeepsSerial DEF SerialUnlessRaced
  <2>3. ASSUME NEW t \in Threads, Free(t) PROVE Serial'
    <3>1. ~raced
      BY <2>3 DEF Free, SetNextInstanceId, ReadCell, WriteCell
    <3> QED
      BY <2>3, <3>1, FreeStepsKeepSerial DEF SerialUnlessRaced
  <2>4. CASE UNCHANGED vars
    BY <2>4 DEF vars, SerialUnlessRaced, Serial, Cell
  <2> QED
    BY <2>1, <2>2, <2>3, <2>4 DEF Next
<1> QED
  BY <1>1, <1>2, Inductive, PTL DEF Spec

\* As long as the calls of FreeInstanceId do not overlap, every id below
\* _nextInstanceId is in use, which is what GenerateInstanceId relies on.
THEOREM NextIdIsLowest == Spec => []NextIsLowestUnlessRaced
<1>1. SerialUnlessRaced => NextIsLowestUnlessRaced
  BY DEF SerialUnlessRaced, Serial, NextIsLowestUnlessRaced, NextIsLowest, Idle
<1> QED
  BY <1>1, SerialInductive, PTL

\* As long as the calls of FreeInstanceId do not overlap, no freed id keeps its
\* bit and is lost for new instances.
THEOREM FreedIdsAreReusable == Spec => []FreedIdsReusable
<1>1. SerialUnlessRaced => FreedIdsReusable
  BY DEF SerialUnlessRaced, Serial, FreedIdsReusable, Idle
<1> QED
  BY <1>1, SerialInductive, PTL
=============================================================================

---------------------------- MODULE InstanceIds ----------------------------
(***************************************************************************)
(* The allocator of instance ids in MapManager.  _instanceIds is a         *)
(* vector<bool> with one bit for every id in use, _nextInstanceId the id   *)
(* the next instance gets.  At startup the ids of the saved instances are  *)
(* registered; dungeons and battlegrounds take ids from the world thread,  *)
(* and FreeInstanceId is called without a lock by the worker threads that  *)
(* destroy battleground maps (MapInstanced::DestroyInstance), and by the   *)
(* world thread when an instance is reset.                                 *)
(*                                                                         *)
(* operator[] of the vector does not check its argument: a write past the  *)
(* end is lost, because the bits between size and capacity are cleared     *)
(* when the vector grows over them, and reads past the end do not occur.   *)
(* What else such a write damages is not modelled; oob records it.         *)
(***************************************************************************)
EXTENDS Naturals, FiniteSets

CONSTANTS
  MaxId,     \* bound on the ids handed out
  Word,      \* the vector is sized in multiples of Word bits (32 in the code)
  CellBits,  \* bits the processor reads and writes at once (64)
  Threads    \* threads that may be inside FreeInstanceId at a time

ASSUME IdsAssumption ==
  /\ MaxId \in Nat \ {0}
  /\ Word \in Nat \ {0}
  /\ CellBits \in Nat \ {0}

VARIABLES
  size, capacity,    \* of _instanceIds
  bits,              \* ids below size whose bit is set
  nextInstanceId,    \* _nextInstanceId
  live,              \* ids registered or handed out, and not given back
  rows,              \* rows of the table instance still to be registered
  oob,               \* an element past the end of the vector was written
  fpc, fid, fcell,   \* each thread in FreeInstanceId: where, its id, the bits it has read
  raced              \* history: a call of FreeInstanceId began while another was running

vecVars == <<size, capacity, bits, oob>>
vars == <<size, capacity, bits, nextInstanceId, live, rows, oob, fpc, fid, fcell, raced>>

Ids == 1..MaxId

\* The expression both calls of resize use.
RoundUp(n) == (n \div Word) * Word + (IF n % Word > 0 THEN Word ELSE 0)

\* What the library may allocate for n bits.
Capacities(n) == {c \in n..(n + 2 * Word) : c % Word = 0}

Cell(id) == {i \in bits : i \div CellBits = id \div CellBits}

Idle == \A t \in Threads : fpc[t] = "idle"

TypeOK ==
  /\ size \in 0..capacity
  /\ capacity \in Nat /\ capacity % Word = 0
  /\ bits \subseteq 1..(size - 1)
  /\ nextInstanceId \in Nat \ {0}
  /\ live \subseteq Ids
  /\ rows \subseteq Ids
  /\ oob \in BOOLEAN
  /\ fpc \in [Threads -> {"idle", "lower", "read", "write"}]
  /\ fid \in [Threads -> Ids]
  /\ fcell \in [Threads -> SUBSET Ids]
  /\ raced \in BOOLEAN

\* InitInstanceIds, with the greatest id of the table instance, or 0.
Init ==
  /\ rows \in SUBSET Ids
  /\ size = RoundUp(CHOOSE m \in rows \cup {0} : \A r \in rows : r <= m)
  /\ capacity \in Capacities(size)
  /\ bits = {}
  /\ nextInstanceId = 1
  /\ live = {}
  /\ oob = FALSE
  /\ fpc = [t \in Threads |-> "idle"]
  /\ fid \in [Threads -> {1}]
  /\ fcell = [t \in Threads |-> {}]
  /\ raced = FALSE

\* _instanceIds[id] = true on a vector of n bits.
SetBit(id, n) ==
  /\ bits' = IF id < n THEN bits \cup {id} ELSE bits
  /\ oob' = (oob \/ id >= n)

\* Mutant: the row's id is not skipped by _nextInstanceId.
RegisterInstanceIdOnly(id) ==
  /\ id \in rows /\ \A r \in rows : id <= r
  /\ SetBit(id, size)
  /\ live' = live \cup {id}
  /\ rows' = rows \ {id}
  /\ UNCHANGED <<size, capacity, nextInstanceId, fpc, fid, fcell, raced>>

\* LoadResetTimes reads the rows in ascending order.
RegisterInstanceId(id) ==
  /\ id \in rows /\ \A r \in rows : id <= r
  /\ nextInstanceId' = IF nextInstanceId = id THEN id + 1 ELSE nextInstanceId
  /\ SetBit(id, size)
  /\ live' = live \cup {id}
  /\ rows' = rows \ {id}
  /\ UNCHANGED <<size, capacity, fpc, fid, fcell, raced>>

-----------------------------------------------------------------------------

Available(i) == i >= size \/ i \notin bits

\* Mutant: the search starts behind the first candidate.
LowestAboveSkips(id) ==
  CHOOSE i \in (id + 2)..(id + size + 2) : Available(i) /\ \A j \in (id + 2)..(i - 1) : ~Available(j)

\* The loop of GenerateInstanceId.
LowestAbove(id) ==
  CHOOSE i \in (id + 1)..(id + size + 1) : Available(i) /\ \A j \in (id + 1)..(i - 1) : ~Available(j)

\* "Allocate space if necessary"
Grow(id) ==
  \/ id < size /\ UNCHANGED <<size, capacity>>
  \/ /\ id >= size /\ size < capacity
     /\ size' = capacity
     /\ UNCHANGED capacity
  \/ /\ id >= size /\ size = capacity
     /\ size' = RoundUp(id)
     /\ IF RoundUp(id) > capacity THEN capacity' \in Capacities(RoundUp(id)) ELSE UNCHANGED capacity

\* On the world thread, which the map threads are not running beside.
GenerateInstanceId ==
  /\ rows = {} /\ Idle
  /\ nextInstanceId \in Ids
  /\ nextInstanceId' = LowestAbove(nextInstanceId)
  /\ Grow(nextInstanceId)
  /\ SetBit(nextInstanceId, size')
  /\ live' = live \cup {nextInstanceId}
  /\ UNCHANGED <<rows, fpc, fid, fcell, raced>>

-----------------------------------------------------------------------------
(* FreeInstanceId: the comparison, SetNextInstanceId, and the read and the  *)
(* write of the cell that holds the bit                                     *)

FreeInstanceId(t, id) ==
  /\ rows = {}
  /\ fpc[t] = "idle"
  /\ id \in live
  /\ live' = live \ {id}
  /\ fid' = [fid EXCEPT ![t] = id]
  /\ fpc' = [fpc EXCEPT ![t] = IF id < nextInstanceId THEN "lower" ELSE "read"]
  /\ raced' = (raced \/ ~Idle)
  /\ UNCHANGED <<vecVars, nextInstanceId, rows, fcell>>

SetNextInstanceId(t) ==
  /\ fpc[t] = "lower"
  /\ nextInstanceId' = fid[t]
  /\ fpc' = [fpc EXCEPT ![t] = "read"]
  /\ UNCHANGED <<vecVars, live, rows, fid, fcell, raced>>

ReadCell(t) ==
  /\ fpc[t] = "read"
  /\ fcell' = [fcell EXCEPT ![t] = Cell(fid[t])]
  /\ fpc' = [fpc EXCEPT ![t] = "write"]
  /\ UNCHANGED <<vecVars, nextInstanceId, live, rows, fid, raced>>

\* Mutant: the bit is left set.
WriteCellNothing(t) ==
  /\ fpc[t] = "write"
  /\ fpc' = [fpc EXCEPT ![t] = "idle"]
  /\ UNCHANGED <<vecVars, nextInstanceId, live, rows, fid, fcell, raced>>

WriteCell(t) ==
  /\ fpc[t] = "write"
  /\ bits' = (bits \ Cell(fid[t])) \cup (fcell[t] \ {fid[t]})
  /\ oob' = (oob \/ fid[t] >= size)
  /\ fpc' = [fpc EXCEPT ![t] = "idle"]
  /\ UNCHANGED <<size, capacity, nextInstanceId, live, rows, fid, fcell, raced>>

Free(t) == SetNextInstanceId(t) \/ ReadCell(t) \/ WriteCell(t)

Next ==
  \/ \E id \in Ids : RegisterInstanceId(id)
  \/ GenerateInstanceId
  \/ \E t \in Threads : Free(t) \/ \E id \in Ids : FreeInstanceId(t, id)

Spec == Init /\ [][Next]_vars

-----------------------------------------------------------------------------
(* Properties                                                               *)

\* Except at multiples of Word, where resize makes no room, this is so, with any
\* saved instances and any number of threads inside FreeInstanceId.
NextIsAvailableOffWords == rows = {} /\ nextInstanceId % Word # 0 => nextInstanceId \notin live

\* Every other id in use has its bit, whatever the threads that free ids write.
LiveIdsRecorded == \A id \in live : id % Word # 0 => id \in bits

\* "which should be the lowest according to the logic in FreeInstanceId()": every
\* id below _nextInstanceId is in use.
NextIsLowest == Idle => \A id \in 1..(nextInstanceId - 1) : id \in live

\* The same for every schedule in which the calls of FreeInstanceId do not overlap.
NextIsLowestUnlessRaced == ~raced => NextIsLowest

\* A freed id can be taken again: no bit is left set for it, unless two calls of
\* FreeInstanceId overlapped.
FreedIdsReusable == ~raced /\ Idle => bits \subseteq live
=============================================================================

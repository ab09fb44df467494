-------------------------- MODULE InstanceSavesProofs --------------------------
(***************************************************************************)
(* Proofs about InstanceSaves, for any finite sets of players and ids.     *)
(*                                                                         *)
(* x stands for the variable b or a value a handler computes from it, u    *)
(* for the ids in use, on for the players who are online (and one whose    *)
(* login is being applied) and rd for what the logins have read.           *)
(***************************************************************************)
EXTENDS InstanceSaves, FiniteSetTheorems, WellFoundedInduction, TLAPS

Boards ==
  [save : [Ids -> Saves \cup {NoSave}], pbind : [Players -> Rows \cup {NoBind}],
   gbind : Rows \cup {NoBind}, irow : SUBSET Ids, crow : [Players -> SUBSET Rows],
   grow : SUBSET Rows, doubled : SUBSET Ids, stale : SUBSET Ids]

Readings == [Players -> SUBSET Rows]

-----------------------------------------------------------------------------
(* The parts of the invariant                                               *)

\* The lists of the saves and the binds agree.
PlayersLinked(x) ==
  \A i \in Ids, p \in Players :
    (x.save[i] # NoSave /\ p \in x.save[i].players) <=> (x.pbind[p] # NoBind /\ x.pbind[p].id = i)

GroupLinked(x) ==
  \A i \in Ids : (x.save[i] # NoSave /\ x.save[i].group) <=> (x.gbind # NoBind /\ x.gbind.id = i)

\* A save that nobody is bound to is gone, unless it is in new.
NoneEmpty(x, new) ==
  \A i \in Ids \ new : x.save[i] # NoSave => x.save[i].players # {} \/ x.save[i].group

\* The ids that two unrelated binds, or a login with deleted rows, may cost their rows.
Lost(x) == x.doubled \cup x.stale

\* Who resets a save through his own bind takes the rows of nobody else.
BoundPlayers(x, i) == {p \in Players : x.pbind[p] # NoBind /\ x.pbind[p].id = i}

ResetsSafe(x) ==
  \A i \in Ids : x.save[i] # NoSave =>
    \A p \in BoundPlayers(x, i) :
      /\ x.save[i].canReset => ~x.pbind[p].perm
      /\ x.save[i].group => x.pbind[p].perm \/ i \in Lost(x)
      /\ \A q \in BoundPlayers(x, i) : p = q \/ x.pbind[p].perm \/ x.pbind[q].perm \/ i \in Lost(x)

\* The binds and the saves have their rows.
PlayersDurable(x) ==
  \A p \in Players : x.pbind[p] # NoBind =>
    x.pbind[p].id \in Lost(x) \/ (x.pbind[p] \in x.crow[p] /\ x.pbind[p].id \in x.irow)

GroupDurable(x) ==
  x.gbind # NoBind => x.gbind.id \in Lost(x) \/ (x.gbind \in x.grow /\ x.gbind.id \in x.irow)

SavesDurable(x) == \A i \in Ids : x.save[i] # NoSave => i \in x.irow \cup Lost(x)

\* A player who is online has no row of an existing instance but that of his bind;
\* a player who is not has one at most, and no bind.  Two players never have the
\* same row that is not permanent: the instance was new for the one who got it.
RowsSound(x, u, on) ==
  /\ \A p \in Players : \A r \in x.crow[p] : r.id \in u
  /\ \A p, q \in Players : \A r \in x.crow[p] \cap x.crow[q] : p = q \/ r.perm
  /\ \A p \in on : \A r \in x.crow[p] : r.id \in x.irow => r = x.pbind[p]
  /\ \A p \in Players \ on :
       /\ x.pbind[p] = NoBind
       /\ \A r, s \in x.crow[p] : r.id \in x.irow /\ s.id \in x.irow => r = s

\* What a login has read is still there, or marked as stale, and it is all there is.
ReadSound(x, on, rd) ==
  \A p \in Players \ on :
    /\ \A r \in rd[p] :
         /\ r.id \in x.stale \/ (r \in x.crow[p] /\ r.id \in x.irow)
         /\ \A s \in x.crow[p] \cup rd[p] : s.id \in x.irow \/ s \in rd[p] => r = s
    /\ status[p] = "loading" => \A s \in x.crow[p] : s.id \in x.irow => s \in rd[p]

\* The ids of rows, saves and logins are in use.
Covered(x, u, rd) ==
  /\ x.irow \subseteq u
  /\ \A i \in Ids : x.save[i] # NoSave => i \in u \cup x.stale
  /\ \A p \in Players : \A r \in rd[p] : r.id \in u \cup x.stale

\* Nothing is permanent in a normal dungeon.
NormalBinds(x, rd) ==
  ~heroic =>
    /\ \A p \in Players : /\ x.pbind[p] # NoBind => ~x.pbind[p].perm
                          /\ \A r \in x.crow[p] \cup rd[p] : ~r.perm
    /\ x.gbind # NoBind => ~x.gbind.perm
    /\ \A r \in x.grow : ~r.perm

Sound(x, new, u, on, rd) ==
  /\ x \in Boards
  /\ PlayersLinked(x) /\ GroupLinked(x) /\ NoneEmpty(x, new)
  /\ ResetsSafe(x) /\ PlayersDurable(x) /\ GroupDurable(x) /\ SavesDurable(x)
  /\ RowsSound(x, u, on) /\ ReadSound(x, on, rd)
  /\ Covered(x, u, rd) /\ NormalBinds(x, rd)

OnlineNow == {p \in Players : Online(p)}

VarsOK ==
  /\ heroic \in BOOLEAN
  /\ used \subseteq Ids
  /\ events \in [Ids -> Nat]
  /\ where \in [Players -> Ids \cup {Outside, Saved}]
  /\ status \in [Players -> {"offline", "loading", "online"}]
  /\ read \in Readings
  /\ group \in Groups \cup {NoGroup}
  /\ pending \in [Players -> Ids \cup {NoId}]

\* Who is inside is online, in an instance whose id is in use; a reset is only
\* scheduled for such an id, and only while nobody is inside.
Schedules ==
  /\ \A p \in Players : where[p] \in Ids => Online(p) /\ where[p] \in used
  /\ \A i \in Ids : events[i] > 0 =>
       ~heroic /\ events[i] = 1 /\ i \in used /\ \A p \in Players : where[p] # i

\* A lock waits for its answer in a heroic dungeon only, and its id is in use.
LocksSound == \A p \in Players : pending[p] # NoId => heroic /\ pending[p] \in used

ReadsOver == \A p \in Players : status[p] # "loading" => read[p] = {}

IInv == VarsOK /\ Schedules /\ LocksSound /\ ReadsOver /\ Sound(b, {}, used, OnlineNow, read)

-----------------------------------------------------------------------------
(* The operations of InstanceSaveManager, field by field                    *)

\* The fields of a board, of a save and of a row.
LEMMA BoardFields ==
  ASSUME NEW x \in Boards
  PROVE  /\ x.save \in [Ids -> Saves \cup {NoSave}] /\ x.pbind \in [Players -> Rows \cup {NoBind}]
         /\ x.gbind \in Rows \cup {NoBind} /\ x.irow \in SUBSET Ids
         /\ x.crow \in [Players -> SUBSET Rows] /\ x.grow \in SUBSET Rows
         /\ x.doubled \in SUBSET Ids /\ x.stale \in SUBSET Ids
         /\ \A i \in Ids : x.save[i] # NoSave =>
              /\ x.save[i].players \in SUBSET Players /\ x.save[i].group \in BOOLEAN
              /\ x.save[i].canReset \in BOOLEAN
         /\ \A p \in Players : x.pbind[p] # NoBind => x.pbind[p].id \in Ids
         /\ x.gbind # NoBind => x.gbind.id \in Ids
<1>1. /\ x.save \in [Ids -> Saves \cup {NoSave}] /\ x.pbind \in [Players -> Rows \cup {NoBind}]
      /\ x.gbind \in Rows \cup {NoBind} /\ x.irow \in SUBSET Ids
      /\ x.crow \in [Players -> SUBSET Rows] /\ x.grow \in SUBSET Rows
      /\ x.doubled \in SUBSET Ids /\ x.stale \in SUBSET Ids
  BY DEF Boards
<1>2. \A s \in Saves : s.players \in SUBSET Players /\ s.group \in BOOLEAN /\ s.canReset \in BOOLEAN
  BY DEF Saves
<1>3. \A r \in Rows : r.id \in Ids
  BY DEF Rows
<1>4. \A i \in Ids : x.save[i] # NoSave => x.save[i] \in Saves
  BY <1>1
<1>5. \A p \in Players : x.pbind[p] # NoBind => x.pbind[p] \in Rows
  BY <1>1
<1> QED
  BY <1>1, <1>2, <1>3, <1>4, <1>5

\* Everything but the saves and their history is as it was.
SameRows(x, y) ==
  /\ y.pbind = x.pbind /\ y.gbind = x.gbind /\ y.irow = x.irow /\ y.crow = x.crow /\ y.grow = x.grow

\* The history of ids with a save, or that a login has read, is kept.
HistoryKept(x, y) ==
  /\ y.stale \subseteq x.stale
  /\ \A j \in Lost(x) : y.save[j] # NoSave => j \in Lost(y)
  /\ \A j \in x.stale : y.save[j] # NoSave \/ IsRead(j) => j \in y.stale

\* RemoveInstanceSave takes the save out of the map.
LEMMA DeleteSaveFields ==
  ASSUME NEW x \in Boards, NEW i \in Ids
  PROVE  LET y == DeleteSave(x, i) IN
         /\ y \in Boards /\ SameRows(x, y) /\ HistoryKept(x, y)
         /\ y.save[i] = NoSave /\ \A j \in Ids \ {i} : y.save[j] = x.save[j]
<1> DEFINE s == [x.save EXCEPT ![i] = NoSave]
           d == x.doubled \ {i}
           st == IF IsRead(i) THEN x.stale ELSE x.stale \ {i}
           y == [x EXCEPT !.save = s, !.doubled = d, !.stale = st]
<1>1. DeleteSave(x, i) = y
  BY DEF DeleteSave
<1>2. /\ s \in [Ids -> Saves \cup {NoSave}] /\ s[i] = NoSave /\ \A j \in Ids \ {i} : s[j] = x.save[j]
      /\ d \in SUBSET Ids /\ st \in SUBSET Ids
  BY BoardFields
<1>3. /\ st \subseteq x.stale /\ \A j \in x.stale : j # i \/ IsRead(j) => j \in st
      /\ \A j \in x.doubled : j # i => j \in d
  OBVIOUS
<1> HIDE DEF s, d, st
<1>4. /\ y \in Boards /\ y.save = s /\ y.doubled = d /\ y.stale = st
      /\ y.pbind = x.pbind /\ y.gbind = x.gbind /\ y.irow = x.irow /\ y.crow = x.crow /\ y.grow = x.grow
  BY <1>2 DEF Boards
<1> HIDE DEF y
<1>5. HistoryKept(x, y)
  <2>1. \A j \in Lost(x) : y.save[j] # NoSave => j \in Lost(y)
    BY <1>2, <1>3, <1>4 DEF Lost
  <2>2. \A j \in x.stale : y.save[j] # NoSave \/ IsRead(j) => j \in y.stale
    BY <1>2, <1>3, <1>4
  <2> QED
    BY <1>3, <1>4, <2>1, <2>2 DEF HistoryKept
<1> QED
  BY <1>1, <1>2, <1>4, <1>5 DEF SameRows

\* The save has lost the player, or is gone because nobody is bound to it any more.
Unlisted(x, y, p, i) ==
  \/ /\ y.save[i] = NoSave
     /\ x.save[i].players \subseteq {p} /\ ~x.save[i].group
  \/ /\ y.save[i] # NoSave
     /\ y.save[i].players = x.save[i].players \ {p}
     /\ y.save[i].group <=> x.save[i].group
     /\ y.save[i].canReset <=> x.save[i].canReset
     /\ y.save[i].players # {} \/ y.save[i].group

\* InstanceSave::RemovePlayer takes the player off the list of this save only.
LEMMA RemovePlayerFields ==
  ASSUME NEW x \in Boards, NEW i \in Ids, NEW p \in Players, x.save[i] # NoSave
  PROVE  LET y == RemovePlayer(x, p, i) IN
         /\ y \in Boards /\ SameRows(x, y) /\ HistoryKept(x, y) /\ Unlisted(x, y, p, i)
         /\ \A j \in Ids \ {i} : y.save[j] = x.save[j]
<1> DEFINE sv == [x.save[i] EXCEPT !.players = @ \ {p}]
           s == [x.save EXCEPT ![i] = sv]
           m == [x EXCEPT !.save = s]
<1>1. x.save \in [Ids -> Saves \cup {NoSave}] /\ x.save[i] \in Saves
  BY BoardFields
<1>2. /\ sv \in Saves /\ sv.players = x.save[i].players \ {p}
      /\ sv.group = x.save[i].group /\ sv.canReset = x.save[i].canReset
  BY <1>1 DEF Saves
<1>3. [x EXCEPT !.save[i].players = @ \ {p}] = m
  BY <1>1 DEF Boards
<1> HIDE DEF sv
<1>4. s \in [Ids -> Saves \cup {NoSave}] /\ s[i] = sv /\ \A j \in Ids \ {i} : s[j] = x.save[j]
  BY <1>1, <1>2
<1> HIDE DEF s
<1>5. /\ m \in Boards /\ m.save = s /\ SameRows(x, m)
      /\ m.doubled = x.doubled /\ m.stale = x.stale
  BY <1>4 DEF Boards, SameRows
<1> HIDE DEF m
<1>6. RemovePlayer(x, p, i) = IF m.save[i].players = {} /\ ~m.save[i].group THEN DeleteSave(m, i) ELSE m
  BY <1>3 DEF RemovePlayer, UnloadIfEmpty
<1>7. CASE m.save[i].players = {} /\ ~m.save[i].group
  <2> DEFINE y == DeleteSave(m, i)
  <2>1. /\ y \in Boards /\ SameRows(m, y) /\ HistoryKept(m, y)
        /\ y.save[i] = NoSave /\ \A j \in Ids \ {i} : y.save[j] = m.save[j]
    BY <1>5, DeleteSaveFields
  <2> HIDE DEF y
  <2>2. Unlisted(x, y, p, i)
    BY <1>2, <1>4, <1>5, <1>7, <2>1 DEF Unlisted
  <2>3. HistoryKept(x, y)
    BY <1>5, <2>1 DEF HistoryKept, Lost
  <2>4. RemovePlayer(x, p, i) = y
    BY <1>6, <1>7 DEF y
  <2> QED
    BY <1>4, <1>5, <2>1, <2>2, <2>3, <2>4 DEF SameRows
<1>8. CASE ~(m.save[i].players = {} /\ ~m.save[i].group)
  <2>1. RemovePlayer(x, p, i) = m
    BY <1>6, <1>8
  <2>2. sv # NoSave
    BY <1>2, NullAssumption
  <2>3. Unlisted(x, m, p, i)
    BY <1>2, <1>4, <1>5, <1>8, <2>2 DEF Unlisted
  <2>4. HistoryKept(x, m)
    BY <1>5 DEF HistoryKept, Lost
  <2> QED
    BY <1>4, <1>5, <2>1, <2>3, <2>4
<1> QED
  BY <1>7, <1>8

\* The save has lost the group, or is gone because nobody is bound to it any more.
UnlistedGroup(x, y, i) ==
  \/ /\ y.save[i] = NoSave
     /\ x.save[i].players = {}
  \/ /\ y.save[i] # NoSave
     /\ y.save[i].players = x.save[i].players /\ y.save[i].players # {}
     /\ ~y.save[i].group
     /\ y.save[i].canReset <=> x.save[i].canReset

\* InstanceSave::RemoveGroup does so for the group.
LEMMA RemoveGroupFields ==
  ASSUME NEW x \in Boards, NEW i \in Ids, x.save[i] # NoSave
  PROVE  LET y == RemoveGroup(x, i) IN
         /\ y \in Boards /\ SameRows(x, y) /\ HistoryKept(x, y) /\ UnlistedGroup(x, y, i)
         /\ \A j \in Ids \ {i} : y.save[j] = x.save[j]
<1> DEFINE sv == [x.save[i] EXCEPT !.group = FALSE]
           s == [x.save EXCEPT ![i] = sv]
           m == [x EXCEPT !.save = s]
<1>1. x.save \in [Ids -> Saves \cup {NoSave}] /\ x.save[i] \in Saves
  BY BoardFields
<1>2. /\ sv \in Saves /\ sv.players = x.save[i].players
      /\ ~sv.group /\ sv.canReset = x.save[i].canReset
  BY <1>1 DEF Saves
<1>3. [x EXCEPT !.save[i].group = FALSE] = m
  BY <1>1 DEF Boards
<1> HIDE DEF sv
<1>4. s \in [Ids -> Saves \cup {NoSave}] /\ s[i] = sv /\ \A j \in Ids \ {i} : s[j] = x.save[j]
  BY <1>1, <1>2
<1> HIDE DEF s
<1>5. /\ m \in Boards /\ m.save = s /\ SameRows(x, m)
      /\ m.doubled = x.doubled /\ m.stale = x.stale
  BY <1>4 DEF Boards, SameRows
<1> HIDE DEF m
<1>6. RemoveGroup(x, i) = IF m.save[i].players = {} /\ ~m.save[i].group THEN DeleteSave(m, i) ELSE m
  BY <1>3 DEF RemoveGroup, UnloadIfEmpty
<1>7. CASE m.save[i].players = {}
  <2> DEFINE y == DeleteSave(m, i)
  <2>1. /\ y \in Boards /\ SameRows(m, y) /\ HistoryKept(m, y)
        /\ y.save[i] = NoSave /\ \A j \in Ids \ {i} : y.save[j] = m.save[j]
    BY <1>5, DeleteSaveFields
  <2> HIDE DEF y
  <2>2. UnlistedGroup(x, y, i)
    BY <1>2, <1>4, <1>5, <1>7, <2>1 DEF UnlistedGroup
  <2>3. HistoryKept(x, y)
    BY <1>5, <2>1 DEF HistoryKept, Lost
  <2>4. RemoveGroup(x, i) = y
    BY <1>2, <1>4, <1>5, <1>6, <1>7 DEF y
  <2> QED
    BY <1>4, <1>5, <2>1, <2>2, <2>3, <2>4 DEF SameRows
<1>8. CASE m.save[i].players # {}
  <2>1. RemoveGroup(x, i) = m
    BY <1>6, <1>8
  <2>2. sv # NoSave
    BY <1>2, NullAssumption
  <2>3. UnlistedGroup(x, m, i)
    BY <1>2, <1>4, <1>5, <1>8, <2>2 DEF UnlistedGroup
  <2>4. HistoryKept(x, m)
    BY <1>5 DEF HistoryKept, Lost
  <2> QED
    BY <1>4, <1>5, <2>1, <2>3, <2>4
<1> QED
  BY <1>7, <1>8

\* y is x with a save of i, which is new if there was none.
SaveAdded(x, y, i, load) ==
  \/ x.save[i] # NoSave /\ y = x
  \/ /\ x.save[i] = NoSave /\ y \in Boards
     /\ y.pbind = x.pbind /\ y.gbind = x.gbind /\ y.crow = x.crow /\ y.grow = x.grow
     /\ y.doubled = x.doubled /\ y.stale = x.stale
     /\ y.irow = IF load THEN x.irow ELSE x.irow \cup {i}
     /\ y.save[i] # NoSave /\ y.save[i].players = {} /\ ~y.save[i].group
     /\ \A j \in Ids \ {i} : y.save[j] = x.save[j]

\* AddInstanceSave finds the save, or makes one that nobody is bound to.
LEMMA AddSaveFields ==
  ASSUME NEW x \in Boards, NEW i \in Ids, NEW canReset \in BOOLEAN, NEW load \in BOOLEAN
  PROVE  SaveAdded(x, AddInstanceSave(x, i, canReset, load), i, load)
<1> DEFINE sv == [players |-> {}, group |-> FALSE, canReset |-> canReset]
           s == [x.save EXCEPT ![i] = sv]
           ir == IF load THEN x.irow ELSE x.irow \cup {i}
           y == [x EXCEPT !.save = s, !.irow = ir]
<1>1. CASE x.save[i] # NoSave
  BY <1>1 DEF AddInstanceSave, SaveAdded
<1>2. CASE x.save[i] = NoSave
  <2>1. AddInstanceSave(x, i, canReset, load) = y
    BY <1>2 DEF AddInstanceSave
  <2>2. sv \in Saves /\ sv.players = {} /\ ~sv.group
    BY DEF Saves
  <2> HIDE DEF sv
  <2>3. sv # NoSave
    BY <2>2, NullAssumption
  <2>4. /\ s \in [Ids -> Saves \cup {NoSave}] /\ s[i] = sv /\ \A j \in Ids \ {i} : s[j] = x.save[j]
        /\ ir \in SUBSET Ids
    BY <2>2, BoardFields
  <2> HIDE DEF s
  <2>5. /\ y \in Boards /\ y.save = s /\ y.irow = ir
        /\ y.pbind = x.pbind /\ y.gbind = x.gbind /\ y.crow = x.crow /\ y.grow = x.grow
        /\ y.doubled = x.doubled /\ y.stale = x.stale
    BY <2>4 DEF Boards
  <2> HIDE DEF y
  <2> QED
    BY <1>2, <2>1, <2>2, <2>3, <2>4, <2>5 DEF SaveAdded
<1> QED
  BY <1>1, <1>2

\* DeleteInstanceFromDB, for several instances at once.
LEMMA DeleteFromDBFields ==
  ASSUME NEW x \in Boards, NEW ids \in SUBSET Ids
  PROVE  LET y == DeleteFromDB(x, ids) IN
         /\ y \in Boards /\ y.save = x.save /\ y.pbind = x.pbind /\ y.gbind = x.gbind
         /\ y.doubled = x.doubled /\ y.stale = x.stale \cup {i \in ids : IsRead(i)}
         /\ y.irow = x.irow \ ids /\ y.grow = {r \in x.grow : r.id \notin ids}
         /\ \A p \in Players : y.crow[p] = {r \in x.crow[p] : r.id \notin ids}
<1> DEFINE ir == x.irow \ ids
           gr == {r \in x.grow : r.id \notin ids}
           cr == [p \in Players |-> {r \in x.crow[p] : r.id \notin ids}]
           st == x.stale \cup {i \in ids : IsRead(i)}
           y == [x EXCEPT !.irow = ir, !.grow = gr, !.crow = cr, !.stale = st]
<1>1. DeleteFromDB(x, ids) = y
  BY DEF DeleteFromDB
<1>2. /\ ir \in SUBSET Ids /\ gr \in SUBSET Rows /\ st \in SUBSET Ids
      /\ cr \in [Players -> SUBSET Rows]
      /\ \A p \in Players : cr[p] = {r \in x.crow[p] : r.id \notin ids}
  BY BoardFields
<1> HIDE DEF ir, gr, cr, st
<1>3. /\ y \in Boards /\ y.save = x.save /\ y.pbind = x.pbind /\ y.gbind = x.gbind
      /\ y.doubled = x.doubled /\ y.stale = st /\ y.irow = ir /\ y.grow = gr /\ y.crow = cr
  BY <1>2 DEF Boards
<1> QED
  BY <1>1, <1>2, <1>3 DEF ir, gr, st

\* _ResetSave takes the binds to the save, and nothing else.
LEMMA ResetSaveFields ==
  ASSUME NEW x \in Boards, NEW i \in Ids
  PROVE  LET y == ResetSave(x, i) IN
         /\ y \in Boards /\ HistoryKept(x, y)
         /\ y.irow = x.irow /\ y.crow = x.crow /\ y.grow = x.grow
         /\ y.save[i] = NoSave /\ \A j \in Ids \ {i} : y.save[j] = x.save[j]
         /\ \A p \in Players :
              y.pbind[p] = IF x.save[i] # NoSave /\ p \in x.save[i].players THEN NoBind ELSE x.pbind[p]
         /\ y.gbind = IF x.save[i] # NoSave /\ x.save[i].group THEN NoBind ELSE x.gbind
<1>1. CASE x.save[i] = NoSave
  BY <1>1 DEF ResetSave, HistoryKept
<1>2. CASE x.save[i] # NoSave
  <2> DEFINE d == DeleteSave(x, i)
             pb == [p \in Players |-> IF p \in x.save[i].players THEN NoBind ELSE x.pbind[p]]
             gb == IF x.save[i].group THEN NoBind ELSE x.gbind
             y == [d EXCEPT !.pbind = pb, !.gbind = gb]
  <2>1. /\ d \in Boards /\ SameRows(x, d) /\ HistoryKept(x, d)
        /\ d.save[i] = NoSave /\ \A j \in Ids \ {i} : d.save[j] = x.save[j]
    BY DeleteSaveFields
  <2> HIDE DEF d
  <2>2. ResetSave(x, i) = [d EXCEPT
                 !.pbind = [p \in Players |-> IF p \in x.save[i].players THEN NoBind ELSE @[p]],
                 !.gbind = IF x.save[i].group THEN NoBind ELSE @]
    BY <1>2, Zenon DEF ResetSave, d
  <2>3. ResetSave(x, i) = y
    BY <2>1, <2>2 DEF SameRows
  <2>4. pb \in [Players -> Rows \cup {NoBind}] /\ gb \in Rows \cup {NoBind}
    BY BoardFields
  <2>5. \A p \in Players : pb[p] = IF p \in x.save[i].players THEN NoBind ELSE x.pbind[p]
    OBVIOUS
  <2> HIDE DEF pb, gb
  <2>6. /\ y \in Boards /\ y.pbind = pb /\ y.gbind = gb /\ y.save = d.save
        /\ y.irow = d.irow /\ y.crow = d.crow /\ y.grow = d.grow
        /\ y.doubled = d.doubled /\ y.stale = d.stale
    BY <2>1, <2>4 DEF Boards
  <2> HIDE DEF y
  <2>7. HistoryKept(x, y)
    BY <2>1, <2>6 DEF HistoryKept, Lost
  <2> QED
    BY <1>2, <2>1, <2>3, <2>5, <2>6, <2>7 DEF SameRows, gb
<1> QED
  BY <1>1, <1>2

\* The rows of a player after BindToInstance.
BoundRows(x, p, i, perm, load) ==
  CASE load -> x.crow[p]
    [] ~load /\ x.pbind[p] # NoBind ->
         {IF r.id = x.pbind[p].id THEN [id |-> i, perm |-> perm] ELSE r : r \in x.crow[p]}
    [] OTHER -> x.crow[p] \cup {r \in {[id |-> i, perm |-> perm]} : \A c \in x.crow[p] : c.id # i}

\* They are rows.
LEMMA BoundRowsType ==
  ASSUME NEW x \in Boards, NEW p \in Players, NEW i \in Ids, NEW perm \in BOOLEAN, NEW load \in BOOLEAN
  PROVE  /\ BoundRows(x, p, i, perm, load) \in SUBSET Rows
         /\ BoundRows(x, p, i, perm, load) \subseteq x.crow[p] \cup {[id |-> i, perm |-> perm]}
<1> DEFINE row == [id |-> i, perm |-> perm]
<1>1. row \in Rows
  BY DEF Rows
<1>2. x.crow[p] \in SUBSET Rows
  BY BoardFields
<1> HIDE DEF row
<1>3. {IF r.id = x.pbind[p].id THEN row ELSE r : r \in x.crow[p]} \in SUBSET Rows
  BY <1>1, <1>2
<1>4. x.crow[p] \cup {r \in {row} : \A c \in x.crow[p] : c.id # i} \in SUBSET Rows
  BY <1>1, <1>2
<1>5. BoundRows(x, p, i, perm, load) \in
        {x.crow[p], {IF r.id = x.pbind[p].id THEN row ELSE r : r \in x.crow[p]},
         x.crow[p] \cup {r \in {row} : \A c \in x.crow[p] : c.id # i}}
  BY Zenon DEF BoundRows, row
<1>6. BoundRows(x, p, i, perm, load) \subseteq x.crow[p] \cup {row}
  BY <1>5
<1> QED
  BY <1>2, <1>3, <1>4, <1>5, <1>6 DEF row

\* Doubled only adds to the history.
LEMMA DoubledFields ==
  ASSUME NEW x \in Boards, NEW i \in Ids, NEW from \in BOOLEAN
  PROVE  LET y == Doubled(x, i, from) IN
         /\ y \in Boards /\ y.save = x.save /\ SameRows(x, y) /\ y.stale = x.stale
         /\ x.doubled \subseteq y.doubled
         /\ from => i \in y.doubled
         /\ x.save[i].group /\ (\E p \in x.save[i].players : ~x.pbind[p].perm) => i \in y.doubled
<1> DEFINE d == x.doubled \cup {i}
           y == [x EXCEPT !.doubled = d]
           both == from \/ (x.save[i].group /\ \E p \in x.save[i].players : ~x.pbind[p].perm)
<1>1. d \in SUBSET Ids /\ x.doubled \subseteq d /\ i \in d
  BY BoardFields
<1>2. Doubled(x, i, from) = IF both THEN y ELSE x
  BY Zenon DEF Doubled
<1> HIDE DEF d
<1>3. /\ y \in Boards /\ y.save = x.save /\ SameRows(x, y) /\ y.stale = x.stale /\ y.doubled = d
  BY <1>1 DEF Boards, SameRows
<1> HIDE DEF y
<1>4. CASE both
  BY <1>1, <1>2, <1>3, <1>4
<1>5. CASE ~both
  BY <1>2, <1>5 DEF SameRows
<1> QED
  BY <1>4, <1>5

\* z is x with the player bound to i and to nothing else.
PlayerBound(x, z, p, i, perm, load) ==
  /\ z \in Boards /\ HistoryKept(x, z)
  /\ z.gbind = x.gbind /\ z.irow = x.irow /\ z.grow = x.grow
  /\ z.pbind[p] = [id |-> i, perm |-> perm] /\ z.crow[p] = BoundRows(x, p, i, perm, load)
  /\ \A q \in Players \ {p} : z.pbind[q] = x.pbind[q] /\ z.crow[q] = x.crow[q]
  /\ z.save[i] # NoSave /\ z.save[i].players = x.save[i].players \cup {p}
  /\ z.save[i].group <=> x.save[i].group
  /\ z.save[i].canReset <=> x.save[i].canReset /\ ~perm
  /\ \A j \in Ids \ {i} :
       IF x.pbind[p] # NoBind /\ x.pbind[p].id = j THEN Unlisted(x, z, p, j) ELSE z.save[j] = x.save[j]
  /\ x.pbind[p] # NoBind /\ x.pbind[p].id # i /\ x.pbind[p].id \in Lost(x) => i \in Lost(z)
  /\ z.save[i].group /\ (\E q \in z.save[i].players : ~z.pbind[q].perm) => i \in Lost(z)

\* Player::BindToInstance binds the player to this save and to no other.
LEMMA BindPlayerFields ==
  ASSUME NEW x \in Boards, PlayersLinked(x), NEW p \in Players, NEW i \in Ids, x.save[i] # NoSave,
         NEW perm \in BOOLEAN, NEW load \in BOOLEAN
  PROVE  PlayerBound(x, BindPlayer(x, p, i, perm, load), p, i, perm, load)
<1> DEFINE old == x.pbind[p]
           row == [id |-> i, perm |-> perm]
           rows == BoundRows(x, p, i, perm, load)
           left == IF old # NoBind /\ old.id # i THEN RemovePlayer(x, p, old.id) ELSE x
           sv == [left.save[i] EXCEPT !.canReset = @ /\ ~perm, !.players = @ \cup {p}]
           s == [left.save EXCEPT ![i] = sv]
           cr == [left.crow EXCEPT ![p] = rows]
           pb == [left.pbind EXCEPT ![p] = row]
           m == [left EXCEPT !.crow = cr, !.pbind = pb, !.save = s]
           from == old # NoBind /\ old.id \in x.doubled \cup x.stale
           z == Doubled(m, i, from)
<1>1. /\ left \in Boards /\ SameRows(x, left) /\ HistoryKept(x, left) /\ left.save[i] = x.save[i]
      /\ \A j \in Ids \ {i} :
           IF old # NoBind /\ old.id = j THEN Unlisted(x, left, p, j) ELSE left.save[j] = x.save[j]
  <2>1. CASE old # NoBind /\ old.id # i
    <3>1. old.id \in Ids
      BY <2>1, BoardFields
    <3>2. x.save[old.id] # NoSave
      BY <2>1, <3>1 DEF PlayersLinked
    <3>3. /\ left \in Boards /\ SameRows(x, left) /\ HistoryKept(x, left) /\ Unlisted(x, left, p, old.id)
          /\ \A j \in Ids \ {old.id} : left.save[j] = x.save[j]
      BY <2>1, <3>1, <3>2, RemovePlayerFields
    <3> HIDE DEF left
    <3> QED
      BY <2>1, <3>1, <3>3
  <2>2. CASE ~(old # NoBind /\ old.id # i)
    <3>1. left = x
      BY <2>2
    <3> HIDE DEF left
    <3>2. SameRows(x, x) /\ HistoryKept(x, x)
      BY DEF SameRows, HistoryKept
    <3> QED
      BY <2>2, <3>1, <3>2
  <2> QED
    BY <2>1, <2>2
<1>2. z = BindPlayer(x, p, i, perm, load)
  <2>1. [left EXCEPT !.crow[p] = rows, !.pbind[p] = row, !.save[i].canReset = @ /\ ~perm,
                     !.save[i].players = @ \cup {p}] = m
    <3> HIDE DEF left, rows, row
    <3> DEFINE n == [left EXCEPT !.crow[p] = rows, !.pbind[p] = row]
               c == left.save[i].canReset /\ ~perm
               s1 == [left.save EXCEPT ![i] = [left.save[i] EXCEPT !.canReset = c]]
               v == left.save[i].players \cup {p}
    <3>1. left.save \in [Ids -> Saves \cup {NoSave}] /\ left.save[i] \in Saves
      BY <1>1, BoardFields
    <3>2. n = [left EXCEPT !.crow = cr, !.pbind = pb] /\ n.save = left.save
      BY <1>1 DEF Boards
    <3>3. [left EXCEPT !.crow[p] = rows, !.pbind[p] = row, !.save[i].canReset = @ /\ ~perm,
                       !.save[i].players = @ \cup {p}]
            = [[n EXCEPT !.save[i].canReset = @ /\ ~perm] EXCEPT !.save[i].players = @ \cup {p}]
      OBVIOUS
    <3> HIDE DEF n, c, v
    <3>4. [n EXCEPT !.save[i].canReset = @ /\ ~perm] = [n EXCEPT !.save = s1]
      BY <3>2 DEF c
    <3>5. [n EXCEPT !.save = s1].save = s1 /\ s1[i] = [left.save[i] EXCEPT !.canReset = c]
      BY <1>1, <3>1, <3>2 DEF Boards
    <3> DEFINE w == [s1[i] EXCEPT !.players = @ \cup {p}]
    <3>6. w = sv
      <4>1. c \in BOOLEAN
        BY DEF c
      <4>2. [left.save[i] EXCEPT !.canReset = c].players = left.save[i].players
        BY <3>1 DEF Saves
      <4>3. sv = [left.save[i] EXCEPT !.canReset = c, !.players = v]
        BY DEF c, v
      <4> HIDE DEF sv
      <4>4. w = [[left.save[i] EXCEPT !.canReset = c] EXCEPT !.players = v]
        BY <3>5, <4>2 DEF v
      <4> HIDE DEF w
      <4> QED
        BY <4>3, <4>4
    <3>7. [s1 EXCEPT ![i] = sv] = s
      <4> HIDE DEF sv
      <4> QED
        BY <3>1
    <3> HIDE DEF s1
    <3>8. [[n EXCEPT !.save = s1] EXCEPT !.save[i].players = @ \cup {p}]
            = [[n EXCEPT !.save = s1] EXCEPT !.save = [s1 EXCEPT ![i] = w]]
      BY <3>5
    <3>9. [[n EXCEPT !.save = s1] EXCEPT !.save = [s1 EXCEPT ![i] = w]] = [n EXCEPT !.save = s]
      <4> HIDE DEF w, s, sv
      <4> QED
        BY <3>6, <3>7
    <3>10. [n EXCEPT !.save = s] = m
      <4> HIDE DEF s, cr, pb
      <4> QED
        BY <3>2
    <3> QED
      BY <3>3, <3>4, <3>8, <3>9, <3>10
  <2> HIDE DEF m
  <2> QED
    BY <2>1, Zenon DEF BindPlayer, BoundRows
<1> HIDE DEF left
<1>3. /\ left.save \in [Ids -> Saves \cup {NoSave}] /\ left.save[i] \in Saves
      /\ left.crow \in [Players -> SUBSET Rows] /\ left.pbind \in [Players -> Rows \cup {NoBind}]
  BY <1>1, BoardFields
<1>4. /\ sv \in Saves /\ sv.players = x.save[i].players \cup {p}
      /\ sv.group = x.save[i].group
  BY <1>1, <1>3 DEF Saves
<1>5. sv.canReset <=> x.save[i].canReset /\ ~perm
  BY <1>1, <1>3 DEF Saves
<1> HIDE DEF sv
<1>6. sv # NoSave
  BY <1>4, NullAssumption
<1>7. /\ s \in [Ids -> Saves \cup {NoSave}] /\ s[i] = sv /\ \A j \in Ids \ {i} : s[j] = left.save[j]
  BY <1>3, <1>4
<1>8. rows \in SUBSET Rows /\ row \in Rows
  BY BoundRowsType DEF Rows
<1> HIDE DEF rows
<1>9. /\ cr \in [Players -> SUBSET Rows] /\ cr[p] = rows /\ \A q \in Players \ {p} : cr[q] = left.crow[q]
  BY <1>3, <1>8
<1> HIDE DEF row
<1>10. /\ pb \in [Players -> Rows \cup {NoBind}] /\ pb[p] = row /\ \A q \in Players \ {p} : pb[q] = left.pbind[q]
  BY <1>3, <1>8
<1> HIDE DEF s, cr, pb
<1>11. /\ m \in Boards /\ m.save = s /\ m.crow = cr /\ m.pbind = pb
       /\ m.gbind = x.gbind /\ m.irow = x.irow /\ m.grow = x.grow
       /\ m.doubled = left.doubled /\ m.stale = left.stale
  BY <1>1, <1>7, <1>9, <1>10 DEF Boards, SameRows
<1> HIDE DEF m
<1>12. from \in BOOLEAN
  OBVIOUS
<1>13. /\ z \in Boards /\ z.save = m.save /\ SameRows(m, z) /\ z.stale = m.stale
       /\ m.doubled \subseteq z.doubled
       /\ from => i \in z.doubled
       /\ m.save[i].group /\ (\E q \in m.save[i].players : ~m.pbind[q].perm) => i \in z.doubled
  BY <1>11, <1>12, DoubledFields
<1> HIDE DEF z
<1>14. HistoryKept(x, z)
  <2>1. z.stale \subseteq x.stale
    BY <1>1, <1>11, <1>13 DEF HistoryKept
  <2>2. \A j \in Lost(x) : j \in Ids
    BY BoardFields DEF Lost
  <2>3. \A j \in Ids : z.save[j] # NoSave => left.save[j] # NoSave
    BY <1>1, <1>7, <1>11, <1>13
  <2>4. Lost(left) \subseteq Lost(z) /\ left.stale = z.stale
    BY <1>11, <1>13 DEF Lost
  <2>5. \A j \in Lost(x) : z.save[j] # NoSave => j \in Lost(z)
    BY <1>1, <2>2, <2>3, <2>4 DEF HistoryKept
  <2>6. \A j \in x.stale : z.save[j] # NoSave \/ IsRead(j) => j \in z.stale
    BY <1>1, <2>2, <2>3, <2>4 DEF HistoryKept, Lost
  <2> QED
    BY <2>1, <2>5, <2>6 DEF HistoryKept
<1>15. ASSUME NEW j \in Ids \ {i}
       PROVE  IF old # NoBind /\ old.id = j THEN Unlisted(x, z, p, j) ELSE z.save[j] = x.save[j]
  <2>1. z.save[j] = left.save[j]
    BY <1>7, <1>11, <1>13
  <2>2. Unlisted(x, left, p, j) => Unlisted(x, z, p, j)
    BY <2>1 DEF Unlisted
  <2> QED
    BY <1>1, <2>1, <2>2
<1>16. /\ z.gbind = x.gbind /\ z.irow = x.irow /\ z.grow = x.grow
       /\ z.pbind[p] = row /\ z.crow[p] = rows
       /\ \A q \in Players \ {p} : z.pbind[q] = x.pbind[q] /\ z.crow[q] = x.crow[q]
  BY <1>1, <1>9, <1>10, <1>11, <1>13 DEF SameRows
<1>17. /\ z.save[i] # NoSave /\ z.save[i].players = x.save[i].players \cup {p}
       /\ z.save[i].group <=> x.save[i].group
       /\ z.save[i].canReset <=> x.save[i].canReset /\ ~perm
  BY <1>4, <1>5, <1>6, <1>7, <1>11, <1>13
<1>18. old # NoBind /\ old.id # i /\ old.id \in Lost(x) => i \in Lost(z)
  BY <1>13 DEF Lost
<1>19. z.save[i].group /\ (\E q \in z.save[i].players : ~z.pbind[q].perm) => i \in Lost(z)
  BY <1>11, <1>13 DEF Lost, SameRows
<1> QED
  BY <1>2, <1>13, <1>14, <1>15, <1>16, <1>17, <1>18, <1>19 DEF row, rows, PlayerBound

\* z is x with the group bound to i and to nothing else.
GroupBound(x, z, i, perm, load) ==
  LET row == [id |-> i, perm |-> perm]
  IN  /\ z \in Boards /\ HistoryKept(x, z)
      /\ z.pbind = x.pbind /\ z.irow = x.irow /\ z.crow = x.crow
      /\ z.gbind = row
      /\ z.grow = IF load \/ x.gbind = row THEN x.grow ELSE {r \in x.grow : r.id # i} \cup {row}
      /\ z.save[i] # NoSave /\ z.save[i].players = x.save[i].players
      /\ z.save[i].group
      /\ z.save[i].canReset <=> x.save[i].canReset
      /\ \A j \in Ids \ {i} :
           IF x.gbind # NoBind /\ x.gbind.id = j THEN UnlistedGroup(x, z, j) ELSE z.save[j] = x.save[j]
      /\ (\E q \in z.save[i].players : ~z.pbind[q].perm) => i \in Lost(z)

\* Group::BindToInstance binds the group to this save and to no other.
LEMMA BindGroupFields ==
  ASSUME NEW x \in Boards, GroupLinked(x), NEW i \in Ids, x.save[i] # NoSave,
         NEW perm \in BOOLEAN, NEW load \in BOOLEAN
  PROVE  GroupBound(x, BindGroup(x, i, perm, load), i, perm, load)
<1> DEFINE old == x.gbind
           row == [id |-> i, perm |-> perm]
           rows == IF load \/ old = row THEN x.grow ELSE {r \in x.grow : r.id # i} \cup {row}
           left == IF old # NoBind /\ old.id # i THEN RemoveGroup(x, old.id) ELSE x
           sv == [left.save[i] EXCEPT !.group = TRUE]
           s == [left.save EXCEPT ![i] = sv]
           m == [left EXCEPT !.grow = rows, !.gbind = row, !.save = s]
           z == Doubled(m, i, FALSE)
<1>1. /\ left \in Boards /\ SameRows(x, left) /\ HistoryKept(x, left) /\ left.save[i] = x.save[i]
      /\ \A j \in Ids \ {i} :
           IF old # NoBind /\ old.id = j THEN UnlistedGroup(x, left, j) ELSE left.save[j] = x.save[j]
  <2>1. CASE old # NoBind /\ old.id # i
    <3>1. old.id \in Ids
      BY <2>1, BoardFields
    <3>2. x.save[old.id] # NoSave
      BY <2>1, <3>1 DEF GroupLinked
    <3>3. /\ left \in Boards /\ SameRows(x, left) /\ HistoryKept(x, left) /\ UnlistedGroup(x, left, old.id)
          /\ \A j \in Ids \ {old.id} : left.save[j] = x.save[j]
      BY <2>1, <3>1, <3>2, RemoveGroupFields
    <3> HIDE DEF left
    <3> QED
      BY <2>1, <3>1, <3>3
  <2>2. CASE ~(old # NoBind /\ old.id # i)
    <3>1. left = x
      BY <2>2
    <3> HIDE DEF left
    <3>2. SameRows(x, x) /\ HistoryKept(x, x)
      BY DEF SameRows, HistoryKept
    <3> QED
      BY <2>2, <3>1, <3>2
  <2> QED
    BY <2>1, <2>2
<1>2. z = BindGroup(x, i, perm, load)
  <2>1. [left EXCEPT !.grow = rows, !.gbind = row, !.save[i].group = TRUE] = m
    <3> HIDE DEF left, rows, row
    <3>1. left.save \in [Ids -> Saves \cup {NoSave}]
      BY <1>1, BoardFields
    <3> QED
      BY <1>1, <3>1 DEF Boards
  <2> HIDE DEF m
  <2> QED
    BY <2>1, Zenon DEF BindGroup
<1> HIDE DEF left
<1>3. left.save \in [Ids -> Saves \cup {NoSave}] /\ left.save[i] \in Saves /\ x.grow \in SUBSET Rows
  BY <1>1, BoardFields
<1>4. /\ sv \in Saves /\ sv.players = x.save[i].players
      /\ sv.group /\ sv.canReset = x.save[i].canReset
  BY <1>1, <1>3 DEF Saves
<1> HIDE DEF sv
<1>5. sv # NoSave
  BY <1>4, NullAssumption
<1>6. /\ s \in [Ids -> Saves \cup {NoSave}] /\ s[i] = sv /\ \A j \in Ids \ {i} : s[j] = left.save[j]
  BY <1>3, <1>4
<1>7. row \in Rows
  BY DEF Rows
<1> HIDE DEF row
<1>8. rows \in SUBSET Rows
  BY <1>3, <1>7
<1> HIDE DEF s, rows
<1>9. /\ m \in Boards /\ m.save = s /\ m.grow = rows /\ m.gbind = row
       /\ m.pbind = x.pbind /\ m.irow = x.irow /\ m.crow = x.crow
       /\ m.doubled = left.doubled /\ m.stale = left.stale
  BY <1>1, <1>6, <1>7, <1>8 DEF Boards, SameRows
<1> HIDE DEF m
<1>10. FALSE \in BOOLEAN
  OBVIOUS
<1>11. /\ z \in Boards /\ z.save = m.save /\ SameRows(m, z) /\ z.stale = m.stale
       /\ m.doubled \subseteq z.doubled
       /\ m.save[i].group /\ (\E q \in m.save[i].players : ~m.pbind[q].perm) => i \in z.doubled
  BY <1>9, <1>10, DoubledFields
<1> HIDE DEF z
<1>12. HistoryKept(x, z)
  <2>1. z.stale \subseteq x.stale
    BY <1>1, <1>9, <1>11 DEF HistoryKept
  <2>2. \A j \in Lost(x) : j \in Ids
    BY BoardFields DEF Lost
  <2>3. \A j \in Ids : z.save[j] # NoSave => left.save[j] # NoSave
    BY <1>1, <1>6, <1>9, <1>11
  <2>4. Lost(left) \subseteq Lost(z) /\ left.stale = z.stale
    BY <1>9, <1>11 DEF Lost
  <2>5. \A j \in Lost(x) : z.save[j] # NoSave => j \in Lost(z)
    BY <1>1, <2>2, <2>3, <2>4 DEF HistoryKept
  <2>6. \A j \in x.stale : z.save[j] # NoSave \/ IsRead(j) => j \in z.stale
    BY <1>1, <2>2, <2>3, <2>4 DEF HistoryKept, Lost
  <2> QED
    BY <2>1, <2>5, <2>6 DEF HistoryKept
<1>13. ASSUME NEW j \in Ids \ {i}
       PROVE  IF old # NoBind /\ old.id = j THEN UnlistedGroup(x, z, j) ELSE z.save[j] = x.save[j]
  <2>1. z.save[j] = left.save[j]
    BY <1>6, <1>9, <1>11
  <2>2. UnlistedGroup(x, left, j) => UnlistedGroup(x, z, j)
    BY <2>1 DEF UnlistedGroup
  <2> QED
    BY <1>1, <2>1, <2>2
<1>14. /\ z.pbind = x.pbind /\ z.irow = x.irow /\ z.crow = x.crow
       /\ z.gbind = row /\ z.grow = rows
  BY <1>9, <1>11 DEF SameRows
<1>15. /\ z.save[i] # NoSave /\ z.save[i].players = x.save[i].players
       /\ z.save[i].group
       /\ z.save[i].canReset <=> x.save[i].canReset
  BY <1>4, <1>5, <1>6, <1>9, <1>11
<1>16. (\E q \in z.save[i].players : ~z.pbind[q].perm) => i \in Lost(z)
  BY <1>4, <1>6, <1>9, <1>11 DEF Lost, SameRows
<1> QED
  BY <1>2, <1>11, <1>12, <1>13, <1>14, <1>15, <1>16 DEF row, rows, GroupBound

-----------------------------------------------------------------------------
(* A bind is given up                                                       *)

\* The parts of the invariant that speak of the players' binds, of rows and ids.
Kept(x, u, on, rd) ==
  /\ ResetsSafe(x) /\ PlayersDurable(x)
  /\ RowsSound(x, u, on) /\ ReadSound(x, on, rd)
  /\ Covered(x, u, rd) /\ NormalBinds(x, rd)

\* They survive when saves lose their lists or go.
LEMMA ThinnerKept ==
  ASSUME NEW x \in Boards, NEW z \in Boards, SameRows(x, z), HistoryKept(x, z),
         \A j \in Ids : z.save[j] # NoSave =>
           /\ x.save[j] # NoSave
           /\ z.save[j].canReset <=> x.save[j].canReset
           /\ z.save[j].group => x.save[j].group,
         PlayersLinked(z), GroupLinked(z), NEW u, NEW on, Kept(x, u, on, read),
         GroupDurable(x),
         \A j \in Ids : z.save[j] # NoSave => j \in x.irow \cup Lost(x)
  PROVE  Kept(z, u, on, read) /\ GroupDurable(z) /\ SavesDurable(z)
<1>1. /\ z.pbind = x.pbind /\ z.gbind = x.gbind /\ z.irow = x.irow /\ z.crow = x.crow
      /\ z.grow = x.grow
      /\ \A j \in Lost(x) : z.save[j] # NoSave => j \in Lost(z)
      /\ \A j \in x.stale : z.save[j] # NoSave \/ IsRead(j) => j \in z.stale
  BY DEF SameRows, HistoryKept
<1>2. ResetsSafe(z)
  <2> SUFFICES ASSUME NEW i \in Ids, z.save[i] # NoSave, NEW p \in BoundPlayers(z, i)
               PROVE  /\ z.save[i].canReset => ~z.pbind[p].perm
                      /\ z.save[i].group => z.pbind[p].perm \/ i \in Lost(z)
                      /\ \A q \in BoundPlayers(z, i) :
                           p = q \/ z.pbind[p].perm \/ z.pbind[q].perm \/ i \in Lost(z)
    BY DEF ResetsSafe
  <2>1. BoundPlayers(z, i) = BoundPlayers(x, i)
    BY <1>1 DEF BoundPlayers
  <2>2. /\ x.save[i].canReset => ~x.pbind[p].perm
        /\ x.save[i].group => x.pbind[p].perm \/ i \in Lost(x)
        /\ \A q \in BoundPlayers(x, i) : p = q \/ x.pbind[p].perm \/ x.pbind[q].perm \/ i \in Lost(x)
    BY <2>1 DEF Kept, ResetsSafe
  <2>3. i \in Lost(x) => i \in Lost(z)
    BY <1>1
  <2> QED
    BY <1>1, <2>1, <2>2, <2>3
<1>3. PlayersDurable(z) /\ GroupDurable(z) /\ SavesDurable(z)
  <2>1. ASSUME NEW p \in Players, z.pbind[p] # NoBind
        PROVE  z.pbind[p].id \in Lost(z) \/ (z.pbind[p] \in z.crow[p] /\ z.pbind[p].id \in z.irow)
    <3>1. z.pbind[p].id \in Ids
      BY <2>1, BoardFields
    <3>2. z.save[z.pbind[p].id] # NoSave
      BY <2>1, <3>1 DEF PlayersLinked
    <3> QED
      BY <1>1, <2>1, <3>2 DEF Kept, PlayersDurable
  <2>2. ASSUME z.gbind # NoBind
        PROVE  z.gbind.id \in Lost(z) \/ (z.gbind \in z.grow /\ z.gbind.id \in z.irow)
    <3>1. z.gbind.id \in Ids
      BY <2>2, BoardFields
    <3>2. z.save[z.gbind.id] # NoSave
      BY <2>2, <3>1 DEF GroupLinked
    <3> QED
      BY <1>1, <2>2, <3>2 DEF GroupDurable
  <2>3. ASSUME NEW i \in Ids, z.save[i] # NoSave PROVE i \in z.irow \cup Lost(z)
    BY <1>1, <2>3
  <2> QED
    BY <2>1, <2>2, <2>3 DEF PlayersDurable, GroupDurable, SavesDurable
<1>4. RowsSound(z, u, on)
  BY <1>1 DEF Kept, RowsSound
<1>5. \A p \in Players : \A r \in read[p] : r.id \in x.stale => r.id \in z.stale
  BY <1>1 DEF IsRead
<1>6. ReadSound(z, on, read)
  BY <1>1, <1>5 DEF Kept, ReadSound
<1>7. Covered(z, u, read)
  BY <1>1, <1>5 DEF Kept, Covered
<1>8. NormalBinds(z, read)
  BY <1>1 DEF Kept, NormalBinds
<1> QED
  BY <1>2, <1>3, <1>4, <1>6, <1>7, <1>8 DEF Kept

\* The save forgets a player whose bind is gone.
LEMMA RemovePlayerSound ==
  ASSUME NEW x \in Boards, NEW p \in Players, NEW i \in Ids, NEW u, NEW on,
         x.pbind[p] = NoBind, x.save[i] # NoSave,
         \A j \in Ids, q \in Players :
           (x.save[j] # NoSave /\ q \in x.save[j].players) <=>
           ((x.pbind[q] # NoBind /\ x.pbind[q].id = j) \/ (q = p /\ j = i)),
         GroupLinked(x), NoneEmpty(x, {}), Kept(x, u, on, read), GroupDurable(x),
         \A j \in Ids : x.save[j] # NoSave =>
           \/ j \in x.irow \cup Lost(x)
           \/ j = i /\ x.save[i].players \subseteq {p} /\ ~x.save[i].group
  PROVE  Sound(RemovePlayer(x, p, i), {}, u, on, read)
<1> DEFINE z == RemovePlayer(x, p, i)
<1>1. /\ z \in Boards /\ SameRows(x, z) /\ HistoryKept(x, z) /\ Unlisted(x, z, p, i)
      /\ \A j \in Ids \ {i} : z.save[j] = x.save[j]
  BY RemovePlayerFields
<1> HIDE DEF z
<1>2. PlayersLinked(z)
  <2> SUFFICES ASSUME NEW j \in Ids, NEW q \in Players
               PROVE  (z.save[j] # NoSave /\ q \in z.save[j].players) <=>
                      (z.pbind[q] # NoBind /\ z.pbind[q].id = j)
    BY DEF PlayersLinked
  <2>1. z.pbind = x.pbind
    BY <1>1 DEF SameRows
  <2>2. CASE j = i
    BY <1>1, <2>1, <2>2 DEF Unlisted
  <2>3. CASE j # i
    BY <1>1, <2>1, <2>3
  <2> QED
    BY <2>2, <2>3
<1>3. GroupLinked(z)
  <2>1. z.gbind = x.gbind
    BY <1>1 DEF SameRows
  <2>2. \A j \in Ids : (z.save[j] # NoSave /\ z.save[j].group) <=> (x.save[j] # NoSave /\ x.save[j].group)
    BY <1>1 DEF Unlisted
  <2> QED
    BY <2>1, <2>2 DEF GroupLinked
<1>4. NoneEmpty(z, {})
  BY <1>1 DEF NoneEmpty, Unlisted
<1>5. \A j \in Ids : z.save[j] # NoSave =>
           /\ x.save[j] # NoSave
           /\ z.save[j].canReset <=> x.save[j].canReset
           /\ z.save[j].group => x.save[j].group
  BY <1>1 DEF Unlisted
<1>6. \A j \in Ids : z.save[j] # NoSave => j \in x.irow \cup Lost(x)
  BY <1>1, <1>5 DEF Unlisted
<1>7. Kept(z, u, on, read) /\ GroupDurable(z) /\ SavesDurable(z)
  BY <1>1, <1>2, <1>3, <1>5, <1>6, ThinnerKept
<1> QED
  BY <1>1, <1>2, <1>3, <1>4, <1>7 DEF Sound, Kept, z

\* The save forgets the group whose bind is gone.
LEMMA RemoveGroupSound ==
  ASSUME NEW x \in Boards, NEW i \in Ids, NEW u, NEW on,
         x.gbind = NoBind, x.save[i] # NoSave,
         \A j \in Ids : (x.save[j] # NoSave /\ x.save[j].group) <=> j = i,
         PlayersLinked(x), NoneEmpty(x, {}), Kept(x, u, on, read),
         \A j \in Ids : x.save[j] # NoSave =>
           j \in x.irow \cup Lost(x) \/ (j = i /\ x.save[i].players = {})
  PROVE  Sound(RemoveGroup(x, i), {}, u, on, read)
<1> DEFINE z == RemoveGroup(x, i)
<1>1. /\ z \in Boards /\ SameRows(x, z) /\ HistoryKept(x, z) /\ UnlistedGroup(x, z, i)
      /\ \A j \in Ids \ {i} : z.save[j] = x.save[j]
  BY RemoveGroupFields
<1> HIDE DEF z
<1>2. PlayersLinked(z)
  <2> SUFFICES ASSUME NEW j \in Ids, NEW q \in Players
               PROVE  (z.save[j] # NoSave /\ q \in z.save[j].players) <=>
                      (z.pbind[q] # NoBind /\ z.pbind[q].id = j)
    BY DEF PlayersLinked
  <2>1. z.pbind = x.pbind
    BY <1>1 DEF SameRows
  <2>2. (z.save[j] # NoSave /\ q \in z.save[j].players) <=> (x.save[j] # NoSave /\ q \in x.save[j].players)
    BY <1>1 DEF UnlistedGroup
  <2> QED
    BY <2>1, <2>2 DEF PlayersLinked
<1>3. GroupLinked(z)
  <2>1. z.gbind = NoBind
    BY <1>1 DEF SameRows
  <2>2. \A j \in Ids : ~(z.save[j] # NoSave /\ z.save[j].group)
    BY <1>1 DEF UnlistedGroup
  <2> QED
    BY <2>1, <2>2 DEF GroupLinked
<1>4. NoneEmpty(z, {})
  BY <1>1 DEF NoneEmpty, UnlistedGroup
<1>5. \A j \in Ids : z.save[j] # NoSave =>
           /\ x.save[j] # NoSave
           /\ z.save[j].canReset <=> x.save[j].canReset
           /\ z.save[j].group => x.save[j].group
  BY <1>1 DEF UnlistedGroup
<1>6. \A j \in Ids : z.save[j] # NoSave => j \in x.irow \cup Lost(x)
  BY <1>1, <1>5 DEF UnlistedGroup
<1>7. GroupDurable(x)
  BY DEF GroupDurable
<1>8. Kept(z, u, on, read) /\ GroupDurable(z) /\ SavesDurable(z)
  BY <1>1, <1>2, <1>3, <1>5, <1>6, <1>7, ThinnerKept
<1> QED
  BY <1>1, <1>2, <1>3, <1>4, <1>8 DEF Sound, Kept, z

\* A player's own bind is gone and rows are left to him, before the save is told.
Dropped(x, p, rows) == [x EXCEPT !.pbind[p] = NoBind, !.crow[p] = rows]

\* Dropping a bind changes nobody else's.
LEMMA DroppedFields ==
  ASSUME NEW x \in Boards, NEW p \in Players, NEW rows \in SUBSET Rows
  PROVE  LET m == Dropped(x, p, rows) IN
         /\ m \in Boards /\ m.save = x.save /\ m.gbind = x.gbind /\ m.irow = x.irow /\ m.grow = x.grow
         /\ m.doubled = x.doubled /\ m.stale = x.stale
         /\ m.pbind[p] = NoBind /\ m.crow[p] = rows
         /\ \A q \in Players \ {p} : m.pbind[q] = x.pbind[q] /\ m.crow[q] = x.crow[q]
<1> DEFINE pb == [x.pbind EXCEPT ![p] = NoBind]
           cr == [x.crow EXCEPT ![p] = rows]
           m == [x EXCEPT !.pbind = pb, !.crow = cr]
<1>1. Dropped(x, p, rows) = m
  BY DEF Boards, Dropped
<1>2. /\ pb \in [Players -> Rows \cup {NoBind}] /\ pb[p] = NoBind
      /\ cr \in [Players -> SUBSET Rows] /\ cr[p] = rows
      /\ \A q \in Players \ {p} : pb[q] = x.pbind[q] /\ cr[q] = x.crow[q]
  BY BoardFields
<1> HIDE DEF pb, cr
<1>3. /\ m \in Boards /\ m.save = x.save /\ m.gbind = x.gbind /\ m.irow = x.irow /\ m.grow = x.grow
      /\ m.doubled = x.doubled /\ m.stale = x.stale /\ m.pbind = pb /\ m.crow = cr
  BY <1>2 DEF Boards
<1> QED
  BY <1>1, <1>2, <1>3

\* UnbindInstance and the end of a session give up p's bind: what is left is sound once
\* the save has forgotten p, if his rows that are left suit a player who is in on or not.
LEMMA DropSound ==
  ASSUME NEW x, NEW m \in Boards, NEW p \in Players, NEW u, NEW o1 \in SUBSET Players, NEW o2,
         Sound(x, {}, u, o1, read), x.pbind[p] # NoBind,
         m.save = x.save, m.gbind = x.gbind, m.irow = x.irow, m.grow = x.grow,
         m.doubled = x.doubled, m.stale = x.stale,
         m.pbind[p] = NoBind, m.crow[p] \subseteq x.crow[p],
         \A q \in Players \ {p} : m.pbind[q] = x.pbind[q] /\ m.crow[q] = x.crow[q],
         \/ o2 = o1 /\ m.crow[p] = {r \in x.crow[p] : r.id # x.pbind[p].id}
         \/ o2 = o1 \ {p} /\ read[p] = {} /\ status[p] # "loading"
  PROVE  Sound(RemovePlayer(m, p, x.pbind[p].id), {}, u, o2, read)
<1> DEFINE i == x.pbind[p].id
<1>1. /\ x \in Boards /\ PlayersLinked(x) /\ GroupLinked(x) /\ NoneEmpty(x, {})
      /\ ResetsSafe(x) /\ PlayersDurable(x) /\ GroupDurable(x) /\ SavesDurable(x)
      /\ RowsSound(x, u, o1) /\ ReadSound(x, o1, read) /\ Covered(x, u, read) /\ NormalBinds(x, read)
  BY DEF Sound
<1>2. i \in Ids
  BY <1>1, BoardFields
<1>3. x.save[i] # NoSave /\ m.save[i] # NoSave
  BY <1>1, <1>2 DEF PlayersLinked
<1>4. \A j \in Ids, q \in Players :
           (m.save[j] # NoSave /\ q \in m.save[j].players) <=>
           ((m.pbind[q] # NoBind /\ m.pbind[q].id = j) \/ (q = p /\ j = i))
  BY <1>1, <1>2 DEF PlayersLinked
<1>5. GroupLinked(m) /\ NoneEmpty(m, {}) /\ GroupDurable(m) /\ Lost(m) = Lost(x)
  BY <1>1 DEF GroupLinked, NoneEmpty, GroupDurable, Lost
<1>6. \A j \in Ids : m.save[j] # NoSave => j \in m.irow \cup Lost(m)
  BY <1>1, <1>5 DEF SavesDurable
<1>7. p \in o1
  BY <1>1 DEF RowsSound
<1>8. \A q \in Players : m.crow[q] \subseteq x.crow[q] /\ (m.pbind[q] = x.pbind[q] \/ m.pbind[q] = NoBind)
  OBVIOUS
<1>9. ResetsSafe(m)
  <2> SUFFICES ASSUME NEW j \in Ids, m.save[j] # NoSave, NEW q \in BoundPlayers(m, j)
               PROVE  /\ m.save[j].canReset => ~m.pbind[q].perm
                      /\ m.save[j].group => m.pbind[q].perm \/ j \in Lost(m)
                      /\ \A s \in BoundPlayers(m, j) :
                           q = s \/ m.pbind[q].perm \/ m.pbind[s].perm \/ j \in Lost(m)
    BY DEF ResetsSafe
  <2>1. /\ BoundPlayers(m, j) \subseteq BoundPlayers(x, j)
        /\ \A s \in BoundPlayers(m, j) : m.pbind[s] = x.pbind[s]
    BY <1>8 DEF BoundPlayers
  <2>2. /\ x.save[j].canReset => ~x.pbind[q].perm
        /\ x.save[j].group => x.pbind[q].perm \/ j \in Lost(x)
        /\ \A s \in BoundPlayers(x, j) : q = s \/ x.pbind[q].perm \/ x.pbind[s].perm \/ j \in Lost(x)
    BY <1>1, <2>1 DEF ResetsSafe
  <2> QED
    BY <1>5, <2>1, <2>2
<1>10. PlayersDurable(m)
  BY <1>1, <1>5 DEF PlayersDurable
<1>11. RowsSound(m, u, o2)
  <2>1. \A q \in Players : \A r \in m.crow[q] : r.id \in u
    BY <1>1, <1>8 DEF RowsSound
  <2>2. \A q, s \in Players : \A r \in m.crow[q] \cap m.crow[s] : q = s \/ r.perm
    BY <1>1, <1>8 DEF RowsSound
  <2>3. \A r \in m.crow[p] : r.id \in m.irow => r = x.pbind[p]
    BY <1>1, <1>7, <1>8 DEF RowsSound
  <2>4. ASSUME NEW q \in o2, NEW r \in m.crow[q], r.id \in m.irow PROVE r = m.pbind[q]
    <3>1. CASE q = p
      BY <2>3, <2>4, <3>1
    <3>2. CASE q # p
      BY <1>1, <2>4, <3>2 DEF RowsSound
    <3> QED
      BY <3>1, <3>2
  <2>5. ASSUME NEW q \in Players \ o2
        PROVE  /\ m.pbind[q] = NoBind
               /\ \A r, s \in m.crow[q] : r.id \in m.irow /\ s.id \in m.irow => r = s
    <3>1. CASE q = p
      BY <2>3, <3>1
    <3>2. CASE q # p
      <4>1. q \in Players \ o1
        BY <3>2
      <4> QED
        BY <1>1, <3>2, <4>1 DEF RowsSound
    <3> QED
      BY <3>1, <3>2
  <2> QED
    BY <2>1, <2>2, <2>4, <2>5 DEF RowsSound
<1>12. ReadSound(m, o2, read)
  <2> SUFFICES ASSUME NEW q \in Players \ o2
               PROVE  /\ \A r \in read[q] :
                           /\ r.id \in m.stale \/ (r \in m.crow[q] /\ r.id \in m.irow)
                           /\ \A s \in m.crow[q] \cup read[q] : s.id \in m.irow \/ s \in read[q] => r = s
                      /\ status[q] = "loading" => \A s \in m.crow[q] : s.id \in m.irow => s \in read[q]
    BY DEF ReadSound
  <2>1. CASE q = p
    BY <1>7, <2>1
  <2>2. CASE q # p
    <3>1. q \in Players \ o1 /\ m.crow[q] = x.crow[q]
      BY <2>2
    <3> QED
      BY <1>1, <3>1 DEF ReadSound
  <2> QED
    BY <2>1, <2>2
<1>13. Covered(m, u, read)
  BY <1>1 DEF Covered
<1>14. NormalBinds(m, read)
  BY <1>1, <1>8 DEF NormalBinds
<1>15. Kept(m, u, o2, read)
  BY <1>9, <1>10, <1>11, <1>12, <1>13, <1>14 DEF Kept
<1> HIDE DEF i
<1>16. Sound(RemovePlayer(m, p, i), {}, u, o2, read)
  BY <1>2, <1>3, <1>4, <1>5, <1>6, <1>15, RemovePlayerSound
<1> QED
  BY <1>16 DEF i

\* Player::UnbindInstance
LEMMA UnbindPlayerSound ==
  ASSUME NEW x, NEW p \in Players, NEW u, NEW on \in SUBSET Players,
         Sound(x, {}, u, on, read), x.pbind[p] # NoBind
  PROVE  Sound(UnbindPlayer(x, p), {}, u, on, read)
<1> DEFINE rows == {r \in x.crow[p] : r.id # x.pbind[p].id}
           m == Dropped(x, p, rows)
<1>1. x \in Boards
  BY DEF Sound
<1>2. UnbindPlayer(x, p) = RemovePlayer(m, p, x.pbind[p].id)
  BY <1>1 DEF UnbindPlayer, Boards, Dropped
<1>3. rows \in SUBSET Rows
  BY <1>1, BoardFields
<1> HIDE DEF rows
<1>4. /\ m \in Boards /\ m.save = x.save /\ m.gbind = x.gbind /\ m.irow = x.irow /\ m.grow = x.grow
      /\ m.doubled = x.doubled /\ m.stale = x.stale
      /\ m.pbind[p] = NoBind /\ m.crow[p] = rows
      /\ \A q \in Players \ {p} : m.pbind[q] = x.pbind[q] /\ m.crow[q] = x.crow[q]
  BY <1>1, <1>3, DroppedFields DEF m
<1> HIDE DEF m
<1>5. Sound(RemovePlayer(m, p, x.pbind[p].id), {}, u, on, read)
  BY <1>4, DropSound DEF rows
<1> QED
  BY <1>2, <1>5

\* p's bind without the session: his rows stay.
SessionEnded(x, p) ==
  IF x.pbind[p] = NoBind THEN x
  ELSE RemovePlayer([x EXCEPT !.pbind[p] = NoBind], p, x.pbind[p].id)

\* CleanupsBeforeDelete
LEMMA SessionEndedSound ==
  ASSUME NEW x, NEW p \in Players, NEW u, NEW on \in SUBSET Players,
         Sound(x, {}, u, on, read), read[p] = {}, status[p] # "loading"
  PROVE  Sound(SessionEnded(x, p), {}, u, on \ {p}, read)
<1>1. x \in Boards /\ RowsSound(x, u, on) /\ ReadSound(x, on, read)
  BY DEF Sound
<1>2. CASE x.pbind[p] = NoBind
  <2>1. NoBind \notin x.crow[p]
    BY <1>1, BoardFields, NullAssumption
  <2>2. RowsSound(x, u, on \ {p})
    BY <1>1, <1>2, <2>1 DEF RowsSound
  <2>3. ReadSound(x, on \ {p}, read)
    BY <1>1 DEF ReadSound
  <2> QED
    BY <1>2, <2>2, <2>3 DEF SessionEnded, Sound
<1>3. CASE x.pbind[p] # NoBind
  <2> DEFINE rows == x.crow[p]
             m == Dropped(x, p, rows)
  <2>1. [x EXCEPT !.pbind[p] = NoBind] = m
    <3>1. [x.crow EXCEPT ![p] = x.crow[p]] = x.crow
      BY <1>1, BoardFields
    <3> QED
      BY <1>1, <3>1 DEF Boards, Dropped
  <2>2. rows \in SUBSET Rows
    BY <1>1, BoardFields
  <2> HIDE DEF rows
  <2>3. /\ m \in Boards /\ m.save = x.save /\ m.gbind = x.gbind /\ m.irow = x.irow /\ m.grow = x.grow
        /\ m.doubled = x.doubled /\ m.stale = x.stale
        /\ m.pbind[p] = NoBind /\ m.crow[p] = rows
        /\ \A q \in Players \ {p} : m.pbind[q] = x.pbind[q] /\ m.crow[q] = x.crow[q]
    BY <1>1, <2>2, DroppedFields DEF m
  <2> HIDE DEF m
  <2>4. Sound(RemovePlayer(m, p, x.pbind[p].id), {}, u, on \ {p}, read)
    BY <1>3, <2>3, DropSound DEF rows
  <2> QED
    BY <1>3, <2>1, <2>4 DEF SessionEnded
<1> QED
  BY <1>2, <1>3

\* What is left of x in y, whose rows of instance i are gone: everything but the rows
\* of the binds to i.
SoundBut(x, y, i, u, on) ==
  /\ y \in Boards /\ y.save = x.save /\ y.pbind = x.pbind /\ y.gbind = x.gbind
  /\ PlayersLinked(y) /\ GroupLinked(y) /\ NoneEmpty(y, {}) /\ Lost(x) \subseteq Lost(y)
  /\ ResetsSafe(y) /\ RowsSound(y, u, on) /\ ReadSound(y, on, read)
  /\ Covered(y, u, read) /\ NormalBinds(y, read)
  /\ \A p \in Players : x.pbind[p] # NoBind /\ x.pbind[p].id # i =>
       x.pbind[p].id \in Lost(y) \/ (x.pbind[p] \in y.crow[p] /\ x.pbind[p].id \in y.irow)
  /\ x.gbind # NoBind /\ x.gbind.id # i =>
       x.gbind.id \in Lost(y) \/ (x.gbind \in y.grow /\ x.gbind.id \in y.irow)
  /\ \A j \in Ids \ {i} : y.save[j] # NoSave => j \in y.irow \cup Lost(y)

\* DeleteFromDB takes the rows of all who are bound, whoever of them resets the instance.
LEMMA RowsDeleted ==
  ASSUME NEW x, NEW i \in Ids, NEW u, NEW on \in SUBSET Players,
         Sound(x, {}, u, on, read), x.save[i] # NoSave
  PROVE  SoundBut(x, DeleteFromDB(x, {i}), i, u, on)
<1> DEFINE y == DeleteFromDB(x, {i})
<1>1. /\ x \in Boards /\ PlayersLinked(x) /\ GroupLinked(x) /\ NoneEmpty(x, {})
      /\ ResetsSafe(x) /\ PlayersDurable(x) /\ GroupDurable(x) /\ SavesDurable(x)
      /\ RowsSound(x, u, on) /\ ReadSound(x, on, read) /\ Covered(x, u, read) /\ NormalBinds(x, read)
  BY DEF Sound
<1>2. /\ y \in Boards /\ y.save = x.save /\ y.pbind = x.pbind /\ y.gbind = x.gbind
      /\ y.doubled = x.doubled /\ y.stale = x.stale \cup {j \in {i} : IsRead(j)}
      /\ y.irow = x.irow \ {i} /\ y.grow = {r \in x.grow : r.id \notin {i}}
      /\ \A p \in Players : y.crow[p] = {r \in x.crow[p] : r.id \notin {i}}
  BY <1>1, DeleteFromDBFields
<1> HIDE DEF y
<1>3. PlayersLinked(y) /\ GroupLinked(y) /\ NoneEmpty(y, {}) /\ Lost(x) \subseteq Lost(y)
  <2>1. y.save = x.save /\ y.pbind = x.pbind /\ y.gbind = x.gbind
    BY <1>2
  <2>2. x.doubled \subseteq y.doubled /\ x.stale \subseteq y.stale
    BY <1>2
  <2>3. PlayersLinked(y)
    <3> SUFFICES ASSUME NEW j \in Ids, NEW q \in Players
                 PROVE  (y.save[j] # NoSave /\ q \in y.save[j].players) <=>
                        (y.pbind[q] # NoBind /\ y.pbind[q].id = j)
      BY DEF PlayersLinked
    <3> QED
      BY <1>1, <2>1 DEF PlayersLinked
  <2>4. GroupLinked(y)
    BY <1>1, <2>1, Zenon DEF GroupLinked
  <2>5. NoneEmpty(y, {})
    BY <1>1, <2>1, Zenon DEF NoneEmpty
  <2>6. Lost(x) \subseteq Lost(y)
    BY <2>2 DEF Lost
  <2> QED
    BY <2>3, <2>4, <2>5, <2>6
<1>4. ResetsSafe(y)
  <2>1. \A j \in Ids : BoundPlayers(y, j) = BoundPlayers(x, j)
    BY <1>2 DEF BoundPlayers
  <2> QED
    BY <1>1, <1>2, <1>3, <2>1 DEF ResetsSafe
<1>5. RowsSound(y, u, on)
  <2>1. \A p \in Players : y.crow[p] \subseteq x.crow[p]
    BY <1>2
  <2>2. y.irow \subseteq x.irow /\ y.pbind = x.pbind
    BY <1>2
  <2> QED
    BY <1>1, <2>1, <2>2 DEF RowsSound
<1>6. ReadSound(y, on, read)
  <2> SUFFICES ASSUME NEW q \in Players \ on
               PROVE  /\ \A r \in read[q] :
                           /\ r.id \in y.stale \/ (r \in y.crow[q] /\ r.id \in y.irow)
                           /\ \A s \in y.crow[q] \cup read[q] : s.id \in y.irow \/ s \in read[q] => r = s
                      /\ status[q] = "loading" => \A s \in y.crow[q] : s.id \in y.irow => s \in read[q]
    BY DEF ReadSound
  <2>1. /\ \A r \in read[q] :
             /\ r.id \in x.stale \/ (r \in x.crow[q] /\ r.id \in x.irow)
             /\ \A s \in x.crow[q] \cup read[q] : s.id \in x.irow \/ s \in read[q] => r = s
        /\ status[q] = "loading" => \A s \in x.crow[q] : s.id \in x.irow => s \in read[q]
    BY <1>1 DEF ReadSound
  <2>2. \A r \in read[q] : r.id = i => IsRead(i)
    BY DEF IsRead
  <2> QED
    BY <1>2, <2>1, <2>2
<1>7. Covered(y, u, read)
  BY <1>1, <1>2 DEF Covered
<1>8. NormalBinds(y, read)
  <2>1. /\ \A p \in Players : y.crow[p] \subseteq x.crow[p]
        /\ y.grow \subseteq x.grow /\ y.pbind = x.pbind /\ y.gbind = x.gbind
    BY <1>2
  <2> QED
    BY <1>1, <2>1 DEF NormalBinds
<1>9. \A p \in Players : x.pbind[p] # NoBind /\ x.pbind[p].id # i =>
        x.pbind[p].id \in Lost(y) \/ (x.pbind[p] \in y.crow[p] /\ x.pbind[p].id \in y.irow)
  BY <1>1, <1>2, <1>3 DEF PlayersDurable
<1>10. x.gbind # NoBind /\ x.gbind.id # i =>
         x.gbind.id \in Lost(y) \/ (x.gbind \in y.grow /\ x.gbind.id \in y.irow)
  BY <1>1, <1>2, <1>3 DEF GroupDurable
<1>11. \A j \in Ids \ {i} : y.save[j] # NoSave => j \in y.irow \cup Lost(y)
  BY <1>1, <1>2, <1>3 DEF SavesDurable
<1> QED
  BY <1>2, <1>3, <1>4, <1>5, <1>6, <1>7, <1>8, <1>9, <1>10, <1>11 DEF SoundBut, y

\* Player::ResetInstances
LEMMA ResetPlayerSound ==
  ASSUME NEW x, NEW p \in Players, NEW all \in BOOLEAN, NEW u, NEW on \in SUBSET Players,
         Sound(x, {}, u, on, read)
  PROVE  Sound(ResetPlayer(x, p, all), {}, u, on, read)
<1> DEFINE i == x.pbind[p].id
           y == DeleteFromDB(x, {i})
           rows == y.crow[p]
           m == Dropped(y, p, rows)
<1>1. /\ x \in Boards /\ PlayersLinked(x) /\ GroupLinked(x) /\ ResetsSafe(x)
      /\ PlayersDurable(x) /\ GroupDurable(x) /\ SavesDurable(x) /\ RowsSound(x, u, on)
  BY DEF Sound
<1>2. CASE x.pbind[p] = NoBind \/ ~x.save[i].canReset
  <2>1. ResetPlayer(x, p, all) = x
    BY <1>2 DEF ResetPlayer
  <2> QED
    BY <2>1
<1>3. CASE x.pbind[p] # NoBind /\ x.save[i].canReset
  <2>1. i \in Ids
    BY <1>1, <1>3, BoardFields
  <2>2. x.save[i] # NoSave /\ p \in x.save[i].players
    BY <1>1, <1>3, <2>1 DEF PlayersLinked
  <2>3. \/ ResetPlayer(x, p, all) = x
        \/ ResetPlayer(x, p, all) = RemovePlayer([y EXCEPT !.pbind[p] = NoBind], p, i)
    BY Zenon DEF ResetPlayer
  <2>4. /\ y \in Boards /\ y.save = x.save /\ y.pbind = x.pbind /\ y.gbind = x.gbind
        /\ y.irow = x.irow \ {i}
        /\ \A q \in Players : y.crow[q] = {r \in x.crow[q] : r.id \notin {i}}
    BY <1>1, <2>1, DeleteFromDBFields
  <2>24. SoundBut(x, y, i, u, on)
    <3> HIDE DEF i
    <3> QED
      BY <2>1, <2>2, RowsDeleted
  <2> HIDE DEF y
  <2>5. /\ PlayersLinked(y) /\ GroupLinked(y) /\ NoneEmpty(y, {}) /\ Lost(x) \subseteq Lost(y)
        /\ ResetsSafe(y) /\ RowsSound(y, u, on) /\ ReadSound(y, on, read)
        /\ Covered(y, u, read) /\ NormalBinds(y, read)
        /\ \A q \in Players : x.pbind[q] # NoBind /\ x.pbind[q].id # i =>
             x.pbind[q].id \in Lost(y) \/ (x.pbind[q] \in y.crow[q] /\ x.pbind[q].id \in y.irow)
        /\ x.gbind # NoBind /\ x.gbind.id # i =>
             x.gbind.id \in Lost(y) \/ (x.gbind \in y.grow /\ x.gbind.id \in y.irow)
        /\ \A j \in Ids \ {i} : y.save[j] # NoSave => j \in y.irow \cup Lost(y)
    BY <2>24 DEF SoundBut
  <2>6. rows \in SUBSET Rows
    BY <2>4, BoardFields
  <2>7. [y EXCEPT !.pbind[p] = NoBind] = m
    <3>1. [y.crow EXCEPT ![p] = y.crow[p]] = y.crow
      BY <2>4, BoardFields
    <3> QED
      BY <2>4, <3>1 DEF Boards, Dropped
  <2> HIDE DEF rows
  <2>8. /\ m \in Boards /\ m.save = y.save /\ m.gbind = y.gbind /\ m.irow = y.irow /\ m.grow = y.grow
        /\ m.doubled = y.doubled /\ m.stale = y.stale
        /\ m.pbind[p] = NoBind /\ m.crow[p] = rows
        /\ \A q \in Players \ {p} : m.pbind[q] = y.pbind[q] /\ m.crow[q] = y.crow[q]
    BY <2>4, <2>6, DroppedFields DEF m
  <2> HIDE DEF m
  <2>9. /\ Lost(m) = Lost(y) /\ \A q \in Players : m.crow[q] = y.crow[q]
        /\ \A q \in Players : m.pbind[q] = y.pbind[q] \/ m.pbind[q] = NoBind
    BY <2>8 DEF Lost, rows
  <2>10. ~x.pbind[p].perm /\ (x.save[i].group => i \in Lost(x))
    BY <1>1, <1>3, <2>1, <2>2 DEF ResetsSafe, BoundPlayers
  <2>11. ASSUME NEW q \in Players \ {p}, x.pbind[q] # NoBind, x.pbind[q].id = i PROVE i \in Lost(x)
    <3>1. p \in BoundPlayers(x, i) /\ q \in BoundPlayers(x, i)
      BY <1>3, <2>11 DEF BoundPlayers
    <3>2. ~x.pbind[q].perm
      BY <1>1, <1>3, <2>1, <2>2, <3>1 DEF ResetsSafe
    <3> QED
      BY <1>1, <2>1, <2>2, <2>10, <3>1, <3>2 DEF ResetsSafe
  <2>12. \A j \in Ids, q \in Players :
           (m.save[j] # NoSave /\ q \in m.save[j].players) <=>
           ((m.pbind[q] # NoBind /\ m.pbind[q].id = j) \/ (q = p /\ j = i))
    BY <1>3, <2>1, <2>4, <2>5, <2>8 DEF PlayersLinked
  <2>13. GroupLinked(m) /\ NoneEmpty(m, {})
    BY <2>5, <2>8 DEF GroupLinked, NoneEmpty
  <2>14. ResetsSafe(m)
    <3> SUFFICES ASSUME NEW j \in Ids, m.save[j] # NoSave, NEW q \in BoundPlayers(m, j)
                 PROVE  /\ m.save[j].canReset => ~m.pbind[q].perm
                        /\ m.save[j].group => m.pbind[q].perm \/ j \in Lost(m)
                        /\ \A s \in BoundPlayers(m, j) :
                             q = s \/ m.pbind[q].perm \/ m.pbind[s].perm \/ j \in Lost(m)
      BY DEF ResetsSafe
    <3>1. /\ BoundPlayers(m, j) \subseteq BoundPlayers(y, j)
          /\ \A s \in BoundPlayers(m, j) : m.pbind[s] = y.pbind[s]
      BY <2>9 DEF BoundPlayers
    <3>2. /\ y.save[j].canReset => ~y.pbind[q].perm
          /\ y.save[j].group => y.pbind[q].perm \/ j \in Lost(y)
          /\ \A s \in BoundPlayers(y, j) : q = s \/ y.pbind[q].perm \/ y.pbind[s].perm \/ j \in Lost(y)
      BY <2>5, <2>8, <3>1 DEF ResetsSafe
    <3> QED
      BY <2>8, <2>9, <3>1, <3>2
  <2>15. PlayersDurable(m)
    <3> SUFFICES ASSUME NEW q \in Players, m.pbind[q] # NoBind
                 PROVE  m.pbind[q].id \in Lost(m) \/ (m.pbind[q] \in m.crow[q] /\ m.pbind[q].id \in m.irow)
      BY DEF PlayersDurable
    <3>1. q # p /\ m.pbind[q] = x.pbind[q]
      BY <2>4, <2>8
    <3> QED
      BY <2>5, <2>8, <2>9, <2>11, <3>1
  <2>16. GroupDurable(m)
    <3>1. x.gbind # NoBind /\ x.gbind.id = i => i \in Lost(x)
      BY <1>1, <2>1, <2>10 DEF GroupLinked
    <3> QED
      BY <2>4, <2>5, <2>8, <2>9, <3>1 DEF GroupDurable
  <2>17. \A j \in Ids : m.save[j] # NoSave =>
           \/ j \in m.irow \cup Lost(m)
           \/ j = i /\ m.save[i].players \subseteq {p} /\ ~m.save[i].group
    <3> SUFFICES ASSUME ~(m.save[i].players \subseteq {p} /\ ~m.save[i].group) PROVE i \in Lost(m)
      BY <2>5, <2>8, <2>9
    <3>1. CASE m.save[i].group
      BY <2>4, <2>5, <2>8, <2>9, <2>10, <3>1
    <3>2. CASE ~m.save[i].group
      <4>1. PICK q \in x.save[i].players : q # p
        BY <2>4, <2>8, <3>2
      <4>2. q \in Players \ {p} /\ x.pbind[q] # NoBind /\ x.pbind[q].id = i
        BY <1>1, <2>1, <2>2, <4>1, BoardFields DEF PlayersLinked
      <4> QED
        BY <2>5, <2>9, <2>11, <4>2
    <3> QED
      BY <3>1, <3>2
  <2>18. RowsSound(m, u, on)
    <3>1. p \in on
      BY <1>1, <1>3 DEF RowsSound
    <3>2. \A r \in m.crow[p] : r.id \notin m.irow
      <4>1. \A r \in m.crow[p] : r \in x.crow[p] /\ r.id # i
        BY <2>4, <2>9
      <4>2. \A r \in x.crow[p] : r.id \in x.irow => r = x.pbind[p]
        BY <1>1, <3>1 DEF RowsSound
      <4> QED
        BY <2>4, <2>8, <4>1, <4>2
    <3> QED
      BY <2>5, <2>8, <2>9, <3>1, <3>2 DEF RowsSound
  <2>19. ReadSound(m, on, read)
    BY <2>5, <2>8, <2>9 DEF ReadSound
  <2>20. Covered(m, u, read)
    BY <2>5, <2>8 DEF Covered
  <2>21. NormalBinds(m, read)
    BY <2>5, <2>8, <2>9 DEF NormalBinds
  <2>22. Kept(m, u, on, read)
    BY <2>14, <2>15, <2>18, <2>19, <2>20, <2>21 DEF Kept
  <2> HIDE DEF i
  <2>23. Sound(RemovePlayer(m, p, i), {}, u, on, read)
    BY <2>1, <2>2, <2>4, <2>8, <2>12, <2>13, <2>16, <2>17, <2>22, RemovePlayerSound
  <2> QED
    BY <2>3, <2>7, <2>23 DEF y
<1> QED
  BY <1>2, <1>3

\* The group's bind is gone and rows are left to it, before the save is told.
GroupDropped(x, rows) == [x EXCEPT !.gbind = NoBind, !.grow = rows]

\* Dropping the group's bind changes no player's.
LEMMA GroupDroppedFields ==
  ASSUME NEW x \in Boards, NEW rows \in SUBSET Rows
  PROVE  LET m == GroupDropped(x, rows) IN
         /\ m \in Boards /\ m.save = x.save /\ m.pbind = x.pbind /\ m.irow = x.irow /\ m.crow = x.crow
         /\ m.doubled = x.doubled /\ m.stale = x.stale /\ m.gbind = NoBind /\ m.grow = rows
BY DEF GroupDropped, Boards

\* Who gives up the group's bind, and perhaps rows of the group, leaves the players' alone.
LEMMA GroupDroppedSound ==
  ASSUME NEW x, NEW rows, NEW u, NEW on \in SUBSET Players,
         Sound(x, {}, u, on, read), x.gbind # NoBind, rows \subseteq x.grow
  PROVE  Sound(RemoveGroup(GroupDropped(x, rows), x.gbind.id), {}, u, on, read)
<1> DEFINE i == x.gbind.id
           m == GroupDropped(x, rows)
<1>1. /\ x \in Boards /\ PlayersLinked(x) /\ GroupLinked(x) /\ NoneEmpty(x, {})
      /\ ResetsSafe(x) /\ PlayersDurable(x) /\ SavesDurable(x)
      /\ RowsSound(x, u, on) /\ ReadSound(x, on, read) /\ Covered(x, u, read) /\ NormalBinds(x, read)
  BY DEF Sound
<1>2. i \in Ids /\ rows \in SUBSET Rows
  BY <1>1, BoardFields
<1>3. x.save[i] # NoSave
  BY <1>1, <1>2 DEF GroupLinked
<1>4. /\ m \in Boards /\ m.save = x.save /\ m.pbind = x.pbind /\ m.irow = x.irow /\ m.crow = x.crow
      /\ m.doubled = x.doubled /\ m.stale = x.stale /\ m.gbind = NoBind /\ m.grow = rows
  BY <1>1, <1>2, GroupDroppedFields
<1> HIDE DEF m
<1>5. \A j \in Ids : (m.save[j] # NoSave /\ m.save[j].group) <=> j = i
  BY <1>1, <1>2, <1>4 DEF GroupLinked
<1>6. PlayersLinked(m) /\ NoneEmpty(m, {}) /\ Lost(m) = Lost(x)
  BY <1>1, <1>4 DEF PlayersLinked, NoneEmpty, Lost
<1>7. ResetsSafe(m)
  <2>1. \A j \in Ids : BoundPlayers(m, j) = BoundPlayers(x, j)
    BY <1>4 DEF BoundPlayers
  <2> QED
    BY <1>1, <1>4, <1>6, <2>1 DEF ResetsSafe
<1>8. PlayersDurable(m)
  BY <1>1, <1>4, <1>6 DEF PlayersDurable
<1>9. RowsSound(m, u, on) /\ ReadSound(m, on, read) /\ Covered(m, u, read)
  BY <1>1, <1>4 DEF RowsSound, ReadSound, Covered
<1>10. NormalBinds(m, read)
  BY <1>1, <1>4 DEF NormalBinds
<1>11. Kept(m, u, on, read)
  BY <1>7, <1>8, <1>9, <1>10 DEF Kept
<1>12. \A j \in Ids : m.save[j] # NoSave => j \in m.irow \cup Lost(m)
  BY <1>1, <1>4, <1>6 DEF SavesDurable
<1> HIDE DEF i
<1>13. Sound(RemoveGroup(m, i), {}, u, on, read)
  BY <1>2, <1>3, <1>4, <1>5, <1>6, <1>11, <1>12, RemoveGroupSound
<1> QED
  BY <1>13 DEF i, m

\* Group::ResetInstances
LEMMA ResetGroupSound ==
  ASSUME NEW x, NEW disband \in BOOLEAN, NEW u, NEW on \in SUBSET Players, Sound(x, {}, u, on, read)
  PROVE  Sound(ResetGroup(x, disband), {}, u, on, read)
<1> DEFINE i == x.gbind.id
           y == DeleteFromDB(x, {i})
           rows == {r \in x.grow : r.id # i}
<1>1. /\ x \in Boards /\ PlayersLinked(x) /\ GroupLinked(x) /\ ResetsSafe(x)
      /\ PlayersDurable(x) /\ GroupDurable(x) /\ SavesDurable(x) /\ RowsSound(x, u, on)
  BY DEF Sound
<1>2. CASE x.gbind = NoBind
  <2>1. ResetGroup(x, disband) = x
    BY <1>2 DEF ResetGroup
  <2> QED
    BY <2>1
<1>3. CASE x.gbind # NoBind /\ ~x.save[i].canReset
  <2>1. \/ ResetGroup(x, disband) = x
        \/ ResetGroup(x, disband) = RemoveGroup([[x EXCEPT !.grow = {r \in @ : r.id # i}] EXCEPT !.gbind = NoBind], i)
    BY <1>3, Zenon DEF ResetGroup
  <2>2. [[x EXCEPT !.grow = {r \in @ : r.id # i}] EXCEPT !.gbind = NoBind] = GroupDropped(x, rows)
    BY <1>1 DEF Boards, GroupDropped
  <2>3. rows \subseteq x.grow
    OBVIOUS
  <2> HIDE DEF rows
  <2>4. Sound(RemoveGroup(GroupDropped(x, rows), i), {}, u, on, read)
    BY <1>3, <2>3, GroupDroppedSound
  <2> QED
    BY <2>1, <2>2, <2>4
<1>4. CASE x.gbind # NoBind /\ x.save[i].canReset
  <2>1. i \in Ids
    BY <1>1, <1>4, BoardFields
  <2>2. x.save[i] # NoSave /\ x.save[i].group
    BY <1>1, <1>4, <2>1 DEF GroupLinked
  <2>3. \/ ResetGroup(x, disband) = x
        \/ ResetGroup(x, disband) = RemoveGroup([y EXCEPT !.gbind = NoBind], i)
    BY <1>4, Zenon DEF ResetGroup
  <2>4. SoundBut(x, y, i, u, on)
    <3> HIDE DEF i
    <3> QED
      BY <2>1, <2>2, RowsDeleted
  <2> HIDE DEF y
  <2>5. y \in Boards /\ y.save = x.save /\ y.pbind = x.pbind /\ y.gbind = x.gbind
    BY <2>4 DEF SoundBut
  <2>6. /\ PlayersLinked(y) /\ GroupLinked(y) /\ NoneEmpty(y, {}) /\ Lost(x) \subseteq Lost(y)
        /\ ResetsSafe(y) /\ RowsSound(y, u, on) /\ ReadSound(y, on, read)
        /\ Covered(y, u, read) /\ NormalBinds(y, read)
        /\ \A q \in Players : x.pbind[q] # NoBind /\ x.pbind[q].id # i =>
             x.pbind[q].id \in Lost(y) \/ (x.pbind[q] \in y.crow[q] /\ x.pbind[q].id \in y.irow)
        /\ \A j \in Ids \ {i} : y.save[j] # NoSave => j \in y.irow \cup Lost(y)
    BY <2>4 DEF SoundBut
  <2> DEFINE gr == y.grow
             m == GroupDropped(y, gr)
  <2>7. gr \in SUBSET Rows
    BY <2>5, <2>6, BoardFields
  <2>8. [y EXCEPT !.gbind = NoBind] = m
    BY <2>5 DEF Boards, GroupDropped
  <2> HIDE DEF gr
  <2>9. /\ m \in Boards /\ m.save = y.save /\ m.pbind = y.pbind /\ m.irow = y.irow /\ m.crow = y.crow
        /\ m.doubled = y.doubled /\ m.stale = y.stale /\ m.gbind = NoBind /\ m.grow = y.grow
    BY <2>5, <2>6, <2>7, GroupDroppedFields DEF gr
  <2> HIDE DEF m
  <2>10. Lost(m) = Lost(y)
    BY <2>9 DEF Lost
  <2>11. ASSUME NEW q \in Players, x.pbind[q] # NoBind, x.pbind[q].id = i PROVE i \in Lost(x)
    <3>1. q \in BoundPlayers(x, i)
      BY <2>11 DEF BoundPlayers
    <3> QED
      BY <1>1, <1>4, <2>1, <2>2, <3>1 DEF ResetsSafe
  <2>12. \A j \in Ids : (m.save[j] # NoSave /\ m.save[j].group) <=> j = i
    BY <1>1, <1>4, <2>1, <2>5, <2>6, <2>9 DEF GroupLinked
  <2>13. PlayersLinked(m) /\ NoneEmpty(m, {})
    BY <2>5, <2>6, <2>9 DEF PlayersLinked, NoneEmpty
  <2>14. ResetsSafe(m)
    <3>1. \A j \in Ids : BoundPlayers(m, j) = BoundPlayers(y, j)
      BY <2>9 DEF BoundPlayers
    <3> QED
      BY <2>5, <2>6, <2>9, <2>10, <3>1 DEF ResetsSafe
  <2>15. PlayersDurable(m)
    <3> SUFFICES ASSUME NEW q \in Players, m.pbind[q] # NoBind
                 PROVE  m.pbind[q].id \in Lost(m) \/ (m.pbind[q] \in m.crow[q] /\ m.pbind[q].id \in m.irow)
      BY DEF PlayersDurable
    <3>1. m.pbind[q] = x.pbind[q]
      BY <2>5, <2>6, <2>9
    <3> QED
      BY <2>5, <2>6, <2>9, <2>10, <2>11, <3>1
  <2>16. \A j \in Ids : m.save[j] # NoSave =>
           j \in m.irow \cup Lost(m) \/ (j = i /\ m.save[i].players = {})
    <3> SUFFICES ASSUME m.save[i].players # {} PROVE i \in Lost(m)
      BY <2>5, <2>6, <2>9, <2>10
    <3>1. PICK q \in x.save[i].players : TRUE
      BY <2>5, <2>6, <2>9
    <3>2. q \in Players /\ x.pbind[q] # NoBind /\ x.pbind[q].id = i
      BY <1>1, <2>1, <2>2, <3>1, BoardFields DEF PlayersLinked
    <3> QED
      BY <2>5, <2>6, <2>10, <2>11, <3>2
  <2>17. RowsSound(m, u, on) /\ ReadSound(m, on, read) /\ Covered(m, u, read)
    BY <2>5, <2>6, <2>9 DEF RowsSound, ReadSound, Covered
  <2>18. NormalBinds(m, read)
    BY <2>5, <2>6, <2>9 DEF NormalBinds
  <2>19. Kept(m, u, on, read)
    BY <2>14, <2>15, <2>17, <2>18 DEF Kept
  <2>20. m.save[i] # NoSave
    BY <2>2, <2>5, <2>6, <2>9
  <2> HIDE DEF i
  <2>21. Sound(RemoveGroup(m, i), {}, u, on, read)
    BY <2>1, <2>9, <2>12, <2>13, <2>16, <2>19, <2>20, RemoveGroupSound
  <2> QED
    BY <2>3, <2>8, <2>21 DEF y
<1> QED
  BY <1>2, <1>3, <1>4

-----------------------------------------------------------------------------
(* A bind is taken                                                          *)

\* x is sound but for the rows of the group's bind.
NearlySound(x, new, u, on, rd) ==
  /\ x \in Boards
  /\ PlayersLinked(x) /\ GroupLinked(x) /\ NoneEmpty(x, new) /\ SavesDurable(x)
  /\ Kept(x, u, on, rd)

\* The group's rows matter to the group's bind only.
LEMMA NearlySoundIsSound ==
  ASSUME NEW x, NEW new, NEW u, NEW on, NEW rd
  PROVE  Sound(x, new, u, on, rd) <=> NearlySound(x, new, u, on, rd) /\ GroupDurable(x)
BY DEF Sound, NearlySound, Kept

\* DELETE FROM group_instance takes rows of the group and nothing else.
LEMMA GroupRowsDeleted ==
  ASSUME NEW x, NEW new, NEW rows, NEW u, NEW on, NEW rd,
         NearlySound(x, new, u, on, rd), rows \subseteq x.grow
  PROVE  LET y == [x EXCEPT !.grow = rows] IN
         /\ NearlySound(y, new, u, on, rd) /\ Lost(y) = Lost(x)
         /\ y.save = x.save /\ y.pbind = x.pbind /\ y.gbind = x.gbind /\ y.irow = x.irow
         /\ y.crow = x.crow /\ y.grow = rows
<1> DEFINE y == [x EXCEPT !.grow = rows]
<1>1. /\ x \in Boards /\ PlayersLinked(x) /\ GroupLinked(x) /\ NoneEmpty(x, new) /\ SavesDurable(x)
      /\ ResetsSafe(x) /\ PlayersDurable(x) /\ RowsSound(x, u, on) /\ ReadSound(x, on, rd)
      /\ Covered(x, u, rd) /\ NormalBinds(x, rd)
  BY DEF NearlySound, Kept
<1>2. rows \in SUBSET Rows
  BY <1>1, BoardFields
<1>3. /\ y \in Boards /\ y.save = x.save /\ y.pbind = x.pbind /\ y.gbind = x.gbind /\ y.irow = x.irow
      /\ y.crow = x.crow /\ y.grow = rows /\ y.doubled = x.doubled /\ y.stale = x.stale
  BY <1>1, <1>2 DEF Boards
<1> HIDE DEF y
<1>4. PlayersLinked(y) /\ GroupLinked(y) /\ NoneEmpty(y, new) /\ Lost(y) = Lost(x)
  BY <1>1, <1>3 DEF PlayersLinked, GroupLinked, NoneEmpty, Lost
<1>5. ResetsSafe(y)
  <2>1. \A j \in Ids : BoundPlayers(y, j) = BoundPlayers(x, j)
    BY <1>3 DEF BoundPlayers
  <2> QED
    BY <1>1, <1>3, <1>4, <2>1 DEF ResetsSafe
<1>6. PlayersDurable(y) /\ SavesDurable(y)
  BY <1>1, <1>3, <1>4 DEF PlayersDurable, SavesDurable
<1>7. RowsSound(y, u, on) /\ ReadSound(y, on, rd) /\ Covered(y, u, rd)
  BY <1>1, <1>3 DEF RowsSound, ReadSound, Covered
<1>8. NormalBinds(y, rd)
  BY <1>1, <1>3 DEF NormalBinds
<1>9. NearlySound(y, new, u, on, rd)
  BY <1>3, <1>4, <1>5, <1>6, <1>7, <1>8 DEF NearlySound, Kept
<1> QED
  BY <1>3, <1>4, <1>9 DEF y

\* Group::BindToInstance
LEMMA BindGroupSound ==
  ASSUME NEW x, NEW i \in Ids, x.save[i] # NoSave, NEW perm \in BOOLEAN, NEW load \in BOOLEAN,
         NEW u, NEW on \in SUBSET Players, NEW rd, \A p \in Players : rd[p] \subseteq read[p],
         NearlySound(x, {i}, u, on, rd), ~heroic => ~perm,
         load \/ x.gbind = [id |-> i, perm |-> perm] =>
           i \in Lost(x) \/ ([id |-> i, perm |-> perm] \in x.grow /\ i \in x.irow)
  PROVE  Sound(BindGroup(x, i, perm, load), {}, u, on, rd)
<1> DEFINE z == BindGroup(x, i, perm, load)
           row == [id |-> i, perm |-> perm]
           old == x.gbind
<1>1. /\ x \in Boards /\ PlayersLinked(x) /\ GroupLinked(x) /\ NoneEmpty(x, {i}) /\ SavesDurable(x)
      /\ ResetsSafe(x) /\ PlayersDurable(x) /\ RowsSound(x, u, on) /\ ReadSound(x, on, rd)
      /\ Covered(x, u, rd) /\ NormalBinds(x, rd)
  BY DEF NearlySound, Kept
<1>19. GroupBound(x, z, i, perm, load)
  BY <1>1, BindGroupFields
<1> HIDE DEF z
<1>2. /\ z \in Boards /\ HistoryKept(x, z)
      /\ z.pbind = x.pbind /\ z.irow = x.irow /\ z.crow = x.crow
      /\ z.gbind = row
      /\ z.grow = IF load \/ old = row THEN x.grow ELSE {r \in x.grow : r.id # i} \cup {row}
      /\ z.save[i] # NoSave /\ z.save[i].players = x.save[i].players
      /\ z.save[i].group
      /\ z.save[i].canReset <=> x.save[i].canReset
      /\ \A j \in Ids \ {i} :
           IF old # NoBind /\ old.id = j THEN UnlistedGroup(x, z, j) ELSE z.save[j] = x.save[j]
      /\ (\E q \in z.save[i].players : ~z.pbind[q].perm) => i \in Lost(z)
  BY <1>19 DEF GroupBound
<1>3. row \in Rows /\ row.id = i /\ row # NoBind /\ row.perm = perm
  BY NullAssumption DEF Rows
<1>4. load \/ old = row => i \in Lost(x) \/ (row \in x.grow /\ i \in x.irow)
  OBVIOUS
<1> HIDE DEF row
<1>5. ASSUME NEW j \in Ids
      PROVE  /\ z.save[j] # NoSave => x.save[j] # NoSave /\ (z.save[j].canReset <=> x.save[j].canReset)
             /\ z.save[j] # NoSave => z.save[j].players = x.save[j].players
             /\ z.save[j] = NoSave /\ x.save[j] # NoSave => x.save[j].players = {}
             /\ j # i /\ z.save[j] # NoSave => (z.save[j].group <=> x.save[j].group /\ ~(old # NoBind /\ old.id = j))
             /\ j # i /\ z.save[j] # NoSave => z.save[j].players # {} \/ z.save[j].group
  <2>1. CASE j = i
    BY <1>2, <2>1
  <2>2. CASE j # i /\ old # NoBind /\ old.id = j
    <3>1. UnlistedGroup(x, z, j) /\ x.save[j] # NoSave
      BY <1>1, <1>2, <2>2 DEF GroupLinked
    <3> QED
      BY <2>2, <3>1 DEF UnlistedGroup
  <2>3. CASE j # i /\ ~(old # NoBind /\ old.id = j)
    <3>1. z.save[j] = x.save[j]
      BY <1>2, <2>3
    <3> QED
      BY <1>1, <2>3, <3>1 DEF NoneEmpty
  <2> QED
    BY <2>1, <2>2, <2>3
<1>6. /\ \A j \in Lost(x) : z.save[j] # NoSave => j \in Lost(z)
      /\ \A j \in x.stale : z.save[j] # NoSave \/ IsRead(j) => j \in z.stale
  BY <1>2 DEF HistoryKept
<1>7. PlayersLinked(z)
  <2> SUFFICES ASSUME NEW j \in Ids, NEW q \in Players
               PROVE  (z.save[j] # NoSave /\ q \in z.save[j].players) <=>
                      (z.pbind[q] # NoBind /\ z.pbind[q].id = j)
    BY DEF PlayersLinked
  <2>1. (z.save[j] # NoSave /\ q \in z.save[j].players) <=> (x.save[j] # NoSave /\ q \in x.save[j].players)
    BY <1>5
  <2> QED
    BY <1>1, <1>2, <2>1 DEF PlayersLinked
<1>8. GroupLinked(z)
  <2> SUFFICES ASSUME NEW j \in Ids
               PROVE  (z.save[j] # NoSave /\ z.save[j].group) <=> j = i
    BY <1>2, <1>3 DEF GroupLinked
  <2>1. CASE j = i
    BY <1>2, <2>1
  <2>2. CASE j # i
    BY <1>1, <1>5, <2>2 DEF GroupLinked
  <2> QED
    BY <2>1, <2>2
<1>9. NoneEmpty(z, {})
  BY <1>2, <1>5 DEF NoneEmpty
<1>10. ResetsSafe(z)
  <2> SUFFICES ASSUME NEW j \in Ids, z.save[j] # NoSave, NEW p \in BoundPlayers(z, j)
               PROVE  /\ z.save[j].canReset => ~z.pbind[p].perm
                      /\ z.save[j].group => z.pbind[p].perm \/ j \in Lost(z)
                      /\ \A q \in BoundPlayers(z, j) :
                           p = q \/ z.pbind[p].perm \/ z.pbind[q].perm \/ j \in Lost(z)
    BY DEF ResetsSafe
  <2>1. BoundPlayers(z, j) = BoundPlayers(x, j)
    BY <1>2 DEF BoundPlayers
  <2>2. /\ x.save[j].canReset => ~x.pbind[p].perm
        /\ x.save[j].group => x.pbind[p].perm \/ j \in Lost(x)
        /\ \A q \in BoundPlayers(x, j) : p = q \/ x.pbind[p].perm \/ x.pbind[q].perm \/ j \in Lost(x)
    BY <1>1, <1>5, <2>1 DEF ResetsSafe
  <2>3. j \in Lost(x) => j \in Lost(z)
    BY <1>6
  <2>4. z.save[j].group => z.pbind[p].perm \/ j \in Lost(z)
    <3>1. CASE j = i
      <4>1. p \in z.save[i].players
        BY <1>7, <3>1 DEF PlayersLinked, BoundPlayers
      <4> QED
        BY <1>2, <3>1, <4>1
    <3>2. CASE j # i
      BY <1>2, <1>5, <2>2, <2>3, <3>2
    <3> QED
      BY <3>1, <3>2
  <2> QED
    BY <1>2, <1>5, <2>1, <2>2, <2>3, <2>4
<1>11. PlayersDurable(z)
  <2> SUFFICES ASSUME NEW p \in Players, z.pbind[p] # NoBind
               PROVE  z.pbind[p].id \in Lost(z) \/ (z.pbind[p] \in z.crow[p] /\ z.pbind[p].id \in z.irow)
    BY DEF PlayersDurable
  <2>1. z.pbind[p].id \in Ids
    BY <1>2, BoardFields
  <2>2. z.save[z.pbind[p].id] # NoSave
    BY <1>7, <2>1 DEF PlayersLinked
  <2> QED
    BY <1>1, <1>2, <1>6, <2>2 DEF PlayersDurable
<1>12. SavesDurable(z)
  <2> SUFFICES ASSUME NEW j \in Ids, z.save[j] # NoSave PROVE j \in z.irow \cup Lost(z)
    BY DEF SavesDurable
  <2>1. j \in x.irow \cup Lost(x)
    BY <1>1, <1>5 DEF SavesDurable
  <2> QED
    BY <1>2, <1>6, <2>1
<1>13. GroupDurable(z)
  <2> SUFFICES i \in Lost(z) \/ (row \in z.grow /\ i \in z.irow)
    BY <1>2, <1>3 DEF GroupDurable
  <2>1. i \in x.irow \cup Lost(x)
    BY <1>1 DEF SavesDurable
  <2>2. i \in Lost(x) => i \in Lost(z)
    BY <1>2, <1>6
  <2> QED
    BY <1>2, <1>4, <2>1, <2>2
<1>14. RowsSound(z, u, on)
  BY <1>1, <1>2 DEF RowsSound
<1>15. \A p \in Players : \A r \in rd[p] : r.id \in x.stale => r.id \in z.stale
  BY <1>6 DEF IsRead
<1>16. ReadSound(z, on, rd)
  BY <1>1, <1>2, <1>15 DEF ReadSound
<1>17. Covered(z, u, rd)
  <2>1. ASSUME NEW j \in Ids, z.save[j] # NoSave PROVE j \in u \cup z.stale
    BY <1>1, <1>5, <1>6, <2>1 DEF Covered
  <2> QED
    BY <1>1, <1>2, <1>15, <2>1 DEF Covered
<1>18. NormalBinds(z, rd)
  <2> SUFFICES ASSUME ~heroic PROVE NormalBinds(z, rd)
    BY DEF NormalBinds
  <2>1. \A r \in z.grow : ~r.perm
    BY <1>1, <1>2, <1>3 DEF NormalBinds
  <2> QED
    BY <1>1, <1>2, <1>3, <2>1 DEF NormalBinds
<1> QED
  BY <1>2, <1>7, <1>8, <1>9, <1>10, <1>11, <1>12, <1>13, <1>14, <1>16, <1>17, <1>18 DEF Sound, z

\* More ids in use, and a save that may be empty, do no harm.
LEMMA SoundGrows ==
  ASSUME NEW x, NEW new, NEW u, NEW v, NEW on, NEW rd, Sound(x, {}, u, on, rd), u \subseteq v
  PROVE  Sound(x, new, v, on, rd)
<1>1. /\ NoneEmpty(x, {}) /\ RowsSound(x, u, on) /\ Covered(x, u, rd)
  BY DEF Sound
<1>2. NoneEmpty(x, new) /\ RowsSound(x, v, on) /\ Covered(x, v, rd)
  BY <1>1 DEF NoneEmpty, RowsSound, Covered
<1> QED
  BY <1>2 DEF Sound

\* AddInstanceSave for an id that is free, or for rows that a load has found.
LEMMA AddSaveSound ==
  ASSUME NEW x, NEW i \in Ids, NEW canReset \in BOOLEAN, NEW load \in BOOLEAN,
         NEW u, NEW v, NEW on \in SUBSET Players, NEW rd, Sound(x, {}, u, on, rd), u \subseteq v,
         \/ load /\ i \in x.irow \cup Lost(x) /\ i \in v \cup x.stale
         \/ ~load /\ i \in v /\ (x.save[i] # NoSave \/ i \notin u)
  PROVE  Sound(AddInstanceSave(x, i, canReset, load), {i}, v, on, rd)
<1> DEFINE y == AddInstanceSave(x, i, canReset, load)
<1>1. /\ x \in Boards /\ PlayersLinked(x) /\ GroupLinked(x) /\ NoneEmpty(x, {})
      /\ ResetsSafe(x) /\ PlayersDurable(x) /\ GroupDurable(x) /\ SavesDurable(x)
      /\ RowsSound(x, u, on) /\ ReadSound(x, on, rd) /\ Covered(x, u, rd) /\ NormalBinds(x, rd)
  BY DEF Sound
<1>2. SaveAdded(x, y, i, load)
  BY <1>1, AddSaveFields
<1> HIDE DEF y
<1>3. CASE x.save[i] # NoSave
  <2>1. Sound(x, {i}, v, on, rd)
    BY SoundGrows
  <2> QED
    BY <1>2, <1>3, <2>1 DEF y, SaveAdded
<1>4. CASE x.save[i] = NoSave
  <2>1. /\ y \in Boards
        /\ y.pbind = x.pbind /\ y.gbind = x.gbind /\ y.crow = x.crow /\ y.grow = x.grow
        /\ y.doubled = x.doubled /\ y.stale = x.stale
        /\ y.irow = IF load THEN x.irow ELSE x.irow \cup {i}
        /\ y.save[i] # NoSave /\ y.save[i].players = {} /\ ~y.save[i].group
        /\ \A j \in Ids \ {i} : y.save[j] = x.save[j]
    BY <1>2, <1>4 DEF SaveAdded
  <2>2. /\ Lost(y) = Lost(x) /\ x.irow \subseteq y.irow /\ y.irow \subseteq v
        /\ i \in y.irow \cup Lost(y) /\ i \in v \cup y.stale
    BY <1>1, <1>4, <2>1 DEF Lost, Covered
  <2>3. \A p \in Players : ~(x.pbind[p] # NoBind /\ x.pbind[p].id = i)
    BY <1>1, <1>4 DEF PlayersLinked
  <2>4. ~(x.gbind # NoBind /\ x.gbind.id = i)
    BY <1>1, <1>4 DEF GroupLinked
  <2>5. PlayersLinked(y)
    <3> SUFFICES ASSUME NEW j \in Ids, NEW q \in Players
                 PROVE  (y.save[j] # NoSave /\ q \in y.save[j].players) <=>
                        (y.pbind[q] # NoBind /\ y.pbind[q].id = j)
      BY DEF PlayersLinked
    <3> QED
      BY <1>1, <2>1, <2>3 DEF PlayersLinked
  <2>6. GroupLinked(y)
    BY <1>1, <2>1, <2>4 DEF GroupLinked
  <2>7. NoneEmpty(y, {i})
    BY <1>1, <2>1 DEF NoneEmpty
  <2>8. ResetsSafe(y)
    <3> SUFFICES ASSUME NEW j \in Ids, y.save[j] # NoSave, NEW q \in BoundPlayers(y, j)
                 PROVE  /\ y.save[j].canReset => ~y.pbind[q].perm
                        /\ y.save[j].group => y.pbind[q].perm \/ j \in Lost(y)
                        /\ \A s \in BoundPlayers(y, j) :
                             q = s \/ y.pbind[q].perm \/ y.pbind[s].perm \/ j \in Lost(y)
      BY DEF ResetsSafe
    <3>1. j # i /\ BoundPlayers(y, j) = BoundPlayers(x, j)
      BY <2>1, <2>3 DEF BoundPlayers
    <3> QED
      BY <1>1, <2>1, <2>2, <3>1 DEF ResetsSafe
  <2>9. PlayersDurable(y) /\ GroupDurable(y) /\ SavesDurable(y)
    <3>1. PlayersDurable(y)
      BY <1>1, <2>1, <2>2 DEF PlayersDurable
    <3>2. GroupDurable(y)
      BY <1>1, <2>1, <2>2 DEF GroupDurable
    <3>3. SavesDurable(y)
      BY <1>1, <2>1, <2>2 DEF SavesDurable
    <3> QED
      BY <3>1, <3>2, <3>3
  <2>10. \A p \in Players : \A r \in y.crow[p] : r.id \in y.irow => r.id \in x.irow
    <3>1. \A p \in Players : \A r \in x.crow[p] : r.id \in u
      BY <1>1 DEF RowsSound
    <3>2. CASE load
      BY <2>1, <3>2
    <3>3. CASE ~load
      BY <1>4, <2>1, <3>1, <3>3
    <3> QED
      BY <3>2, <3>3
  <2>11. RowsSound(y, v, on)
    BY <1>1, <2>1, <2>10 DEF RowsSound
  <2>12. ReadSound(y, on, rd)
    <3> SUFFICES ASSUME NEW q \in Players \ on
                 PROVE  /\ \A r \in rd[q] :
                             /\ r.id \in y.stale \/ (r \in y.crow[q] /\ r.id \in y.irow)
                             /\ \A s \in y.crow[q] \cup rd[q] : s.id \in y.irow \/ s \in rd[q] => r = s
                        /\ status[q] = "loading" => \A s \in y.crow[q] : s.id \in y.irow => s \in rd[q]
      BY DEF ReadSound
    <3>1. /\ \A r \in rd[q] :
               /\ r.id \in x.stale \/ (r \in x.crow[q] /\ r.id \in x.irow)
               /\ \A s \in x.crow[q] \cup rd[q] : s.id \in x.irow \/ s \in rd[q] => r = s
          /\ status[q] = "loading" => \A s \in x.crow[q] : s.id \in x.irow => s \in rd[q]
      BY <1>1 DEF ReadSound
    <3> QED
      BY <2>1, <2>2, <2>10, <3>1
  <2>13. Covered(y, v, rd)
    <3>1. ASSUME NEW j \in Ids, y.save[j] # NoSave PROVE j \in v \cup y.stale
      BY <1>1, <2>1, <2>2, <3>1 DEF Covered
    <3> QED
      BY <1>1, <2>1, <2>2, <3>1 DEF Covered
  <2>14. NormalBinds(y, rd)
    BY <1>1, <2>1 DEF NormalBinds
  <2> QED
    BY <2>1, <2>5, <2>6, <2>7, <2>8, <2>9, <2>11, <2>12, <2>13, <2>14 DEF Sound, y
<1> QED
  BY <1>3, <1>4

\* The rows that p is left with suit a bind to i, by row.
RowsFit(x, p, i, perm, row, rows, u) ==
  /\ \A r \in rows : r.id \in u
  /\ rows \subseteq x.crow[p] \cup {row}
  /\ \A q \in Players \ {p} : row \in rows \cap x.crow[q] => perm
  /\ \A r \in rows : r.id \in x.irow => r = row
  /\ \/ row \in rows \/ i \in Lost(x)
     \/ x.pbind[p] # NoBind /\ x.pbind[p].id # i /\ x.pbind[p].id \in Lost(x)
  /\ perm \/ i \in Lost(x) \/ \A q \in BoundPlayers(x, i) \ {p} : x.pbind[q].perm

\* Player::BindToInstance, when the rows it leaves suit the player, who is online then.
LEMMA BindPlayerSound ==
  ASSUME NEW x, NEW p \in Players, NEW i \in Ids, x.save[i] # NoSave,
         NEW perm \in BOOLEAN, NEW load \in BOOLEAN, NEW u, NEW on \in SUBSET Players,
         Sound(x, {i}, u, on, read), ~heroic => ~perm,
         RowsFit(x, p, i, perm, [id |-> i, perm |-> perm], BoundRows(x, p, i, perm, load), u)
  PROVE  Sound(BindPlayer(x, p, i, perm, load), {}, u, on \cup {p}, read)
<1> DEFINE z == BindPlayer(x, p, i, perm, load)
           old == x.pbind[p]
           row == [id |-> i, perm |-> perm]
           rows == BoundRows(x, p, i, perm, load)
<1>20. /\ \A r \in rows : r.id \in u
       /\ rows \subseteq x.crow[p] \cup {row}
       /\ \A q \in Players \ {p} : row \in rows \cap x.crow[q] => perm
       /\ \A r \in rows : r.id \in x.irow => r = row
       /\ \/ row \in rows \/ i \in Lost(x)
          \/ old # NoBind /\ old.id # i /\ old.id \in Lost(x)
       /\ perm \/ i \in Lost(x) \/ \A q \in BoundPlayers(x, i) \ {p} : x.pbind[q].perm
  BY DEF RowsFit
<1>1. /\ x \in Boards /\ PlayersLinked(x) /\ GroupLinked(x) /\ NoneEmpty(x, {i})
      /\ ResetsSafe(x) /\ PlayersDurable(x) /\ GroupDurable(x) /\ SavesDurable(x)
      /\ RowsSound(x, u, on) /\ ReadSound(x, on, read) /\ Covered(x, u, read) /\ NormalBinds(x, read)
  BY DEF Sound
<1>2. PlayerBound(x, z, p, i, perm, load)
  BY <1>1, BindPlayerFields
<1> HIDE DEF z
<1>3. /\ z \in Boards /\ HistoryKept(x, z)
      /\ z.gbind = x.gbind /\ z.irow = x.irow /\ z.grow = x.grow
      /\ z.pbind[p] = row /\ z.crow[p] = rows
      /\ \A q \in Players \ {p} : z.pbind[q] = x.pbind[q] /\ z.crow[q] = x.crow[q]
      /\ z.save[i] # NoSave /\ z.save[i].players = x.save[i].players \cup {p}
      /\ z.save[i].group <=> x.save[i].group
      /\ z.save[i].canReset <=> x.save[i].canReset /\ ~perm
      /\ \A j \in Ids \ {i} :
           IF old # NoBind /\ old.id = j THEN Unlisted(x, z, p, j) ELSE z.save[j] = x.save[j]
      /\ old # NoBind /\ old.id # i /\ old.id \in Lost(x) => i \in Lost(z)
      /\ z.save[i].group /\ (\E q \in z.save[i].players : ~z.pbind[q].perm) => i \in Lost(z)
  BY <1>2 DEF PlayerBound
<1>4. row \in Rows /\ row.id = i /\ row # NoBind /\ row.perm = perm
  BY NullAssumption DEF Rows
<1> HIDE DEF row, rows
<1>5. ASSUME NEW j \in Ids
      PROVE  /\ z.save[j] # NoSave => x.save[j] # NoSave /\ (z.save[j].canReset => x.save[j].canReset)
             /\ (z.save[j] # NoSave /\ z.save[j].group) <=> (x.save[j] # NoSave /\ x.save[j].group)
             /\ \A q \in Players \ {p} :
                  (z.save[j] # NoSave /\ q \in z.save[j].players) <=>
                  (x.save[j] # NoSave /\ q \in x.save[j].players)
             /\ (z.save[j] # NoSave /\ p \in z.save[j].players) <=> j = i
             /\ z.save[j] # NoSave => z.save[j].players # {} \/ z.save[j].group
  <2>1. CASE j = i
    BY <1>3, <2>1
  <2>2. CASE j # i /\ old # NoBind /\ old.id = j
    <3>1. Unlisted(x, z, p, j) /\ x.save[j] # NoSave
      BY <1>1, <1>3, <2>2 DEF PlayersLinked
    <3> QED
      BY <2>2, <3>1 DEF Unlisted
  <2>3. CASE j # i /\ ~(old # NoBind /\ old.id = j)
    <3>1. z.save[j] = x.save[j]
      BY <1>3, <2>3
    <3>2. ~(x.save[j] # NoSave /\ p \in x.save[j].players)
      BY <1>1, <2>3 DEF PlayersLinked
    <3> QED
      BY <1>1, <2>3, <3>1, <3>2 DEF NoneEmpty
  <2> QED
    BY <2>1, <2>2, <2>3
<1>6. /\ \A j \in Lost(x) : z.save[j] # NoSave => j \in Lost(z)
      /\ \A j \in x.stale : z.save[j] # NoSave \/ IsRead(j) => j \in z.stale
  BY <1>3 DEF HistoryKept
<1>7. PlayersLinked(z)
  <2> SUFFICES ASSUME NEW j \in Ids, NEW q \in Players
               PROVE  (z.save[j] # NoSave /\ q \in z.save[j].players) <=>
                      (z.pbind[q] # NoBind /\ z.pbind[q].id = j)
    BY DEF PlayersLinked
  <2>1. CASE q = p
    BY <1>3, <1>4, <1>5, <2>1
  <2>2. CASE q # p
    BY <1>1, <1>3, <1>5, <2>2 DEF PlayersLinked
  <2> QED
    BY <2>1, <2>2
<1>8. GroupLinked(z)
  BY <1>1, <1>3, <1>5 DEF GroupLinked
<1>9. NoneEmpty(z, {})
  BY <1>5 DEF NoneEmpty
<1>10. ResetsSafe(z)
  <2> SUFFICES ASSUME NEW j \in Ids, z.save[j] # NoSave, NEW s \in BoundPlayers(z, j)
               PROVE  /\ z.save[j].canReset => ~z.pbind[s].perm
                      /\ z.save[j].group => z.pbind[s].perm \/ j \in Lost(z)
                      /\ \A q \in BoundPlayers(z, j) :
                           s = q \/ z.pbind[s].perm \/ z.pbind[q].perm \/ j \in Lost(z)
    BY DEF ResetsSafe
  <2>1. /\ x.save[j] # NoSave /\ (z.save[j].canReset => x.save[j].canReset)
        /\ z.save[j].group <=> x.save[j].group
        /\ j \in Lost(x) => j \in Lost(z)
    BY <1>5, <1>6
  <2>2. \A q \in BoundPlayers(z, j) \ {p} : q \in BoundPlayers(x, j) /\ z.pbind[q] = x.pbind[q]
    BY <1>3 DEF BoundPlayers
  <2>3. p \in BoundPlayers(z, j) => j = i /\ z.pbind[p] = row
    BY <1>3, <1>4 DEF BoundPlayers
  <2>4. \A q \in BoundPlayers(x, j) :
          /\ x.save[j].canReset => ~x.pbind[q].perm
          /\ x.save[j].group => x.pbind[q].perm \/ j \in Lost(x)
          /\ \A t \in BoundPlayers(x, j) : q = t \/ x.pbind[q].perm \/ x.pbind[t].perm \/ j \in Lost(x)
    BY <1>1, <2>1 DEF ResetsSafe
  <2>5. z.save[j].canReset => ~z.pbind[s].perm
    BY <1>3, <1>4, <2>1, <2>2, <2>3, <2>4
  <2>6. z.save[j].group => z.pbind[s].perm \/ j \in Lost(z)
    <3>1. CASE s = p
      <4>1. j = i /\ p \in z.save[i].players
        BY <1>3, <2>3, <3>1
      <4> QED
        BY <1>3, <3>1, <4>1
    <3>2. CASE s # p
      BY <2>1, <2>2, <2>4, <3>2
    <3> QED
      BY <3>1, <3>2
  <2>7. ASSUME NEW q \in BoundPlayers(z, j), q # p, p \in BoundPlayers(z, j)
        PROVE  z.pbind[p].perm \/ z.pbind[q].perm \/ j \in Lost(z)
    <3>1. j = i /\ z.pbind[p] = row /\ q \in BoundPlayers(x, i) \ {p} /\ z.pbind[q] = x.pbind[q]
      BY <2>2, <2>3, <2>7
    <3>2. CASE perm
      BY <1>4, <3>1, <3>2
    <3>3. CASE i \in Lost(x)
      BY <2>1, <3>1, <3>3
    <3>4. CASE x.pbind[q].perm
      BY <3>1, <3>4
    <3> QED
      BY <1>20, <3>1, <3>2, <3>3, <3>4
  <2>8. ASSUME NEW q \in BoundPlayers(z, j), q # s
        PROVE  z.pbind[s].perm \/ z.pbind[q].perm \/ j \in Lost(z)
    <3>1. CASE s = p
      BY <2>7, <2>8, <3>1
    <3>2. CASE q = p
      BY <2>7, <2>8, <3>2
    <3>3. CASE s # p /\ q # p
      BY <2>1, <2>2, <2>4, <2>8, <3>3
    <3> QED
      BY <3>1, <3>2, <3>3
  <2> QED
    BY <2>5, <2>6, <2>8
<1>11. i \in Lost(x) => i \in Lost(z)
  BY <1>3, <1>6
<1>12. PlayersDurable(z)
  <2> SUFFICES ASSUME NEW q \in Players, z.pbind[q] # NoBind
               PROVE  z.pbind[q].id \in Lost(z) \/ (z.pbind[q] \in z.crow[q] /\ z.pbind[q].id \in z.irow)
    BY DEF PlayersDurable
  <2>1. CASE q = p
    <3>1. i \in x.irow \cup Lost(x)
      BY <1>1 DEF SavesDurable
    <3> QED
      BY <1>3, <1>4, <1>11, <1>20, <2>1, <3>1
  <2>2. CASE q # p
    <3>1. z.pbind[q].id \in Ids
      BY <1>3, BoardFields
    <3>2. z.save[z.pbind[q].id] # NoSave
      BY <1>7, <3>1 DEF PlayersLinked
    <3> QED
      BY <1>1, <1>3, <1>6, <2>2, <3>2 DEF PlayersDurable
  <2> QED
    BY <2>1, <2>2
<1>13. GroupDurable(z)
  <2> SUFFICES ASSUME z.gbind # NoBind
               PROVE  z.gbind.id \in Lost(z) \/ (z.gbind \in z.grow /\ z.gbind.id \in z.irow)
    BY DEF GroupDurable
  <2>1. z.gbind.id \in Ids
    BY <1>3, BoardFields
  <2>2. z.save[z.gbind.id] # NoSave
    BY <1>8, <2>1 DEF GroupLinked
  <2> QED
    BY <1>1, <1>3, <1>6, <2>2 DEF GroupDurable
<1>14. SavesDurable(z)
  <2> SUFFICES ASSUME NEW j \in Ids, z.save[j] # NoSave PROVE j \in z.irow \cup Lost(z)
    BY DEF SavesDurable
  <2>1. j \in x.irow \cup Lost(x)
    BY <1>1, <1>5 DEF SavesDurable
  <2> QED
    BY <1>3, <1>6, <2>1
<1>15. RowsSound(z, u, on \cup {p})
  <2>1. \A q \in Players : \A r \in z.crow[q] : r.id \in u
    BY <1>1, <1>3, <1>20 DEF RowsSound
  <2>2. ASSUME NEW q \in Players \ {p}, NEW r \in z.crow[p] \cap z.crow[q] PROVE r.perm
    <3>1. CASE r \in x.crow[p]
      BY <1>1, <1>3, <2>2, <3>1 DEF RowsSound
    <3>2. CASE r = row
      BY <1>3, <1>4, <1>20, <2>2, <3>2
    <3> QED
      BY <1>3, <1>20, <2>2, <3>1, <3>2
  <2>3. ASSUME NEW q \in Players, NEW s \in Players, NEW r \in z.crow[q] \cap z.crow[s], q # s PROVE r.perm
    <3>1. CASE q = p
      BY <2>2, <2>3, <3>1
    <3>2. CASE s = p
      BY <2>2, <2>3, <3>2
    <3>3. CASE q # p /\ s # p
      BY <1>1, <1>3, <2>3, <3>3 DEF RowsSound
    <3> QED
      BY <3>1, <3>2, <3>3
  <2>4. ASSUME NEW q \in on \cup {p}, NEW r \in z.crow[q], r.id \in z.irow PROVE r = z.pbind[q]
    <3>1. CASE q = p
      BY <1>3, <1>20, <2>4, <3>1
    <3>2. CASE q # p
      BY <1>1, <1>3, <2>4, <3>2 DEF RowsSound
    <3> QED
      BY <3>1, <3>2
  <2>5. ASSUME NEW q \in Players \ (on \cup {p})
        PROVE  /\ z.pbind[q] = NoBind
               /\ \A r, s \in z.crow[q] : r.id \in z.irow /\ s.id \in z.irow => r = s
    BY <1>1, <1>3, <2>5 DEF RowsSound
  <2> QED
    BY <2>1, <2>3, <2>4, <2>5 DEF RowsSound
<1>16. \A q \in Players : \A r \in read[q] : r.id \in x.stale => r.id \in z.stale
  BY <1>6 DEF IsRead
<1>17. ReadSound(z, on \cup {p}, read)
  BY <1>1, <1>3, <1>16 DEF ReadSound
<1>18. Covered(z, u, read)
  <2>1. ASSUME NEW j \in Ids, z.save[j] # NoSave PROVE j \in u \cup z.stale
    BY <1>1, <1>5, <1>6, <2>1 DEF Covered
  <2> QED
    BY <1>1, <1>3, <1>16, <2>1 DEF Covered
<1>19. NormalBinds(z, read)
  <2> SUFFICES ASSUME ~heroic PROVE NormalBinds(z, read)
    BY DEF NormalBinds
  <2>1. ~row.perm
    BY <1>4
  <2>2. ASSUME NEW q \in Players
        PROVE  (z.pbind[q] # NoBind => ~z.pbind[q].perm) /\ \A r \in z.crow[q] \cup read[q] : ~r.perm
    <3>1. CASE q = p
      BY <1>1, <1>3, <1>20, <2>1, <3>1 DEF NormalBinds
    <3>2. CASE q # p
      BY <1>1, <1>3, <3>2 DEF NormalBinds
    <3> QED
      BY <3>1, <3>2
  <2> QED
    BY <1>1, <1>3, <2>2 DEF NormalBinds
<1> QED
  BY <1>3, <1>7, <1>8, <1>9, <1>10, <1>12, <1>13, <1>14, <1>15, <1>17, <1>18, <1>19 DEF Sound, z

\* A player in a raid or heroic dungeon is bound permanently: his row takes over that of
\* his old bind, if there is one.
LEMMA BindPermanentSound ==
  ASSUME NEW x, NEW p, NEW i \in Ids, x.save[i] # NoSave, NEW u, NEW on \in SUBSET Players,
         Sound(x, {}, u, on, read), heroic, p \in on, i \in u
  PROVE  Sound(BindPlayer(x, p, i, TRUE, FALSE), {}, u, on, read)
<1> DEFINE row == [id |-> i, perm |-> TRUE]
           rows == BoundRows(x, p, i, TRUE, FALSE)
           old == x.pbind[p]
<1>1. /\ x \in Boards /\ PlayersDurable(x) /\ SavesDurable(x) /\ RowsSound(x, u, on)
  BY DEF Sound
<1>2. p \in Players /\ TRUE \in BOOLEAN /\ FALSE \in BOOLEAN
  OBVIOUS
<1>3. rows \subseteq x.crow[p] \cup {row}
  BY <1>1, <1>2, BoundRowsType
<1>4. row.id = i /\ row.perm
  OBVIOUS
<1>5. IF old # NoBind THEN rows = {IF r.id = old.id THEN row ELSE r : r \in x.crow[p]}
      ELSE rows = x.crow[p] \cup {r \in {row} : \A c \in x.crow[p] : c.id # i}
  BY Zenon DEF BoundRows
<1> HIDE DEF rows, row
<1>6. /\ \A r \in x.crow[p] : r.id \in u
      /\ \A r \in x.crow[p] : r.id \in x.irow => r = old
  BY <1>1 DEF RowsSound
<1>7. \A r \in rows : r.id \in u
  BY <1>3, <1>4, <1>6
<1>8. ASSUME NEW r \in rows, r.id \in x.irow PROVE r = row
  <2>1. CASE old # NoBind
    <3>1. PICK c \in x.crow[p] : r = IF c.id = old.id THEN row ELSE c
      BY <1>5, <1>8, <2>1
    <3> QED
      BY <1>6, <1>8, <3>1
  <2>2. CASE old = NoBind
    <3>1. NoBind \notin x.crow[p]
      BY <1>1, <1>2, BoardFields, NullAssumption
    <3>2. r \notin x.crow[p]
      BY <1>6, <1>8, <2>2, <3>1
    <3> QED
      BY <1>3, <1>8, <3>2
  <2> QED
    BY <2>1, <2>2
<1>9. \/ row \in rows \/ i \in Lost(x)
      \/ old # NoBind /\ old.id # i /\ old.id \in Lost(x)
  <2>1. CASE old # NoBind
    <3>1. old.id \in Lost(x) \/ old \in x.crow[p]
      BY <1>1, <1>2, <2>1 DEF PlayersDurable
    <3>2. old \in x.crow[p] => row \in rows
      BY <1>5, <2>1
    <3> QED
      BY <2>1, <3>1, <3>2
  <2>2. CASE old = NoBind
    <3>1. CASE \A c \in x.crow[p] : c.id # i
      BY <1>5, <2>2, <3>1
    <3>2. CASE \E c \in x.crow[p] : c.id = i
      <4>1. NoBind \notin x.crow[p]
        BY <1>1, <1>2, BoardFields, NullAssumption
      <4>2. i \notin x.irow
        BY <1>6, <2>2, <3>2, <4>1
      <4> QED
        BY <1>1, <4>2 DEF SavesDurable
    <3> QED
      BY <3>1, <3>2
  <2> QED
    BY <2>1, <2>2
<1>10. Sound(x, {i}, u, on, read)
  BY SoundGrows
<1>11. on \cup {p} = on
  OBVIOUS
<1>12. row = [id |-> i, perm |-> TRUE] /\ rows = BoundRows(x, p, i, TRUE, FALSE)
  BY DEF row, rows
<1>13. Sound(BindPlayer(x, p, i, TRUE, FALSE), {}, u, on \cup {p}, read)
  <2> HIDE DEF old
  <2>1. \A q \in Players \ {p} : row \in rows \cap x.crow[q] => TRUE
    OBVIOUS
  <2>2. \A r \in rows : r.id \in x.irow => r = row
    BY <1>8
  <2>3. RowsFit(x, p, i, TRUE, [id |-> i, perm |-> TRUE], BoundRows(x, p, i, TRUE, FALSE), u)
    BY <1>3, <1>7, <1>9, <1>12, <2>1, <2>2 DEF old, RowsFit
  <2> QED
    BY <1>2, <1>10, <2>3, BindPlayerSound
<1> QED
  BY <1>11, <1>13

\* A player without a bind comes into an instance that nobody has a row of.
LEMMA BindNewSound ==
  ASSUME NEW x, NEW p, NEW i \in Ids, x.save[i] # NoSave, NEW u, NEW on \in SUBSET Players,
         Sound(x, {i}, u, on, read), p \in on, i \in u, x.pbind[p] = NoBind,
         \A q \in Players : \A r \in x.crow[q] : r.id # i,
         i \in Lost(x) \/ BoundPlayers(x, i) = {}
  PROVE  Sound(BindPlayer(x, p, i, FALSE, FALSE), {}, u, on, read)
<1> DEFINE row == [id |-> i, perm |-> FALSE]
           rows == BoundRows(x, p, i, FALSE, FALSE)
<1>1. /\ x \in Boards /\ RowsSound(x, u, on)
  BY DEF Sound
<1>2. p \in Players /\ FALSE \in BOOLEAN
  OBVIOUS
<1>3. rows \subseteq x.crow[p] \cup {row}
  BY <1>1, <1>2, BoundRowsType
<1>4. row.id = i /\ ~row.perm
  OBVIOUS
<1>5. rows = x.crow[p] \cup {r \in {row} : \A c \in x.crow[p] : c.id # i}
  BY Zenon DEF BoundRows
<1>6. row = [id |-> i, perm |-> FALSE] /\ rows = BoundRows(x, p, i, FALSE, FALSE)
  OBVIOUS
<1> HIDE DEF rows, row
<1>7. row \in rows
  BY <1>2, <1>5
<1>8. /\ \A r \in x.crow[p] : r.id \in u
      /\ \A r \in x.crow[p] : r.id \notin x.irow
  <2>1. NoBind \notin x.crow[p]
    BY <1>1, <1>2, BoardFields, NullAssumption
  <2> QED
    BY <1>1, <2>1 DEF RowsSound
<1>9. \A r \in rows : r.id \in u
  BY <1>3, <1>4, <1>8
<1>10. \A r \in rows : r.id \in x.irow => r = row
  BY <1>3, <1>8
<1>11. \A q \in Players \ {p} : row \in rows \cap x.crow[q] => FALSE
  BY <1>4
<1>12. FALSE \/ i \in Lost(x) \/ \A q \in BoundPlayers(x, i) \ {p} : x.pbind[q].perm
  OBVIOUS
<1>13. on \cup {p} = on
  OBVIOUS
<1>14. RowsFit(x, p, i, FALSE, [id |-> i, perm |-> FALSE], BoundRows(x, p, i, FALSE, FALSE), u)
  BY <1>3, <1>6, <1>7, <1>9, <1>10, <1>11, <1>12 DEF RowsFit
<1>15. Sound(BindPlayer(x, p, i, FALSE, FALSE), {}, u, on \cup {p}, read)
  BY <1>2, <1>14, BindPlayerSound
<1> QED
  BY <1>13, <1>15

\* A login binds the player by a row that it has read.
LEMMA BindLoadedSound ==
  ASSUME NEW x, NEW p \in Players, NEW row \in read[p], row \in Rows, x.save[row.id] # NoSave,
         NEW u, NEW on \in SUBSET Players, Sound(x, {row.id}, u, on, read), p \notin on
  PROVE  Sound(BindPlayer(x, p, row.id, row.perm, TRUE), {}, u, on \cup {p}, read)
<1> DEFINE i == row.id
           perm == row.perm
           rows == BoundRows(x, p, i, perm, TRUE)
<1>1. /\ x \in Boards /\ PlayersDurable(x) /\ RowsSound(x, u, on) /\ ReadSound(x, on, read)
      /\ NormalBinds(x, read) /\ PlayersLinked(x)
  BY DEF Sound
<1>2. i \in Ids /\ perm \in BOOLEAN /\ TRUE \in BOOLEAN /\ row = [id |-> i, perm |-> perm]
  BY DEF Rows
<1>3. rows = x.crow[p]
  BY Zenon DEF BoundRows
<1>4. rows = BoundRows(x, p, i, perm, TRUE)
  OBVIOUS
<1> HIDE DEF rows
<1>5. rows \subseteq x.crow[p] \cup {row} /\ \A r \in rows : r.id \in u
  BY <1>1, <1>3 DEF RowsSound
<1>6. /\ i \in x.stale \/ (row \in x.crow[p] /\ i \in x.irow)
      /\ \A r \in rows : r.id \in x.irow => r = row
  BY <1>1, <1>3 DEF ReadSound
<1>7. x.pbind[p] = NoBind
  BY <1>1 DEF RowsSound
<1>8. \A q \in Players \ {p} : row \in rows \cap x.crow[q] => perm
  BY <1>1, <1>3 DEF RowsSound
<1>9. row \in rows \/ i \in Lost(x)
  BY <1>3, <1>6 DEF Lost
<1>10. perm \/ i \in Lost(x) \/ \A q \in BoundPlayers(x, i) \ {p} : x.pbind[q].perm
  <2> SUFFICES ASSUME ~perm, i \notin Lost(x), NEW q \in BoundPlayers(x, i) \ {p} PROVE x.pbind[q].perm
    OBVIOUS
  <2>1. q \in Players /\ x.pbind[q] # NoBind /\ x.pbind[q].id = i
    BY DEF BoundPlayers
  <2>2. x.pbind[q] \in x.crow[q]
    BY <1>1, <2>1 DEF PlayersDurable
  <2>3. x.pbind[q] \in Rows
    BY <1>1, <2>1, BoardFields
  <2>4. ~x.pbind[q].perm => x.pbind[q] = row
    BY <1>2, <2>1, <2>3 DEF Rows
  <2>5. row \in x.crow[p]
    BY <1>6 DEF Lost
  <2> QED
    BY <1>3, <1>8, <2>1, <2>2, <2>4, <2>5
<1>11. ~heroic => ~perm
  BY <1>1 DEF NormalBinds
<1>12. Sound(x, {i}, u, on, read) /\ x.save[i] # NoSave
  OBVIOUS
<1>13. RowsFit(x, p, i, perm, [id |-> i, perm |-> perm], BoundRows(x, p, i, perm, TRUE), u)
  BY <1>2, <1>4, <1>5, <1>6, <1>8, <1>9, <1>10 DEF RowsFit
<1> HIDE DEF i, perm
<1>14. Sound(BindPlayer(x, p, i, perm, TRUE), {}, u, on \cup {p}, read)
  BY <1>2, <1>11, <1>12, <1>13, BindPlayerSound
<1> QED
  BY <1>14 DEF i, perm

-----------------------------------------------------------------------------
(* The loops over players and over saves                                    *)

Chosen(s) == CHOOSE e \in s : TRUE

\* One round of the loops of PermBindAllPlayers (into i) and of the reset of all.
Round(x, e, i) == IF i = NoId THEN ResetSave(x, e) ELSE BindPlayer(x, e, i, TRUE, FALSE)

\* A set of natural numbers has a least element.
LEMMA LeastNatural ==
  ASSUME NEW T \in SUBSET Nat, T # {}
  PROVE  \E n \in T : \A m \in T : n <= m
<1> DEFINE R == {ss \in Nat \X Nat : ss[1] < ss[2]}
<1>1. IsWellFoundedOn(R, Nat)
  BY NatLessThanWellFounded DEF OpToRel
<1>2. \A n, m \in Nat : m < n => <<m, n>> \in R
  OBVIOUS
<1> HIDE DEF R
<1>3. PICK n \in T : \A m \in T : <<m, n>> \notin R
  BY <1>1, WFMin
<1>4. \A m \in T : m \in Nat /\ n \in Nat /\ ~(m < n)
  BY <1>2, <1>3
<1>5. \A m \in T : n <= m
  BY <1>4
<1> QED
  BY <1>5

\* A step that holds for the empty set and survives one more element holds for all subsets.
LEMMA SubsetInduction ==
  ASSUME NEW T, IsFiniteSet(T), NEW D, {} \in D,
         \A s \in SUBSET T : s # {} /\ s \ {Chosen(s)} \in D => s \in D
  PROVE  \A s \in SUBSET T : s \in D
<1> DEFINE N == {Cardinality(s) : s \in {t \in SUBSET T : t \notin D}}
<1>1. SUFFICES ASSUME NEW s \in SUBSET T, s \notin D PROVE FALSE
  OBVIOUS
<1>2. \A t \in SUBSET T : IsFiniteSet(t) /\ Cardinality(t) \in Nat
  BY FS_Subset, FS_CardinalityType
<1>3. N \in SUBSET Nat /\ N # {}
  BY <1>1, <1>2
<1>4. PICK n \in N : \A m \in N : n <= m
  <2> HIDE DEF N
  <2> QED
    BY <1>3, LeastNatural
<1>5. PICK t \in SUBSET T : t \notin D /\ n = Cardinality(t)
  BY <1>4
<1>6. t # {} /\ Chosen(t) \in t
  BY <1>5 DEF Chosen
<1>7. t \ {Chosen(t)} \in SUBSET T /\ Cardinality(t \ {Chosen(t)}) = Cardinality(t) - 1
  BY <1>2, <1>5, <1>6, FS_RemoveElement
<1>8. t \ {Chosen(t)} \notin D
  BY <1>5, <1>6
<1>9. Cardinality(t \ {Chosen(t)}) \in N
  BY <1>7, <1>8
<1>10. n <= n - 1 /\ n \in Nat
  BY <1>2, <1>4, <1>5, <1>7, <1>9
<1> QED
  BY <1>10

\* The recursion of FoldSet has a solution: the boards after each of the subsets.
Solves(f, x, i, D) ==
  f = [s \in D |-> IF s = {} THEN x ELSE Round(f[s \ {Chosen(s)}], Chosen(s), i)]

\* FoldSet of a round is defined on every finite set.
LEMMA RoundsDefined ==
  ASSUME NEW T, IsFiniteSet(T), NEW x, NEW i
  PROVE  \E f : Solves(f, x, i, SUBSET T)
<1> DEFINE Upto(n) == {s \in SUBSET T : Cardinality(s) <= n}
           S == {n \in Nat : \E f : Solves(f, x, i, Upto(n))}
           M == {n \in Nat : n \notin S}
<1>1. \A t \in SUBSET T : IsFiniteSet(t) /\ Cardinality(t) \in Nat
  BY FS_Subset, FS_CardinalityType
<1>2. \A t \in SUBSET T : t # {} =>
        /\ Chosen(t) \in t /\ t \ {Chosen(t)} \in SUBSET T
        /\ Cardinality(t \ {Chosen(t)}) = Cardinality(t) - 1
  BY <1>1, FS_RemoveElement DEF Chosen
<1>3. Cardinality({}) = 0 /\ \A t \in SUBSET T : Cardinality(t) = 0 => t = {}
  BY <1>1, FS_EmptySet
<1>4. 0 \in S
  <2> DEFINE f == [s \in Upto(0) |-> x]
  <2>1. \A s \in Upto(0) : s = {}
    BY <1>1, <1>3
  <2>2. Solves(f, x, i, Upto(0))
    <3> SUFFICES ASSUME TRUE
                 PROVE  f = [s \in Upto(0) |-> IF s = {} THEN x ELSE Round(f[s \ {Chosen(s)}], Chosen(s), i)]
      BY DEF Solves
    <3> HIDE DEF Upto
    <3> QED
      BY <2>1
  <2> QED
    BY <2>2
<1>5. ASSUME NEW n \in Nat, n \in S PROVE n + 1 \in S
  <2>1. PICK f : Solves(f, x, i, Upto(n))
    BY <1>5
  <2> DEFINE g == [s \in Upto(n + 1) |->
                     IF s = {} THEN x
                     ELSE Round(f[s \ {Chosen(s)}], Chosen(s), i)]
  <2>2. \A s \in Upto(n) : f[s] = IF s = {} THEN x ELSE Round(f[s \ {Chosen(s)}], Chosen(s), i)
    BY <2>1, Zenon DEF Solves
  <2>3. \A s \in Upto(n) : s \in Upto(n + 1)
    BY <1>1
  <2>4. \A s \in Upto(n + 1) : s # {} => s \ {Chosen(s)} \in Upto(n)
    BY <1>1, <1>2
  <2>5. \A s \in Upto(n) : g[s] = f[s]
    <3> HIDE DEF Upto
    <3> QED
      BY <2>2, <2>3
  <2>6. \A s \in Upto(n + 1) : g[s] = IF s = {} THEN x ELSE Round(g[s \ {Chosen(s)}], Chosen(s), i)
    <3> SUFFICES ASSUME NEW s \in Upto(n + 1), s # {}
                 PROVE  g[s] = Round(g[s \ {Chosen(s)}], Chosen(s), i)
      BY Zenon
    <3>1. g[s \ {Chosen(s)}] = f[s \ {Chosen(s)}]
      <4> HIDE DEF Upto, g
      <4> QED
        BY <2>4, <2>5
    <3>2. g[s] = Round(f[s \ {Chosen(s)}], Chosen(s), i)
      <4> HIDE DEF Upto
      <4> QED
        OBVIOUS
    <3> QED
      BY <3>1, <3>2
  <2>7. Solves(g, x, i, Upto(n + 1))
    <3> HIDE DEF Upto
    <3>1. g = [s \in Upto(n + 1) |-> g[s]]
      OBVIOUS
    <3> HIDE DEF g
    <3> QED
      BY <2>6, <3>1, Zenon DEF Solves
  <2>8. n + 1 \in Nat
    OBVIOUS
  <2> HIDE DEF Upto, g
  <2> QED
    BY <2>7, <2>8
<1>6. M = {}
  <2> SUFFICES ASSUME M # {} PROVE FALSE
    OBVIOUS
  <2>1. M \in SUBSET Nat
    OBVIOUS
  <2>2. PICK n \in M : \A m \in M : n <= m
    <3> HIDE DEF M
    <3> QED
      BY <2>1, LeastNatural
  <2> HIDE DEF S
  <2>3. n \in Nat /\ n \notin S /\ n # 0
    BY <1>4, <2>2
  <2>4. n - 1 \in Nat /\ n - 1 \notin M
    BY <2>2, <2>3
  <2>5. (n - 1) + 1 \in S
    BY <1>5, <2>4
  <2> QED
    BY <2>3, <2>5
<1>7. Cardinality(T) \in S
  <2>1. Cardinality(T) \in Nat
    BY <1>1
  <2> HIDE DEF S
  <2> QED
    BY <1>6, <2>1
<1>8. Upto(Cardinality(T)) = SUBSET T
  BY FS_Subset
<1>9. \E f : Solves(f, x, i, Upto(Cardinality(T)))
  <2> HIDE DEF Upto
  <2> QED
    BY <1>7
<1> HIDE DEF Upto
<1> QED
  BY <1>8, <1>9

\* The boards after the resets of each subset, as ResetSaves computes them.
ResetBoards(x) ==
  CHOOSE f : f = [s \in SUBSET Ids |->
                    IF s = {} THEN x ELSE ResetSave(f[s \ {Chosen(s)}], Chosen(s))]

BoundBoards(x, i, T) ==
  CHOOSE f : f = [s \in SUBSET T |->
                    IF s = {} THEN x ELSE BindPlayer(f[s \ {Chosen(s)}], Chosen(s), i, TRUE, FALSE)]

\* The loop of _ResetOrWarnAll is the rounds over all the ids.
LEMMA ResetSavesRounds ==
  ASSUME NEW x
  PROVE  /\ ResetSaves(x) = ResetBoards(x)[Ids]
         /\ \A s \in SUBSET Ids : ResetBoards(x)[s] =
              IF s = {} THEN x ELSE ResetSave(ResetBoards(x)[s \ {Chosen(s)}], Chosen(s))
<1>1. ResetSaves(x) = ResetBoards(x)[Ids]
  BY DEF ResetSaves, FoldSet, MapThenFoldSet, ResetBoards, Chosen
<1>2. PICK f : Solves(f, x, NoId, SUBSET Ids)
  BY IdsAssumption, RoundsDefined
<1>3. \A y, e : Round(y, e, NoId) = ResetSave(y, e)
  BY DEF Round
<1>4. f = [s \in SUBSET Ids |-> IF s = {} THEN x ELSE ResetSave(f[s \ {Chosen(s)}], Chosen(s))]
  BY <1>2, <1>3 DEF Solves
<1>5. ResetBoards(x) = [s \in SUBSET Ids |->
         IF s = {} THEN x ELSE ResetSave(ResetBoards(x)[s \ {Chosen(s)}], Chosen(s))]
  BY <1>4, Zenon DEF ResetBoards
<1> QED
  BY <1>1, <1>5, Zenon

BoundInRounds(x, i, T) ==
  /\ BindUnbound(x, i, T) = BoundBoards(x, i, T)[T]
  /\ \A s \in SUBSET T : BoundBoards(x, i, T)[s] =
       IF s = {} THEN x
       ELSE BindPlayer(BoundBoards(x, i, T)[s \ {Chosen(s)}], Chosen(s), i, TRUE, FALSE)

\* The loop of PermBindAllPlayers is the rounds over the players to bind.
LEMMA BindUnboundRounds ==
  ASSUME NEW x, NEW i \in Ids, NEW T, IsFiniteSet(T)
  PROVE  BoundInRounds(x, i, T)
<1>1. BindUnbound(x, i, T) = BoundBoards(x, i, T)[T]
  BY DEF BindUnbound, FoldSet, MapThenFoldSet, BoundBoards, Chosen
<1>2. PICK f : Solves(f, x, i, SUBSET T)
  BY RoundsDefined
<1>3. \A y, e : Round(y, e, i) = BindPlayer(y, e, i, TRUE, FALSE)
  BY NullAssumption DEF Round
<1>4. f = [s \in SUBSET T |->
             IF s = {} THEN x ELSE BindPlayer(f[s \ {Chosen(s)}], Chosen(s), i, TRUE, FALSE)]
  BY <1>2, <1>3 DEF Solves
<1>5. BoundBoards(x, i, T) = [s \in SUBSET T |->
         IF s = {} THEN x
         ELSE BindPlayer(BoundBoards(x, i, T)[s \ {Chosen(s)}], Chosen(s), i, TRUE, FALSE)]
  BY <1>4, Zenon DEF BoundBoards
<1> QED
  BY <1>1, <1>5, Zenon DEF BoundInRounds

\* PermBindAllPlayers binds everybody who is inside and not bound permanently yet.
LEMMA BindUnboundSound ==
  ASSUME NEW x, NEW i \in Ids, x.save[i] # NoSave, NEW u, NEW on \in SUBSET Players,
         Sound(x, {}, u, on, read), heroic, i \in u, NEW T \in SUBSET on
  PROVE  /\ Sound(BindUnbound(x, i, T), {}, u, on, read)
         /\ BindUnbound(x, i, T).save[i] # NoSave
<1> DEFINE f == BoundBoards(x, i, T)
           D == {s \in SUBSET T : Sound(f[s], {}, u, on, read) /\ f[s].save[i] # NoSave}
<1>1. IsFiniteSet(T)
  BY PlayersAssumption, FS_Subset
<1>2. /\ BindUnbound(x, i, T) = f[T]
      /\ \A s \in SUBSET T : f[s] =
           IF s = {} THEN x ELSE BindPlayer(f[s \ {Chosen(s)}], Chosen(s), i, TRUE, FALSE)
  <2> HIDE DEF f
  <2>1. BoundInRounds(x, i, T)
    BY <1>1, BindUnboundRounds
  <2> QED
    BY <2>1, Zenon DEF f, BoundInRounds
<1> HIDE DEF f
<1>3. {} \in D
  BY <1>2
<1>4. ASSUME NEW s \in SUBSET T, s # {}, s \ {Chosen(s)} \in D PROVE s \in D
  <2> DEFINE y == f[s \ {Chosen(s)}]
             p == Chosen(s)
  <2>1. p \in s /\ p \in on /\ p \in Players
    BY <1>4 DEF Chosen
  <2>2. Sound(y, {}, u, on, read) /\ y.save[i] # NoSave
    BY <1>4
  <2>3. f[s] = BindPlayer(y, p, i, TRUE, FALSE)
    BY <1>2, <1>4
  <2> HIDE DEF y, p
  <2>4. Sound(f[s], {}, u, on, read)
    BY <2>1, <2>2, <2>3, BindPermanentSound
  <2>5. y \in Boards /\ PlayersLinked(y)
    BY <2>2 DEF Sound
  <2>6. PlayerBound(y, f[s], p, i, TRUE, FALSE)
    BY <2>1, <2>2, <2>3, <2>5, BindPlayerFields
  <2>7. f[s].save[i] # NoSave
    BY <2>6 DEF PlayerBound
  <2> QED
    BY <2>4, <2>7
<1>5. T \in D
  <2> HIDE DEF D
  <2>1. \A s \in SUBSET T : s # {} /\ s \ {Chosen(s)} \in D => s \in D
    BY <1>4
  <2> QED
    BY <1>1, <1>3, <2>1, SubsetInduction
<1> QED
  BY <1>2, <1>5

\* What one reset after the other has left of x: the lists agree, the rows are as they were.
ResetsDone(x, y) ==
  /\ y \in Boards /\ PlayersLinked(y) /\ GroupLinked(y)
  /\ y.irow = x.irow /\ y.crow = x.crow /\ y.grow = x.grow
  /\ \A j \in x.stale : IsRead(j) => j \in y.stale

\* _ResetSave for all saves: none is left, and no bind.
LEMMA ResetSavesFields ==
  ASSUME NEW x \in Boards, PlayersLinked(x), GroupLinked(x)
  PROVE  LET y == ResetSaves(x) IN
         /\ ResetsDone(x, y) /\ \A j \in Ids : y.save[j] = NoSave
<1> DEFINE f == ResetBoards(x)
           D == {s \in SUBSET Ids : ResetsDone(x, f[s]) /\ \A j \in s : f[s].save[j] = NoSave}
<1>1. /\ ResetSaves(x) = f[Ids]
      /\ \A s \in SUBSET Ids : f[s] = IF s = {} THEN x ELSE ResetSave(f[s \ {Chosen(s)}], Chosen(s))
  BY ResetSavesRounds
<1> HIDE DEF f
<1>2. {} \in D
  BY <1>1 DEF ResetsDone
<1>3. ASSUME NEW s \in SUBSET Ids, s # {}, s \ {Chosen(s)} \in D PROVE s \in D
  <2> DEFINE y == f[s \ {Chosen(s)}]
             i == Chosen(s)
             z == f[s]
  <2>1. i \in s /\ i \in Ids
    BY <1>3 DEF Chosen
  <2>2. ResetsDone(x, y) /\ \A j \in s \ {i} : y.save[j] = NoSave
    BY <1>3
  <2>3. z = ResetSave(y, i)
    BY <1>1, <1>3
  <2> HIDE DEF y, i, z
  <2>4. /\ z \in Boards /\ HistoryKept(y, z)
        /\ z.irow = y.irow /\ z.crow = y.crow /\ z.grow = y.grow
        /\ z.save[i] = NoSave /\ \A j \in Ids \ {i} : z.save[j] = y.save[j]
        /\ \A p \in Players :
             z.pbind[p] = IF y.save[i] # NoSave /\ p \in y.save[i].players THEN NoBind ELSE y.pbind[p]
        /\ z.gbind = IF y.save[i] # NoSave /\ y.save[i].group THEN NoBind ELSE y.gbind
    BY <2>1, <2>2, <2>3, ResetSaveFields DEF ResetsDone
  <2>5. PlayersLinked(z)
    <3> SUFFICES ASSUME NEW j \in Ids, NEW q \in Players
                 PROVE  (z.save[j] # NoSave /\ q \in z.save[j].players) <=>
                        (z.pbind[q] # NoBind /\ z.pbind[q].id = j)
      BY DEF PlayersLinked
    <3>1. /\ (y.save[i] # NoSave /\ q \in y.save[i].players) <=> (y.pbind[q] # NoBind /\ y.pbind[q].id = i)
          /\ (y.save[j] # NoSave /\ q \in y.save[j].players) <=> (y.pbind[q] # NoBind /\ y.pbind[q].id = j)
      BY <2>1, <2>2 DEF ResetsDone, PlayersLinked
    <3> QED
      BY <2>1, <2>4, <3>1
  <2>6. GroupLinked(z)
    <3> SUFFICES ASSUME NEW j \in Ids
                 PROVE  (z.save[j] # NoSave /\ z.save[j].group) <=> (z.gbind # NoBind /\ z.gbind.id = j)
      BY DEF GroupLinked
    <3>1. /\ (y.save[i] # NoSave /\ y.save[i].group) <=> (y.gbind # NoBind /\ y.gbind.id = i)
          /\ (y.save[j] # NoSave /\ y.save[j].group) <=> (y.gbind # NoBind /\ y.gbind.id = j)
      BY <2>1, <2>2 DEF ResetsDone, GroupLinked
    <3> QED
      BY <2>1, <2>4, <3>1
  <2>7. \A j \in x.stale : IsRead(j) => j \in z.stale
    BY <2>2, <2>4 DEF ResetsDone, HistoryKept
  <2>8. ResetsDone(x, z)
    BY <2>2, <2>4, <2>5, <2>6, <2>7 DEF ResetsDone
  <2>9. \A j \in s : z.save[j] = NoSave
    BY <2>1, <2>2, <2>4
  <2> QED
    BY <2>8, <2>9 DEF z
<1>4. Ids \in D
  <2> HIDE DEF D
  <2>1. \A s \in SUBSET Ids : s # {} /\ s \ {Chosen(s)} \in D => s \in D
    BY <1>3
  <2> QED
    BY <1>2, <2>1, IdsAssumption, SubsetInduction
<1> QED
  BY <1>1, <1>4

-----------------------------------------------------------------------------
(* The resets                                                               *)

\* _ResetInstance frees the id: no bind and no row of the instance is left.
LEMMA ResetInstanceSound ==
  ASSUME NEW x, NEW i \in Ids, NEW u, NEW on \in SUBSET Players, Sound(x, {}, u, on, read)
  PROVE  Sound(DeleteFromDB(ResetSave(x, i), {i}), {}, u \ {i}, on, read)
<1> DEFINE y == ResetSave(x, i)
           z == DeleteFromDB(y, {i})
<1>1. /\ x \in Boards /\ PlayersLinked(x) /\ GroupLinked(x) /\ NoneEmpty(x, {})
      /\ ResetsSafe(x) /\ PlayersDurable(x) /\ GroupDurable(x) /\ SavesDurable(x)
      /\ RowsSound(x, u, on) /\ ReadSound(x, on, read) /\ Covered(x, u, read) /\ NormalBinds(x, read)
  BY DEF Sound
<1>2. /\ y \in Boards /\ HistoryKept(x, y)
      /\ y.irow = x.irow /\ y.crow = x.crow /\ y.grow = x.grow
      /\ y.save[i] = NoSave /\ \A j \in Ids \ {i} : y.save[j] = x.save[j]
      /\ \A p \in Players :
           y.pbind[p] = IF x.save[i] # NoSave /\ p \in x.save[i].players THEN NoBind ELSE x.pbind[p]
      /\ y.gbind = IF x.save[i] # NoSave /\ x.save[i].group THEN NoBind ELSE x.gbind
  BY <1>1, ResetSaveFields
<1> HIDE DEF y
<1>3. /\ z \in Boards /\ z.save = y.save /\ z.pbind = y.pbind /\ z.gbind = y.gbind
      /\ z.doubled = y.doubled /\ z.stale = y.stale \cup {j \in {i} : IsRead(j)}
      /\ z.irow = y.irow \ {i} /\ z.grow = {r \in y.grow : r.id \notin {i}}
      /\ \A p \in Players : z.crow[p] = {r \in y.crow[p] : r.id \notin {i}}
  BY <1>2, DeleteFromDBFields
<1> HIDE DEF z
<1>4. \A p \in Players : \/ z.pbind[p] = NoBind /\ x.pbind[p] # NoBind /\ x.pbind[p].id = i
                         \/ z.pbind[p] = x.pbind[p] /\ ~(x.pbind[p] # NoBind /\ x.pbind[p].id = i)
  BY <1>1, <1>2, <1>3 DEF PlayersLinked
<1>5. \/ z.gbind = NoBind /\ x.gbind # NoBind /\ x.gbind.id = i
      \/ z.gbind = x.gbind /\ ~(x.gbind # NoBind /\ x.gbind.id = i)
  BY <1>1, <1>2, <1>3 DEF GroupLinked
<1>6. z.save[i] = NoSave /\ \A j \in Ids \ {i} : z.save[j] = x.save[j]
  BY <1>2, <1>3
<1>7. /\ \A j \in Lost(x) : z.save[j] # NoSave => j \in Lost(z)
      /\ \A j \in x.stale : z.save[j] # NoSave \/ IsRead(j) => j \in z.stale
      /\ IsRead(i) => i \in z.stale
  <2>1. y.doubled = z.doubled /\ y.stale \subseteq z.stale /\ y.save = z.save
    BY <1>3
  <2> QED
    BY <1>2, <1>3, <2>1 DEF HistoryKept, Lost
<1>8. /\ z.irow = x.irow \ {i} /\ z.grow \subseteq x.grow
      /\ \A r \in x.grow : r.id # i => r \in z.grow
      /\ \A p \in Players : \A r : r \in z.crow[p] <=> r \in x.crow[p] /\ r.id # i
  BY <1>2, <1>3
<1>9. PlayersLinked(z)
  <2> SUFFICES ASSUME NEW j \in Ids, NEW q \in Players
               PROVE  (z.save[j] # NoSave /\ q \in z.save[j].players) <=>
                      (z.pbind[q] # NoBind /\ z.pbind[q].id = j)
    BY DEF PlayersLinked
  <2>1. (x.save[j] # NoSave /\ q \in x.save[j].players) <=> (x.pbind[q] # NoBind /\ x.pbind[q].id = j)
    BY <1>1 DEF PlayersLinked
  <2>2. CASE j = i
    BY <1>4, <1>6, <2>2
  <2>3. CASE j # i
    BY <1>4, <1>6, <2>1, <2>3
  <2> QED
    BY <2>2, <2>3
<1>10. GroupLinked(z)
  <2> SUFFICES ASSUME NEW j \in Ids
               PROVE  (z.save[j] # NoSave /\ z.save[j].group) <=> (z.gbind # NoBind /\ z.gbind.id = j)
    BY DEF GroupLinked
  <2>1. (x.save[j] # NoSave /\ x.save[j].group) <=> (x.gbind # NoBind /\ x.gbind.id = j)
    BY <1>1 DEF GroupLinked
  <2> QED
    BY <1>5, <1>6, <2>1
<1>11. NoneEmpty(z, {})
  BY <1>1, <1>6 DEF NoneEmpty
<1>12. ResetsSafe(z)
  <2> SUFFICES ASSUME NEW j \in Ids, z.save[j] # NoSave, NEW q \in BoundPlayers(z, j)
               PROVE  /\ z.save[j].canReset => ~z.pbind[q].perm
                      /\ z.save[j].group => z.pbind[q].perm \/ j \in Lost(z)
                      /\ \A s \in BoundPlayers(z, j) :
                           q = s \/ z.pbind[q].perm \/ z.pbind[s].perm \/ j \in Lost(z)
    BY DEF ResetsSafe
  <2>1. j # i /\ z.save[j] = x.save[j] /\ (j \in Lost(x) => j \in Lost(z))
    BY <1>6, <1>7
  <2>2. /\ BoundPlayers(z, j) \subseteq BoundPlayers(x, j)
        /\ \A s \in BoundPlayers(z, j) : z.pbind[s] = x.pbind[s]
    BY <1>4 DEF BoundPlayers
  <2>3. /\ x.save[j].canReset => ~x.pbind[q].perm
        /\ x.save[j].group => x.pbind[q].perm \/ j \in Lost(x)
        /\ \A s \in BoundPlayers(x, j) : q = s \/ x.pbind[q].perm \/ x.pbind[s].perm \/ j \in Lost(x)
    BY <1>1, <2>1, <2>2 DEF ResetsSafe
  <2> QED
    BY <2>1, <2>2, <2>3
<1>13. PlayersDurable(z)
  <2> SUFFICES ASSUME NEW q \in Players, z.pbind[q] # NoBind
               PROVE  z.pbind[q].id \in Lost(z) \/ (z.pbind[q] \in z.crow[q] /\ z.pbind[q].id \in z.irow)
    BY DEF PlayersDurable
  <2>1. z.pbind[q] = x.pbind[q] /\ x.pbind[q].id # i
    BY <1>4
  <2>2. z.pbind[q].id \in Ids
    BY <1>3, BoardFields
  <2>3. z.save[z.pbind[q].id] # NoSave
    BY <1>9, <2>2 DEF PlayersLinked
  <2>4. x.pbind[q].id \in Lost(x) \/ (x.pbind[q] \in x.crow[q] /\ x.pbind[q].id \in x.irow)
    BY <1>1, <2>1 DEF PlayersDurable
  <2> QED
    BY <1>7, <1>8, <2>1, <2>3, <2>4
<1>14. GroupDurable(z)
  <2> SUFFICES ASSUME z.gbind # NoBind
               PROVE  z.gbind.id \in Lost(z) \/ (z.gbind \in z.grow /\ z.gbind.id \in z.irow)
    BY DEF GroupDurable
  <2>1. z.gbind = x.gbind /\ x.gbind.id # i
    BY <1>5
  <2>2. z.gbind.id \in Ids
    BY <1>3, BoardFields
  <2>3. z.save[z.gbind.id] # NoSave
    BY <1>10, <2>2 DEF GroupLinked
  <2>4. x.gbind.id \in Lost(x) \/ (x.gbind \in x.grow /\ x.gbind.id \in x.irow)
    BY <1>1, <2>1 DEF GroupDurable
  <2> QED
    BY <1>7, <1>8, <2>1, <2>3, <2>4
<1>15. SavesDurable(z)
  BY <1>1, <1>6, <1>7, <1>8 DEF SavesDurable
<1>16. RowsSound(z, u \ {i}, on)
  <2>1. \A p \in Players : \A r \in z.crow[p] : r.id \in u \ {i}
    BY <1>1, <1>8 DEF RowsSound
  <2>2. \A p, q \in Players : \A r \in z.crow[p] \cap z.crow[q] : p = q \/ r.perm
    BY <1>1, <1>8 DEF RowsSound
  <2>3. ASSUME NEW p \in on, NEW r \in z.crow[p], r.id \in z.irow PROVE r = z.pbind[p]
    BY <1>1, <1>4, <1>8, <2>3 DEF RowsSound
  <2>4. ASSUME NEW p \in Players \ on
        PROVE  /\ z.pbind[p] = NoBind
               /\ \A r, s \in z.crow[p] : r.id \in z.irow /\ s.id \in z.irow => r = s
    BY <1>1, <1>4, <1>8 DEF RowsSound
  <2> QED
    BY <2>1, <2>2, <2>3, <2>4 DEF RowsSound
<1>17. \A p \in Players : \A r \in read[p] : r.id \in x.stale \/ r.id = i => r.id \in z.stale
  BY <1>7 DEF IsRead
<1>18. ReadSound(z, on, read)
  BY <1>1, <1>8, <1>17 DEF ReadSound
<1>19. Covered(z, u \ {i}, read)
  <2>1. ASSUME NEW j \in Ids, z.save[j] # NoSave PROVE j \in (u \ {i}) \cup z.stale
    BY <1>1, <1>6, <1>7, <2>1 DEF Covered
  <2>2. \A p \in Players : \A r \in read[p] : r.id \in (u \ {i}) \cup z.stale
    BY <1>1, <1>17 DEF Covered
  <2> QED
    BY <1>1, <1>8, <2>1, <2>2 DEF Covered
<1>20. NormalBinds(z, read)
  BY <1>1, <1>4, <1>5, <1>8 DEF NormalBinds
<1> QED
  BY <1>3, <1>9, <1>10, <1>11, <1>12, <1>13, <1>14, <1>15, <1>16, <1>18, <1>19, <1>20 DEF Sound, y, z

\* _ResetOrWarnAll leaves no save and no bind, and no row that a load would find.
LEMMA ResetAllSound ==
  ASSUME NEW x, NEW u, NEW on \in SUBSET Players, Sound(x, {}, u, on, read)
  PROVE  Sound(DeleteFromDB(ResetSaves(x), x.irow), {}, u, on, read)
<1> DEFINE y == ResetSaves(x)
           z == DeleteFromDB(y, x.irow)
<1>1. /\ x \in Boards /\ PlayersLinked(x) /\ GroupLinked(x)
      /\ RowsSound(x, u, on) /\ ReadSound(x, on, read) /\ Covered(x, u, read) /\ NormalBinds(x, read)
  BY DEF Sound
<1>2. ResetsDone(x, y) /\ \A j \in Ids : y.save[j] = NoSave
  BY <1>1, ResetSavesFields
<1> HIDE DEF y
<1>3. x.irow \in SUBSET Ids
  BY <1>1, BoardFields
<1>4. /\ z \in Boards /\ z.save = y.save /\ z.pbind = y.pbind /\ z.gbind = y.gbind
      /\ z.doubled = y.doubled /\ z.stale = y.stale \cup {j \in x.irow : IsRead(j)}
      /\ z.irow = y.irow \ x.irow /\ z.grow = {r \in y.grow : r.id \notin x.irow}
      /\ \A p \in Players : z.crow[p] = {r \in y.crow[p] : r.id \notin x.irow}
  BY <1>2, <1>3, DeleteFromDBFields DEF ResetsDone
<1> HIDE DEF z
<1>5. /\ \A j \in Ids : z.save[j] = NoSave
      /\ z.irow = {} /\ z.grow \subseteq x.grow /\ \A p \in Players : z.crow[p] \subseteq x.crow[p]
      /\ \A j \in x.stale \cup x.irow : IsRead(j) => j \in z.stale
  BY <1>2, <1>4 DEF ResetsDone
<1>6. \A p \in Players : z.pbind[p] = NoBind
  <2> SUFFICES ASSUME NEW p \in Players, y.pbind[p] # NoBind PROVE FALSE
    BY <1>4
  <2>1. y.pbind[p].id \in Ids
    BY <1>2, BoardFields DEF ResetsDone
  <2> QED
    BY <1>2, <2>1 DEF ResetsDone, PlayersLinked
<1>7. z.gbind = NoBind
  <2> SUFFICES ASSUME y.gbind # NoBind PROVE FALSE
    BY <1>4
  <2>1. y.gbind.id \in Ids
    BY <1>2, BoardFields DEF ResetsDone
  <2> QED
    BY <1>2, <2>1 DEF ResetsDone, GroupLinked
<1>8. PlayersLinked(z) /\ GroupLinked(z) /\ NoneEmpty(z, {}) /\ ResetsSafe(z)
  BY <1>5, <1>6, <1>7 DEF PlayersLinked, GroupLinked, NoneEmpty, ResetsSafe
<1>9. PlayersDurable(z) /\ GroupDurable(z) /\ SavesDurable(z)
  BY <1>5, <1>6, <1>7 DEF PlayersDurable, GroupDurable, SavesDurable
<1>10. RowsSound(z, u, on)
  BY <1>1, <1>5, <1>6 DEF RowsSound
<1>11. \A p \in Players : \A r \in read[p] : r.id \in x.stale \cup x.irow => r.id \in z.stale
  BY <1>5 DEF IsRead
<1>12. ReadSound(z, on, read)
  BY <1>1, <1>5, <1>11 DEF ReadSound
<1>13. Covered(z, u, read)
  <2>1. \A p \in Players : \A r \in read[p] : r.id \in u \cup z.stale
    BY <1>1, <1>11 DEF Covered
  <2> QED
    BY <1>5, <2>1 DEF Covered
<1>14. NormalBinds(z, read)
  BY <1>1, <1>5, <1>6, <1>7 DEF NormalBinds
<1> QED
  BY <1>4, <1>8, <1>9, <1>10, <1>12, <1>13, <1>14 DEF Sound, y, z

-----------------------------------------------------------------------------
(* The group                                                                *)

\* A handler of the group leaves sound boards, and a group or none.
GroupResult(r, u, on) == Sound(r.b, {}, u, on, read) /\ r.group \in Groups \cup {NoGroup}

\* Group::ResetInstances at a disband takes the bind whatever the save says.
LEMMA DisbandDropsBind ==
  ASSUME NEW x, NEW u, NEW on, Sound(x, {}, u, on, read)
  PROVE  ResetGroup(x, TRUE).gbind = NoBind
<1> DEFINE i == x.gbind.id
           y == IF x.save[i].canReset THEN DeleteFromDB(x, {i})
                ELSE [x EXCEPT !.grow = {r \in @ : r.id # i}]
           m == [y EXCEPT !.gbind = NoBind]
<1>1. x \in Boards /\ GroupLinked(x)
  BY DEF Sound
<1>2. CASE x.gbind = NoBind
  BY <1>2 DEF ResetGroup
<1>3. CASE x.gbind # NoBind
  <2>1. i \in Ids
    BY <1>1, <1>3, BoardFields
  <2>2. x.save[i] # NoSave
    BY <1>1, <1>3, <2>1 DEF GroupLinked
  <2>3. ResetGroup(x, TRUE) = RemoveGroup(m, i)
    BY <1>3, Zenon DEF ResetGroup
  <2> HIDE DEF i
  <2>4. y \in Boards /\ y.save = x.save
    <3>1. DeleteFromDB(x, {i}) \in Boards /\ DeleteFromDB(x, {i}).save = x.save
      BY <1>1, <2>1, DeleteFromDBFields
    <3>2. [x EXCEPT !.grow = {r \in @ : r.id # i}] \in Boards
      BY <1>1 DEF Boards
    <3>3. [x EXCEPT !.grow = {r \in @ : r.id # i}].save = x.save
      BY <1>1 DEF Boards
    <3> QED
      BY <3>1, <3>2, <3>3
  <2> HIDE DEF y
  <2>5. m \in Boards /\ m.gbind = NoBind /\ m.save = y.save
    BY <2>4 DEF Boards
  <2> HIDE DEF m
  <2>6. SameRows(m, RemoveGroup(m, i))
    BY <2>1, <2>2, <2>4, <2>5, RemoveGroupFields
  <2> QED
    BY <2>3, <2>5, <2>6 DEF SameRows
<1> QED
  BY <1>2, <1>3

\* Group::Disband
LEMMA DisbandSound ==
  ASSUME NEW x, NEW u, NEW on \in SUBSET Players, Sound(x, {}, u, on, read)
  PROVE  GroupResult(Disband(x), u, on)
<1> DEFINE y == ResetGroup(x, TRUE)
           none == {}
           z == [y EXCEPT !.grow = none]
<1>1. Sound(y, {}, u, on, read)
  BY ResetGroupSound
<1>2. y.gbind = NoBind
  BY DisbandDropsBind
<1>3. Disband(x) = [b |-> z, group |-> NoGroup]
  BY DEF Disband
<1> HIDE DEF y
<1>4. NearlySound(y, {}, u, on, read)
  BY <1>1, NearlySoundIsSound
<1>5. none \subseteq y.grow
  OBVIOUS
<1> HIDE DEF none
<1>6. NearlySound(z, {}, u, on, read)
  BY <1>4, <1>5, GroupRowsDeleted, Zenon
<1>7. z.gbind = NoBind
  <2>1. y \in Boards
    BY <1>1 DEF Sound
  <2> QED
    BY <1>2, <2>1 DEF Boards
<1> HIDE DEF z
<1>8. GroupDurable(z)
  BY <1>7 DEF GroupDurable
<1>9. Sound(z, {}, u, on, read)
  BY <1>6, <1>8, NearlySoundIsSound
<1> QED
  BY <1>3, <1>9 DEF GroupResult

\* A new leader takes his binds with him, the group's permanent one is dropped before.
LEMMA ChangeLeaderSound ==
  ASSUME NEW x, NEW g \in Groups, NEW q, NEW u, NEW on \in SUBSET Players, q \in on,
         Sound(x, {}, u, on, read)
  PROVE  GroupResult(ChangeLeader(x, g, q), u, on)
<1> DEFINE old == x.gbind
           own == x.pbind[q]
           i == own.id
           perm == own.perm
           dropped == IF old # NoBind /\ old.perm THEN RemoveGroup([x EXCEPT !.gbind = NoBind], old.id)
                      ELSE x
           cleaned == DeletePermBinding(dropped, q)
           taken == IF own = NoBind THEN cleaned ELSE BindGroup(cleaned, i, perm, FALSE)
           last == IF own # NoBind /\ ~own.perm THEN UnbindPlayer(taken, q) ELSE taken
           h == [g EXCEPT !.leader = q]
           rows == {r \in dropped.grow : ~r.perm /\ \A c \in dropped.crow[q] : c.id # r.id}
<1>1. q \in Players /\ h \in Groups
  BY DEF Groups
<1>2. ChangeLeader(x, g, q) = [b |-> last, group |-> h]
  BY Zenon DEF ChangeLeader
<1>3. x \in Boards /\ GroupLinked(x)
  BY DEF Sound
<1>4. /\ Sound(dropped, {}, u, on, read) /\ dropped.pbind = x.pbind
      /\ dropped.gbind # NoBind => ~dropped.gbind.perm
  <2>1. CASE old # NoBind /\ old.perm
    <3> DEFINE gr == x.grow
               m == GroupDropped(x, gr)
    <3>1. [x EXCEPT !.gbind = NoBind] = m
      BY <1>3 DEF Boards, GroupDropped
    <3>2. gr \in SUBSET Rows /\ gr \subseteq x.grow
      BY <1>3, BoardFields
    <3> HIDE DEF gr
    <3>3. Sound(RemoveGroup(m, old.id), {}, u, on, read)
      BY <2>1, <3>2, GroupDroppedSound
    <3>4. m \in Boards /\ m.save = x.save /\ m.pbind = x.pbind /\ m.gbind = NoBind
      BY <1>3, <3>2, GroupDroppedFields
    <3>5. old.id \in Ids /\ m.save[old.id] # NoSave
      BY <1>3, <2>1, <3>4, BoardFields DEF GroupLinked
    <3> HIDE DEF m
    <3>6. SameRows(m, RemoveGroup(m, old.id))
      BY <3>4, <3>5, RemoveGroupFields
    <3>7. dropped = RemoveGroup(m, old.id)
      BY <2>1, <3>1
    <3> QED
      BY <3>3, <3>4, <3>6, <3>7 DEF SameRows
  <2>2. CASE ~(old # NoBind /\ old.perm)
    BY <2>2
  <2> QED
    BY <2>1, <2>2
<1> HIDE DEF dropped
<1>5. NearlySound(dropped, {}, u, on, read) /\ GroupDurable(dropped)
  BY <1>4, NearlySoundIsSound
<1>6. rows \subseteq dropped.grow
  OBVIOUS
<1>7. cleaned = [dropped EXCEPT !.grow = rows]
  <2>1. dropped \in Boards
    BY <1>4 DEF Sound
  <2> QED
    BY <2>1 DEF DeletePermBinding, Boards
<1> HIDE DEF rows
<1>8. /\ NearlySound(cleaned, {}, u, on, read) /\ Lost(cleaned) = Lost(dropped)
      /\ cleaned.save = dropped.save /\ cleaned.pbind = dropped.pbind /\ cleaned.gbind = dropped.gbind
      /\ cleaned.irow = dropped.irow /\ cleaned.crow = dropped.crow /\ cleaned.grow = rows
  BY <1>5, <1>6, <1>7, GroupRowsDeleted
<1> HIDE DEF cleaned
<1>9. /\ cleaned \in Boards /\ PlayersLinked(cleaned) /\ GroupLinked(cleaned) /\ NoneEmpty(cleaned, {})
      /\ ResetsSafe(cleaned) /\ RowsSound(cleaned, u, on) /\ NormalBinds(cleaned, read)
  BY <1>8 DEF NearlySound, Kept
<1>10. own = cleaned.pbind[q]
  BY <1>4, <1>8
<1>11. Sound(last, {}, u, on, read)
  <2>1. CASE own = NoBind
    <3>1. GroupDurable(cleaned)
      <4> SUFFICES ASSUME cleaned.gbind # NoBind, cleaned.gbind \in dropped.grow,
                          cleaned.gbind.id \in cleaned.irow
                   PROVE  cleaned.gbind \in cleaned.grow
        BY <1>5, <1>8 DEF GroupDurable
      <4>1. ASSUME NEW c \in cleaned.crow[q], c.id = cleaned.gbind.id PROVE FALSE
        <5>1. c = NoBind
          BY <1>9, <1>10, <2>1, <4>1 DEF RowsSound
        <5>2. c \in Rows
          BY <1>1, <1>9, BoardFields
        <5> QED
          BY <5>1, <5>2, NullAssumption
      <4> QED
        BY <1>4, <1>8, <4>1 DEF rows
    <3>2. Sound(cleaned, {}, u, on, read)
      BY <1>8, <3>1, NearlySoundIsSound
    <3> QED
      BY <2>1, <3>2
  <2>2. CASE own # NoBind
    <3>1. own \in Rows
      BY <1>1, <1>3, <2>2, BoardFields
    <3>2. i \in Ids /\ perm \in BOOLEAN /\ own = [id |-> i, perm |-> perm] /\ FALSE \in BOOLEAN
      BY <3>1 DEF Rows
    <3>3. cleaned.save[i] # NoSave /\ q \in BoundPlayers(cleaned, i)
      BY <1>1, <1>9, <1>10, <2>2, <3>2 DEF PlayersLinked, BoundPlayers
    <3>4. ~heroic => ~perm
      BY <1>1, <1>9, <1>10, <2>2 DEF NormalBinds
    <3>5. cleaned.gbind = own => i \in Lost(cleaned)
      <4> SUFFICES ASSUME cleaned.gbind = own PROVE i \in Lost(cleaned)
        OBVIOUS
      <4>1. cleaned.save[i].group
        BY <1>9, <2>2, <3>2 DEF GroupLinked
      <4>2. ~cleaned.pbind[q].perm
        BY <1>4, <1>8, <1>10, <2>2
      <4> QED
        BY <1>9, <3>2, <3>3, <4>1, <4>2 DEF ResetsSafe
    <3>6. cleaned.gbind = [id |-> i, perm |-> perm] => i \in Lost(cleaned)
      BY <3>2, <3>5
    <3>7. NearlySound(cleaned, {i}, u, on, read)
      BY <1>8, <1>9 DEF NearlySound, NoneEmpty
    <3>8. \A p \in Players : read[p] \subseteq read[p]
      OBVIOUS
    <3> DEFINE y == BindGroup(cleaned, i, perm, FALSE)
    <3>9. last = IF ~perm THEN UnbindPlayer(y, q) ELSE y
      BY <2>2
    <3> HIDE DEF i, perm, last
    <3>10. Sound(y, {}, u, on, read)
      BY <3>2, <3>3, <3>4, <3>6, <3>7, <3>8, BindGroupSound
    <3>11. GroupBound(cleaned, y, i, perm, FALSE)
      BY <1>9, <3>2, <3>3, BindGroupFields
    <3> HIDE DEF y
    <3>12. y.pbind[q] # NoBind
      BY <1>10, <2>2, <3>11 DEF GroupBound
    <3>13. Sound(UnbindPlayer(y, q), {}, u, on, read)
      BY <1>1, <3>10, <3>12, UnbindPlayerSound
    <3> QED
      BY <3>9, <3>10, <3>13
  <2> QED
    BY <2>1, <2>2
<1> HIDE DEF last, h
<1> QED
  BY <1>1, <1>2, <1>11 DEF GroupResult

\* Group::RemoveMember, with the disband or the change of the leader that it may bring.
LEMMA RemoveMemberSound ==
  ASSUME NEW x, NEW p \in Players, NEW u, group \in Groups, Sound(x, {}, u, OnlineNow, read),
         NEW r \in RemoveMember(x, p)
  PROVE  GroupResult(r, u, OnlineNow)
<1> DEFINE rest == [group EXCEPT !.members = @ \ {p}]
           online == {q \in rest.members : Online(q)}
           led == IF group.leader = p /\ online # {} THEN {ChangeLeader(x, rest, q) : q \in online}
                  ELSE {[b |-> x, group |-> rest]}
<1>1. OnlineNow \in SUBSET Players
  BY DEF OnlineNow
<1>2. rest \in Groups
  BY DEF Groups
<1>3. online \subseteq OnlineNow
  BY <1>2 DEF Groups, OnlineNow
<1>4. GroupResult(Disband(x), u, OnlineNow)
  BY <1>1, DisbandSound
<1>5. RemoveMember(x, p) =
        IF Cardinality(group.members) <= 2 THEN {Disband(x)}
        ELSE {IF Cardinality(online) < 2 THEN Disband(s.b) ELSE s : s \in led}
  BY Zenon DEF RemoveMember
<1>6. ASSUME NEW s \in led PROVE GroupResult(s, u, OnlineNow)
  <2>1. CASE s = [b |-> x, group |-> rest]
    <3> HIDE DEF rest
    <3> QED
      BY <1>2, <2>1 DEF GroupResult
  <2>2. ASSUME NEW q \in online, s = ChangeLeader(x, rest, q) PROVE GroupResult(s, u, OnlineNow)
    <3>1. q \in OnlineNow
      BY <1>3
    <3> HIDE DEF rest
    <3> QED
      BY <1>1, <1>2, <2>2, <3>1, ChangeLeaderSound
  <2>3. s = [b |-> x, group |-> rest] \/ \E q \in online : s = ChangeLeader(x, rest, q)
    <3> HIDE DEF rest, online
    <3> QED
      BY Zenon
  <2> QED
    BY <2>1, <2>2, <2>3
<1> HIDE DEF led, online, rest
<1>7. ASSUME NEW s \in led PROVE GroupResult(Disband(s.b), u, OnlineNow)
  BY <1>1, <1>6, DisbandSound DEF GroupResult
<1>8. r = Disband(x) \/ \E s \in led : r = Disband(s.b) \/ r = s
  <2>1. r \in IF Cardinality(group.members) <= 2 THEN {Disband(x)}
              ELSE {IF Cardinality(online) < 2 THEN Disband(s.b) ELSE s : s \in led}
    BY <1>5
  <2>2. CASE Cardinality(group.members) <= 2
    BY <2>1, <2>2, Zenon
  <2>3. CASE ~(Cardinality(group.members) <= 2)
    <3>1. r \in {IF Cardinality(online) < 2 THEN Disband(s.b) ELSE s : s \in led}
      BY <2>1, <2>3, Zenon
    <3>2. PICK s \in led : r = IF Cardinality(online) < 2 THEN Disband(s.b) ELSE s
      BY <3>1, Zenon
    <3>3. r = Disband(s.b) \/ r = s
      BY <3>2, Zenon
    <3> QED
      BY <3>3, Zenon
  <2> QED
    BY <2>2, <2>3
<1> QED
  BY <1>4, <1>6, <1>7, <1>8

-----------------------------------------------------------------------------
(* Steps                                                                    *)

\* A board that is sound in the old state, with the players that are online afterwards,
\* is sound in the new one: logins are over, or have read all there is.
LEMMA NextSound ==
  ASSUME NEW x, NEW u, NEW on, NEW rd, Sound(x, {}, u, on, rd),
         b' = x, used' = u, OnlineNow' = on, heroic' = heroic,
         \A p \in Players : read'[p] \subseteq rd[p],
         \A p \in Players : status'[p] = "loading" =>
           \/ status[p] = "loading" /\ read'[p] = rd[p]
           \/ \A s \in x.crow[p] : s.id \in x.irow => s \in read'[p]
  PROVE  Sound(b, {}, used, OnlineNow, read)'
<1>1. /\ x \in Boards /\ PlayersLinked(x) /\ GroupLinked(x) /\ NoneEmpty(x, {})
      /\ ResetsSafe(x) /\ PlayersDurable(x) /\ GroupDurable(x) /\ SavesDurable(x)
      /\ RowsSound(x, u, on) /\ ReadSound(x, on, rd) /\ Covered(x, u, rd) /\ NormalBinds(x, rd)
  BY DEF Sound
<1>2. ReadSound(b, OnlineNow, read)'
  <2>1. ASSUME NEW p \in Players \ on
        PROVE  /\ \A r \in read'[p] :
                    /\ r.id \in x.stale \/ (r \in x.crow[p] /\ r.id \in x.irow)
                    /\ \A s \in x.crow[p] \cup read'[p] : s.id \in x.irow \/ s \in read'[p] => r = s
               /\ status'[p] = "loading" => \A s \in x.crow[p] : s.id \in x.irow => s \in read'[p]
    BY <1>1 DEF ReadSound
  <2> QED
    BY <2>1 DEF ReadSound
<1>3. Covered(b, used, read)'
  BY <1>1 DEF Covered
<1>4. NormalBinds(b, read)'
  BY <1>1 DEF NormalBinds
<1>5. /\ b' \in Boards /\ PlayersLinked(b') /\ GroupLinked(b') /\ NoneEmpty(b', {})
      /\ ResetsSafe(b') /\ PlayersDurable(b') /\ GroupDurable(b') /\ SavesDurable(b')
      /\ RowsSound(b', used', OnlineNow')
  BY <1>1
<1> QED
  BY <1>2, <1>3, <1>4, <1>5 DEF Sound

\* A step that changes the boards and the group only.
LEMMA BoardStep ==
  ASSUME IInv, heroic' = heroic, used' = used, events' = events, where' = where, status' = status,
         read' = read, pending' = pending,
         Sound(b', {}, used, OnlineNow, read), group' \in Groups \cup {NoGroup}
  PROVE  IInv'
<1>1. VarsOK /\ Schedules /\ LocksSound /\ ReadsOver
  BY DEF IInv
<1>2. VarsOK'
  BY <1>1 DEF VarsOK
<1>3. Schedules' /\ LocksSound' /\ ReadsOver'
  BY <1>1 DEF Schedules, LocksSound, ReadsOver, Online
<1>4. OnlineNow' = OnlineNow
  BY DEF OnlineNow, Online
<1>5. Sound(b, {}, used, OnlineNow, read)'
  <2> DEFINE x == b'
             on == OnlineNow
  <2>1. Sound(x, {}, used, on, read) /\ OnlineNow' = on
    BY <1>4
  <2> HIDE DEF on
  <2>2. \A p \in Players : read'[p] \subseteq read[p]
    OBVIOUS
  <2>3. \A p \in Players : status'[p] = "loading" => status[p] = "loading" /\ read'[p] = read[p]
    OBVIOUS
  <2>4. b' = x
    OBVIOUS
  <2> HIDE DEF x
  <2> QED
    BY <2>1, <2>2, <2>3, <2>4, NextSound
<1> QED
  BY <1>2, <1>3, <1>5 DEF IInv

\* The players who are online, and the groups, are of their types.
LEMMA InvFacts ==
  ASSUME IInv
  PROVE  /\ Sound(b, {}, used, OnlineNow, read) /\ OnlineNow \in SUBSET Players
         /\ b \in Boards /\ used \subseteq Ids
         /\ group \in Groups \cup {NoGroup}
         /\ group # NoGroup => group \in Groups
         /\ \A p \in Players : Online(p) <=> p \in OnlineNow
<1>1. VarsOK /\ Sound(b, {}, used, OnlineNow, read)
  BY DEF IInv
<1> QED
  BY <1>1 DEF VarsOK, Sound, OnlineNow

\* HandleGroupAccept: the leader's bind becomes the group's, the new member resets his own.
LEMMA CreateGroupStep ==
  ASSUME IInv, NEW p \in Players, NEW q \in Players, CreateGroup(p, q)
  PROVE  IInv'
<1> DEFINE own == b.pbind[p]
           i == own.id
           perm == own.perm
           y == IF own = NoBind THEN b ELSE BindGroup(b, i, perm, FALSE)
<1>1. /\ group' = [members |-> {p, q}, leader |-> p] /\ b' = ResetPlayer(y, q, FALSE)
      /\ heroic' = heroic /\ used' = used /\ events' = events /\ where' = where /\ status' = status
      /\ read' = read /\ pending' = pending
  BY DEF CreateGroup
<1>2. /\ Sound(b, {}, used, OnlineNow, read) /\ OnlineNow \in SUBSET Players /\ b \in Boards
  BY InvFacts
<1>3. Sound(y, {}, used, OnlineNow, read)
  <2>1. CASE own = NoBind
    BY <1>2, <2>1
  <2>2. CASE own # NoBind
    <3>1. PlayersLinked(b) /\ GroupLinked(b) /\ GroupDurable(b) /\ NormalBinds(b, read)
      BY <1>2 DEF Sound
    <3>2. own \in Rows
      BY <1>2, <2>2, BoardFields
    <3>3. i \in Ids /\ perm \in BOOLEAN /\ own = [id |-> i, perm |-> perm] /\ FALSE \in BOOLEAN
      BY <3>2 DEF Rows
    <3>4. b.save[i] # NoSave
      BY <2>2, <3>1, <3>3 DEF PlayersLinked
    <3>5. ~heroic => ~perm
      BY <2>2, <3>1 DEF NormalBinds
    <3>6. NearlySound(b, {i}, used, OnlineNow, read)
      BY <1>2, NearlySoundIsSound DEF NearlySound, NoneEmpty
    <3>7. b.gbind = own => i \in Lost(b) \/ (own \in b.grow /\ i \in b.irow)
      BY <2>2, <3>1 DEF GroupDurable
    <3>8. FALSE \/ b.gbind = [id |-> i, perm |-> perm] =>
            i \in Lost(b) \/ ([id |-> i, perm |-> perm] \in b.grow /\ i \in b.irow)
      BY <3>3, <3>7
    <3>9. \A s \in Players : read[s] \subseteq read[s]
      OBVIOUS
    <3>10. y = BindGroup(b, i, perm, FALSE)
      BY <2>2
    <3> HIDE DEF i, perm, y
    <3>11. Sound(BindGroup(b, i, perm, FALSE), {}, used, OnlineNow, read)
      BY <1>2, <3>3, <3>4, <3>5, <3>6, <3>8, <3>9, BindGroupSound
    <3> QED
      BY <3>10, <3>11
  <2> QED
    BY <2>1, <2>2
<1> HIDE DEF y
<1>4. FALSE \in BOOLEAN
  OBVIOUS
<1>5. Sound(b', {}, used, OnlineNow, read)
  BY <1>1, <1>2, <1>3, <1>4, ResetPlayerSound
<1>6. group' \in Groups \cup {NoGroup}
  BY <1>1 DEF Groups
<1> QED
  BY <1>1, <1>5, <1>6, BoardStep

\* AddMember resets the binds of the new member.
LEMMA AddMemberStep ==
  ASSUME IInv, NEW q \in Players, AddMember(q)
  PROVE  IInv'
<1>1. /\ group # NoGroup /\ group' = [group EXCEPT !.members = @ \cup {q}]
      /\ b' = ResetPlayer(b, q, FALSE)
      /\ heroic' = heroic /\ used' = used /\ events' = events /\ where' = where /\ status' = status
      /\ read' = read /\ pending' = pending
  BY DEF AddMember
<1>2. /\ Sound(b, {}, used, OnlineNow, read) /\ OnlineNow \in SUBSET Players
      /\ group \in Groups /\ FALSE \in BOOLEAN
  BY <1>1, InvFacts
<1>3. Sound(b', {}, used, OnlineNow, read)
  BY <1>1, <1>2, ResetPlayerSound
<1>4. group' \in Groups \cup {NoGroup}
  BY <1>1, <1>2 DEF Groups
<1> QED
  BY <1>1, <1>3, <1>4, BoardStep

\* A member leaves.
LEMMA LeaveGroupStep ==
  ASSUME IInv, NEW p \in Players, LeaveGroup(p)
  PROVE  IInv'
<1>1. /\ InGroup(p) /\ \E r \in RemoveMember(b, p) : b' = r.b /\ group' = r.group
      /\ heroic' = heroic /\ used' = used /\ events' = events /\ where' = where /\ status' = status
      /\ read' = read /\ pending' = pending
  BY DEF LeaveGroup
<1>2. Sound(b, {}, used, OnlineNow, read) /\ group \in Groups
  BY <1>1, InvFacts DEF InGroup
<1>3. PICK r \in RemoveMember(b, p) : b' = r.b /\ group' = r.group
  BY <1>1
<1>4. GroupResult(r, used, OnlineNow)
  BY <1>2, RemoveMemberSound
<1>5. Sound(b', {}, used, OnlineNow, read) /\ group' \in Groups \cup {NoGroup}
  BY <1>3, <1>4 DEF GroupResult
<1> QED
  BY <1>1, <1>5, BoardStep

\* The leader names another.
LEMMA SetLeaderStep ==
  ASSUME IInv, NEW q \in Players, HandleGroupSetLeader(q)
  PROVE  IInv'
<1> DEFINE r == ChangeLeader(b, group, q)
<1>1. /\ InGroup(q) /\ Online(q) /\ b' = r.b /\ group' = r.group
      /\ heroic' = heroic /\ used' = used /\ events' = events /\ where' = where /\ status' = status
      /\ read' = read /\ pending' = pending
  BY DEF HandleGroupSetLeader
<1>2. /\ Sound(b, {}, used, OnlineNow, read) /\ OnlineNow \in SUBSET Players
      /\ group \in Groups /\ q \in OnlineNow
  BY <1>1, InvFacts DEF InGroup
<1>3. GroupResult(r, used, OnlineNow)
  BY <1>2, ChangeLeaderSound
<1> HIDE DEF r
<1>4. Sound(b', {}, used, OnlineNow, read) /\ group' \in Groups \cup {NoGroup}
  BY <1>1, <1>3 DEF GroupResult
<1> QED
  BY <1>1, <1>4, BoardStep

\* CMSG_RESET_INSTANCES
LEMMA ResetInstancesStep ==
  ASSUME IInv, NEW p \in Players, HandleResetInstances(p)
  PROVE  IInv'
<1>1. /\ b' = IF InGroup(p) THEN ResetGroup(b, FALSE) ELSE ResetPlayer(b, p, TRUE)
      /\ heroic' = heroic /\ used' = used /\ events' = events /\ where' = where /\ status' = status
      /\ read' = read /\ group' = group /\ pending' = pending
  BY DEF HandleResetInstances
<1>2. /\ Sound(b, {}, used, OnlineNow, read) /\ OnlineNow \in SUBSET Players
      /\ group' \in Groups \cup {NoGroup} /\ TRUE \in BOOLEAN /\ FALSE \in BOOLEAN
  BY <1>1, InvFacts
<1>3. Sound(ResetGroup(b, FALSE), {}, used, OnlineNow, read)
  BY <1>2, ResetGroupSound
<1>4. Sound(ResetPlayer(b, p, TRUE), {}, used, OnlineNow, read)
  BY <1>2, ResetPlayerSound
<1>5. Sound(b', {}, used, OnlineNow, read)
  BY <1>1, <1>3, <1>4
<1> QED
  BY <1>1, <1>2, <1>5, BoardStep

\* _ResetOrWarnAll
LEMMA ResetAllStep ==
  ASSUME IInv, ResetAll
  PROVE  IInv'
<1>1. /\ b' = DeleteFromDB(ResetSaves(b), b.irow)
      /\ heroic' = heroic /\ used' = used /\ events' = events /\ where' = where /\ status' = status
      /\ read' = read /\ group' = group /\ pending' = pending
  BY DEF ResetAll
<1>2. /\ Sound(b, {}, used, OnlineNow, read) /\ OnlineNow \in SUBSET Players
      /\ group' \in Groups \cup {NoGroup}
  BY <1>1, InvFacts
<1>3. Sound(b', {}, used, OnlineNow, read)
  BY <1>1, <1>2, ResetAllSound
<1> QED
  BY <1>1, <1>2, <1>3, BoardStep

-----------------------------------------------------------------------------
(* Entering and leaving                                                     *)

\* There is a lowest free id as long as one is free.
LEMMA LowestFreeId ==
  ASSUME used \subseteq Ids, used # Ids
  PROVE  LowestFree \in Ids \ used
<1> DEFINE T == Ids \ used
<1>1. T \in SUBSET Nat /\ T # {}
  BY IdsAssumption
<1> HIDE DEF T
<1>2. \E i \in T : \A j \in T : i <= j
  BY <1>1, LeastNatural
<1>3. LowestFree = CHOOSE i \in T : \A j \in T : i <= j
  BY DEF LowestFree, T
<1> QED
  BY <1>2, <1>3 DEF T

\* What CreateInstanceForPlayer and the checks of AddPlayerToMap make of p's way into i: an
\* id with a save, or a free one, and sound boards whether the binds allow him in or not.
EntrySound(x, p, i, on) ==
  LET y == AddInstanceSave(x, i, TRUE, FALSE)
  IN  /\ i \in Ids
      /\ BindsAllow(y, p, i) => Sound(BindOnEntry(y, p, i), {}, used \cup {i}, on, read)
      /\ ~BindsAllow(y, p, i) => Sound(y, {}, used \cup {i}, on, read)
      /\ y.gbind # NoBind /\ y.gbind.perm => heroic
      /\ x.save[i] = NoSave => i \notin used /\ BindsAllow(y, p, i)

\* A bind leads to the instance.
LEMMA BoundEntrySound ==
  ASSUME NEW x, NEW p \in Players, NEW on \in SUBSET Players, p \in on, used \subseteq Ids,
         Sound(x, {}, used, on, read), BoundTo(x, p) # NoId
  PROVE  EntrySound(x, p, BoundTo(x, p), on)
<1> DEFINE i == BoundTo(x, p)
           own == x.pbind[p]
           y == AddInstanceSave(x, i, TRUE, FALSE)
           v == used \cup {i}
<1>1. /\ x \in Boards /\ PlayersLinked(x) /\ GroupLinked(x) /\ NormalBinds(x, read)
  BY DEF Sound
<1>2. \/ /\ own = NoBind \/ ~own.perm
         /\ InGroup(p) /\ x.gbind # NoBind /\ i = x.gbind.id
      \/ own # NoBind /\ i = own.id /\ (own.perm \/ ~InGroup(p) \/ x.gbind = NoBind)
  BY Zenon DEF BoundTo
<1> HIDE DEF i
<1>3. i \in Ids /\ x.save[i] # NoSave
  BY <1>1, <1>2, BoardFields DEF PlayersLinked, GroupLinked
<1>4. y = x
  BY <1>3 DEF AddInstanceSave
<1>5. Sound(x, {}, v, on, read) /\ Sound(x, {i}, v, on, read)
  BY SoundGrows
<1> HIDE DEF v
<1>6. x.gbind # NoBind /\ x.gbind.perm => heroic
  BY <1>1 DEF NormalBinds
<1>7. Sound(BindOnEntry(x, p, i), {}, v, on, read)
  <2>1. CASE InGroup(p) /\ x.gbind = NoBind /\ ~(own # NoBind /\ own.perm)
    <3>1. BindOnEntry(x, p, i) = BindGroup(x, i, FALSE, FALSE)
      BY <2>1, Zenon DEF BindOnEntry
    <3>2. NearlySound(x, {i}, v, on, read)
      BY <1>5, NearlySoundIsSound
    <3>3. x.gbind # [id |-> i, perm |-> FALSE]
      <4>1. [id |-> i, perm |-> FALSE] \in Rows
        BY <1>3 DEF Rows
      <4> QED
        BY <2>1, <4>1, NullAssumption
    <3>4. FALSE \/ x.gbind = [id |-> i, perm |-> FALSE] =>
            i \in Lost(x) \/ ([id |-> i, perm |-> FALSE] \in x.grow /\ i \in x.irow)
      BY <3>3
    <3>5. /\ \A q \in Players : read[q] \subseteq read[q]
          /\ FALSE \in BOOLEAN /\ (~heroic => ~FALSE)
      OBVIOUS
    <3>6. Sound(BindGroup(x, i, FALSE, FALSE), {}, v, on, read)
      BY <1>3, <3>2, <3>4, <3>5, BindGroupSound
    <3> QED
      BY <3>1, <3>6
  <2>2. CASE ~(InGroup(p) /\ x.gbind = NoBind /\ ~(own # NoBind /\ own.perm))
    <3>1. ~(~InGroup(p) /\ own = NoBind)
      BY <1>2
    <3>2. BindOnEntry(x, p, i) = x
      BY <2>2, <3>1 DEF BindOnEntry
    <3> QED
      BY <1>5, <3>2
  <2> QED
    BY <2>1, <2>2
<1>8. EntrySound(x, p, i, on)
  BY <1>3, <1>4, <1>5, <1>6, <1>7, Zenon DEF EntrySound, v, y
<1> QED
  BY <1>8 DEF i

\* A new instance, which the binds always allow.
LEMMA NewEntrySound ==
  ASSUME NEW x, NEW p \in Players, NEW on \in SUBSET Players, p \in on, used \subseteq Ids, used # Ids,
         Sound(x, {}, used, on, read), BoundTo(x, p) = NoId
  PROVE  EntrySound(x, p, LowestFree, on)
<1> DEFINE i == LowestFree
           y == AddInstanceSave(x, i, TRUE, FALSE)
           v == used \cup {i}
<1>1. /\ x \in Boards /\ PlayersLinked(x) /\ RowsSound(x, used, on) /\ Covered(x, used, read)
  BY DEF Sound
<1>2. i \in Ids \ used
  BY LowestFreeId
<1>3. x.pbind[p] = NoBind /\ ~(InGroup(p) /\ x.gbind # NoBind)
  <2>1. /\ x.pbind[p] # NoBind => x.pbind[p].id # NoId
        /\ x.gbind # NoBind => x.gbind.id # NoId
    BY <1>1, BoardFields, NullAssumption
  <2>2. ~(InGroup(p) /\ x.gbind # NoBind /\ x.pbind[p] = NoBind)
    BY <2>1, Zenon DEF BoundTo
  <2>3. x.pbind[p] = NoBind
    BY <2>1, Zenon DEF BoundTo
  <2> QED
    BY <2>2, <2>3
<1> HIDE DEF i
<1>4. TRUE \in BOOLEAN /\ FALSE \in BOOLEAN
  OBVIOUS
<1>5. SaveAdded(x, y, i, FALSE)
  BY <1>1, <1>2, <1>4, AddSaveFields
<1>6. Sound(y, {i}, v, on, read)
  BY <1>2, <1>4, AddSaveSound
<1> HIDE DEF y, v
<1>7. /\ y.pbind = x.pbind /\ y.gbind = x.gbind /\ y.crow = x.crow /\ y.save[i] # NoSave
      /\ x.stale = y.stale
  BY <1>5 DEF SaveAdded
<1>8. BindsAllow(y, p, i)
  BY <1>3, <1>7, Zenon DEF BindsAllow
<1>9. y.gbind # NoBind /\ y.gbind.perm => heroic
  BY <1>6 DEF Sound, NormalBinds
<1>10. CASE ~InGroup(p)
  <2>1. BindOnEntry(y, p, i) = BindPlayer(y, p, i, FALSE, FALSE)
    BY <1>3, <1>7, <1>10, Zenon DEF BindOnEntry
  <2>2. \A q \in Players : \A r \in y.crow[q] : r.id # i
    BY <1>1, <1>2, <1>7 DEF RowsSound
  <2>3. i \in Lost(y) \/ BoundPlayers(y, i) = {}
    <3>1. CASE x.save[i] # NoSave
      BY <1>1, <1>2, <1>7, <3>1 DEF Covered, Lost
    <3>2. CASE x.save[i] = NoSave
      BY <1>1, <1>2, <1>7, <3>2 DEF PlayersLinked, BoundPlayers
    <3> QED
      BY <3>1, <3>2
  <2>4. i \in v /\ y.pbind[p] = NoBind
    BY <1>3, <1>7 DEF v
  <2>5. Sound(BindPlayer(y, p, i, FALSE, FALSE), {}, v, on, read)
    BY <1>2, <1>6, <1>7, <2>2, <2>3, <2>4, BindNewSound
  <2> QED
    BY <1>2, <1>8, <1>9, <2>1, <2>5, Zenon DEF EntrySound, i, y, v
<1>11. CASE InGroup(p)
  <2>1. BindOnEntry(y, p, i) = BindGroup(y, i, FALSE, FALSE)
    BY <1>3, <1>7, <1>11, Zenon DEF BindOnEntry
  <2>2. NearlySound(y, {i}, v, on, read)
    BY <1>6, NearlySoundIsSound
  <2>3. y.gbind # [id |-> i, perm |-> FALSE]
    <3>1. [id |-> i, perm |-> FALSE] \in Rows
      BY <1>2 DEF Rows
    <3> QED
      BY <1>3, <1>7, <1>11, <3>1, NullAssumption
  <2>4. FALSE \/ y.gbind = [id |-> i, perm |-> FALSE] =>
          i \in Lost(y) \/ ([id |-> i, perm |-> FALSE] \in y.grow /\ i \in y.irow)
    BY <2>3
  <2>5. \A q \in Players : read[q] \subseteq read[q]
    OBVIOUS
  <2>6. Sound(BindGroup(y, i, FALSE, FALSE), {}, v, on, read)
    BY <1>2, <1>4, <1>7, <2>2, <2>4, <2>5, BindGroupSound
  <2> QED
    BY <1>2, <1>8, <1>9, <2>1, <2>6, Zenon DEF EntrySound, i, y, v
<1> QED
  BY <1>10, <1>11

\* Wherever p is sent.
LEMMA TargetSound ==
  ASSUME NEW x, NEW p \in Players, NEW on \in SUBSET Players, p \in on, used \subseteq Ids,
         Sound(x, {}, used, on, read), HasTarget(x, p)
  PROVE  EntrySound(x, p, Target(x, p), on)
<1>1. CASE BoundTo(x, p) # NoId
  BY <1>1, BoundEntrySound DEF Target
<1>2. CASE BoundTo(x, p) = NoId
  BY <1>2, NewEntrySound DEF Target, HasTarget
<1> QED
  BY <1>1, <1>2

\* One event more or one less.
LEMMA EventFields ==
  ASSUME NEW ev \in [Ids -> Nat], NEW i \in Ids
  PROVE  /\ Schedule(ev, i) \in [Ids -> Nat] /\ Schedule(ev, i)[i] = ev[i] + 1
         /\ \A j \in Ids \ {i} : Schedule(ev, i)[j] = ev[j]
         /\ Cancel(ev, i) \in [Ids -> Nat] /\ (ev[i] <= 1 => Cancel(ev, i)[i] = 0)
         /\ \A j \in Ids \ {i} : Cancel(ev, i)[j] = ev[j]
BY DEF Schedule, Cancel

\* Who was where and what is scheduled, after p has come into i or was refused.
EntryScheduled(p, i) ==
  /\ events' \in [Ids -> Nat] /\ where' \in [Players -> Ids \cup {Outside, Saved}]
  /\ pending' \in [Players -> Ids \cup {NoId}]
  /\ \A q \in Players \ {p} : where'[q] = where[q]
  /\ where'[p] \in {i, Outside}
  /\ \A j \in Ids : events'[j] > 0 =>
       ~heroic /\ events'[j] = 1 /\ j \in used \cup {i} /\ \A q \in Players : where'[q] # j
  /\ \A q \in Players : pending'[q] # NoId => heroic /\ pending'[q] \in used \cup {i}

\* The first to come in cancels the reset, who is sent away at once schedules it again, and
\* an instance without a save had no event and nobody inside.
LEMMA EntryEvents ==
  ASSUME VarsOK, Schedules, LocksSound, NEW x, NEW p \in Players, NEW i, NEW on, NEW stay,
         EntrySound(x, p, i, on), AddPlayerToMap(x, p, i, stay)
  PROVE  EntryScheduled(p, i)
<1> DEFINE y == AddInstanceSave(x, i, TRUE, FALSE)
           new == IF x.save[i] = NoSave /\ ~heroic THEN Schedule(events, i) ELSE events
           first == ~heroic /\ Inside(i) = {}
           entered == IF first THEN Cancel(new, i) ELSE new
           permGroup == InGroup(p) /\ y.gbind # NoBind /\ y.gbind.perm
           permOwn == y.pbind[p] # NoBind /\ y.pbind[p].perm
<1>1. /\ i \in Ids
      /\ y.gbind # NoBind /\ y.gbind.perm => heroic
      /\ x.save[i] = NoSave => i \notin used /\ BindsAllow(y, p, i)
  BY Zenon DEF EntrySound
<1>2. \/ /\ BindsAllow(y, p, i)
         /\ events' = IF first /\ ~stay THEN Schedule(entered, i) ELSE entered
         /\ where' = [where EXCEPT ![p] = IF stay THEN i ELSE Outside]
         /\ pending' = [pending EXCEPT ![p] = IF permGroup /\ ~permOwn THEN i ELSE @]
      \/ /\ ~BindsAllow(y, p, i) /\ events' = new
         /\ where' = [where EXCEPT ![p] = Outside]
         /\ pending' = pending
  BY Zenon DEF AddPlayerToMap
<1>3. permGroup => heroic
  BY <1>1
<1>4. /\ events \in [Ids -> Nat] /\ where \in [Players -> Ids \cup {Outside, Saved}]
      /\ pending \in [Players -> Ids \cup {NoId}]
  BY DEF VarsOK
<1>5. \A j \in Ids : events[j] > 0 =>
        ~heroic /\ events[j] = 1 /\ j \in used /\ \A q \in Players : where[q] # j
  BY DEF Schedules
<1>6. Inside(i) = {} <=> \A q \in Players : where[q] # i
  BY DEF Inside
<1>7. i \in Ids /\ i \notin {Outside, Saved}
  BY <1>1, NullAssumption
<1>8. x.save[i] = NoSave => BindsAllow(y, p, i) /\ Inside(i) = {} /\ events[i] = 0
  <2>1. x.save[i] = NoSave => i \notin used /\ BindsAllow(y, p, i)
    BY <1>1
  <2>2. i \notin used => \A q \in Players : where[q] # i
    BY <1>7 DEF Schedules
  <2>3. events[i] \in Nat /\ (events[i] > 0 => i \in used)
    BY <1>4, <1>5, <1>7
  <2>4. i \notin used => events[i] = 0
    BY <2>3
  <2> QED
    BY <1>6, <2>1, <2>2, <2>4
<1> HIDE DEF y, permGroup, permOwn
<1>9. /\ new \in [Ids -> Nat] /\ \A j \in Ids \ {i} : new[j] = events[j]
      /\ heroic \/ x.save[i] # NoSave => new = events
      /\ new[i] <= 1
  BY <1>4, <1>5, <1>7, <1>8, EventFields
<1> HIDE DEF new
<1>10. /\ entered \in [Ids -> Nat] /\ \A j \in Ids \ {i} : entered[j] = events[j]
       /\ entered[i] = 0
  <2>1. CASE first
    BY <1>7, <1>9, <2>1, EventFields
  <2>2. CASE ~first
    <3>1. new = events
      BY <1>8, <1>9, <2>2
    <3>2. events[i] \in Nat /\ ~(events[i] > 0)
      BY <1>4, <1>5, <1>6, <1>7, <2>2
    <3>3. entered = events /\ events[i] = 0
      BY <2>2, <3>1, <3>2
    <3> QED
      BY <1>4, <3>3
  <2> QED
    BY <2>1, <2>2
<1> HIDE DEF entered
<1>11. first => ~heroic /\ \A q \in Players : where[q] # i
  BY <1>6
<1> HIDE DEF first
<1>12. /\ events' \in [Ids -> Nat] /\ \A j \in Ids \ {i} : events'[j] = events[j]
       /\ \/ events'[i] = 0
          \/ first /\ events'[i] = 1 /\ where' = [where EXCEPT ![p] = Outside]
          \/ ~BindsAllow(y, p, i) /\ events' = new /\ where' = [where EXCEPT ![p] = Outside]
  <2>1. CASE BindsAllow(y, p, i)
    <3>1. CASE first /\ ~stay
      <4>1. events' = Schedule(entered, i) /\ where' = [where EXCEPT ![p] = Outside]
        BY <1>2, <2>1, <3>1
      <4> QED
        BY <1>7, <1>10, <3>1, <4>1, EventFields
    <3>2. CASE ~(first /\ ~stay)
      <4>1. events' = entered
        BY <1>2, <2>1, <3>2
      <4> QED
        BY <1>10, <4>1
    <3> QED
      BY <3>1, <3>2
  <2>2. CASE ~BindsAllow(y, p, i)
    BY <1>2, <1>9, <2>2
  <2> QED
    BY <2>1, <2>2
<1>13. /\ where' \in [Players -> Ids \cup {Outside, Saved}]
       /\ \A q \in Players \ {p} : where'[q] = where[q]
       /\ where'[p] \in {i, Outside}
  BY <1>2, <1>4, <1>7
<1>14. /\ pending' \in [Players -> Ids \cup {NoId}]
       /\ \A q \in Players : pending'[q] = pending[q] \/ (heroic /\ pending'[q] = i)
  BY <1>2, <1>3, <1>4, <1>7
<1>15. \A q \in Players : pending'[q] # NoId => heroic /\ pending'[q] \in used \cup {i}
  BY <1>14 DEF LocksSound
<1>16. ASSUME NEW j \in Ids, events'[j] > 0
       PROVE  ~heroic /\ events'[j] = 1 /\ j \in used \cup {i} /\ \A q \in Players : where'[q] # j
  <2>1. CASE j # i
    <3>1. events[j] > 0
      BY <1>12, <1>16, <2>1
    <3>2. ~heroic /\ events[j] = 1 /\ j \in used /\ \A q \in Players : where[q] # j
      BY <1>5, <3>1
    <3>3. j # Outside
      BY NullAssumption
    <3> QED
      BY <1>12, <1>13, <2>1, <3>2, <3>3
  <2>2. CASE j = i
    <3>1. CASE first /\ events'[i] = 1 /\ where' = [where EXCEPT ![p] = Outside]
      <4>1. \A q \in Players : where'[q] # i
        BY <1>4, <1>7, <1>11, <3>1
      <4> QED
        BY <1>11, <2>2, <3>1, <4>1
    <3>2. CASE ~BindsAllow(y, p, i) /\ events' = new /\ where' = [where EXCEPT ![p] = Outside]
      <4>1. events' = events
        BY <1>8, <1>9, <3>2
      <4>2. ~heroic /\ events[i] = 1 /\ i \in used /\ \A q \in Players : where[q] # i
        BY <1>5, <1>7, <1>16, <2>2, <4>1
      <4>3. \A q \in Players : where'[q] # i
        BY <1>4, <1>7, <3>2, <4>2
      <4> QED
        BY <2>2, <4>1, <4>2, <4>3
    <3> QED
      BY <1>12, <1>16, <2>2, <3>1, <3>2
  <2> QED
    BY <2>1, <2>2
<1> QED
  BY <1>12, <1>13, <1>14, <1>15, <1>16 DEF EntryScheduled

\* p comes in, or is refused, with the binds he has by then: on are the players online
\* afterwards, a login that is applied on the way being over.
LEMMA EnteredStep ==
  ASSUME IInv, NEW x, NEW p \in Players, NEW i, NEW on, NEW stay,
         EntrySound(x, p, i, on), AddPlayerToMap(x, p, i, stay),
         used' = used \cup {i}, heroic' = heroic, group' = group,
         OnlineNow' = on, p \in on, OnlineNow \subseteq on,
         status' \in [Players -> {"offline", "loading", "online"}], read' \in Readings, ReadsOver',
         \A q \in Players : read'[q] \subseteq read[q],
         \A q \in Players : status'[q] = "loading" => status[q] = "loading" /\ read'[q] = read[q]
  PROVE  IInv'
<1> DEFINE y == AddInstanceSave(x, i, TRUE, FALSE)
           v == used \cup {i}
<1>1. VarsOK /\ Schedules /\ LocksSound
  BY DEF IInv
<1>2. EntryScheduled(p, i)
  BY <1>1, EntryEvents
<1>3. i \in Ids
  BY Zenon DEF EntrySound
<1>4. \/ BindsAllow(y, p, i) /\ b' = BindOnEntry(y, p, i)
      \/ ~BindsAllow(y, p, i) /\ b' = y
  BY Zenon DEF AddPlayerToMap
<1>5. /\ BindsAllow(y, p, i) => Sound(BindOnEntry(y, p, i), {}, v, on, read)
      /\ ~BindsAllow(y, p, i) => Sound(y, {}, v, on, read)
  BY Zenon DEF EntrySound
<1> DEFINE z == b'
<1>6. Sound(z, {}, v, on, read)
  <2> HIDE DEF y, v
  <2> QED
    BY <1>4, <1>5
<1> HIDE DEF y
<1>7. Sound(b, {}, used, OnlineNow, read)'
  <2>1. b' = z /\ used' = v
    OBVIOUS
  <2> HIDE DEF z, v
  <2> QED
    BY <1>6, <2>1, NextSound
<1>8. VarsOK'
  BY <1>1, <1>2, <1>3 DEF EntryScheduled, VarsOK
<1>9. Schedules'
  <2>1. ASSUME NEW q \in Players, where'[q] \in Ids PROVE Online(q)' /\ where'[q] \in used'
    <3>1. q \in OnlineNow'
      <4>1. CASE q = p
        BY <4>1
      <4>2. CASE q # p
        BY <1>1, <1>2, <2>1, <4>2 DEF Schedules, EntryScheduled, OnlineNow
      <4> QED
        BY <4>1, <4>2
    <3>2. Online(q)'
      BY <3>1 DEF OnlineNow
    <3>3. where'[q] \in used'
      <4>1. CASE q = p
        BY <1>2, <2>1, <4>1, NullAssumption DEF EntryScheduled
      <4>2. CASE q # p
        BY <1>1, <1>2, <2>1, <4>2 DEF Schedules, EntryScheduled
      <4> QED
        BY <4>1, <4>2
    <3> QED
      BY <3>2, <3>3
  <2>2. \A j \in Ids : events'[j] > 0 =>
          ~heroic' /\ events'[j] = 1 /\ j \in used' /\ \A q \in Players : where'[q] # j
    BY <1>2 DEF EntryScheduled
  <2> QED
    BY <2>1, <2>2 DEF Schedules
<1>10. LocksSound'
  BY <1>2 DEF EntryScheduled, LocksSound
<1> QED
  BY <1>7, <1>8, <1>9, <1>10 DEF IInv

\* HandleMoveWorldportAck: p is sent to the instance, and let in or not.
LEMMA EnterStep ==
  ASSUME IInv, NEW p \in Players, Enter(p)
  PROVE  IInv'
<1> DEFINE i == Target(b, p)
<1>1. /\ Online(p) /\ HasTarget(b, p) /\ used' = used \cup {i}
      /\ IF CanEnter(p, i) THEN AddPlayerToMap(b, p, i, TRUE)
         ELSE b' = b /\ events' = events /\ where' = where /\ pending' = pending
      /\ heroic' = heroic /\ status' = status /\ read' = read /\ group' = group
  BY DEF Enter
<1>2. /\ Sound(b, {}, used, OnlineNow, read) /\ OnlineNow \in SUBSET Players
      /\ used \subseteq Ids /\ p \in OnlineNow
  BY <1>1, InvFacts
<1>3. EntrySound(b, p, i, OnlineNow)
  BY <1>1, <1>2, TargetSound
<1>4. VarsOK /\ Schedules /\ LocksSound /\ ReadsOver
  BY DEF IInv
<1>5. /\ OnlineNow' = OnlineNow /\ ReadsOver'
      /\ status' \in [Players -> {"offline", "loading", "online"}] /\ read' \in Readings
      /\ \A q \in Players : read'[q] \subseteq read[q]
      /\ \A q \in Players : status'[q] = "loading" => status[q] = "loading" /\ read'[q] = read[q]
  BY <1>1, <1>4 DEF OnlineNow, Online, ReadsOver, VarsOK
<1> HIDE DEF i
<1>6. CASE CanEnter(p, i)
  <2>1. AddPlayerToMap(b, p, i, TRUE) /\ OnlineNow \subseteq OnlineNow
    BY <1>1, <1>6
  <2> QED
    BY <1>1, <1>2, <1>3, <1>5, <2>1, EnteredStep
<1>7. CASE ~CanEnter(p, i)
  <2>1. b' = b /\ events' = events /\ where' = where /\ pending' = pending
    BY <1>1, <1>7
  <2>2. i \in Ids
    BY <1>3, Zenon DEF EntrySound
  <2> DEFINE v == used \cup {i}
             on == OnlineNow
  <2>3. Sound(b, {}, v, on, read)
    BY <1>2, SoundGrows
  <2>4. used' = v /\ OnlineNow' = on
    BY <1>1, <1>5
  <2> HIDE DEF v, on
  <2>5. Sound(b, {}, used, OnlineNow, read)'
    BY <1>1, <1>5, <2>1, <2>3, <2>4, NextSound
  <2>6. VarsOK'
    BY <1>1, <1>4, <2>1, <2>2 DEF VarsOK
  <2>7. Schedules' /\ LocksSound'
    BY <1>1, <1>4, <2>1 DEF Schedules, LocksSound, Online
  <2> QED
    BY <1>5, <2>5, <2>6, <2>7 DEF IInv
<1> QED
  BY <1>6, <1>7

\* A step that changes neither the boards nor the ids and logins.
LEMMA PlaceStep ==
  ASSUME IInv, heroic' = heroic, b' = b, used' = used, status' = status, read' = read, group' = group,
         events' \in [Ids -> Nat], where' \in [Players -> Ids \cup {Outside, Saved}],
         pending' \in [Players -> Ids \cup {NoId}], Schedules', LocksSound'
  PROVE  IInv'
<1>1. VarsOK /\ ReadsOver /\ Sound(b, {}, used, OnlineNow, read)
  BY DEF IInv
<1>2. VarsOK' /\ ReadsOver'
  BY <1>1 DEF VarsOK, ReadsOver
<1> DEFINE on == OnlineNow
<1>3. OnlineNow' = on
  BY DEF OnlineNow, Online
<1>4. Sound(b, {}, used, OnlineNow, read)'
  <2>1. Sound(b, {}, used, on, read)
    BY <1>1
  <2> HIDE DEF on
  <2>2. \A q \in Players : read'[q] \subseteq read[q]
    OBVIOUS
  <2>3. \A q \in Players : status'[q] = "loading" => status[q] = "loading" /\ read'[q] = read[q]
    OBVIOUS
  <2> QED
    BY <1>3, <2>1, <2>2, <2>3, NextSound
<1> QED
  BY <1>2, <1>4 DEF IInv

\* The last to leave schedules the reset.
LEMMA LeftEvents ==
  ASSUME VarsOK, Schedules, NEW x, NEW p \in Players, where[p] \in Ids
  PROVE  /\ Left(x, p) \in [Ids -> Nat]
         /\ \A j \in Ids : Left(x, p)[j] > 0 =>
              /\ ~heroic /\ Left(x, p)[j] = 1 /\ j \in used
              /\ \A q \in Players \ {p} : where[q] # j
<1> DEFINE i == where[p]
<1>1. events \in [Ids -> Nat]
  BY DEF VarsOK
<1>2. /\ i \in used /\ events[i] \in Nat /\ ~(events[i] > 0)
      /\ \A j \in Ids : events[j] > 0 =>
           ~heroic /\ events[j] = 1 /\ j \in used /\ \A q \in Players : where[q] # j
  BY <1>1 DEF Schedules
<1>3. CASE ~heroic /\ Inside(i) = {p} /\ x.save[i] # NoSave
  <2>1. Left(x, p) = Schedule(events, i)
    BY <1>3 DEF Left
  <2>2. \A q \in Players \ {p} : where[q] # i
    BY <1>3 DEF Inside
  <2> HIDE DEF i
  <2>3. /\ Schedule(events, i) \in [Ids -> Nat] /\ Schedule(events, i)[i] = events[i] + 1
        /\ \A j \in Ids \ {i} : Schedule(events, i)[j] = events[j]
    BY <1>1, EventFields DEF i
  <2>4. events[i] = 0
    BY <1>2
  <2> QED
    BY <1>2, <1>3, <2>1, <2>2, <2>3, <2>4
<1>4. CASE ~(~heroic /\ Inside(i) = {p} /\ x.save[i] # NoSave)
  <2>1. Left(x, p) = events
    BY <1>4 DEF Left
  <2> QED
    BY <1>1, <1>2, <2>1
<1> QED
  BY <1>3, <1>4

\* RemovePlayerFromMap
LEMMA LeaveStep ==
  ASSUME IInv, NEW p \in Players, Leave(p)
  PROVE  IInv'
<1>1. /\ where[p] \in Ids /\ events' = Left(b, p) /\ where' = [where EXCEPT ![p] = Outside]
      /\ heroic' = heroic /\ b' = b /\ used' = used /\ status' = status /\ read' = read
      /\ group' = group /\ pending' = pending
  BY DEF Leave
<1>2. VarsOK /\ Schedules /\ LocksSound
  BY DEF IInv
<1>3. /\ events' \in [Ids -> Nat]
      /\ \A j \in Ids : events'[j] > 0 =>
           /\ ~heroic /\ events'[j] = 1 /\ j \in used
           /\ \A q \in Players \ {p} : where[q] # j
  BY <1>1, <1>2, LeftEvents
<1>4. /\ where' \in [Players -> Ids \cup {Outside, Saved}] /\ pending' \in [Players -> Ids \cup {NoId}]
      /\ where'[p] = Outside /\ \A q \in Players \ {p} : where'[q] = where[q]
  BY <1>1, <1>2 DEF VarsOK
<1>5. Schedules'
  BY <1>1, <1>2, <1>3, <1>4, NullAssumption DEF Schedules, Online
<1>6. LocksSound'
  BY <1>1, <1>2 DEF LocksSound
<1> QED
  BY <1>1, <1>3, <1>4, <1>5, <1>6, PlaceStep

\* The lock is refused, and p sent out of the dungeon.
LEMMA DeclineLockStep ==
  ASSUME IInv, NEW p \in Players, DeclineLock(p)
  PROVE  IInv'
<1>1. /\ where' = [where EXCEPT ![p] = Outside] /\ pending' = [pending EXCEPT ![p] = NoId]
      /\ heroic' = heroic /\ b' = b /\ used' = used /\ status' = status /\ read' = read
      /\ group' = group /\ events' = events
  BY DEF DeclineLock
<1>2. VarsOK /\ Schedules /\ LocksSound
  BY DEF IInv
<1>3. /\ where' \in [Players -> Ids \cup {Outside, Saved}] /\ pending' \in [Players -> Ids \cup {NoId}]
      /\ where'[p] = Outside /\ \A q \in Players \ {p} : where'[q] = where[q]
      /\ pending'[p] = NoId /\ \A q \in Players \ {p} : pending'[q] = pending[q]
      /\ events' \in [Ids -> Nat]
  BY <1>1, <1>2 DEF VarsOK
<1>4. Schedules'
  BY <1>1, <1>2, <1>3, NullAssumption DEF Schedules, Online
<1>5. LocksSound'
  BY <1>1, <1>2, <1>3 DEF LocksSound
<1> QED
  BY <1>1, <1>3, <1>4, <1>5, PlaceStep

-----------------------------------------------------------------------------
(* Permanent binds and the reset of one instance                            *)

\* PermBindAllPlayers: those inside are bound, and the group if its leader is there.
LEMMA PermBindStep ==
  ASSUME IInv, NEW p \in Players, PermBindAllPlayers(p)
  PROVE  IInv'
<1> DEFINE i == where[p]
           T == {q \in Inside(i) : b.pbind[q] = NoBind \/ ~b.pbind[q].perm}
           bound == BindUnbound(b, i, T)
<1>1. /\ heroic /\ i \in Ids /\ b.save[i] # NoSave
      /\ b' = IF InGroup(p) /\ group.leader \in Inside(i) THEN BindGroup(bound, i, TRUE, FALSE)
              ELSE bound
      /\ heroic' = heroic /\ used' = used /\ events' = events /\ where' = where /\ status' = status
      /\ read' = read /\ group' = group /\ pending' = pending
  BY DEF PermBindAllPlayers
<1>2. /\ Sound(b, {}, used, OnlineNow, read) /\ OnlineNow \in SUBSET Players
      /\ group' \in Groups \cup {NoGroup}
  BY <1>1, InvFacts
<1>3. Schedules
  BY DEF IInv
<1>4. i \in used /\ T \in SUBSET OnlineNow
  BY <1>1, <1>3 DEF Schedules, Inside, OnlineNow
<1> HIDE DEF T, i
<1>5. Sound(bound, {}, used, OnlineNow, read) /\ bound.save[i] # NoSave
  BY <1>1, <1>2, <1>4, BindUnboundSound
<1> HIDE DEF bound
<1>6. NearlySound(bound, {i}, used, OnlineNow, read)
  BY <1>5, NearlySoundIsSound DEF NearlySound, NoneEmpty
<1>7. GroupDurable(bound)
  BY <1>5 DEF Sound
<1>8. [id |-> i, perm |-> TRUE] # NoBind /\ [id |-> i, perm |-> TRUE].id = i
  <2>1. [id |-> i, perm |-> TRUE] \in Rows
    BY <1>1 DEF Rows
  <2> QED
    BY <2>1, NullAssumption
<1>9. FALSE \/ bound.gbind = [id |-> i, perm |-> TRUE] =>
        i \in Lost(bound) \/ ([id |-> i, perm |-> TRUE] \in bound.grow /\ i \in bound.irow)
  BY <1>7, <1>8 DEF GroupDurable
<1>10. /\ \A q \in Players : read[q] \subseteq read[q]
       /\ TRUE \in BOOLEAN /\ FALSE \in BOOLEAN /\ (~heroic => ~TRUE)
  BY <1>1
<1>11. Sound(BindGroup(bound, i, TRUE, FALSE), {}, used, OnlineNow, read)
  BY <1>1, <1>2, <1>5, <1>6, <1>9, <1>10, BindGroupSound
<1>12. Sound(b', {}, used, OnlineNow, read)
  BY <1>1, <1>5, <1>11
<1> QED
  BY <1>1, <1>2, <1>12, BoardStep

\* HandleInstanceLockResponse, and the end of the minute p has to answer.
LEMMA AcceptLockStep ==
  ASSUME IInv, NEW p \in Players, NEW byTimer \in BOOLEAN, AcceptLock(p, byTimer)
  PROVE  IInv'
<1> DEFINE i == pending[p]
           z == b'
           on == OnlineNow
           u == used
<1>1. /\ i # NoId /\ Online(p)
      /\ b' = IF b.save[i] = NoSave \/ byTimer THEN b ELSE BindPlayer(b, p, i, TRUE, FALSE)
      /\ pending' = [pending EXCEPT ![p] = NoId]
      /\ heroic' = heroic /\ used' = used /\ events' = events /\ where' = where /\ status' = status
      /\ read' = read /\ group' = group
  BY DEF AcceptLock
<1>2. VarsOK /\ Schedules /\ LocksSound /\ ReadsOver
  BY DEF IInv
<1>3. /\ Sound(b, {}, u, on, read) /\ on \in SUBSET Players /\ p \in on
  BY <1>1, InvFacts
<1>4. i \in Ids /\ heroic /\ i \in used
  BY <1>1, <1>2 DEF VarsOK, LocksSound
<1>5. Sound(z, {}, u, on, read)
  <2>1. CASE b.save[i] = NoSave \/ byTimer
    BY <1>1, <1>3, <2>1
  <2>2. CASE b.save[i] # NoSave /\ ~byTimer
    <3>1. z = BindPlayer(b, p, i, TRUE, FALSE)
      BY <1>1, <2>2
    <3> HIDE DEF i, z, on
    <3> QED
      BY <1>3, <1>4, <2>2, <3>1, BindPermanentSound
  <2> QED
    BY <2>1, <2>2
<1>6. /\ OnlineNow' = on /\ b' = z /\ used' = u
      /\ \A q \in Players : read'[q] \subseteq read[q]
      /\ \A q \in Players : status'[q] = "loading" => status[q] = "loading" /\ read'[q] = read[q]
  BY <1>1 DEF OnlineNow, Online
<1> HIDE DEF z, on, u
<1>7. Sound(b, {}, used, OnlineNow, read)'
  BY <1>1, <1>5, <1>6, NextSound
<1>8. VarsOK'
  BY <1>1, <1>2 DEF VarsOK
<1>9. Schedules' /\ ReadsOver'
  BY <1>1, <1>2 DEF Schedules, ReadsOver, Online
<1>10. LocksSound'
  BY <1>1, <1>2 DEF LocksSound, VarsOK
<1> QED
  BY <1>7, <1>8, <1>9, <1>10 DEF IInv

\* _ResetInstance, by its event.
LEMMA ResetInstanceStep ==
  ASSUME IInv, NEW i \in Ids, ResetInstance(i)
  PROVE  IInv'
<1> DEFINE z == DeleteFromDB(ResetSave(b, i), {i})
           on == OnlineNow
           u == used \ {i}
<1>1. /\ events[i] > 0 /\ b' = z /\ events' = [events EXCEPT ![i] = @ - 1] /\ used' = u
      /\ heroic' = heroic /\ where' = where /\ status' = status
      /\ read' = read /\ group' = group /\ pending' = pending
  BY DEF ResetInstance
<1>2. VarsOK /\ Schedules /\ LocksSound /\ ReadsOver
  BY DEF IInv
<1>3. ~heroic /\ events[i] = 1 /\ \A q \in Players : where[q] # i
  BY <1>1, <1>2 DEF Schedules
<1>4. Sound(z, {}, u, on, read)
  BY InvFacts, ResetInstanceSound
<1>5. /\ OnlineNow' = on
      /\ \A q \in Players : read'[q] \subseteq read[q]
      /\ \A q \in Players : status'[q] = "loading" => status[q] = "loading" /\ read'[q] = read[q]
  BY <1>1 DEF OnlineNow, Online
<1>6. Sound(b, {}, used, OnlineNow, read)'
  <2> HIDE DEF z, on, u
  <2> QED
    BY <1>1, <1>4, <1>5, NextSound
<1> HIDE DEF z
<1>7. /\ events' \in [Ids -> Nat] /\ events'[i] = 0
      /\ \A j \in Ids \ {i} : events'[j] = events[j]
  BY <1>1, <1>2, <1>3 DEF VarsOK
<1>8. VarsOK'
  BY <1>1, <1>2, <1>7 DEF VarsOK
<1>9. Schedules'
  BY <1>1, <1>2, <1>3, <1>7 DEF Schedules, Online
<1>10. LocksSound' /\ ReadsOver'
  BY <1>1, <1>2, <1>3 DEF LocksSound, ReadsOver
<1> QED
  BY <1>6, <1>8, <1>9, <1>10 DEF IInv

-----------------------------------------------------------------------------
(* Login, logout and restart                                                *)

\* What the holder of a login reads is there, and it is all there is.
LEMMA LoginQueryStep ==
  ASSUME IInv, NEW p \in Players, LoginQuery(p)
  PROVE  IInv'
<1> DEFINE on == OnlineNow
           rows == {r \in b.crow[p] : r.id \in b.irow}
           rd == [read EXCEPT ![p] = rows]
           u == used
<1>1. /\ status[p] = "offline" /\ status' = [status EXCEPT ![p] = "loading"] /\ read' = rd
      /\ heroic' = heroic /\ b' = b /\ used' = used /\ events' = events /\ where' = where
      /\ group' = group /\ pending' = pending
  BY DEF LoginQuery
<1>2. VarsOK /\ Schedules /\ LocksSound /\ ReadsOver
  BY DEF IInv
<1>3. Sound(b, {}, u, on, read) /\ b \in Boards
  BY InvFacts
<1>4. /\ PlayersLinked(b) /\ GroupLinked(b) /\ NoneEmpty(b, {})
      /\ ResetsSafe(b) /\ PlayersDurable(b) /\ GroupDurable(b) /\ SavesDurable(b)
      /\ RowsSound(b, u, on) /\ ReadSound(b, on, read) /\ Covered(b, u, read) /\ NormalBinds(b, read)
  BY <1>3 DEF Sound
<1>5. OnlineNow' = on /\ p \notin on
  BY <1>1, <1>2 DEF OnlineNow, Online, VarsOK
<1>6. /\ rows \in SUBSET Rows /\ rows \subseteq b.crow[p] /\ \A r \in b.crow[p] : r.id \in b.irow <=> r \in rows
  BY <1>3, BoardFields
<1> HIDE DEF rows
<1>7. rd \in Readings /\ rd[p] = rows /\ \A q \in Players \ {p} : rd[q] = read[q]
  BY <1>2, <1>6 DEF VarsOK, Readings
<1> HIDE DEF rd
<1>8. \A r, s \in rows : r = s
  BY <1>4, <1>5, <1>6 DEF RowsSound
<1>9. ReadSound(b, on, rd)
  <2> SUFFICES ASSUME NEW q \in Players \ on
               PROVE  /\ \A r \in rd[q] :
                           /\ r.id \in b.stale \/ (r \in b.crow[q] /\ r.id \in b.irow)
                           /\ \A s \in b.crow[q] \cup rd[q] : s.id \in b.irow \/ s \in rd[q] => r = s
                      /\ status[q] = "loading" => \A s \in b.crow[q] : s.id \in b.irow => s \in rd[q]
    BY DEF ReadSound
  <2>1. CASE q = p
    BY <1>1, <1>6, <1>7, <1>8, <2>1
  <2>2. CASE q # p
    BY <1>4, <1>7, <2>2 DEF ReadSound
  <2> QED
    BY <2>1, <2>2
<1>10. Covered(b, u, rd)
  <2>1. \A q \in Players : \A r \in rd[q] : r.id \in u \cup b.stale
    BY <1>4, <1>6, <1>7 DEF RowsSound, Covered
  <2> QED
    BY <1>4, <2>1 DEF Covered
<1>11. NormalBinds(b, rd)
  BY <1>4, <1>6, <1>7 DEF NormalBinds
<1>12. Sound(b, {}, u, on, rd)
  BY <1>3, <1>4, <1>9, <1>10, <1>11 DEF Sound
<1>13. /\ \A q \in Players : read'[q] \subseteq rd[q]
       /\ \A q \in Players : status'[q] = "loading" =>
            \/ status[q] = "loading" /\ read'[q] = rd[q]
            \/ \A s \in b.crow[q] : s.id \in b.irow => s \in read'[q]
  BY <1>1, <1>2, <1>6, <1>7 DEF VarsOK
<1>14. used' = u
  BY <1>1
<1> HIDE DEF on, u
<1>15. Sound(b, {}, used, OnlineNow, read)'
  BY <1>1, <1>5, <1>12, <1>13, <1>14, NextSound
<1>16. VarsOK'
  BY <1>1, <1>2, <1>7 DEF VarsOK
<1>17. Schedules' /\ LocksSound' /\ ReadsOver'
  BY <1>1, <1>2, <1>7 DEF Schedules, LocksSound, ReadsOver, Online, VarsOK
<1> QED
  BY <1>15, <1>16, <1>17 DEF IInv

\* A login without binds to keep leaves no row of an existing instance behind.
LEMMA RowsLeftSound ==
  ASSUME NEW p \in Players, NEW rows, NEW on \in SUBSET Players, Sound(b, {}, used, on, read), p \notin on,
         rows \subseteq b.crow[p], \A r \in rows : r.id \notin b.irow
  PROVE  Sound([b EXCEPT !.crow[p] = rows], {}, used, on \cup {p}, read)
<1> DEFINE cr == [b.crow EXCEPT ![p] = rows]
           y == [b EXCEPT !.crow = cr]
<1>1. /\ b \in Boards /\ PlayersLinked(b) /\ GroupLinked(b) /\ NoneEmpty(b, {})
      /\ ResetsSafe(b) /\ PlayersDurable(b) /\ GroupDurable(b) /\ SavesDurable(b)
      /\ RowsSound(b, used, on) /\ ReadSound(b, on, read) /\ Covered(b, used, read) /\ NormalBinds(b, read)
  BY DEF Sound
<1>2. [b EXCEPT !.crow[p] = rows] = y
  BY <1>1 DEF Boards
<1>3. /\ cr \in [Players -> SUBSET Rows] /\ cr[p] = rows
      /\ \A q \in Players \ {p} : cr[q] = b.crow[q]
  BY <1>1, BoardFields
<1> HIDE DEF cr
<1>4. /\ y \in Boards /\ y.save = b.save /\ y.pbind = b.pbind /\ y.gbind = b.gbind /\ y.irow = b.irow
      /\ y.crow = cr /\ y.grow = b.grow /\ y.doubled = b.doubled /\ y.stale = b.stale
  BY <1>1, <1>3 DEF Boards
<1> HIDE DEF y
<1>5. b.pbind[p] = NoBind
  BY <1>1 DEF RowsSound
<1>6. \A q \in Players : y.crow[q] \subseteq b.crow[q]
  BY <1>3, <1>4
<1>7. PlayersLinked(y) /\ GroupLinked(y) /\ NoneEmpty(y, {}) /\ Lost(y) = Lost(b)
  BY <1>1, <1>4 DEF PlayersLinked, GroupLinked, NoneEmpty, Lost
<1>8. ResetsSafe(y)
  <2>1. \A j \in Ids : BoundPlayers(y, j) = BoundPlayers(b, j)
    BY <1>4 DEF BoundPlayers
  <2> QED
    BY <1>1, <1>4, <1>7, <2>1 DEF ResetsSafe
<1>9. PlayersDurable(y)
  BY <1>1, <1>3, <1>4, <1>5, <1>7 DEF PlayersDurable
<1>10. GroupDurable(y) /\ SavesDurable(y)
  BY <1>1, <1>4, <1>7 DEF GroupDurable, SavesDurable
<1>11. RowsSound(y, used, on \cup {p})
  <2>1. \A q \in Players : \A r \in y.crow[q] : r.id \in used
    BY <1>1, <1>6 DEF RowsSound
  <2>2. \A q, s \in Players : \A r \in y.crow[q] \cap y.crow[s] : q = s \/ r.perm
    BY <1>1, <1>6 DEF RowsSound
  <2>3. ASSUME NEW q \in on \cup {p}, NEW r \in y.crow[q], r.id \in y.irow PROVE r = y.pbind[q]
    <3>1. q # p
      BY <1>3, <1>4, <2>3
    <3> QED
      BY <1>1, <1>4, <1>6, <2>3, <3>1 DEF RowsSound
  <2>4. ASSUME NEW q \in Players \ (on \cup {p})
        PROVE  /\ y.pbind[q] = NoBind
               /\ \A r, s \in y.crow[q] : r.id \in y.irow /\ s.id \in y.irow => r = s
    BY <1>1, <1>4, <1>6 DEF RowsSound
  <2> QED
    BY <2>1, <2>2, <2>3, <2>4 DEF RowsSound
<1>12. ReadSound(y, on \cup {p}, read)
  BY <1>1, <1>3, <1>4 DEF ReadSound
<1>13. Covered(y, used, read)
  BY <1>1, <1>4 DEF Covered
<1>14. NormalBinds(y, read)
  BY <1>1, <1>4, <1>6 DEF NormalBinds
<1>15. Sound(y, {}, used, on \cup {p}, read)
  BY <1>4, <1>7, <1>8, <1>9, <1>10, <1>11, <1>12, <1>13, <1>14 DEF Sound
<1> QED
  BY <1>2, <1>15

\* A login has read one row at most, which it keeps or deletes.
LEMMA LoadBoundSound ==
  ASSUME IInv, NEW p \in Players, status[p] = "loading", NEW x \in LoadBoundInstances(p)
  PROVE  Sound(x, {}, used, OnlineNow \cup {p}, read)
<1> DEFINE kept == {r \in read[p] : r.perm \/ ~InGroup(p)}
           rows == {r \in b.crow[p] : \A d \in read[p] \ kept : d.id # r.id}
           y == [b EXCEPT !.crow[p] = rows]
           on == OnlineNow
<1>1. /\ b \in Boards /\ RowsSound(b, used, on) /\ ReadSound(b, on, read) /\ Covered(b, used, read)
  BY InvFacts DEF Sound
<1>2. Sound(b, {}, used, on, read) /\ on \in SUBSET Players /\ p \notin on
  BY InvFacts DEF OnlineNow, Online
<1>3. read[p] \subseteq Rows
  BY DEF IInv, VarsOK, Readings
<1>4. [b EXCEPT !.crow[p] = {r \in @ : \A d \in read[p] \ kept : d.id # r.id}] = y
  BY <1>1 DEF Boards
<1>5. x \in IF kept = {} THEN {y}
            ELSE {BindPlayer(AddInstanceSave(y, r.id, ~r.perm, TRUE), p, r.id, r.perm, TRUE) : r \in kept}
  <2>1. LoadBoundInstances(p) =
          LET z == [b EXCEPT !.crow[p] = {r \in @ : \A d \in read[p] \ kept : d.id # r.id}]
          IN  IF kept = {} THEN {z}
              ELSE {BindPlayer(AddInstanceSave(z, r.id, ~r.perm, TRUE), p, r.id, r.perm, TRUE) : r \in kept}
    BY Zenon DEF LoadBoundInstances
  <2> HIDE DEF kept, rows, y
  <2>2. LoadBoundInstances(p) =
          IF kept = {} THEN {y}
          ELSE {BindPlayer(AddInstanceSave(y, r.id, ~r.perm, TRUE), p, r.id, r.perm, TRUE) : r \in kept}
    BY <1>4, <2>1
  <2> QED
    BY <2>2
<1>6. \A r, s \in read[p] : r = s
  BY <1>1, <1>2 DEF ReadSound
<1>7. \A s \in b.crow[p] : s.id \in b.irow => s \in read[p]
  BY <1>1, <1>2 DEF ReadSound
<1>8. CASE kept = {}
  <2>1. x = y
    BY <1>5, <1>8
  <2>2. rows \subseteq b.crow[p] /\ \A r \in rows : r.id \notin b.irow
    BY <1>7, <1>8
  <2> HIDE DEF rows, on
  <2>3. Sound(y, {}, used, on \cup {p}, read)
    BY <1>2, <2>2, RowsLeftSound
  <2> QED
    BY <2>1, <2>3 DEF on
<1>9. CASE kept # {}
  <2>1. kept = read[p]
    BY <1>6, <1>9
  <2>2. y = b
    <3>1. rows = b.crow[p]
      BY <2>1
    <3> HIDE DEF rows
    <3>2. [b.crow EXCEPT ![p] = rows] = b.crow
      BY <1>1, <3>1, BoardFields
    <3> QED
      BY <1>1, <3>2 DEF Boards
  <2> HIDE DEF y, rows
  <2>3. PICK r \in kept : x = BindPlayer(AddInstanceSave(b, r.id, ~r.perm, TRUE), p, r.id, r.perm, TRUE)
    BY <1>5, <1>9, <2>2
  <2>4. r \in read[p] /\ r \in Rows
    BY <1>3, <2>1
  <2> DEFINE i == r.id
             can == ~r.perm
             z == AddInstanceSave(b, i, can, TRUE)
  <2>5. i \in Ids /\ can \in BOOLEAN /\ TRUE \in BOOLEAN
    BY <2>4 DEF Rows
  <2>6. i \in b.irow \cup Lost(b) /\ i \in used \cup b.stale
    BY <1>1, <1>2, <2>4 DEF ReadSound, Covered, Lost
  <2> HIDE DEF i, can, on
  <2>7. Sound(z, {i}, used, on, read)
    BY <1>2, <2>5, <2>6, AddSaveSound
  <2>8. SaveAdded(b, z, i, TRUE)
    BY <1>1, <2>5, AddSaveFields
  <2> HIDE DEF z
  <2>9. z.save[r.id] # NoSave /\ Sound(z, {r.id}, used, on, read)
    BY <2>7, <2>8 DEF SaveAdded, i
  <2>10. Sound(BindPlayer(z, p, r.id, r.perm, TRUE), {}, used, on \cup {p}, read)
    BY <1>2, <2>4, <2>9, BindLoadedSound
  <2> QED
    BY <2>3, <2>10 DEF z, i, can, on
<1> QED
  BY <1>8, <1>9

\* HandlePlayerLogin applies what was read, and the player may be back in the dungeon.
LEMMA LoginStep ==
  ASSUME IInv, NEW p \in Players, HandlePlayerLogin(p)
  PROVE  IInv'
<1> DEFINE on == OnlineNow \cup {p}
<1>1. /\ status[p] = "loading" /\ status' = [status EXCEPT ![p] = "online"]
      /\ read' = [read EXCEPT ![p] = {}] /\ heroic' = heroic /\ group' = group
      /\ \E x \in LoadBoundInstances(p) :
           \/ /\ where[p] = Saved /\ HasTarget(x, p)
              /\ used' = used \cup {Target(x, p)}
              /\ \E stay \in {FALSE, InGroup(p) \/ Inside(Target(x, p)) = {}} :
                   AddPlayerToMap(x, p, Target(x, p), stay)
           \/ /\ where[p] = Outside /\ b' = x
              /\ used' = used /\ events' = events /\ where' = where /\ pending' = pending
  BY Zenon DEF HandlePlayerLogin
<1>2. PICK x \in LoadBoundInstances(p) :
           \/ /\ where[p] = Saved /\ HasTarget(x, p)
              /\ used' = used \cup {Target(x, p)}
              /\ \E stay \in {FALSE, InGroup(p) \/ Inside(Target(x, p)) = {}} :
                   AddPlayerToMap(x, p, Target(x, p), stay)
           \/ /\ where[p] = Outside /\ b' = x
              /\ used' = used /\ events' = events /\ where' = where /\ pending' = pending
  BY <1>1, Zenon
<1>3. VarsOK /\ Schedules /\ LocksSound /\ ReadsOver
  BY DEF IInv
<1>4. Sound(x, {}, used, on, read)
  BY <1>1, LoadBoundSound
<1>5. /\ OnlineNow \subseteq on /\ on \in SUBSET Players /\ p \in on /\ used \subseteq Ids
  BY InvFacts
<1>6. OnlineNow' = on
  BY <1>1, <1>3 DEF OnlineNow, Online, VarsOK
<1>7. /\ status' \in [Players -> {"offline", "loading", "online"}] /\ read' \in Readings
      /\ \A q \in Players : read'[q] \subseteq read[q]
      /\ \A q \in Players : status'[q] = "loading" => status[q] = "loading" /\ read'[q] = read[q]
  BY <1>1, <1>3 DEF VarsOK, Readings
<1>8. ReadsOver'
  BY <1>1, <1>3 DEF VarsOK, ReadsOver, Readings
<1> HIDE DEF on
<1>9. CASE /\ where[p] = Saved /\ HasTarget(x, p)
           /\ used' = used \cup {Target(x, p)}
           /\ \E stay \in {FALSE, InGroup(p) \/ Inside(Target(x, p)) = {}} :
                AddPlayerToMap(x, p, Target(x, p), stay)
  <2> DEFINE i == Target(x, p)
  <2>1. PICK stay : AddPlayerToMap(x, p, i, stay)
    BY <1>9
  <2>2. EntrySound(x, p, i, on)
    BY <1>4, <1>5, <1>9, TargetSound
  <2>3. used' = used \cup {i}
    BY <1>9
  <2> HIDE DEF i
  <2> QED
    BY <1>1, <1>5, <1>6, <1>7, <1>8, <2>1, <2>2, <2>3, EnteredStep
<1>10. CASE /\ where[p] = Outside /\ b' = x
            /\ used' = used /\ events' = events /\ where' = where /\ pending' = pending
  <2> DEFINE u == used
  <2>1. used' = u /\ b' = x /\ heroic' = heroic /\ Sound(x, {}, u, on, read)
    BY <1>1, <1>4, <1>10
  <2> HIDE DEF u
  <2>2. Sound(b, {}, used, OnlineNow, read)'
    BY <1>6, <1>7, <2>1, NextSound
  <2>3. VarsOK'
    BY <1>1, <1>3, <1>7, <1>10 DEF VarsOK
  <2>4. Schedules' /\ LocksSound'
    BY <1>1, <1>3, <1>10 DEF Schedules, LocksSound, Online, VarsOK
  <2> QED
    BY <1>8, <2>2, <2>3, <2>4 DEF IInv
<1> QED
  BY <1>2, <1>9, <1>10

\* The end of a session, after the party that p may leave.
LEMMA LogoutStep ==
  ASSUME IInv, NEW p \in Players, NEW inParty \in BOOLEAN, LogoutPlayer(p, inParty)
  PROVE  IInv'
<1> DEFINE on == OnlineNow \ {p}
           u == used
<1>1. /\ Online(p) /\ (inParty => InGroup(p))
      /\ \E r \in (IF inParty THEN RemoveMember(b, p) ELSE {[b |-> b, group |-> group]}) :
           /\ b' = SessionEnded(r.b, p) /\ group' = r.group
           /\ events' = IF where[p] \in Ids THEN Left(SessionEnded(r.b, p), p) ELSE events
      /\ where' = [where EXCEPT ![p] = IF @ \in Ids /\ pending[p] = NoId THEN Saved ELSE Outside]
      /\ status' = [status EXCEPT ![p] = "offline"]
      /\ pending' = [pending EXCEPT ![p] = NoId]
      /\ heroic' = heroic /\ used' = used /\ read' = read
  BY Zenon DEF LogoutPlayer, SessionEnded
<1>2. VarsOK /\ Schedules /\ LocksSound /\ ReadsOver
  BY DEF IInv
<1>3. PICK r \in (IF inParty THEN RemoveMember(b, p) ELSE {[b |-> b, group |-> group]}) :
           /\ b' = SessionEnded(r.b, p) /\ group' = r.group
           /\ events' = IF where[p] \in Ids THEN Left(SessionEnded(r.b, p), p) ELSE events
  BY <1>1
<1>4. GroupResult(r, used, OnlineNow)
  <2>1. CASE inParty
    <3>1. r \in RemoveMember(b, p)
      BY <1>3, <2>1
    <3>2. Sound(b, {}, used, OnlineNow, read) /\ group \in Groups
      BY <1>1, <2>1, InvFacts DEF InGroup
    <3> QED
      BY <3>1, <3>2, RemoveMemberSound
  <2>2. CASE ~inParty
    <3>1. r = [b |-> b, group |-> group]
      BY <1>3, <2>2
    <3>2. r.b = b /\ r.group = group
      BY <3>1
    <3> QED
      BY <3>2, InvFacts DEF GroupResult
  <2> QED
    BY <2>1, <2>2
<1> DEFINE x == r.b
           z == SessionEnded(x, p)
<1>5. Sound(x, {}, u, OnlineNow, read) /\ group' \in Groups \cup {NoGroup}
  BY <1>3, <1>4 DEF GroupResult
<1>6. status[p] # "loading" /\ read[p] = {}
  BY <1>1, <1>2 DEF Online, ReadsOver
<1>7. /\ OnlineNow \in SUBSET Players
      /\ OnlineNow' = on /\ used' = u /\ heroic' = heroic
      /\ \A q \in Players : read'[q] \subseteq read[q]
      /\ \A q \in Players : status'[q] = "loading" => status[q] = "loading" /\ read'[q] = read[q]
  BY <1>1, <1>2 DEF OnlineNow, Online, VarsOK
<1>8. b' = z
  BY <1>3
<1> HIDE DEF x, u
<1>9. Sound(z, {}, u, on, read)
  BY <1>5, <1>6, <1>7, SessionEndedSound
<1> HIDE DEF z, on
<1>10. Sound(b, {}, used, OnlineNow, read)'
  BY <1>7, <1>8, <1>9, NextSound
<1>11. /\ events' \in [Ids -> Nat]
       /\ \A j \in Ids : events'[j] > 0 =>
            /\ ~heroic /\ events'[j] = 1 /\ j \in used
            /\ \A q \in Players \ {p} : where[q] # j
  <2>1. CASE where[p] \in Ids
    <3>1. events' = Left(SessionEnded(r.b, p), p)
      BY <1>3, <2>1
    <3> QED
      BY <1>2, <2>1, <3>1, LeftEvents
  <2>2. CASE where[p] \notin Ids
    <3>1. events' = events
      BY <1>3, <2>2
    <3> QED
      BY <1>2, <3>1 DEF VarsOK, Schedules
  <2> QED
    BY <2>1, <2>2
<1>12. /\ where' \in [Players -> Ids \cup {Outside, Saved}] /\ pending' \in [Players -> Ids \cup {NoId}]
       /\ where'[p] \in {Saved, Outside} /\ \A q \in Players \ {p} : where'[q] = where[q]
       /\ pending'[p] = NoId /\ \A q \in Players \ {p} : pending'[q] = pending[q]
       /\ status' \in [Players -> {"offline", "loading", "online"}]
       /\ status'[p] = "offline" /\ \A q \in Players \ {p} : status'[q] = status[q]
  BY <1>1, <1>2 DEF VarsOK
<1>13. VarsOK'
  BY <1>1, <1>2, <1>5, <1>11, <1>12 DEF VarsOK
<1>14. Schedules'
  <2>1. \A q \in Players : where'[q] \in Ids => Online(q)' /\ where'[q] \in used'
    BY <1>1, <1>2, <1>12, NullAssumption DEF Schedules, Online
  <2>2. \A j \in Ids : events'[j] > 0 =>
          ~heroic' /\ events'[j] = 1 /\ j \in used' /\ \A q \in Players : where'[q] # j
    BY <1>1, <1>11, <1>12, NullAssumption
  <2> QED
    BY <2>1, <2>2 DEF Schedules
<1>15. LocksSound' /\ ReadsOver'
  BY <1>1, <1>2, <1>6, <1>12 DEF LocksSound, ReadsOver
<1> QED
  BY <1>10, <1>13, <1>14, <1>15 DEF IInv

\* What LoadInstances finds and keeps of the database, with nobody online.
Cleaned(x, irow, grow) ==
  [save |-> [i \in Ids |-> NoSave], pbind |-> [p \in Players |-> NoBind], gbind |-> NoBind,
   irow |-> irow, grow |-> grow, doubled |-> {}, stale |-> {},
   crow |-> [p \in Players |-> {r \in x.crow[p] : r.id \in irow}]]

\* The rows of the cleaned boards that a login of before the restart had read: none is used.
Reread(x, irow) == [p \in Players |-> {r \in read[p] : r \in x.crow[p] /\ r.id \in irow}]

\* What is left suits a world without players.
LEMMA CleanedSound ==
  ASSUME NEW x, NEW u, NEW on \in SUBSET Players, NEW irow, NEW grow, Sound(x, {}, u, on, read),
         \A q \in on : status[q] # "loading",
         irow \subseteq x.irow, grow \subseteq x.grow
  PROVE  Sound(Cleaned(x, irow, grow), {}, irow, {}, Reread(x, irow))
<1> DEFINE y == Cleaned(x, irow, grow)
           rd == Reread(x, irow)
<1>1. /\ x \in Boards /\ RowsSound(x, u, on) /\ ReadSound(x, on, read) /\ NormalBinds(x, read)
      /\ \A q \in on : \A r \in x.crow[q] : r.id \in x.irow => r = x.pbind[q]
      /\ \A q \in Players \ on : \A r, s \in x.crow[q] : r.id \in x.irow /\ s.id \in x.irow => r = s
  BY DEF Sound, RowsSound
<1>2. /\ y \in Boards /\ y.gbind = NoBind /\ y.irow = irow /\ y.grow = grow /\ y.stale = {}
      /\ \A i \in Ids : y.save[i] = NoSave
      /\ \A q \in Players : y.pbind[q] = NoBind /\ y.crow[q] = {r \in x.crow[q] : r.id \in irow}
  <2>1. [i \in Ids |-> NoSave] \in [Ids -> Saves \cup {NoSave}]
    OBVIOUS
  <2>2. [q \in Players |-> NoBind] \in [Players -> Rows \cup {NoBind}]
    OBVIOUS
  <2>3. [q \in Players |-> {r \in x.crow[q] : r.id \in irow}] \in [Players -> SUBSET Rows]
    BY <1>1, BoardFields
  <2>4. irow \in SUBSET Ids /\ grow \in SUBSET Rows
    BY <1>1, BoardFields
  <2> QED
    BY <2>1, <2>2, <2>3, <2>4 DEF Boards, Cleaned
<1>3. \A q \in Players : rd[q] = {r \in read[q] : r \in x.crow[q] /\ r.id \in irow}
  BY DEF Reread
<1> HIDE DEF y, rd
<1>4. PlayersLinked(y) /\ GroupLinked(y) /\ NoneEmpty(y, {}) /\ ResetsSafe(y)
  BY <1>2 DEF PlayersLinked, GroupLinked, NoneEmpty, ResetsSafe
<1>5. PlayersDurable(y) /\ GroupDurable(y) /\ SavesDurable(y)
  BY <1>2 DEF PlayersDurable, GroupDurable, SavesDurable
<1>6. \A q \in Players : \A r, s \in y.crow[q] : r = s
  <2> SUFFICES ASSUME NEW q \in Players, NEW r \in y.crow[q], NEW s \in y.crow[q] PROVE r = s
    OBVIOUS
  <2>1. r \in x.crow[q] /\ s \in x.crow[q] /\ r.id \in x.irow /\ s.id \in x.irow
    BY <1>2
  <2> QED
    BY <1>1, <2>1
<1>7. RowsSound(y, irow, {})
  <2>1. \A q \in Players : \A r \in y.crow[q] : r.id \in irow
    BY <1>2
  <2>2. \A q, s \in Players : \A r \in y.crow[q] \cap y.crow[s] : q = s \/ r.perm
    BY <1>1, <1>2 DEF RowsSound
  <2>3. \A q \in Players : y.pbind[q] = NoBind
    BY <1>2
  <2> QED
    BY <1>6, <2>1, <2>2, <2>3 DEF RowsSound
<1>8. ReadSound(y, {}, rd)
  <2> SUFFICES ASSUME NEW q \in Players
               PROVE  /\ \A r \in rd[q] :
                           /\ r.id \in y.stale \/ (r \in y.crow[q] /\ r.id \in y.irow)
                           /\ \A s \in y.crow[q] \cup rd[q] : s.id \in y.irow \/ s \in rd[q] => r = s
                      /\ status[q] = "loading" => \A s \in y.crow[q] : s.id \in y.irow => s \in rd[q]
    BY DEF ReadSound
  <2>1. rd[q] \subseteq y.crow[q] /\ \A r \in y.crow[q] : r.id \in irow
    BY <1>2, <1>3
  <2>2. ASSUME status[q] = "loading", NEW s \in y.crow[q] PROVE s \in rd[q]
    <3>1. q \in Players \ on
      BY <2>2
    <3>2. s \in x.crow[q] /\ s.id \in irow /\ s.id \in x.irow
      BY <1>2
    <3> QED
      BY <1>1, <1>3, <2>2, <3>1, <3>2 DEF ReadSound
  <2> QED
    BY <1>2, <1>6, <2>1, <2>2
<1>9. Covered(y, irow, rd)
  BY <1>2, <1>3 DEF Covered
<1>10. NormalBinds(y, rd)
  BY <1>1, <1>2, <1>3 DEF NormalBinds
<1> QED
  BY <1>2, <1>4, <1>5, <1>7, <1>8, <1>9, <1>10 DEF Sound, y, rd

\* LoadInstances and LoadGroups.
LEMMA RestartStep ==
  ASSUME IInv, NEW expired, Restart(expired)
  PROVE  IInv'
<1> DEFINE current == b.irow \ expired
           grow == {r \in b.grow : r.id \in current}
           irow == {i \in current : \/ \E r \in grow : r.id = i
                                    \/ \E p \in Players : \E r \in b.crow[p] : r.id = i}
           clean == Cleaned(b, irow, grow)
           canReset(i) == \E r \in clean.crow[group.leader] : r.id = i /\ r.perm
           rd == Reread(b, irow)
           none == {}
           z == b'
<1>1. /\ b' \in IF grow = {} THEN {clean}
                ELSE {BindGroup(AddInstanceSave(clean, r.id, canReset(r.id), TRUE),
                                r.id, r.perm, TRUE) : r \in grow}
      /\ used' = RegisteredIds(irow, clean.crow)
      /\ events' = [i \in Ids |-> IF i \in irow /\ ~heroic THEN 1 ELSE 0]
      /\ where' = [p \in Players |-> IF where[p] = Outside THEN Outside ELSE Saved]
      /\ status' = [p \in Players |-> "offline"]
      /\ read' = [p \in Players |-> {}]
      /\ pending' = [p \in Players |-> NoId]
      /\ heroic' = heroic /\ group' = group
  BY Zenon DEF Restart, Cleaned
<1>2. VarsOK /\ Schedules /\ LocksSound /\ ReadsOver
  BY DEF IInv
<1>3. /\ Sound(b, {}, used, OnlineNow, read) /\ OnlineNow \in SUBSET Players /\ b \in Boards
      /\ \A q \in OnlineNow : status[q] # "loading"
  BY InvFacts DEF OnlineNow, Online
<1>4. irow \subseteq b.irow /\ grow \subseteq b.grow /\ \A r \in grow : r.id \in irow
  OBVIOUS
<1>5. irow \in SUBSET Ids /\ grow \in SUBSET Rows
  BY <1>3, BoardFields
<1>6. /\ clean.gbind = NoBind /\ clean.irow = irow /\ clean.grow = grow
      /\ \A i \in Ids : clean.save[i] = NoSave
  BY DEF Cleaned
<1> HIDE DEF current, irow, grow
<1>7. Sound(clean, {}, irow, none, rd)
  BY <1>3, <1>4, CleanedSound
<1>8. \A i \in Ids : canReset(i) \in BOOLEAN
  OBVIOUS
<1>9. \A q \in Players : rd[q] \subseteq read[q]
  BY DEF Reread
<1>10. none \in SUBSET Players
  OBVIOUS
<1> HIDE DEF clean, rd, none, canReset, z
<1>11. clean \in Boards /\ NormalBinds(clean, rd) /\ clean.stale \subseteq Lost(clean)
  BY <1>7 DEF Sound, Lost
<1>12. ASSUME NEW r \in grow
       PROVE  Sound(BindGroup(AddInstanceSave(clean, r.id, canReset(r.id), TRUE), r.id, r.perm, TRUE),
                    {}, irow, none, rd)
  <2> DEFINE i == r.id
             perm == r.perm
             can == canReset(r.id)
             y == AddInstanceSave(clean, i, can, TRUE)
  <2>1. /\ i \in Ids /\ perm \in BOOLEAN /\ TRUE \in BOOLEAN /\ r = [id |-> i, perm |-> perm]
        /\ i \in irow
    BY <1>4, <1>5 DEF Rows
  <2>2. can \in BOOLEAN
    BY <1>8, <2>1
  <2>3. ~heroic => ~perm
    BY <1>6, <1>11 DEF NormalBinds
  <2> HIDE DEF i, perm, can
  <2>4. i \in clean.irow \cup Lost(clean) /\ i \in irow \cup clean.stale /\ irow \subseteq irow
    BY <1>6, <2>1
  <2>5. Sound(y, {i}, irow, none, rd)
    BY <1>7, <1>10, <2>1, <2>2, <2>4, AddSaveSound
  <2>6. SaveAdded(clean, y, i, TRUE)
    BY <1>11, <2>1, <2>2, AddSaveFields
  <2> HIDE DEF y
  <2>7. y.save[i] # NoSave /\ y.grow = grow /\ y.irow = irow
    BY <1>6, <2>6 DEF SaveAdded
  <2>8. NearlySound(y, {i}, irow, none, rd)
    BY <2>5, NearlySoundIsSound
  <2>9. TRUE \/ y.gbind = [id |-> i, perm |-> perm] =>
          i \in Lost(y) \/ ([id |-> i, perm |-> perm] \in y.grow /\ i \in y.irow)
    BY <2>1, <2>7
  <2>10. Sound(BindGroup(y, i, perm, TRUE), {}, irow, none, rd)
    BY <1>9, <1>10, <2>1, <2>3, <2>7, <2>8, <2>9, BindGroupSound
  <2> QED
    BY <2>10 DEF i, perm, can, y
<1>13. Sound(z, {}, irow, none, rd)
  <2>1. CASE grow = {}
    <3>1. z = clean
      BY <1>1, <2>1 DEF z
    <3> QED
      BY <1>7, <3>1
  <2>2. CASE grow # {}
    <3>1. z \in {BindGroup(AddInstanceSave(clean, r.id, canReset(r.id), TRUE), r.id, r.perm, TRUE) : r \in grow}
      BY <1>1, <2>2 DEF z
    <3>2. \E r \in grow :
            z = BindGroup(AddInstanceSave(clean, r.id, canReset(r.id), TRUE), r.id, r.perm, TRUE)
      BY <3>1, Zenon
    <3> QED
      BY <1>12, <3>2
  <2> QED
    BY <2>1, <2>2
<1>14. used' = irow
  BY <1>1 DEF RegisteredIds
<1>15. /\ b' = z /\ used' = irow /\ heroic' = heroic
       /\ OnlineNow' = none
       /\ \A q \in Players : read'[q] \subseteq rd[q]
       /\ \A q \in Players : status'[q] = "loading" => status[q] = "loading" /\ read'[q] = rd[q]
  BY <1>1, <1>14 DEF OnlineNow, Online, none, z
<1>16. Sound(b, {}, used, OnlineNow, read)'
  BY <1>13, <1>15, NextSound
<1>17. VarsOK'
  BY <1>1, <1>2, <1>5, <1>14 DEF VarsOK, Readings
<1>18. Schedules'
  BY <1>1, <1>5, <1>14, NullAssumption DEF Schedules
<1>19. LocksSound' /\ ReadsOver'
  BY <1>1 DEF LocksSound, ReadsOver
<1> QED
  BY <1>16, <1>17, <1>18, <1>19 DEF IInv

-----------------------------------------------------------------------------
(* The invariant                                                            *)

\* Nothing is saved and nobody is bound at first.
LEMMA InitIInv == Init => IInv
<1> SUFFICES ASSUME Init PROVE IInv
  OBVIOUS
<1>1. /\ heroic \in BOOLEAN /\ used = {} /\ group = NoGroup
      /\ events = [i \in Ids |-> 0] /\ where = [p \in Players |-> Outside]
      /\ status = [p \in Players |-> "offline"] /\ read = [p \in Players |-> {}]
      /\ pending = [p \in Players |-> NoId]
  BY DEF Init
<1>2. /\ b \in Boards /\ b.gbind = NoBind /\ b.irow = {} /\ b.grow = {} /\ b.stale = {}
      /\ \A i \in Ids : b.save[i] = NoSave
      /\ \A p \in Players : b.pbind[p] = NoBind /\ b.crow[p] = {}
  BY DEF Init, Boards
<1>3. VarsOK
  BY <1>1 DEF VarsOK, Readings
<1>4. Schedules /\ LocksSound /\ ReadsOver
  BY <1>1, NullAssumption DEF Schedules, LocksSound, ReadsOver
<1>5. OnlineNow = {}
  BY <1>1 DEF OnlineNow, Online
<1>6. PlayersLinked(b) /\ GroupLinked(b) /\ NoneEmpty(b, {}) /\ ResetsSafe(b)
  BY <1>2 DEF PlayersLinked, GroupLinked, NoneEmpty, ResetsSafe
<1>7. PlayersDurable(b) /\ GroupDurable(b) /\ SavesDurable(b)
  BY <1>2 DEF PlayersDurable, GroupDurable, SavesDurable
<1>8. RowsSound(b, used, OnlineNow) /\ ReadSound(b, OnlineNow, read) /\ Covered(b, used, read)
  BY <1>1, <1>2, <1>5 DEF RowsSound, ReadSound, Covered
<1>9. NormalBinds(b, read)
  BY <1>1, <1>2 DEF NormalBinds
<1> QED
  BY <1>2, <1>3, <1>4, <1>6, <1>7, <1>8, <1>9 DEF IInv, Sound

\* Every action preserves the invariant.
LEMMA NextIInv == IInv /\ [Next]_vars => IInv'
<1> SUFFICES ASSUME IInv, [Next]_vars PROVE IInv'
  OBVIOUS
<1>1. ASSUME NEW p \in Players, Enter(p) PROVE IInv'
  BY <1>1, EnterStep
<1>2. ASSUME NEW p \in Players, Leave(p) PROVE IInv'
  BY <1>2, LeaveStep
<1>3. ASSUME NEW p \in Players, NEW q \in Players, CreateGroup(p, q) PROVE IInv'
  BY <1>3, CreateGroupStep
<1>4. ASSUME NEW p \in Players, AddMember(p) PROVE IInv'
  BY <1>4, AddMemberStep
<1>5. ASSUME NEW p \in Players, LeaveGroup(p) PROVE IInv'
  BY <1>5, LeaveGroupStep
<1>6. ASSUME NEW p \in Players, HandleGroupSetLeader(p) PROVE IInv'
  BY <1>6, SetLeaderStep
<1>7. ASSUME NEW p \in Players, HandleResetInstances(p) PROVE IInv'
  BY <1>7, ResetInstancesStep
<1>8. ASSUME NEW p \in Players, PermBindAllPlayers(p) PROVE IInv'
  BY <1>8, PermBindStep
<1>9. ASSUME NEW p \in Players, NEW byTimer \in BOOLEAN, AcceptLock(p, byTimer) PROVE IInv'
  BY <1>9, AcceptLockStep
<1>10. ASSUME NEW p \in Players, DeclineLock(p) PROVE IInv'
  BY <1>10, DeclineLockStep
<1>11. ASSUME NEW p \in Players, LoginQuery(p) PROVE IInv'
  BY <1>11, LoginQueryStep
<1>12. ASSUME NEW p \in Players, HandlePlayerLogin(p) PROVE IInv'
  BY <1>12, LoginStep
<1>13. ASSUME NEW p \in Players, NEW inParty \in BOOLEAN, LogoutPlayer(p, inParty) PROVE IInv'
  BY <1>13, LogoutStep
<1>14. ASSUME NEW i \in Ids, ResetInstance(i) PROVE IInv'
  BY <1>14, ResetInstanceStep
<1>15. CASE ResetAll
  BY <1>15, ResetAllStep
<1>16. ASSUME NEW expired \in SUBSET b.irow, Restart(expired) PROVE IInv'
  BY <1>16, RestartStep
<1>17. CASE UNCHANGED vars
  <2>1. /\ heroic' = heroic /\ b' = b /\ used' = used /\ events' = events /\ where' = where
        /\ status' = status /\ read' = read /\ group' = group /\ pending' = pending
    BY <1>17 DEF vars
  <2>2. Sound(b', {}, used, OnlineNow, read) /\ group' \in Groups \cup {NoGroup}
    BY <2>1, InvFacts
  <2> QED
    BY <2>1, <2>2, BoardStep
<1>18. CASE Next
  <2>1. \/ \E p \in Players :
             \/ Enter(p) \/ Leave(p)
             \/ \E q \in Players : CreateGroup(p, q)
             \/ AddMember(p) \/ LeaveGroup(p) \/ HandleGroupSetLeader(p) \/ HandleResetInstances(p)
             \/ PermBindAllPlayers(p)
             \/ \E byTimer \in BOOLEAN : AcceptLock(p, byTimer)
             \/ DeclineLock(p)
             \/ LoginQuery(p) \/ HandlePlayerLogin(p)
             \/ \E inParty \in BOOLEAN : LogoutPlayer(p, inParty)
        \/ \E i \in Ids : ResetInstance(i)
        \/ ResetAll
        \/ \E expired \in SUBSET b.irow : Restart(expired)
    BY <1>18 DEF Next
  <2> QED
    BY <1>1, <1>2, <1>3, <1>4, <1>5, <1>6, <1>7, <1>8, <1>9, <1>10, <1>11, <1>12, <1>13, <1>14,
       <1>15, <1>16, <2>1
<1> QED
  BY <1>17, <1>18

\* The invariant of the binds, their rows, the ids and the schedule of resets holds over
\* every interleaving of logins, group changes, bosses, resets and restarts.
THEOREM Invariance == Spec => []IInv
<1> QED
  BY InitIInv, NextIInv, PTL DEF Spec

\* The lists of a save and the binds agree in both directions (InstanceSave::RemovePlayer,
\* RemoveGroup and UnloadIfEmpty), and a save nobody is bound to is gone.
THEOREM ListsAndBindsAgree == Spec => []SavesLinked
<1>1. IInv => SavesLinked
  <2> SUFFICES ASSUME IInv PROVE SavesLinked
    OBVIOUS
  <2>1. VarsOK /\ b \in Boards /\ PlayersLinked(b) /\ GroupLinked(b) /\ NoneEmpty(b, {})
    BY DEF IInv, Sound
  <2>2. TypeOK
    <3>1. /\ b.save \in [Ids -> Saves \cup {NoSave}] /\ b.pbind \in [Players -> Rows \cup {NoBind}]
          /\ b.gbind \in Rows \cup {NoBind} /\ b.irow \subseteq Ids
          /\ b.crow \in [Players -> SUBSET Rows] /\ b.grow \subseteq Rows
          /\ b.doubled \subseteq Ids /\ b.stale \subseteq Ids
      BY <2>1, BoardFields
    <3> QED
      BY <2>1, <3>1 DEF TypeOK, VarsOK, Readings
  <2> QED
    BY <2>1, <2>2 DEF SavesLinked, PlayersLinked, GroupLinked, NoneEmpty
<1> QED
  BY Invariance, <1>1, PTL

\* A reset is scheduled once, and only while nobody is inside (SetResetSchedule, by
\* AddPlayerToMap and RemovePlayerFromMap).
THEOREM ResetsFindNobody == Spec => []ResetOnlyWhenEmpty
<1>1. IInv => ResetOnlyWhenEmpty
  BY DEF IInv, Schedules, ResetOnlyWhenEmpty, Inside
<1> QED
  BY Invariance, <1>1, PTL

\* GenerateInstanceId hands out no id of a save or of an instance with players in it, but
\* for a login that has read its rows before the reset.
THEOREM IdsNotReused == Spec => []IdsInUse
<1>1. IInv => IdsInUse
  <2> SUFFICES ASSUME IInv PROVE IdsInUse
    OBVIOUS
  <2>1. Schedules /\ Covered(b, used, read)
    BY DEF IInv, Sound
  <2> QED
    BY <2>1 DEF IdsInUse, Schedules, Covered, Inside
<1> QED
  BY Invariance, <1>1, PTL

\* Every bind in memory has the rows that give it back after a restart, but for the two
\* ways to lose them that BindsDurable names.
THEOREM BindsSurvive == Spec => []BindsDurable
<1>1. IInv => BindsDurable
  <2> SUFFICES ASSUME IInv PROVE BindsDurable
    OBVIOUS
  <2>1. PlayersDurable(b) /\ GroupDurable(b)
    BY DEF IInv, Sound
  <2> QED
    BY <2>1 DEF BindsDurable, SurvivesRestart, PlayersDurable, GroupDurable, Lost
<1> QED
  BY Invariance, <1>1, PTL
=============================================================================

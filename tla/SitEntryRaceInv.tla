--------------------------- MODULE SitEntryRaceInv ---------------------------
(***************************************************************************)
(* Any number of concurrent calls of f3fs_allocate_data_block2, in any     *)
(* interleaving of their loads and stores, leave the count, the bitmap and *)
(* the lists of every segment consistent: the local_locks are enough.      *)
(* Without f3fs_invalidate_blocks, which takes no lock.                    *)
(***************************************************************************)
EXTENDS SitEntryRace, FiniteSetTheorems, TLAPS

Counting  == {"load_count", "store_count", "load_map", "store_map"}
Finishing == {"load_dirty", "store_dirty", "reload_count"}
Listing   == {"locate", "set_dirty", "remove_dirty"}

\* No two calls deal with the same block, and every log has one call.
Calls ==
  /\ \A p \in Procs : new[p] \in Blocks
  /\ \A p, q \in Procs : Seg(new[p]) = Seg(new[q]) => p = q
  /\ \A p, q \in Procs : old[p] = old[q] /\ old[p] # None => p = q
  /\ \A p, q \in Procs : new[p] # old[q]

\* The segments whose lock p has taken and not given back.
Holds(p, s) ==
  \/ pc[p] \notin {"lock", "done"} /\ s = Seg(new[p])
  \/ pc[p] \notin {"lock", "trylock", "done"} /\ old[p] # None /\ s = Seg(old[p])

LocksHeld == \A p \in Procs : \A s \in Segs : local_lock[s] = p <=> Holds(p, s)

\* The block a call deals with.
AtKnown ==
  \A p \in Procs :
    /\ pc[p] \in {"lock", "trylock", "check_old"} => at[p] = new[p]
    /\ pc[p] \in Counting \cup Finishing \cup Listing => at[p] \in {new[p], old[p]} \ {None}
    /\ pc[p] = "trylock" => old[p] # None /\ Seg(old[p]) # Seg(new[p])
    /\ pc[p] = "new_segment" /\ old[p] # None => at[p] = old[p]

\* The call has set the bit of its new block; it has cleared the one of its old block.
Added(p)   == pc[p] \notin {"lock", "trylock"} /\ ~(pc[p] \in Counting /\ Adds(p))
Removed(p) == /\ old[p] # None
              /\ \/ pc[p] \in Finishing /\ ~Adds(p)
                 \/ pc[p] \in Listing \cup {"new_segment", "check_old", "unlock", "done"}

IsValid(b) == Off(b) \in cur_valid_map[Seg(b)]

Bits ==
  \A p \in Procs :
    /\ ~Added(p) => ~IsValid(new[p])
    /\ pc[p] \in Finishing /\ Adds(p) => IsValid(new[p])
    /\ old[p] # None /\ ~Removed(p) => IsValid(old[p])
    /\ Removed(p) /\ pc[p] \notin {"unlock", "done"} => ~IsValid(old[p])

\* A log keeps its segment until it moves on.
FlagKept ==
  \A p \in Procs :
    pc[p] \in {"lock", "trylock", "new_segment"} \cup Counting \cup Finishing
      => Seg(new[p]) \in curseg_flag

Valid(s) == Cardinality(cur_valid_map[s])

\* The count of a segment is behind or ahead of its bitmap only between the stores of
\* the call that holds its lock; what that call has loaded is still there.
Counted(p) == pc[p] \in {"load_map", "store_map"}
Counts ==
  /\ \A s \in Segs : (\A p \in Procs : Counted(p) => Seg(at[p]) # s) => valid_blocks[s] = Valid(s)
  /\ \A p \in Procs : Counted(p) =>
       valid_blocks[Seg(at[p])] = Valid(Seg(at[p])) + (IF Adds(p) THEN 1 ELSE -1)
Loads ==
  \A p \in Procs :
    /\ pc[p] = "store_count" => loaded[p].count = valid_blocks[Seg(at[p])]
    /\ pc[p] = "store_map" => loaded[p].map = cur_valid_map[Seg(at[p])]

\* The counts a call has read are those of the segments, but for a new block that
\* shares its segment with the old one.
OldRead(p) == pc[p] \in Listing \cup {"new_segment", "check_old"}
NewRead(p) == OldRead(p) \/ (pc[p] \in Counting \cup Finishing /\ ~Adds(p))
Reads ==
  \A p \in Procs :
    /\ NewRead(p) => newValid[p] >= 1
    /\ NewRead(p) /\ (old[p] = None \/ Seg(old[p]) # Seg(new[p])) => newValid[p] = Valid(Seg(new[p]))
    /\ OldRead(p) /\ old[p] # None => oldValid[p] = Valid(Seg(old[p]))

\* A segment is on the right lists, unless the call that holds its lock has changed it
\* and not yet moved it.
ListOK(s) ==
  /\ s \in PRE <=> s \notin curseg_flag /\ Valid(s) = 0
  /\ s \in DIRTY <=> s \notin curseg_flag /\ Valid(s) \in 1 .. blocks_per_seg - 1

OldBehind(p) == Removed(p) /\ pc[p] \notin {"unlock", "done"}
NewBehind(p) == pc[p] \in Listing /\ Adds(p)
Behind(p, s) == (OldBehind(p) /\ s = Seg(old[p])) \/ (NewBehind(p) /\ s = Seg(new[p]))
Lists == \A s \in Segs : (\A p \in Procs : ~Behind(p, s)) => ListOK(s)

MovingOf(p) ==
  /\ OldBehind(p) /\ ~(pc[p] \in Listing /\ ~Adds(p)) =>
       Seg(old[p]) \notin PRE /\ (Seg(old[p]) \in curseg_flag => Seg(old[p]) \notin DIRTY)
  /\ pc[p] \in Listing /\ ~Adds(p) =>
       /\ Seg(old[p]) \notin curseg_flag
       /\ pc[p] = "locate" => Seg(old[p]) \notin PRE
       /\ pc[p] = "set_dirty" => Seg(old[p]) \notin PRE /\ oldValid[p] \in 1 .. blocks_per_seg - 1
       /\ pc[p] = "remove_dirty" =>
            (Seg(old[p]) \in PRE <=> oldValid[p] = 0) /\ oldValid[p] \notin 1 .. blocks_per_seg - 1
  /\ NewBehind(p) =>
       /\ Seg(new[p]) \notin curseg_flag \cup PRE
       /\ pc[p] = "locate" => Seg(new[p]) \notin DIRTY
       /\ pc[p] = "set_dirty" => newValid[p] < blocks_per_seg
       /\ pc[p] = "remove_dirty" => newValid[p] >= blocks_per_seg
Moving == \A p \in Procs : MovingOf(p)

\* The inductive invariant.
Inner == Calls /\ LocksHeld /\ AtKnown /\ Bits /\ FlagKept /\ Counts /\ Loads /\ Reads /\ Lists /\ Moving
IInv == TypeOK /\ Inner

-----------------------------------------------------------------------------
\* What follows from it about the blocks and locks of the calls.
Known ==
  /\ Procs = Allocs
  /\ \A p \in Procs : /\ p # None /\ new[p] # None /\ new[p] \in Blocks
                      /\ Seg(new[p]) \in Segs /\ Off(new[p]) \in Offs
  /\ \A p \in Procs : old[p] # None =>
       old[p] \in Blocks /\ Seg(old[p]) \in Segs /\ Off(old[p]) \in Offs
  /\ \A p \in Procs : pc[p] \in Counting \cup Finishing \cup Listing =>
       /\ at[p] \in Blocks /\ Seg(at[p]) \in Segs /\ Off(at[p]) \in Offs
       /\ Holds(p, Seg(at[p]))
  /\ \A p, q \in Procs : \A s \in Segs : Holds(p, s) /\ Holds(q, s) => p = q

\* No two calls hold the lock of a segment, and a call holds those of its blocks.
LEMMA Facts ==
  ASSUME Invals = {}, IInv
  PROVE  Known
<1> USE DEF IInv, Inner
<1>1. \A p \in Procs : p # None /\ new[p] # None /\ new[p] \in Blocks
  BY RaceAssumption DEF Calls
<1>2. \A b \in Blocks : Seg(b) \in Segs /\ Off(b) \in Offs
  BY DEF Blocks, Seg, Off
<1>3. \A p \in Procs : old[p] # None => old[p] \in Blocks
  BY DEF TypeOK
<1>4. \A p \in Procs : pc[p] \in Counting \cup Finishing \cup Listing =>
        at[p] \in Blocks /\ Holds(p, Seg(at[p]))
  BY <1>1, <1>3 DEF AtKnown, Holds, Counting, Finishing, Listing
<1>5. \A p, q \in Procs : \A s \in Segs : Holds(p, s) /\ Holds(q, s) => p = q
  BY DEF LocksHeld
<1> QED BY <1>1, <1>2, <1>3, <1>4, <1>5 DEF Known, Procs

\* A valid map is finite, and its population count moves with its bits.
LEMMA MapCount ==
  ASSUME NEW S \in SUBSET Offs
  PROVE  /\ Cardinality(S) \in 0 .. blocks_per_seg
         /\ \A o \in Offs \ S : /\ Cardinality(S \cup {o}) = Cardinality(S) + 1
                               /\ Cardinality(S) < blocks_per_seg
         /\ \A o \in S : Cardinality(S \ {o}) = Cardinality(S) - 1 /\ Cardinality(S) >= 1
<1>1. IsFiniteSet(Offs) /\ Cardinality(Offs) = blocks_per_seg /\ blocks_per_seg \in Nat
  BY FS_Interval, RaceAssumption DEF Offs
<1>2. IsFiniteSet(S) /\ Cardinality(S) \in Nat /\ Cardinality(S) <= blocks_per_seg
  BY <1>1, FS_Subset, FS_CardinalityType
<1>3. \A o \in Offs \ S : Cardinality(S \cup {o}) = Cardinality(S) + 1
  BY <1>2, FS_AddElement
<1>4. \A o \in S : Cardinality(S \ {o}) = Cardinality(S) - 1
  BY <1>2, FS_RemoveElement
<1>5. ASSUME NEW o \in Offs \ S PROVE Cardinality(S) < blocks_per_seg
  <2>1. Cardinality(S) # Cardinality(Offs)
    BY <1>1, FS_Subset
  <2> QED BY <1>1, <1>2, <2>1
<1>6. ASSUME NEW o \in S PROVE Cardinality(S) >= 1
  <2>1. Cardinality(S) # 0
    BY <1>2, FS_EmptySet
  <2> QED BY <1>2, <2>1
<1> QED BY <1>1, <1>2, <1>3, <1>4, <1>5, <1>6

-----------------------------------------------------------------------------
\* A step of p leaves the calls of the others where they are.
Moves(p) ==
  /\ UNCHANGED <<new, old>>
  /\ \A q \in Procs \ {p} : pc'[q] = pc[q] /\ at'[q] = at[q]

\* A step that stores neither counts nor bits, and stays between the stores of its call,
\* keeps the counts.
LEMMA CountsStay ==
  ASSUME Counts, NEW p \in Procs, Moves(p), UNCHANGED <<valid_blocks, cur_valid_map>>,
         Counted(p)' <=> Counted(p), Counted(p) => at'[p] = at[p]
  PROVE  Counts'
<1>1. /\ \A q \in Procs : Counted(q)' <=> Counted(q)
      /\ \A q \in Procs : Counted(q) => at'[q] = at[q] /\ (Adds(q)' <=> Adds(q))
  BY DEF Moves, Counted, Adds
<1>2. \A s : Valid(s)' = Valid(s) /\ valid_blocks'[s] = valid_blocks[s]
  BY DEF Valid
<1> QED BY <1>1, <1>2 DEF Counts, Valid, Moves

\* A step between the stores of its call changes no list, no lock and no bit.
LEMMA QuietInv ==
  ASSUME IInv, NEW p \in Procs, Moves(p), TypeOK', Counts', Loads',
         UNCHANGED <<cur_valid_map, curseg_flag, DIRTY, PRE, local_lock, at, newValid, oldValid>>,
         \/ pc[p] \in Counting /\ pc'[p] \in Counting
         \/ pc[p] \in Finishing /\ pc'[p] \in Finishing
  PROVE  IInv'
<1>1. \A q \in Procs : /\ Added(q)' <=> Added(q)
                       /\ Removed(q)' <=> Removed(q)
                       /\ Adds(q)' <=> Adds(q)
                       /\ OldRead(q)' <=> OldRead(q)
                       /\ NewRead(q)' <=> NewRead(q)
  BY DEF Moves, Added, Removed, Adds, OldRead, NewRead, Counting, Finishing, Listing
<1>2. \A q \in Procs : /\ pc'[q] \in Finishing <=> pc[q] \in Finishing
                       /\ pc'[q] \in Listing <=> pc[q] \in Listing
                       /\ pc'[q] \in {"unlock", "done"} <=> pc[q] \in {"unlock", "done"}
                       /\ pc'[q] \in Listing => pc'[q] = pc[q]
  BY DEF Moves, Counting, Finishing, Listing
<1>3. Calls' /\ AtKnown' /\ FlagKept'
  BY DEF IInv, Inner, Moves, Calls, AtKnown, FlagKept, Counting, Finishing, Listing
<1>4. LocksHeld'
  BY DEF IInv, Inner, Moves, LocksHeld, Holds, Counting, Finishing
<1>5. Bits'
  BY <1>1, <1>2 DEF IInv, Inner, Moves, Bits, IsValid
<1>6. Reads'
  BY <1>1 DEF IInv, Inner, Moves, Reads, Valid
<1>7. \A q \in Procs : (OldBehind(q)' <=> OldBehind(q)) /\ (NewBehind(q)' <=> NewBehind(q))
  BY <1>1, <1>2 DEF OldBehind, NewBehind
<1>8. Lists'
  BY <1>7 DEF IInv, Inner, Moves, Lists, ListOK, Behind, Valid
<1>9. Moving'
  <2> SUFFICES ASSUME NEW q \in Procs PROVE MovingOf(q)'
    BY DEF Moving
  <2>1. MovingOf(q) /\ old'[q] = old[q] /\ new'[q] = new[q]
    BY DEF IInv, Inner, Moving, Moves
  <2>2. /\ (Adds(q)' <=> Adds(q)) /\ (OldBehind(q)' <=> OldBehind(q)) /\ (NewBehind(q)' <=> NewBehind(q))
        /\ (pc'[q] \in Listing <=> pc[q] \in Listing) /\ (pc'[q] \in Listing => pc'[q] = pc[q])
        /\ NewBehind(q) => pc[q] \in Listing
    BY <1>1, <1>2, <1>7 DEF NewBehind
  <2> QED BY <2>1, <2>2 DEF MovingOf
<1> QED BY <1>3, <1>4, <1>5, <1>6, <1>8, <1>9 DEF IInv, Inner

\* A step outside the stores of a call keeps the calls, the bits and the counts.
LEMMA CallStay ==
  ASSUME IInv, NEW p \in Procs, Moves(p), UNCHANGED <<valid_blocks, cur_valid_map, loaded>>,
         pc[p] \notin {"store_count", "load_map", "store_map"},
         pc'[p] \notin {"store_count", "load_map", "store_map"} \cup Finishing,
         Added(p)' <=> Added(p), Removed(p)' <=> Removed(p),
         pc'[p] \notin {"unlock", "done"} => pc[p] \notin {"unlock", "done"}
  PROVE  Calls' /\ Bits' /\ Counts' /\ Loads'
<1>1. /\ \A q \in Procs : (Added(q)' <=> Added(q)) /\ (Removed(q)' <=> Removed(q))
      /\ \A q \in Procs : pc'[q] \in Finishing /\ Adds(q)' => pc[q] \in Finishing /\ Adds(q)
      /\ \A q \in Procs : pc'[q] \notin {"unlock", "done"} => pc[q] \notin {"unlock", "done"}
  BY DEF Moves, Added, Removed, Adds
<1>2. Calls'
  BY DEF IInv, Inner, Moves, Calls
<1>3. Bits'
  BY <1>1 DEF IInv, Inner, Moves, Bits, IsValid
<1>4. Counts'
  BY CountsStay DEF IInv, Inner, Counted
<1>5. Loads'
  BY DEF IInv, Inner, Moves, Loads
<1> QED BY <1>2, <1>3, <1>4, <1>5

\* A step that takes or gives back no lock keeps the locks.
LEMMA LocksStay ==
  ASSUME LocksHeld, NEW p \in Procs, Moves(p), UNCHANGED local_lock,
         pc[p] \notin {"lock", "trylock", "done"}, pc'[p] \notin {"lock", "trylock", "done"}
  PROVE  LocksHeld'
<1>1. \A q \in Procs : \A s : Holds(q, s)' <=> Holds(q, s)
  BY DEF Moves, Holds
<1> QED BY <1>1 DEF LocksHeld

\* A step that reads no count keeps the counts that were read.
LEMMA ReadsStay ==
  ASSUME Reads, NEW p \in Procs, Moves(p), UNCHANGED <<cur_valid_map, newValid, oldValid>>,
         NewRead(p)' => NewRead(p), OldRead(p)' => OldRead(p)
  PROVE  Reads'
<1>1. \A q \in Procs : (NewRead(q)' => NewRead(q)) /\ (OldRead(q)' => OldRead(q))
  BY DEF Moves, NewRead, OldRead, Adds
<1> QED BY <1>1 DEF Reads, Moves, Valid

\* A segment whose lock a call holds is one no other call is behind with.
LEMMA OthersElsewhere ==
  ASSUME Known, NEW p \in Procs, NEW s \in Segs, Holds(p, s), NEW q \in Procs \ {p}
  PROVE  /\ OldBehind(q) => Seg(old[q]) # s
         /\ NewBehind(q) => Seg(new[q]) # s
<1>1. ~Holds(q, s)
  BY DEF Known
<1> QED BY <1>1 DEF Known, Holds, OldBehind, NewBehind, Removed, Finishing, Listing

\* A step that moves only segments whose lock its call holds disturbs no other call.
LEMMA MovingElsewhere ==
  ASSUME Known, Moving, AtKnown, NEW p \in Procs, Moves(p), NEW S \in SUBSET Segs,
         \A s \in S : Holds(p, s),
         \A s \in Segs \ S : /\ s \in PRE' <=> s \in PRE
                             /\ s \in DIRTY' <=> s \in DIRTY
                             /\ s \in curseg_flag' <=> s \in curseg_flag,
         NEW q \in Procs, q # p, newValid'[q] = newValid[q], oldValid'[q] = oldValid[q]
  PROVE  MovingOf(q)'
<1>1. /\ pc'[q] = pc[q] /\ old'[q] = old[q] /\ new'[q] = new[q]
      /\ (Adds(q)' <=> Adds(q)) /\ (OldBehind(q)' <=> OldBehind(q)) /\ (NewBehind(q)' <=> NewBehind(q))
  BY DEF Moves, OldBehind, NewBehind, Removed, Adds
<1>2. /\ OldBehind(q) \/ (pc[q] \in Listing /\ ~Adds(q)) => Holds(q, Seg(old[q])) /\ Seg(old[q]) \in Segs
      /\ NewBehind(q) => Holds(q, Seg(new[q])) /\ Seg(new[q]) \in Segs
  BY DEF Known, AtKnown, Holds, OldBehind, NewBehind, Removed, Adds, Finishing, Listing
<1>3. \A s \in S : ~Holds(q, s)
  BY DEF Known
<1>4. /\ OldBehind(q) \/ (pc[q] \in Listing /\ ~Adds(q)) =>
           /\ Seg(old[q]) \in PRE' <=> Seg(old[q]) \in PRE
           /\ Seg(old[q]) \in DIRTY' <=> Seg(old[q]) \in DIRTY
           /\ Seg(old[q]) \in curseg_flag' <=> Seg(old[q]) \in curseg_flag
      /\ NewBehind(q) =>
           /\ Seg(new[q]) \in PRE' <=> Seg(new[q]) \in PRE
           /\ Seg(new[q]) \in DIRTY' <=> Seg(new[q]) \in DIRTY
           /\ Seg(new[q]) \in curseg_flag' <=> Seg(new[q]) \in curseg_flag
  BY <1>2, <1>3
<1>5. MovingOf(q)
  BY DEF Moving
<1> QED BY <1>1, <1>4, <1>5 DEF MovingOf

\* A step that moves only segment s keeps the lists right if s is right after it, or
\* its call still behind with it.
LEMMA ListsElsewhere ==
  ASSUME Lists, NEW p \in Procs, Moves(p), NEW S, UNCHANGED cur_valid_map,
         \A s \in Segs \ S : /\ s \in PRE' <=> s \in PRE
                             /\ s \in DIRTY' <=> s \in DIRTY
                             /\ s \in curseg_flag' <=> s \in curseg_flag
                             /\ Behind(p, s) => Behind(p, s)',
         \A s \in S \cap Segs : ~Behind(p, s)' => ListOK(s)'
  PROVE  Lists'
<1>1. \A q \in Procs : \A s : q # p /\ Behind(q, s) => Behind(q, s)'
  BY DEF Moves, Behind, OldBehind, NewBehind, Removed, Adds
<1>2. ASSUME NEW s \in Segs, \A q \in Procs : ~Behind(q, s)'
      PROVE  ListOK(s)'
  <2>1. CASE s \in S
    BY <1>2, <2>1
  <2>2. CASE s \notin S
    <3>1. ListOK(s)
      BY <1>1, <1>2, <2>2 DEF Lists
    <3>2. Valid(s)' = Valid(s)
      BY DEF Valid
    <3> QED BY <1>2, <2>2, <3>1, <3>2 DEF ListOK
  <2> QED BY <2>1, <2>2
<1> QED BY <1>2 DEF Lists

\* A step that moves no segment keeps the lists if its call stays behind.
LEMMA ListsStay ==
  ASSUME Lists, NEW p \in Procs, Moves(p), UNCHANGED <<cur_valid_map, PRE, DIRTY, curseg_flag>>,
         \A s \in Segs : Behind(p, s) => Behind(p, s)'
  PROVE  Lists'
<1>1. \A q \in Procs : \A s \in Segs : Behind(q, s) => Behind(q, s)'
  BY DEF Moves, Behind, OldBehind, NewBehind, Removed, Adds
<1> QED BY <1>1 DEF Lists, ListOK, Valid

\* Such a step disturbs no other call.
LEMMA MovingStay ==
  ASSUME Moving, NEW p \in Procs, Moves(p), UNCHANGED <<PRE, DIRTY, curseg_flag>>,
         NEW q \in Procs, q # p, newValid'[q] = newValid[q], oldValid'[q] = oldValid[q]
  PROVE  MovingOf(q)'
<1>1. /\ pc'[q] = pc[q] /\ old'[q] = old[q] /\ new'[q] = new[q]
      /\ (Adds(q)' <=> Adds(q)) /\ (OldBehind(q)' <=> OldBehind(q)) /\ (NewBehind(q)' <=> NewBehind(q))
  BY DEF Moves, OldBehind, NewBehind, Removed, Adds
<1>2. MovingOf(q)
  BY DEF Moving
<1> QED BY <1>1, <1>2 DEF MovingOf

\* The counts a call has read fit a segment.
LEMMA CountsRange ==
  ASSUME TypeOK, NEW p \in Procs
  PROVE  /\ newValid[p] \in Nat /\ newValid[p] <= blocks_per_seg
         /\ oldValid[p] \in Nat /\ oldValid[p] <= blocks_per_seg
         /\ blocks_per_seg \in Nat \ {0}
<1>1. newValid[p] \in 0 .. blocks_per_seg /\ oldValid[p] \in 0 .. blocks_per_seg
  BY DEF TypeOK
<1> QED BY <1>1, RaceAssumption

-----------------------------------------------------------------------------
\* Every call starts with consistent entries and lists, and no lock.
LEMMA InitInv ==
  ASSUME Invals = {}, Init
  PROVE  IInv
<1>1. Procs = Allocs /\ None \notin Procs /\ None \notin Blocks /\ blocks_per_seg \in Nat \ {0}
  BY RaceAssumption DEF Procs
<1>2. /\ \A p \in Procs : pc[p] = "lock" /\ at[p] = new[p] /\ new[p] \in Blocks
      /\ \A s \in Segs : valid_blocks[s] = Valid(s) /\ cur_valid_map[s] \in SUBSET Offs
  BY <1>1 DEF Init, Valid
<1>3. \A s \in Segs : Valid(s) \in 0 .. blocks_per_seg /\ (Valid(s) = 0 <=> cur_valid_map[s] = {})
  <2> SUFFICES ASSUME NEW s \in Segs
               PROVE  Valid(s) \in 0 .. blocks_per_seg /\ (Valid(s) = 0 <=> cur_valid_map[s] = {})
    OBVIOUS
  <2>1. cur_valid_map[s] # {} => Valid(s) >= 1
    BY <1>2, MapCount DEF Valid
  <2>2. cur_valid_map[s] = {} => Valid(s) = 0
    BY FS_EmptySet DEF Valid
  <2> QED BY <1>2, <2>1, <2>2, MapCount DEF Valid
<1>4. TypeOK
  <2>1. valid_blocks \in [Segs -> 0 .. blocks_per_seg] /\ cur_valid_map \in [Segs -> SUBSET Offs]
    BY <1>2, <1>3 DEF Init
  <2>2. /\ pc \in [Procs -> Labels] /\ at \in [Procs -> Blocks \cup {None}]
        /\ local_lock \in [Segs -> Procs \cup {None}]
    BY <1>1 DEF Init, Labels
  <2>3. NothingLoaded \in [count : 0 .. blocks_per_seg, map : SUBSET Offs, dirty : SUBSET Segs]
    BY <1>1 DEF NothingLoaded
  <2>4. /\ newValid \in [Procs -> 0 .. blocks_per_seg] /\ oldValid \in [Procs -> 0 .. blocks_per_seg]
        /\ loaded \in [Procs -> [count : 0 .. blocks_per_seg, map : SUBSET Offs, dirty : SUBSET Segs]]
    BY <1>1, <2>3 DEF Init
  <2>5. curseg_flag \subseteq Segs /\ PRE \subseteq Segs /\ DIRTY \subseteq Segs /\ dirty_bitmap \subseteq Segs
    BY <1>1, <1>2 DEF Init, Blocks, Seg
  <2>6. new \in [Procs -> Blocks \cup {None}] /\ old \in [Procs -> Blocks \cup {None}]
    BY DEF Init
  <2> QED BY <2>1, <2>2, <2>4, <2>5, <2>6 DEF TypeOK
<1>5. \A p \in Procs : ~IsValid(new[p]) /\ (old[p] # None => IsValid(old[p]))
  <2>1. \A p \in Procs : ~(Off(new[p]) < Off(new[p]))
    BY <1>1, <1>2 DEF Blocks, Off, Offs
  <2> QED BY <1>1, <2>1 DEF Init, IsValid
<1>6. Calls
  <2>1. \A p, q \in Procs : new[p] # old[q]
    BY <1>1, <1>2, <1>5
  <2> QED BY <1>1, <1>2, <2>1 DEF Init, Calls
<1>7. LocksHeld /\ AtKnown
  BY <1>1, <1>2 DEF Init, LocksHeld, Holds, AtKnown, Counting, Finishing, Listing
<1>8. Bits /\ FlagKept
  BY <1>1, <1>2, <1>5 DEF Init, Bits, Added, Removed, FlagKept, Counting, Finishing, Listing
<1>9. Counts /\ Loads /\ Reads
  BY <1>2 DEF Counts, Counted, Loads, Reads, OldRead, NewRead, Counting, Finishing, Listing
<1>10. Lists
  BY <1>2, <1>3 DEF Init, Lists, ListOK
<1>11. Moving
  BY <1>2 DEF Moving, MovingOf, OldBehind, NewBehind, Removed, Counting, Finishing, Listing
<1> QED BY <1>4, <1>6, <1>7, <1>8, <1>9, <1>10, <1>11 DEF IInv, Inner

-----------------------------------------------------------------------------
\* update_sit_entry2 loads the count.
LEMMA LoadCountInv ==
  ASSUME Invals = {}, IInv, NEW p \in Procs, LoadCount(p)
  PROVE  IInv'
<1>0. Known /\ TypeOK /\ Inner
  BY Facts DEF IInv
<1>1. /\ pc[p] = "load_count" /\ pc'[p] = "store_count"
      /\ Moves(p) /\ UNCHANGED <<cur_valid_map, curseg_flag, DIRTY, PRE, local_lock, at, newValid, oldValid>>
  BY <1>0 DEF LoadCount, Goto, Moves, AfterLocate, sitVars, listVars, callVars, retVars, TypeOK
<1>2. TypeOK'
  <2>1. loaded[p] \in [count : 0 .. blocks_per_seg, map : SUBSET Offs, dirty : SUBSET Segs] /\ Seg(at[p]) \in Segs
    BY <1>0, <1>1 DEF TypeOK, Known, Counting, Finishing
  <2>2. [loaded[p] EXCEPT !.count = valid_blocks[Seg(at[p])]] \in [count : 0 .. blocks_per_seg, map : SUBSET Offs, dirty : SUBSET Segs]
    BY <1>0, <2>1 DEF TypeOK
  <2>3. loaded' = [loaded EXCEPT ![p] = [loaded[p] EXCEPT !.count = valid_blocks[Seg(at[p])]]]
    BY DEF LoadCount
  <2> QED BY <1>0, <2>2, <2>3 DEF LoadCount, Goto, Labels, sitVars, listVars, callVars, retVars, TypeOK
<1>3. Counts'
  BY <1>0, <1>1, CountsStay DEF Inner, Counted, LoadCount, sitVars
<1>4. Loads'
  <2>1. \A q \in Procs \ {p} : loaded'[q] = loaded[q]
    BY <1>0 DEF LoadCount, TypeOK
  <2>2. loaded'[p].count = valid_blocks[Seg(at[p])]
    BY <1>0 DEF LoadCount, TypeOK
  <2> QED BY <1>0, <1>1, <2>1, <2>2 DEF Inner, Loads, Moves, LoadCount, sitVars
<1> QED BY <1>0, <1>1, <1>2, <1>3, <1>4, QuietInv DEF IInv, Counting, Finishing

\* update_sit_entry2 loads the byte of the bitmap.
LEMMA LoadMapInv ==
  ASSUME Invals = {}, IInv, NEW p \in Procs, LoadMap(p)
  PROVE  IInv'
<1>0. Known /\ TypeOK /\ Inner
  BY Facts DEF IInv
<1>1. /\ pc[p] = "load_map" /\ pc'[p] = "store_map"
      /\ Moves(p) /\ UNCHANGED <<cur_valid_map, curseg_flag, DIRTY, PRE, local_lock, at, newValid, oldValid>>
  BY <1>0 DEF LoadMap, Goto, Moves, AfterLocate, sitVars, listVars, callVars, retVars, TypeOK
<1>2. TypeOK'
  <2>1. loaded[p] \in [count : 0 .. blocks_per_seg, map : SUBSET Offs, dirty : SUBSET Segs] /\ Seg(at[p]) \in Segs
    BY <1>0, <1>1 DEF TypeOK, Known, Counting, Finishing
  <2>2. [loaded[p] EXCEPT !.map = cur_valid_map[Seg(at[p])]] \in [count : 0 .. blocks_per_seg, map : SUBSET Offs, dirty : SUBSET Segs]
    BY <1>0, <2>1 DEF TypeOK
  <2>3. loaded' = [loaded EXCEPT ![p] = [loaded[p] EXCEPT !.map = cur_valid_map[Seg(at[p])]]]
    BY DEF LoadMap
  <2> QED BY <1>0, <2>2, <2>3 DEF LoadMap, Goto, Labels, sitVars, listVars, callVars, retVars, TypeOK
<1>3. Counts'
  BY <1>0, <1>1, CountsStay DEF Inner, Counted, LoadMap, sitVars
<1>4. Loads'
  <2>1. \A q \in Procs \ {p} : loaded'[q] = loaded[q]
    BY <1>0 DEF LoadMap, TypeOK
  <2>2. loaded'[p].map = cur_valid_map[Seg(at[p])]
    BY <1>0 DEF LoadMap, TypeOK
  <2> QED BY <1>0, <1>1, <2>1, <2>2 DEF Inner, Loads, Moves, LoadMap, sitVars
<1> QED BY <1>0, <1>1, <1>2, <1>3, <1>4, QuietInv DEF IInv, Counting, Finishing

\* __mark_sit_entry_dirty loads the word of the dirty bitmap.
LEMMA LoadDirtyInv ==
  ASSUME Invals = {}, IInv, NEW p \in Procs, LoadDirty(p)
  PROVE  IInv'
<1>0. Known /\ TypeOK /\ Inner
  BY Facts DEF IInv
<1>1. /\ pc[p] = "load_dirty" /\ pc'[p] = "store_dirty"
      /\ Moves(p) /\ UNCHANGED <<cur_valid_map, curseg_flag, DIRTY, PRE, local_lock, at, newValid, oldValid>>
  BY <1>0 DEF LoadDirty, Goto, Moves, AfterLocate, sitVars, listVars, callVars, retVars, TypeOK
<1>2. TypeOK'
  <2>1. loaded[p] \in [count : 0 .. blocks_per_seg, map : SUBSET Offs, dirty : SUBSET Segs] /\ Seg(at[p]) \in Segs
    BY <1>0, <1>1 DEF TypeOK, Known, Counting, Finishing
  <2>2. [loaded[p] EXCEPT !.dirty = dirty_bitmap] \in [count : 0 .. blocks_per_seg, map : SUBSET Offs, dirty : SUBSET Segs]
    BY <1>0, <2>1 DEF TypeOK
  <2>3. loaded' = [loaded EXCEPT ![p] = [loaded[p] EXCEPT !.dirty = dirty_bitmap]]
    BY DEF LoadDirty
  <2> QED BY <1>0, <2>2, <2>3 DEF LoadDirty, Goto, Labels, sitVars, listVars, callVars, retVars, TypeOK
<1>3. Counts'
  BY <1>0, <1>1, CountsStay DEF Inner, Counted, LoadDirty, sitVars
<1>4. Loads'
  <2>1. \A q \in Procs \ {p} : loaded'[q] = loaded[q]
    BY <1>0 DEF LoadDirty, TypeOK
  <2>2. UNCHANGED <<valid_blocks, cur_valid_map>>
    BY DEF LoadDirty, sitVars
  <2> QED BY <1>0, <1>1, <2>1, <2>2 DEF Inner, Loads, Moves, LoadDirty, sitVars
<1> QED BY <1>0, <1>1, <1>2, <1>3, <1>4, QuietInv DEF IInv, Counting, Finishing

\* __mark_sit_entry_dirty stores it.
LEMMA StoreDirtyInv ==
  ASSUME Invals = {}, IInv, NEW p \in Procs, StoreDirty(p)
  PROVE  IInv'
<1>0. Known /\ TypeOK /\ Inner
  BY Facts DEF IInv
<1>1. /\ pc[p] = "store_dirty" /\ pc'[p] = "reload_count"
      /\ Moves(p) /\ UNCHANGED <<cur_valid_map, curseg_flag, DIRTY, PRE, local_lock, at, newValid, oldValid>>
  BY <1>0 DEF StoreDirty, Goto, Moves, AfterLocate, sitVars, listVars, callVars, retVars, TypeOK
<1>2. TypeOK'
  <2>1. NothingLoaded \in [count : 0 .. blocks_per_seg, map : SUBSET Offs, dirty : SUBSET Segs]
    BY RaceAssumption DEF NothingLoaded
  <2>2. loaded' \in [Procs -> [count : 0 .. blocks_per_seg, map : SUBSET Offs, dirty : SUBSET Segs]]
    BY <1>0, <2>1 DEF StoreDirty, TypeOK
  <2>3. dirty_bitmap' \subseteq Segs
    BY <1>0, <1>1 DEF StoreDirty, TypeOK, Known, Finishing
  <2> QED BY <1>0, <2>2, <2>3 DEF StoreDirty, Goto, Labels, sitVars, listVars, callVars, retVars, TypeOK
<1>3. Counts'
  BY <1>0, <1>1, CountsStay DEF Inner, Counted, StoreDirty, sitVars
<1>4. Loads'
  <2>1. \A q \in Procs \ {p} : loaded'[q] = loaded[q]
    BY <1>0 DEF StoreDirty, TypeOK
  <2>2. UNCHANGED <<valid_blocks, cur_valid_map>>
    BY DEF StoreDirty
  <2> QED BY <1>0, <1>1, <2>1, <2>2 DEF Inner, Loads, Moves, StoreDirty, sitVars
<1> QED BY <1>0, <1>1, <1>2, <1>3, <1>4, QuietInv DEF IInv, Counting, Finishing

\* update_sit_entry2 stores the count: it is now one off the bitmap.
LEMMA StoreCountInv ==
  ASSUME Invals = {}, IInv, NEW p \in Procs, StoreCount(p)
  PROVE  IInv'
<1>0. Known /\ TypeOK /\ Inner
  BY Facts DEF IInv
<1>1. /\ pc[p] = "store_count" /\ pc'[p] = "load_map"
      /\ Moves(p) /\ UNCHANGED <<cur_valid_map, curseg_flag, DIRTY, PRE, local_lock, at, newValid, oldValid>>
  BY <1>0 DEF StoreCount, Goto, Moves, AfterLocate, sitVars, listVars, callVars, retVars, TypeOK
<1>a. /\ Holds(p, Seg(at[p])) /\ Seg(at[p]) \in Segs
      /\ Off(at[p]) \in Offs /\ cur_valid_map[Seg(at[p])] \in SUBSET Offs
  BY <1>0, <1>1 DEF TypeOK, Known, Counting
<1>b. \A q \in Procs : q # p /\ pc[q] \in Counting => Seg(at[q]) # Seg(at[p]) /\ Seg(at[q]) \in Segs
  BY <1>0, <1>a DEF Known
<1>c. loaded[p].count = Valid(Seg(at[p]))
  BY <1>0, <1>1, <1>a, <1>b DEF Inner, Loads, Counts, Counted, Counting
<1>d. /\ valid_blocks' = [valid_blocks EXCEPT ![Seg(at[p])] =
                             Valid(Seg(at[p])) + (IF Adds(p) THEN 1 ELSE -1)]
      /\ loaded' = [loaded EXCEPT ![p] = NothingLoaded]
  BY <1>c DEF StoreCount
<1>2. TypeOK'
  <2>1. NothingLoaded \in [count : 0 .. blocks_per_seg, map : SUBSET Offs, dirty : SUBSET Segs]
    BY RaceAssumption DEF NothingLoaded
  <2>2. loaded' \in [Procs -> [count : 0 .. blocks_per_seg, map : SUBSET Offs, dirty : SUBSET Segs]]
    BY <1>0, <2>1 DEF StoreCount, TypeOK
  <2>3. IF Adds(p) THEN ~IsValid(at[p]) ELSE IsValid(at[p])
    BY <1>0, <1>1 DEF Inner, Bits, Added, Removed, AtKnown, Adds, Counting, Finishing, Listing
  <2>4. /\ Valid(Seg(at[p])) \in 0 .. blocks_per_seg /\ blocks_per_seg \in Nat
        /\ Adds(p) => Valid(Seg(at[p])) < blocks_per_seg
        /\ ~Adds(p) => Valid(Seg(at[p])) >= 1
    BY <1>a, <2>3, MapCount, RaceAssumption DEF IsValid, Valid
  <2>5. Valid(Seg(at[p])) + (IF Adds(p) THEN 1 ELSE -1) \in 0 .. blocks_per_seg
    BY <2>4
  <2>6. valid_blocks' \in [Segs -> 0 .. blocks_per_seg]
    BY <1>0, <1>d, <2>5 DEF TypeOK
  <2> QED BY <1>0, <2>2, <2>6 DEF StoreCount, Goto, Labels, sitVars, listVars, callVars, retVars, TypeOK
<1>3. Counts'
  <2>1. \A q \in Procs : (Counted(q)' <=> Counted(q) \/ q = p) /\ (Counted(q) => q # p /\ pc[q] \in Counting)
    BY <1>1 DEF Counted, Counting, Moves
  <2>2. \A s : Valid(s)' = Valid(s)
    BY <1>1 DEF Valid
  <2>3. /\ valid_blocks'[Seg(at[p])] = Valid(Seg(at[p])) + (IF Adds(p) THEN 1 ELSE -1)
        /\ \A s \in Segs : s # Seg(at[p]) => valid_blocks'[s] = valid_blocks[s]
    BY <1>0, <1>a, <1>d DEF TypeOK
  <2>4. \A q \in Procs : Adds(q)' <=> Adds(q)
    BY <1>1 DEF Moves, Adds
  <2> QED BY <1>0, <1>1, <1>a, <1>b, <2>1, <2>2, <2>3, <2>4 DEF Inner, Counts, Valid
<1>4. Loads'
  BY <1>0, <1>1, <1>a, <1>b, <1>d DEF Inner, Loads, Moves, TypeOK, Counting
<1> QED BY <1>0, <1>1, <1>2, <1>3, <1>4, QuietInv DEF IInv, Counting

=============================================================================

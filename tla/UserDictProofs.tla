--------------------------- MODULE UserDictProofs ---------------------------
(***************************************************************************)
(* Theorems about UserDict, for any entries, files, snapshots and number of *)
(* sessions, commits and crashes.                                           *)
(***************************************************************************)
EXTENDS UserDict, TLAPS, FiniteSetTheorems, WellFoundedInduction

-----------------------------------------------------------------------------
(* The largest of some counts                                               *)

\* A finite set of integers has a largest one: a smallest subset without one
\* would lack it after its last element is put back.
LEMMA LargestExists ==
  ASSUME NEW S \in SUBSET Int, IsFiniteSet(S), S # {}
  PROVE  \E m \in S : \A n \in S : m >= n
<1> DEFINE bad == {T \in SUBSET S : T # {} /\ ~ \E m \in T : \A n \in T : m >= n}
           below == StrictSubsetOrdering(S)
<1> SUFFICES ASSUME bad # {} PROVE FALSE
  OBVIOUS
<1>1. bad \subseteq FiniteSubsetsOf(S)
  BY FS_Subset DEF FiniteSubsetsOf
<1>2. PICK T \in bad : \A U \in bad : ~ (<< U, T >> \in below)
  <2>1. IsWellFoundedOn(below, FiniteSubsetsOf(S))
    BY FS_StrictSubsetOrderingWellFounded
  <2> QED BY <1>1, <2>1, WFMin
<1>3. PICK x : x \in T
  OBVIOUS
<1> DEFINE U == T \ {x}
<1>4. U \notin bad
  <2>1. << U, T >> \in below
    BY <1>2, <1>3 DEF StrictSubsetOrdering
  <2> QED BY <1>2, <2>1
<1>5. T \in SUBSET Int /\ x \in Int
  BY <1>2, <1>3
<1>6. CASE U = {}
  BY <1>2, <1>3, <1>5, <1>6
<1>7. CASE U # {}
  <2>1. PICK m \in U : \A n \in U : m >= n
    BY <1>2, <1>4, <1>7
  <2>2. CASE m >= x
    BY <1>2, <1>5, <2>1, <2>2
  <2>3. CASE x >= m
    BY <1>2, <1>3, <1>5, <2>1, <2>3
  <2> QED BY <1>5, <2>1, <2>2, <2>3
<1> QED BY <1>6, <1>7

LEMMA MaxIsLargest ==
  ASSUME NEW S \in SUBSET Int, IsFiniteSet(S), S # {}
  PROVE  Max(S) \in S /\ \A n \in S : Max(S) >= n
BY LargestExists DEF Max

-----------------------------------------------------------------------------
(* Databases                                                                *)

\* What a database is, field by field
LEMMA StoreFields ==
  ASSUME NEW s \in Store
  PROVE  /\ s.state = "ok" /\ IsOk(s) /\ s # Missing /\ s # Broken
         /\ s.recs \in [Keys -> Record]
         /\ \A k \in Keys : s.recs[k].c \in Int /\ s.recs[k].t \in Tick
         /\ s.tick \in Tick /\ s.empty_tick \in Tick /\ s.old \in BOOLEAN
         /\ FetchTickCount(s) \in Tick /\ GetTickCount(s) \in Nat
BY DEF Store, Record, Nothing, IsOk, Missing, Broken, FetchTickCount, GetTickCount, Tick, NoTick

LEMMA StoreWith ==
  ASSUME NEW s \in Store, NEW recs \in [Keys -> Record], NEW tick \in Tick
  PROVE  /\ [s EXCEPT !.recs = recs] \in Store
         /\ [s EXCEPT !.tick = tick] \in Store
BY DEF Store

\* What is written under a key of the database leaves it one.
LEMMA PutIsStore ==
  ASSUME NEW s \in Store, NEW k \in Keys, NEW count \in Int, NEW tick \in Nat
  PROVE  /\ Put(s, k, count, tick) \in Store
         /\ Known(Put(s, k, count, tick)) = Known(s) \cup {k}
<1>1. s.recs \in [Keys -> Record]
  BY StoreFields
<1> DEFINE recs == [s.recs EXCEPT ![k] = [c |-> count, t |-> tick]]
<1>2. recs \in [Keys -> Record]
  BY <1>1 DEF Record
<1>3. Put(s, k, count, tick) = [s EXCEPT !.recs = recs]
  BY DEF Put
<1>4. [s EXCEPT !.recs = recs].recs = recs
  BY DEF Store
<1>5. Known([s EXCEPT !.recs = recs]) = Known(s) \cup {k}
  <2>1. \A j \in Keys : recs[j] = IF j = k THEN [c |-> count, t |-> tick] ELSE s.recs[j]
    BY <1>1
  <2> QED BY <1>4, <2>1 DEF Known, NoTick
<1>6. [s EXCEPT !.recs = recs] \in Store
  BY <1>2, StoreWith DEF Tick
<1> QED BY <1>3, <1>5, <1>6

LEMMA FreshIsStore ==
  /\ Fresh \in Store /\ Known(Fresh) = {}
  /\ \A s \in File : Restored(s) \in Store
<1>1. Nothing \in Record
  BY DEF Nothing, Record, Tick, NoTick
<1>2. Fresh \in Store /\ Known(Fresh) = {}
  BY <1>1 DEF Fresh, Store, Tick, NoTick, Known, Nothing
<1>3. ASSUME NEW s \in File PROVE Restored(s) \in Store
  BY <1>2 DEF Restored, File, IsOk, Missing, Broken
<1> QED BY <1>2, <1>3

LEMMA InitializedIsStore ==
  ASSUME NEW s \in Store
  PROVE  /\ Initialized(s) \in Store /\ Known(Initialized(s)) = Known(s)
         /\ FetchTickCount(Initialized(s)) \in Nat
<1>1. CASE FetchTickCount(s) = NoTick
  <2> DEFINE new == [s EXCEPT !.tick = 0]
  <2>1. new \in Store /\ new.recs = s.recs /\ new.tick = 0
    BY StoreWith DEF Store, Tick
  <2>2. Initialized(s) = new
    BY <1>1 DEF Initialized
  <2> QED BY <2>1, <2>2 DEF Known, FetchTickCount, NoTick
<1>2. CASE FetchTickCount(s) # NoTick
  BY <1>2, StoreFields DEF Initialized, Tick
<1> QED BY <1>1, <1>2

-----------------------------------------------------------------------------
(* Merging                                                                  *)

LEMMA KeysAreFinite == IsFiniteSet(Keys)
BY KeysAssumption, FS_Union DEF Keys

LEMMA MendedIsKey == \A k \in Keys : Mended(k) \in Keys
BY MendAssumption DEF Mended, Keys

\* The counts that meet at a known entry are finitely many integers.
LEMMA CountsAreFinite ==
  ASSUME NEW dest \in Store, NEW source \in Store, NEW e \in Keys
  PROVE  CountsAt(dest, source, e) \in SUBSET Int /\ IsFiniteSet(CountsAt(dest, source, e))
<1> DEFINE from == {j \in Known(source) : Mended(j) = e}
           there == Known(dest) \cap {e}
<1>1. from \in SUBSET Keys /\ there \in SUBSET Keys
  BY DEF Known
<1>2. IsFiniteSet({source.recs[k].c : k \in from})
  <2>1. IsFiniteSet(from)
    BY <1>1, KeysAreFinite, FS_Subset
  <2> HIDE DEF from
  <2> DEFINE counts == {source.recs[k].c : k \in from}
             count == [k \in from |-> source.recs[k].c]
  <2>2. count \in Surjection(from, counts)
    BY DEF Surjection
  <2> QED BY <2>1, <2>2, FS_Surjection
<1>3. IsFiniteSet({dest.recs[k].c : k \in there})
  <2>1. {dest.recs[k].c : k \in there} \in SUBSET {dest.recs[e].c}
    OBVIOUS
  <2>2. IsFiniteSet({dest.recs[e].c})
    BY FS_Singleton
  <2> QED BY <2>1, <2>2, FS_Subset
<1>4. \A k \in Keys : source.recs[k].c \in Int /\ dest.recs[k].c \in Int
  BY StoreFields
<1> QED BY <1>1, <1>2, <1>3, <1>4, FS_Union DEF CountsAt

\* the keys that a merge writes
Written(source) == {Mended(k) : k \in Known(source)}

\* A count that a merge writes is the largest of those that meet.
LEMMA MergedCountIsLargest ==
  ASSUME NEW dest \in Store, NEW source \in Store, NEW e \in Written(source)
  PROVE  /\ MergedCount(dest, source, e) \in CountsAt(dest, source, e)
         /\ \A c \in CountsAt(dest, source, e) : MergedCount(dest, source, e) >= c
<1>1. e \in Keys /\ CountsAt(dest, source, e) # {}
  BY MendedIsKey DEF Written, Known, CountsAt
<1> QED BY <1>1, CountsAreFinite, MaxIsLargest DEF MergedCount

\* Merging the entries: a record for every key of both, each with the largest
\* of the counts that meet there.
LEMMA MergeEntriesIsStore ==
  ASSUME NEW dest \in Store, NEW source \in Store
  PROVE  LET m == MergeEntries(dest, source)
         IN /\ m \in Store /\ m.tick = dest.tick
            /\ Known(m) = Known(dest) \cup Written(source)
            /\ \A k \in Known(m) : /\ m.recs[k].c \in CountsAt(dest, source, k)
                                   /\ \A c \in CountsAt(dest, source, k) :
                                        m.recs[k].c >= c
<1> DEFINE recs == [k \in Keys |->
                      IF k \in Written(source)
                      THEN [c |-> MergedCount(dest, source, k),
                            t |-> TickLeft(dest, source)]
                      ELSE dest.recs[k]]
           m == [dest EXCEPT !.recs = recs]
<1>1. TickLeft(dest, source) \in Nat /\ TickLeft(dest, source) # NoTick
  BY StoreFields DEF TickLeft, Larger, NoTick
<1>2. \A k \in Written(source) : MergedCount(dest, source, k) \in Int
  BY MergedCountIsLargest, CountsAreFinite, MendedIsKey DEF Written, Known
<1>3. recs \in [Keys -> Record]
  BY <1>1, <1>2, StoreFields DEF Record
<1>4. m \in Store /\ m.recs = recs /\ m.tick = dest.tick
  BY <1>3, StoreWith DEF Store
<1>5. Written(source) \subseteq Keys /\ Known(dest) \subseteq Keys
  BY MendedIsKey DEF Written, Known
<1>6. Known(m) = Known(dest) \cup Written(source)
  <2>1. \A k \in Keys : recs[k].t = IF k \in Written(source) THEN TickLeft(dest, source)
                                   ELSE dest.recs[k].t
    OBVIOUS
  <2> HIDE DEF recs
  <2> QED BY <1>1, <1>4, <1>5, <2>1 DEF Known
<1>7. ASSUME NEW k \in Known(m)
      PROVE  /\ m.recs[k].c \in CountsAt(dest, source, k)
             /\ \A c \in CountsAt(dest, source, k) : m.recs[k].c >= c
  <2>1. CASE k \in Written(source)
    <3>1. m.recs[k].c = MergedCount(dest, source, k)
      BY <1>4, <1>5, <2>1
    <3> QED BY <2>1, <3>1, MergedCountIsLargest
  <2>2. CASE k \notin Written(source)
    <3>1. k \in Known(dest) /\ k \in Keys
      BY <1>5, <1>6, <2>2
    <3>2. m.recs[k].c = dest.recs[k].c /\ dest.recs[k].c \in Int
      BY <1>4, <2>2, <3>1, StoreFields
    <3>3. CountsAt(dest, source, k) = {dest.recs[k].c}
      BY <2>2, <3>1 DEF CountsAt, Written
    <3> QED BY <3>2, <3>3
  <2> QED BY <2>1, <2>2
<1>8. MergeEntries(dest, source) = m
  BY DEF MergeEntries, Written
<1> HIDE DEF m, recs
<1> QED BY <1>4, <1>6, <1>7, <1>8

\* The tick comes after the entries.
LEMMA MergeTickIsStore ==
  ASSUME NEW dest \in Store, NEW source \in Store
  PROVE  LET m == MergeTick(dest, source)
         IN /\ m \in Store /\ m.recs = dest.recs /\ Known(m) = Known(dest)
            /\ m.tick = IF Known(source) = {} THEN dest.tick ELSE TickLeft(dest, source)
<1>1. CASE Known(source) = {}
  BY <1>1 DEF MergeTick
<1>2. CASE Known(source) # {}
  <2>1. TickLeft(dest, source) \in Tick
    BY StoreFields DEF TickLeft, Larger, Tick, NoTick
  <2> DEFINE m == [dest EXCEPT !.tick = TickLeft(dest, source)]
  <2>2. m \in Store /\ m.recs = dest.recs /\ m.tick = TickLeft(dest, source)
    BY <2>1, StoreWith DEF Store
  <2>3. MergeTick(dest, source) = m
    BY <1>2 DEF MergeTick
  <2> HIDE DEF m
  <2> QED BY <1>2, <2>2, <2>3 DEF Known
<1> QED BY <1>1, <1>2

LEMMA MergeIsStore ==
  ASSUME NEW dest \in Store, NEW source \in Store
  PROVE  LET m == Merge(dest, source)
         IN /\ m \in Store
            /\ Known(m) = Known(dest) \cup Written(source)
            /\ \A k \in Known(m) : /\ m.recs[k].c \in CountsAt(dest, source, k)
                                   /\ \A c \in CountsAt(dest, source, k) :
                                        m.recs[k].c >= c
            /\ m.tick = IF Known(source) = {} THEN dest.tick ELSE TickLeft(dest, source)
<1> DEFINE m1 == MergeEntries(dest, source)
           m2 == MergeTick(m1, source)
<1>1. /\ m1 \in Store /\ m1.tick = dest.tick
      /\ Known(m1) = Known(dest) \cup Written(source)
      /\ \A k \in Known(m1) : /\ m1.recs[k].c \in CountsAt(dest, source, k)
                              /\ \A c \in CountsAt(dest, source, k) : m1.recs[k].c >= c
  BY MergeEntriesIsStore
<1>2. TickLeft(m1, source) = TickLeft(dest, source)
  BY <1>1 DEF TickLeft, GetTickCount
<1>3. Merge(dest, source) = m2
  BY DEF Merge
<1> HIDE DEF m1
<1>4. /\ m2 \in Store /\ m2.recs = m1.recs /\ Known(m2) = Known(m1)
      /\ m2.tick = IF Known(source) = {} THEN m1.tick ELSE TickLeft(m1, source)
  BY <1>1, MergeTickIsStore
<1> HIDE DEF m2
<1> QED BY <1>1, <1>2, <1>3, <1>4

\* Merging twice: the largest of all the counts that meet
LEMMA MergedTwice ==
  ASSUME NEW dest \in Store, NEW r \in Store, NEW s \in Store
  PROVE  LET m == Merge(Merge(dest, r), s)
             meet(k) == CountsAt(dest, r, k) \cup CountsAt(dest, s, k)
         IN /\ m \in Store
            /\ Known(m) = Known(dest) \cup Written(r) \cup Written(s)
            /\ \A k \in Known(m) : /\ m.recs[k].c \in meet(k)
                                   /\ \A c \in meet(k) : m.recs[k].c >= c
            /\ m.tick = IF Known(s) = {} THEN Merge(dest, r).tick
                        ELSE TickLeft(Merge(dest, r), s)
<1> DEFINE m1 == Merge(dest, r)
           m2 == Merge(m1, s)
           meet(k) == CountsAt(dest, r, k) \cup CountsAt(dest, s, k)
           from(k) == {s.recs[j].c : j \in {j \in Known(s) : Mended(j) = k}}
<1>1. /\ m1 \in Store /\ Known(m1) = Known(dest) \cup Written(r)
      /\ \A k \in Known(m1) : /\ m1.recs[k].c \in CountsAt(dest, r, k)
                              /\ \A c \in CountsAt(dest, r, k) : m1.recs[k].c >= c
  BY MergeIsStore
<1> HIDE DEF m1
<1>2. /\ m2 \in Store /\ Known(m2) = Known(m1) \cup Written(s)
      /\ \A k \in Known(m2) : /\ m2.recs[k].c \in CountsAt(m1, s, k)
                              /\ \A c \in CountsAt(m1, s, k) : m2.recs[k].c >= c
      /\ m2.tick = IF Known(s) = {} THEN m1.tick ELSE TickLeft(m1, s)
  BY <1>1, MergeIsStore
<1> HIDE DEF m2
<1>3. ASSUME NEW k \in Known(m2)
      PROVE  /\ m2.recs[k].c \in meet(k)
             /\ \A c \in meet(k) : m2.recs[k].c >= c
  <2>1. k \in Keys
    BY DEF Known
  <2>2. CountsAt(m1, s, k) = from(k) \cup {m1.recs[j].c : j \in Known(m1) \cap {k}}
    BY DEF CountsAt
  <2>3. from(k) \subseteq meet(k)
    BY DEF CountsAt
  <2>4. m2.recs[k].c \in meet(k)
    BY <1>1, <1>2, <2>2, <2>3
  <2>5. ASSUME NEW c \in CountsAt(dest, r, k) PROVE m2.recs[k].c >= c
    <3>1. k \in Known(m1)
      BY <1>1 DEF CountsAt, Written
    <3>2. m1.recs[k].c >= c /\ m2.recs[k].c >= m1.recs[k].c
      BY <1>1, <1>2, <2>2, <3>1
    <3>3. c \in Int /\ m1.recs[k].c \in Int /\ m2.recs[k].c \in Int
      BY <1>1, <1>2, <2>1, CountsAreFinite, StoreFields
    <3> QED BY <3>2, <3>3
  <2>6. ASSUME NEW c \in CountsAt(dest, s, k) PROVE m2.recs[k].c >= c
    <3>1. CASE c \in from(k)
      BY <1>2, <2>2, <3>1
    <3>2. CASE c \notin from(k)
      <4>1. c \in CountsAt(dest, r, k)
        BY <3>2 DEF CountsAt
      <4> QED BY <2>5, <4>1
    <3> QED BY <3>1, <3>2
  <2> QED BY <2>4, <2>5, <2>6
<1>4. Known(m2) = Known(dest) \cup Written(r) \cup Written(s)
  BY <1>1, <1>2
<1>5. Merge(Merge(dest, r), s) = m2 /\ Merge(dest, r) = m1
  BY DEF m1, m2
<1> QED BY <1>2, <1>3, <1>4, <1>5

\* Databases that know the same, with the largest of the same counts and the
\* same tick, are counted alike.
LEMMA CountedAlike ==
  ASSUME NEW f \in Store, NEW g \in Store, NEW meet, meet \in [Known(f) -> SUBSET Int],
         Known(f) = Known(g), f.tick = g.tick,
         \A k \in Known(f) :
           /\ f.recs[k].c \in meet[k] /\ \A c \in meet[k] : f.recs[k].c >= c
           /\ g.recs[k].c \in meet[k] /\ \A c \in meet[k] : g.recs[k].c >= c
  PROVE  Counted(f) = Counted(g)
<1>1. ASSUME NEW k \in Known(f) PROVE f.recs[k].c = g.recs[k].c
  <2>1. f.recs[k].c \in Int /\ g.recs[k].c \in Int
    OBVIOUS
  <2>2. f.recs[k].c >= g.recs[k].c /\ g.recs[k].c >= f.recs[k].c
    OBVIOUS
  <2> QED BY <2>1, <2>2
<1> QED BY <1>1 DEF Counted

LEMMA MergeTicksCommute ==
  ASSUME NEW dest \in Store, NEW r \in Store, NEW s \in Store
  PROVE  /\ Merge(Merge(dest, r), s).tick = Merge(Merge(dest, s), r).tick
         /\ Merge(Merge(dest, r), r).tick = Merge(dest, r).tick
<1>1. ASSUME NEW d \in Store, NEW x \in Store
      PROVE  /\ Merge(d, x).tick = IF Known(x) = {} THEN d.tick ELSE TickLeft(d, x)
             /\ Known(x) # {} => GetTickCount(Merge(d, x)) = TickLeft(d, x)
             /\ Known(x) = {} => GetTickCount(Merge(d, x)) = GetTickCount(d)
             /\ Merge(d, x) \in Store
             /\ GetTickCount(d) \in Nat
  <2>1. Merge(d, x) \in Store /\ GetTickCount(d) \in Nat /\ GetTickCount(x) \in Nat
        /\ Merge(d, x).tick = IF Known(x) = {} THEN d.tick ELSE TickLeft(d, x)
    BY MergeIsStore, StoreFields
  <2>2. TickLeft(d, x) \in Nat
    BY <2>1 DEF TickLeft, Larger
  <2> QED BY <2>1, <2>2 DEF GetTickCount, NoTick
<1>2. \A x, y \in Store : Merge(Merge(dest, x), y).tick =
        IF Known(y) = {} THEN Merge(dest, x).tick ELSE TickLeft(Merge(dest, x), y)
  BY <1>1
<1>3. /\ GetTickCount(dest) \in Nat /\ GetTickCount(r) \in Nat
      /\ GetTickCount(s) \in Nat
  BY <1>1
<1> DEFINE after(x) == GetTickCount(Merge(dest, x))
<1>4. \A x \in Store :
        after(x) = IF Known(x) = {} THEN GetTickCount(dest)
                   ELSE Larger(GetTickCount(dest), GetTickCount(x))
  BY <1>1 DEF TickLeft
<1>5. \A x, y \in Store : Merge(Merge(dest, x), y).tick =
        IF Known(y) = {} THEN Merge(dest, x).tick ELSE Larger(after(x), GetTickCount(y))
  BY <1>2 DEF TickLeft
<1>6. \A x \in Store : Merge(dest, x).tick =
        IF Known(x) = {} THEN dest.tick ELSE Larger(GetTickCount(dest), GetTickCount(x))
  BY <1>1 DEF TickLeft
<1> HIDE DEF after
<1> QED BY <1>3, <1>4, <1>5, <1>6 DEF Larger

\* What restoring in any order rests on
LEMMA MergesCommute ==
  ASSUME NEW dest \in Store, NEW r \in Store, NEW s \in Store
  PROVE  /\ Counted(Merge(Merge(dest, r), s)) = Counted(Merge(Merge(dest, s), r))
         /\ Counted(Merge(Merge(dest, r), r)) = Counted(Merge(dest, r))
<1> DEFINE rs == Merge(Merge(dest, r), s)
           sr == Merge(Merge(dest, s), r)
           rr == Merge(Merge(dest, r), r)
           r1 == Merge(dest, r)
           meet == [k \in Known(rs) |-> CountsAt(dest, r, k) \cup CountsAt(dest, s, k)]
           meet1 == [k \in Known(r1) |-> CountsAt(dest, r, k)]
<1>1. /\ rs \in Store /\ sr \in Store /\ Known(rs) = Known(sr)
      /\ \A k \in Known(rs) :
           /\ rs.recs[k].c \in meet[k] /\ \A c \in meet[k] : rs.recs[k].c >= c
           /\ sr.recs[k].c \in meet[k] /\ \A c \in meet[k] : sr.recs[k].c >= c
  <2> DEFINE at(k) == CountsAt(dest, r, k) \cup CountsAt(dest, s, k)
  <2>1. /\ rs \in Store /\ Known(rs) = Known(dest) \cup Written(r) \cup Written(s)
        /\ \A k \in Known(rs) :
             rs.recs[k].c \in at(k) /\ \A c \in at(k) : rs.recs[k].c >= c
    BY MergedTwice
  <2>2. /\ sr \in Store /\ Known(sr) = Known(dest) \cup Written(s) \cup Written(r)
        /\ \A k \in Known(sr) :
             sr.recs[k].c \in at(k) /\ \A c \in at(k) : sr.recs[k].c >= c
    BY MergedTwice
  <2>3. \A k \in Known(rs) : meet[k] = at(k)
    OBVIOUS
  <2> HIDE DEF rs, sr, meet, at
  <2> QED BY <2>1, <2>2, <2>3
<1>2. /\ rr \in Store /\ r1 \in Store /\ Known(rr) = Known(r1)
      /\ \A k \in Known(r1) :
           /\ r1.recs[k].c \in meet1[k] /\ \A c \in meet1[k] : r1.recs[k].c >= c
           /\ rr.recs[k].c \in meet1[k] /\ \A c \in meet1[k] : rr.recs[k].c >= c
  <2> DEFINE at(k) == CountsAt(dest, r, k)
  <2>1. /\ rr \in Store /\ Known(rr) = Known(dest) \cup Written(r) \cup Written(r)
        /\ \A k \in Known(rr) :
             rr.recs[k].c \in at(k) /\ \A c \in at(k) : rr.recs[k].c >= c
    BY MergedTwice
  <2>2. /\ r1 \in Store /\ Known(r1) = Known(dest) \cup Written(r)
        /\ \A k \in Known(r1) :
             r1.recs[k].c \in at(k) /\ \A c \in at(k) : r1.recs[k].c >= c
    BY MergeIsStore
  <2>3. \A k \in Known(r1) : meet1[k] = at(k)
    OBVIOUS
  <2> HIDE DEF rr, r1, meet1, at
  <2> QED BY <2>1, <2>2, <2>3
<1>3. meet \in [Known(rs) -> SUBSET Int] /\ meet1 \in [Known(r1) -> SUBSET Int]
  <2>1. Known(rs) \subseteq Keys /\ Known(r1) \subseteq Keys
    BY DEF Known
  <2> QED BY <2>1, CountsAreFinite
<1>4. rs.tick = sr.tick /\ rr.tick = r1.tick
  BY MergeTicksCommute
<1> HIDE DEF rs, sr, rr, r1, meet, meet1
<1>5. Counted(rs) = Counted(sr)
  BY <1>1, <1>3, <1>4, CountedAlike
<1>6. Counted(r1) = Counted(rr)
  BY <1>2, <1>3, <1>4, CountedAlike
<1> QED BY <1>5, <1>6 DEF rs, sr, rr, r1

-----------------------------------------------------------------------------
(* What the handlers write                                                  *)

\* What a commit, a deletion or an imported line writes is a database that knows
\* no less than before.
LEMMA CommittedIsStore ==
  ASSUME NEW s \in Store, NEW e \in Entries, NEW parts \in SUBSET Entries,
         NEW old \in Nat, NEW tick \in Nat
  PROVE  LET touched == Touched(s, parts, old)
             new == Committed([touched EXCEPT !.tick = tick], e, tick)
         IN /\ touched \in Store /\ new \in Store /\ Known(s) \subseteq Known(new)
<1> DEFINE recs == [k \in Keys |->
                      IF k \in parts THEN [c |-> s.recs[k].c, t |-> old] ELSE s.recs[k]]
           touched == [s EXCEPT !.recs = recs]
           ticked == [touched EXCEPT !.tick = tick]
<1>1. e \in Keys /\ tick \in Tick /\ old \in Tick /\ tick # NoTick /\ old # NoTick
  BY DEF Keys, Tick, NoTick
<1>2. recs \in [Keys -> Record]
  BY <1>1, StoreFields DEF Record
<1>3. touched \in Store /\ touched.recs = recs
  BY <1>2, StoreWith DEF Store
<1>4. Known(s) \subseteq Known(touched)
  <2>1. \A k \in Keys : recs[k].t = IF k \in parts THEN old ELSE s.recs[k].t
    OBVIOUS
  <2> HIDE DEF recs
  <2> QED BY <1>1, <1>3, <2>1 DEF Known
<1>5. Touched(s, parts, old) = touched
  BY DEF Touched
<1> HIDE DEF touched
<1>6. ticked \in Store /\ ticked.recs = touched.recs
  BY <1>1, <1>3, StoreWith DEF Store
<1> HIDE DEF ticked
<1>7. Size(ticked.recs[e].c) + 1 \in Int
  BY <1>1, <1>6, StoreFields DEF Size
<1>8. /\ Committed(ticked, e, tick) \in Store
      /\ Known(Committed(ticked, e, tick)) = Known(ticked) \cup {e}
  BY <1>1, <1>6, <1>7, PutIsStore DEF Committed
<1>9. Known(ticked) = Known(touched)
  BY <1>6 DEF Known
<1> QED BY <1>3, <1>4, <1>5, <1>8, <1>9 DEF ticked

LEMMA DeletedIsStore ==
  ASSUME NEW s \in Store, NEW e \in Entries, NEW tick \in Nat
  PROVE  Deleted(s, e, tick) \in Store /\ Known(s) \subseteq Known(Deleted(s, e, tick))
<1>1. e \in Keys
  BY DEF Keys
<1>2. - Larger(1, s.recs[e].c) \in Int
  BY <1>1, StoreFields DEF Larger
<1> QED BY <1>1, <1>2, PutIsStore DEF Deleted

LEMMA ImportedIsStore ==
  ASSUME NEW s \in Store, NEW e \in Entries, NEW n \in Int
  PROVE  ImportEntry(s, e, n) \in Store /\ Known(s) \subseteq Known(ImportEntry(s, e, n))
<1> DEFINE count == IF n > 0 THEN Larger(n, s.recs[e].c)
                    ELSE IF n < 0 THEN n ELSE s.recs[e].c
           tick == Larger(0, s.recs[e].t)
<1>1. e \in Keys
  BY DEF Keys
<1>2. s.recs[e].c \in Int /\ s.recs[e].t \in Tick
  BY <1>1, StoreFields
<1>3. count \in Int /\ tick \in Nat
  BY <1>2 DEF Larger, Tick, NoTick
<1>4. ImportEntry(s, e, n) = Put(s, e, count, tick)
  BY DEF ImportEntry
<1> HIDE DEF count, tick
<1> QED BY <1>1, <1>3, <1>4, PutIsStore

LEMMA OpenedIsStore ==
  ASSUME file \in File, snapshot \in File
  PROVE  Opened \in Store
<1>1. CASE file = Missing
  BY <1>1, FreshIsStore DEF Opened
<1>2. CASE file = Broken
  BY <1>2, FreshIsStore DEF Opened, Missing, Broken
<1>3. CASE file # Missing /\ file # Broken
  BY <1>3 DEF Opened, File
<1> QED BY <1>1, <1>2, <1>3

-----------------------------------------------------------------------------
(* The types, and what goes with a stage                                    *)

\* A session that is loading waits for a recovery; whoever opens the file while
\* no session does has a snapshot in hand.
TaskInv ==
  /\ \A d \in Dicts : dicts[d] = Loading => stage = "recover"
  /\ \A d, e \in Dicts : dicts[d] = Loading /\ dicts[e] = Loading => d = e
  /\ stage = "recover" => Loaded
  /\ Loaded => ~ NoSession
  /\ stage \in {"remove", "merge", "tick"} => src \in Store /\ NoSession
  /\ stage = "remove" => file = src
  /\ stage = "tick" => file \in Store

LEMMA InitTypes == Init => TypeOK /\ TaskInv
<1> SUFFICES ASSUME Init PROVE TypeOK /\ TaskInv
  OBVIOUS
<1>1. dicts \in [Dicts -> Nat \cup {Off, Loading}] /\ commits \in [Entries -> 0 .. MaxCount]
  BY BoundAssumption DEF Init
<1>2. crashes \in 0 .. MaxCrashes
  BY BoundAssumption DEF Init
<1>3. TypeOK
  BY <1>1, <1>2, FilesAssumption DEF Init, TypeOK, File, Stages
<1>4. TaskInv
  BY DEF Init, TaskInv, Loaded, Off, Loading
<1> QED BY <1>3, <1>4

LEMMA NextTypes == TypeOK /\ TaskInv /\ [Next]_vars => TypeOK' /\ TaskInv'
<1> SUFFICES ASSUME TypeOK, TaskInv, [Next]_vars PROVE TypeOK' /\ TaskInv'
  OBVIOUS
<1> USE DEF disk, history, task
<1>0. /\ Missing \notin Store /\ Broken \notin Store /\ Missing # Broken
      /\ Off \notin Nat /\ Loading \notin Nat /\ Off # Loading
  BY DEF Store, Missing, Broken, Off, Loading
<1>1. ASSUME NEW d \in Dicts, LoadShared(d) PROVE TypeOK' /\ TaskInv'
  <2>1. dicts' \in [Dicts -> Nat \cup {Off, Loading}]
    BY <1>1 DEF LoadShared, TypeOK
  <2>2. TypeOK'
    BY <1>1, <2>1 DEF LoadShared, TypeOK
  <2> QED BY <1>0, <1>1, <2>2 DEF LoadShared, TaskInv, TypeOK, Loaded, NoSession
<1>2. ASSUME NEW d \in Dicts, LoadFile(d) PROVE TypeOK' /\ TaskInv'
  <2>1. file' \in Store
    BY <1>2, FreshIsStore DEF LoadFile, TypeOK, File
  <2>2. db' \in Store /\ FetchTickCount(db') \in Nat
    BY <1>2, <2>1, InitializedIsStore DEF LoadFile
  <2>3. dicts' \in [Dicts -> Nat \cup {Off, Loading}]
    BY <1>2, <2>2 DEF LoadFile, TypeOK
  <2>4. TypeOK'
    BY <1>2, <2>1, <2>2, <2>3 DEF LoadFile, TypeOK, File
  <2>5. dicts'[d] \in Nat
    BY <1>2, <2>2 DEF LoadFile, TypeOK
  <2> QED BY <1>0, <1>2, <2>4, <2>5 DEF LoadFile, TaskInv, TypeOK, Loaded, NoSession
<1>3. ASSUME NEW d \in Dicts, LoadNothing(d) PROVE TypeOK' /\ TaskInv'
  <2>1. dicts' \in [Dicts -> Nat \cup {Off, Loading}]
    BY <1>3 DEF LoadNothing, TypeOK
  <2>2. TypeOK'
    BY <1>3, <2>1 DEF LoadNothing, TypeOK
  <2> QED BY <1>0, <1>3, <2>2 DEF LoadNothing, TaskInv, TypeOK, Loaded, NoSession
<1>4. ASSUME NEW d \in Dicts, LoadBroken(d) PROVE TypeOK' /\ TaskInv'
  <2>1. dicts' \in [Dicts -> Nat \cup {Off, Loading}]
    BY <1>4 DEF LoadBroken, TypeOK
  <2>2. owed' \in SUBSET Keys
    BY <1>4 DEF LoadBroken, Known
  <2>3. file' \in Store /\ db' \in Store
    BY <1>4, FreshIsStore DEF LoadBroken
  <2>4. TypeOK'
    BY <1>4, <2>1, <2>2, <2>3 DEF LoadBroken, TypeOK, File, Stages
  <2> QED BY <1>0, <1>4, <2>3, <2>4 DEF LoadBroken, TaskInv, TypeOK, Loaded, NoSession
<1>5. ASSUME NEW d \in Dicts, Recover(d) PROVE TypeOK' /\ TaskInv'
  <2>1. Restored(snapshot) \in Store
    BY FreshIsStore DEF TypeOK
  <2>2. db' \in Store /\ FetchTickCount(db') \in Nat
    BY <1>5, <2>1, InitializedIsStore DEF Recover
  <2>3. dicts' \in [Dicts -> Nat \cup {Off, Loading}] /\ dicts'[d] \in Nat
    BY <1>5, <2>2 DEF Recover, TypeOK
  <2>4. TypeOK'
    BY <1>5, <2>2, <2>3 DEF Recover, TypeOK, Stages
  <2> QED BY <1>0, <1>5, <2>3, <2>4 DEF Recover, TaskInv, TypeOK, Loaded, NoSession
<1>6. ASSUME NEW d \in Dicts, Close(d) PROVE TypeOK' /\ TaskInv'
  <2>1. dicts' \in [Dicts -> Nat \cup {Off, Loading}]
    BY <1>6 DEF Close, TypeOK
  <2>2. (file' = db /\ Loaded /\ db' = Missing) \/ UNCHANGED << file, db >>
    BY <1>6 DEF Close
  <2>3. TypeOK'
    BY <1>6, <2>1, <2>2 DEF Close, TypeOK, File, Loaded
  <2>4. Loaded' => ~ NoSession'
    <3>1. CASE Loaded /\ \A other \in Dicts \ {d} : dicts[other] = Off
      BY <1>6, <3>1 DEF Close, Loaded
    <3>2. CASE Loaded /\ \E other \in Dicts \ {d} : dicts[other] # Off
      BY <1>6, <3>2 DEF Close, NoSession, TypeOK
    <3>3. CASE ~ Loaded
      BY <1>6, <3>3 DEF Close, Loaded
    <3> QED BY <3>1, <3>2, <3>3
  <2> QED BY <1>0, <1>6, <2>3, <2>4 DEF Close, TaskInv, TypeOK
<1>7. ASSUME NEW d \in Dicts, InUse(d) PROVE dicts[d] \in Nat /\ db \in Store /\ stage = "idle"
  BY <1>0, <1>7 DEF InUse, TaskInv, TypeOK, Loaded
<1>8. ASSUME NEW d \in Dicts, InUse(d) PROVE Refreshed(dicts[d]) \in Nat
  BY <1>7, <1>8, StoreFields DEF Refreshed, Tick, NoTick
<1>9. ASSUME NEW d \in Dicts, InUse(d), UNCHANGED << file, stage, src, crashes, owed >>,
             db' \in Store, snapshot' \in File, commits' \in [Entries -> 0 .. MaxCount],
             rejected' \subseteq Entries,
             NEW tick \in Nat, dicts' = [dicts EXCEPT ![d] = tick]
      PROVE  TypeOK' /\ TaskInv'
  <2>1. dicts' \in [Dicts -> Nat \cup {Off, Loading}] /\ dicts'[d] = tick
    BY <1>9 DEF TypeOK
  <2>2. TypeOK'
    BY <1>9, <2>1 DEF TypeOK
  <2>3. ~ NoSession'
    BY <1>0, <2>1 DEF NoSession
  <2>4. \A e \in Dicts : dicts'[e] # Loading
    BY <1>0, <1>7, <1>9, <2>1 DEF TaskInv, TypeOK
  <2> QED BY <1>7, <1>9, <2>2, <2>3, <2>4 DEF TaskInv
<1>10. ASSUME NEW d \in Dicts, Lookup(d) PROVE TypeOK' /\ TaskInv'
  BY <1>7, <1>8, <1>9, <1>10 DEF Lookup, TypeOK
<1>11. ASSUME NEW d \in Dicts, NEW e \in Entries, NEW parts \in SUBSET (Entries \ {e}),
              Commit(d, parts, e)
       PROVE  TypeOK' /\ TaskInv'
  <2> DEFINE tick == dicts[d] + 1
             touched == Touched(db, parts, dicts[d])
  <2>1. InUse(d) /\ dicts[d] \in Nat /\ tick \in Nat /\ db \in Store
    BY <1>7, <1>11 DEF Commit
  <2>2. touched \in Store /\ Committed([touched EXCEPT !.tick = tick], e, tick) \in Store
    BY <2>1, CommittedIsStore
  <2>3. /\ dicts' = [dicts EXCEPT ![d] = tick]
        /\ db' = Committed([touched EXCEPT !.tick = tick], e, tick)
        /\ snapshot' = IF BackupDue(tick) THEN touched ELSE snapshot
        /\ UNCHANGED << file, stage, src, crashes, owed >>
        /\ rejected' \subseteq Entries
    BY <1>11 DEF Commit, TypeOK
  <2>4. commits' \in [Entries -> 0 .. MaxCount]
    BY <1>11, BoundAssumption DEF Commit, TypeOK
  <2> HIDE DEF tick, touched
  <2>5. snapshot' \in File /\ db' \in Store
    BY <2>2, <2>3 DEF File, TypeOK
  <2> QED BY <1>9, <2>1, <2>3, <2>4, <2>5
<1>12. ASSUME NEW d \in Dicts, NEW e \in Entries, Delete(d, e) PROVE TypeOK' /\ TaskInv'
  <2>1. InUse(d) /\ dicts[d] \in Nat /\ db \in Store /\ Refreshed(dicts[d]) \in Nat
    BY <1>7, <1>8, <1>12 DEF Delete
  <2>2. db' \in Store
    BY <1>12, <2>1, DeletedIsStore DEF Delete
  <2>3. PICK tick \in Nat : dicts' = [dicts EXCEPT ![d] = tick]
    BY <1>12, <2>1 DEF Delete
  <2> QED BY <1>9, <1>12, <2>1, <2>2, <2>3 DEF Delete, TypeOK
\* The manager: no session, so that nothing is loaded
<1>13. ASSUME Closed PROVE ~ Loaded /\ \A d \in Dicts : dicts[d] # Loading
  BY <1>0, <1>13 DEF Closed, TaskInv, NoSession
<1>14. CASE Backup
  BY <1>13, <1>14 DEF Backup, Closed, TypeOK, TaskInv, Loaded, NoSession
<1>15. ASSUME NEW e \in Entries, NEW n \in Imports, Import(e, n) PROVE TypeOK' /\ TaskInv'
  <2>1. file' \in Store
    BY <1>15, OpenedIsStore, ImportedIsStore, ImportAssumption DEF Import, TypeOK
  <2> QED BY <1>13, <1>15, <2>1 DEF Import, Closed, TypeOK, File, TaskInv, Loaded, NoSession
<1>16. ASSUME NEW s \in Foreign \cup {snapshot}, Restore(s) PROVE TypeOK' /\ TaskInv'
  <2>1. s \in Store
    BY <1>16, FilesAssumption DEF Restore, IsOk, TypeOK, File, Missing, Broken
  <2> QED BY <1>13, <1>16, <2>1 DEF Restore, Closed, TypeOK, Stages, TaskInv, Loaded, NoSession
<1>17. CASE MergeFails
  BY <1>17 DEF MergeFails, TypeOK, Stages, TaskInv, Loaded, NoSession
<1>18. CASE RestoreEntries
  <2>1. file' \in Store
    BY <1>18, OpenedIsStore, MergeEntriesIsStore DEF RestoreEntries, TypeOK, TaskInv
  <2> QED BY <1>18, <2>1 DEF RestoreEntries, TypeOK, Stages, File, TaskInv, Loaded, NoSession
<1>19. CASE RestoreTick
  <2>1. file' \in Store
    BY <1>19, MergeTickIsStore DEF RestoreTick, TaskInv
  <2> QED BY <1>19, <2>1 DEF RestoreTick, TypeOK, Stages, File, TaskInv, Loaded, NoSession
<1>20. CASE UpgradeBackup
  <2>1. file \in Store
    BY <1>20 DEF UpgradeBackup, CanUpgrade, IsOk, TypeOK, File, Missing, Broken
  <2> QED BY <1>13, <1>20, <2>1
          DEF UpgradeBackup, CanUpgrade, Closed, TypeOK, Stages, File, TaskInv, Loaded, NoSession
<1>21. CASE UpgradeRemove
  BY <1>21 DEF UpgradeRemove, TypeOK, Stages, File, TaskInv, Loaded, NoSession
<1>22. ASSUME Dies, snapshot' \in File PROVE TypeOK' /\ TaskInv'
  <2>1. file' \in File
    BY <1>22 DEF Dies, Survivors, TypeOK, File, Loaded
  <2>2. crashes' \in 0 .. MaxCrashes
    BY <1>22, BoundAssumption DEF Dies, TypeOK
  <2>3. dicts' \in [Dicts -> Nat \cup {Off, Loading}] /\ \A d \in Dicts : dicts'[d] # Loading
    BY <1>0, <1>22 DEF Dies
  <2>4. TypeOK'
    BY <1>22, <2>1, <2>2, <2>3 DEF Dies, TypeOK, Stages
  <2> QED BY <1>22, <2>3, <2>4 DEF Dies, TaskInv, Loaded
<1>23. CASE Crash \/ CrashInBackup
  BY <1>22, <1>23 DEF Crash, CrashInBackup, TypeOK, File
<1>24. CASE UNCHANGED vars
  BY <1>24 DEF vars, TypeOK, TaskInv, Loaded, NoSession
<1> QED
  BY <1>1, <1>2, <1>3, <1>4, <1>5, <1>6, <1>10, <1>11, <1>12, <1>14, <1>15, <1>16, <1>17,
     <1>18, <1>19, <1>20, <1>21, <1>23, <1>24 DEF Next

\* The variables keep their types, whatever crashes and whoever restores.
THEOREM TypeCorrect == Spec => []TypeOK
<1>1. Init => TypeOK /\ TaskInv
  BY InitTypes
<1>2. TypeOK /\ TaskInv /\ [Next]_vars => TypeOK' /\ TaskInv'
  BY NextTypes
<1> QED BY <1>1, <1>2, PTL DEF Spec

\* Two machines that exchange their snapshots end with the same counts and the
\* same tick, whichever is merged first and however often
\* (UserDictManager::Restore).
THEOREM AnyOrder == Spec => []RestoreInAnyOrder
<1>1. ASSUME TypeOK PROVE RestoreInAnyOrder
  <2> DEFINE sources == {s \in Foreign \cup {snapshot} : IsOk(s)}
  <2> SUFFICES ASSUME Closed, IsOk(file), NEW r \in sources, NEW s \in sources
               PROVE  Counted(Merge(Merge(file, r), s)) =
                        IF r = s THEN Counted(Merge(file, r))
                        ELSE Counted(Merge(Merge(file, s), r))
    BY DEF RestoreInAnyOrder
  <2>1. file \in Store /\ r \in Store /\ s \in Store
    BY <1>1, FilesAssumption DEF TypeOK, File, IsOk, Missing, Broken
  <2> QED BY <2>1, MergesCommute
<1> QED BY <1>1, TypeCorrect, PTL

-----------------------------------------------------------------------------
(* What is owed after damage                                                *)

\* Something is left of every entry that is owed.
Kept(known) == \A k \in owed : {k, Mended(k)} \cap known # {}

\* The promise follows the data: from the snapshot to the open database, to
\* its file, and while an upgrade has removed that, to the copy in hand.
OwedInv ==
  /\ stage = "recover" => owed \subseteq Known(Restored(snapshot))
  /\ Loaded /\ stage = "idle" => Kept(Known(db))
  /\ ~ Loaded /\ file \in Store => Kept(Known(file))
  /\ ~ Loaded /\ file = Missing => IF stage = "merge" THEN Kept(Known(src)) ELSE owed = {}
  /\ ~ Loaded /\ file = Broken => owed = {}

LEMMA KeptGrows ==
  ASSUME NEW more, NEW known \in SUBSET more, Kept(known)
  PROVE  Kept(more)
BY DEF Kept

\* A mangled key is mended once and for all.
LEMMA KeptWhenMerged ==
  ASSUME owed \subseteq Keys, NEW source \in Store, Kept(Known(source))
  PROVE  Kept(Written(source))
<1> SUFFICES ASSUME NEW k \in owed PROVE Mended(k) \in Written(source)
  BY DEF Kept
<1>1. Mended(Mended(k)) = Mended(k)
  BY MendAssumption DEF Mended, Keys
<1>2. k \in Known(source) \/ Mended(k) \in Known(source)
  BY DEF Kept
<1> QED BY <1>1, <1>2 DEF Written

LEMMA NextOwed == TypeOK /\ TaskInv /\ OwedInv /\ [Next]_vars => OwedInv'
<1> SUFFICES ASSUME TypeOK, TaskInv, OwedInv, [Next]_vars PROVE OwedInv'
  OBVIOUS
<1> USE DEF disk, history, task
<1>0. /\ Missing \notin Store /\ Broken \notin Store /\ Missing # Broken
      /\ Off # Loading /\ owed \subseteq Keys
  BY DEF Store, Missing, Broken, Off, Loading, TypeOK
\* A handler of a session only adds to the open database.
<1>1. ASSUME Loaded, stage = "idle", stage' = "idle", owed' = owed, db' \in Store,
             Known(db) \subseteq Known(db')
      PROVE  OwedInv'
  BY <1>0, <1>1, KeptGrows DEF OwedInv, Kept, Loaded
\* The manager only adds to the file.
<1>2. ASSUME ~ Loaded, db' = db, owed' = owed, stage' # "recover",
             file' \in Store, Kept(Known(file'))
      PROVE  OwedInv'
  BY <1>0, <1>2 DEF OwedInv, Kept, Loaded
<1>3. ASSUME ~ Loaded, CanOpen, stage # "merge" PROVE Kept(Known(Opened))
  BY <1>0, <1>3 DEF OwedInv, Kept, Opened, TypeOK, File
<1>4. ASSUME Closed PROVE ~ Loaded /\ stage = "idle"
  BY <1>4 DEF Closed, TaskInv
<1>5. ASSUME NEW d \in Dicts, LoadShared(d) PROVE OwedInv'
  BY <1>5 DEF LoadShared, OwedInv, Kept, Loaded
<1>6. ASSUME NEW d \in Dicts, LoadFile(d) PROVE OwedInv'
  <2>1. file' \in Store /\ Kept(Known(file'))
    BY <1>0, <1>6, FreshIsStore DEF LoadFile, OwedInv, Kept, TypeOK, File
  <2>2. db' \in Store /\ Known(db') = Known(file')
    BY <1>6, <2>1, InitializedIsStore DEF LoadFile
  <2> QED BY <1>0, <1>6, <2>1, <2>2 DEF LoadFile, OwedInv, Kept, Loaded
<1>7. ASSUME NEW d \in Dicts, LoadNothing(d) PROVE OwedInv'
  BY <1>7 DEF LoadNothing, OwedInv, Kept, Loaded
<1>8. ASSUME NEW d \in Dicts, LoadBroken(d) PROVE OwedInv'
  <2>1. db' \in Store
    BY <1>8, FreshIsStore DEF LoadBroken
  <2> QED BY <1>0, <1>8, <2>1 DEF LoadBroken, OwedInv, Restored, Loaded
<1>9. ASSUME NEW d \in Dicts, Recover(d) PROVE OwedInv'
  <2>1. /\ db' \in Store /\ Known(db') = Known(Restored(snapshot))
        /\ stage = "recover" /\ stage' = "idle" /\ owed' = owed
    BY <1>9, FreshIsStore, InitializedIsStore DEF Recover, TypeOK
  <2> QED BY <1>0, <2>1 DEF OwedInv, Kept, Loaded
<1>10. ASSUME NEW d \in Dicts, Close(d) PROVE OwedInv'
  BY <1>0, <1>10 DEF Close, OwedInv, Kept, Loaded, TypeOK
<1>11. ASSUME NEW d \in Dicts, Lookup(d) PROVE OwedInv'
  BY <1>11 DEF Lookup, OwedInv, Kept, Loaded
<1>12. ASSUME NEW d \in Dicts, InUse(d) PROVE dicts[d] \in Nat /\ db \in Store
  BY <1>0, <1>12 DEF InUse, TaskInv, TypeOK, Loaded
<1>13. ASSUME NEW d \in Dicts, NEW e \in Entries, NEW parts \in SUBSET (Entries \ {e}),
              Commit(d, parts, e)
       PROVE  OwedInv'
  <2> DEFINE tick == dicts[d] + 1
             new == Committed([Touched(db, parts, dicts[d]) EXCEPT !.tick = tick], e, tick)
  <2>1. InUse(d) /\ dicts[d] \in Nat /\ tick \in Nat /\ db \in Store
    BY <1>12, <1>13 DEF Commit
  <2>2. new \in Store /\ Known(db) \subseteq Known(new)
    BY <2>1, CommittedIsStore
  <2>3. db' = new /\ stage = "idle" /\ stage' = "idle" /\ owed' = owed /\ Loaded
    BY <1>13 DEF Commit, InUse
  <2> HIDE DEF new
  <2> QED BY <1>1, <2>2, <2>3
<1>14. ASSUME NEW d \in Dicts, NEW e \in Entries, Delete(d, e) PROVE OwedInv'
  <2>1. db' \in Store /\ Known(db) \subseteq Known(db')
    BY <1>12, <1>14, DeletedIsStore DEF Delete
  <2> QED BY <1>1, <1>14, <2>1 DEF Delete, InUse
<1>15. CASE Backup
  BY <1>4, <1>15 DEF Backup, OwedInv, Kept, Loaded
<1>16. ASSUME NEW e \in Entries, NEW n \in Imports, Import(e, n) PROVE OwedInv'
  <2>1. Closed /\ CanOpen /\ file' = ImportEntry(Opened, e, n) /\ db' = db
        /\ owed' = owed /\ stage' = stage
    BY <1>16 DEF Import
  <2>2. Opened \in Store /\ n \in Int
    BY OpenedIsStore, ImportAssumption DEF TypeOK
  <2>3. file' \in Store /\ Known(Opened) \subseteq Known(file')
    BY <2>1, <2>2, ImportedIsStore
  <2>4. Kept(Known(file'))
    BY <1>3, <1>4, <2>1, <2>3, KeptGrows
  <2> QED BY <1>2, <1>4, <2>1, <2>3, <2>4
<1>17. ASSUME NEW s \in Foreign \cup {snapshot}, Restore(s) PROVE OwedInv'
  BY <1>4, <1>17 DEF Restore, OwedInv, Kept, Loaded
<1>18. ASSUME stage \in {"remove", "merge", "tick"} PROVE ~ Loaded /\ src \in Store
  BY <1>18 DEF TaskInv
<1>19. CASE MergeFails
  BY <1>0, <1>18, <1>19 DEF MergeFails, CanOpen, OwedInv, Kept, Loaded
<1>20. CASE RestoreEntries
  <2>1. /\ ~ Loaded /\ src \in Store /\ CanOpen /\ stage = "merge" /\ stage' = "tick"
        /\ file' = MergeEntries(Opened, src) /\ db' = db /\ owed' = owed
    BY <1>18, <1>20 DEF RestoreEntries
  <2>2. Opened \in Store
    BY OpenedIsStore DEF TypeOK
  <2>3. file' \in Store /\ Known(file') = Known(Opened) \cup Written(src)
    BY <2>1, <2>2, MergeEntriesIsStore
  <2>4. CASE file = Missing
    <3>1. Kept(Written(src))
      BY <1>0, <2>1, <2>4, KeptWhenMerged DEF OwedInv
    <3> QED BY <1>2, <2>1, <2>3, <3>1, KeptGrows
  <2>5. CASE file # Missing
    <3>1. Kept(Known(Opened))
      BY <1>0, <2>1, <2>5 DEF OwedInv, Kept, Opened, TypeOK, File
    <3> QED BY <1>2, <2>1, <2>3, <3>1, KeptGrows
  <2> QED BY <2>4, <2>5
<1>21. CASE RestoreTick
  <2>1. /\ ~ Loaded /\ src \in Store /\ file \in Store /\ stage' = "idle"
        /\ file' = MergeTick(file, src) /\ db' = db /\ owed' = owed
    BY <1>18, <1>21 DEF RestoreTick, TaskInv
  <2>2. file' \in Store /\ Known(file') = Known(file)
    BY <2>1, MergeTickIsStore
  <2>3. Kept(Known(file'))
    BY <2>1, <2>2 DEF OwedInv
  <2> QED BY <1>2, <2>1, <2>2, <2>3
<1>22. CASE UpgradeBackup
  BY <1>4, <1>22 DEF UpgradeBackup, CanUpgrade, OwedInv, Kept, Loaded, IsOk, Missing
<1>23. CASE UpgradeRemove
  <2>1. ~ Loaded /\ file = src /\ file \in Store
    BY <1>18, <1>23 DEF UpgradeRemove, TaskInv
  <2> QED BY <1>0, <1>23, <2>1 DEF UpgradeRemove, OwedInv, Kept, Loaded
<1>24. CASE Crash \/ CrashInBackup
  BY <1>24 DEF Crash, CrashInBackup, Dies, OwedInv, Kept, Loaded
<1>25. CASE UNCHANGED vars
  BY <1>25 DEF vars, OwedInv, Kept, Loaded
<1> QED
  BY <1>5, <1>6, <1>7, <1>8, <1>9, <1>10, <1>11, <1>13, <1>14, <1>15, <1>16, <1>17,
     <1>19, <1>20, <1>21, <1>22, <1>23, <1>24, <1>25 DEF Next

\* After damage the data are restored from the backup, and stay whatever
\* sessions and the manager do, upgrading included, until the process dies
\* again (UserDictionary::Load, UserDictManager).
THEOREM Restoration == Spec => []DataAreRestored
<1>1. Init => TypeOK /\ TaskInv /\ OwedInv
  <2>1. Init => OwedInv
    BY DEF Init, OwedInv, Kept, Loaded
  <2> QED BY <2>1, InitTypes
<1>2. TypeOK /\ TaskInv /\ OwedInv /\ [Next]_vars => (TypeOK /\ TaskInv /\ OwedInv)'
  BY NextTypes, NextOwed
<1>3. OwedInv => DataAreRestored
  BY DEF OwedInv, Kept, DataAreRestored
<1> QED BY <1>1, <1>2, <1>3, PTL DEF Spec

-----------------------------------------------------------------------------
(* Nothing is made up                                                       *)

\* What is earned, entry by entry.
Allowed == [e \in Entries |-> Earned(e)]

\* A count is what is given to the entry of its key, and what n allows; a mangled
\* key counts for the entry that it was meant for.
Fits(n, k, c) == \E given \in Given(Mended(k)) : Size(c) <= given + n[Mended(k)]
Within(n, s) == \A k \in Keys : Fits(n, k, s.recs[k].c)

\* The snapshot that is being merged is bounded like the others.
CountInv == \A s \in {file, snapshot, db, src} : s \in Store => Within(Allowed, s)

LEMMA AllowedIsNat == TypeOK => Allowed \in [Entries -> Nat]
BY BoundAssumption DEF TypeOK, Allowed, Earned

LEMMA GivenIsNat ==
  /\ \A k \in Keys : Mended(k) \in Entries /\ Mended(Mended(k)) = Mended(k)
  /\ \A e \in Entries : Mended(e) = e
  /\ \A e \in Entries : 0 \in Given(e) /\ \A given \in Given(e) : given \in Nat
<1>1. /\ \A k \in Keys : Mended(k) \in Entries /\ Mended(Mended(k)) = Mended(k)
      /\ \A e \in Entries : Mended(e) = e
  BY MendAssumption DEF Mended, Keys
<1>2. \A n \in Int : Size(n) \in Nat
  BY DEF Size
<1>3. ASSUME NEW e \in Entries, NEW given \in Given(e) PROVE given \in Nat
  <2>1. CASE given \in {0} \cup {Size(n) : n \in Imports}
    BY <1>2, <2>1, ImportAssumption
  <2>2. CASE \E s \in {f \in Foreign \cup {FirstFile} : IsOk(f)} :
               \E k \in {j \in Keys : Mended(j) = e} : given = Size(s.recs[k].c)
    <3>1. PICK s \in {f \in Foreign \cup {FirstFile} : IsOk(f)}, k \in Keys :
            given = Size(s.recs[k].c)
      BY <2>2
    <3>2. s \in Store
      BY <3>1, FilesAssumption DEF File, IsOk, Missing, Broken
    <3> QED BY <1>2, <3>1, <3>2, StoreFields
  <2> QED BY <1>3, <2>1, <2>2 DEF Given
<1> QED BY <1>1, <1>3 DEF Given

\* What comes from outside is given.
LEMMA OutsideFits ==
  ASSUME NEW n \in [Entries -> Nat]
  PROVE  /\ \A s \in Foreign \cup {FirstFile} : s \in Store => Within(n, s)
         /\ \A count \in Imports, k \in Keys : Fits(n, k, count)
         /\ \A k \in Keys : Fits(n, k, 0)
<1>1. ASSUME NEW s \in Foreign \cup {FirstFile}, s \in Store, NEW k \in Keys
      PROVE  Fits(n, k, s.recs[k].c)
  <2>1. IsOk(s)
    BY <1>1 DEF Store, IsOk
  <2>2. Size(s.recs[k].c) \in Given(Mended(k))
    BY <1>1, <2>1 DEF Given
  <2>3. Size(s.recs[k].c) \in Nat /\ n[Mended(k)] \in Nat
    BY <2>2, GivenIsNat
  <2> QED BY <2>2, <2>3 DEF Fits
<1>2. ASSUME NEW count \in Imports, NEW k \in Keys PROVE Fits(n, k, count)
  <2>1. Size(count) \in Given(Mended(k))
    BY DEF Given
  <2>2. Size(count) \in Nat /\ n[Mended(k)] \in Nat
    BY <2>1, GivenIsNat
  <2> QED BY <2>1, <2>2 DEF Fits
<1>3. ASSUME NEW k \in Keys PROVE Fits(n, k, 0)
  <2>1. 0 \in Given(Mended(k)) /\ n[Mended(k)] \in Nat
    BY GivenIsNat
  <2>2. Size(0) <= 0 + n[Mended(k)]
    BY <2>1 DEF Size
  <2> QED BY <2>1, <2>2 DEF Fits
<1> QED BY <1>1, <1>2, <1>3 DEF Within

\* What is allowed more, fits all the more.
LEMMA FitsMore ==
  ASSUME NEW n \in [Entries -> Nat], NEW m \in [Entries -> Nat], NEW k \in Keys,
         NEW c \in Int, NEW d \in Int, NEW more \in Nat, Fits(n, k, c),
         Size(d) <= Size(c) + more, m[Mended(k)] >= n[Mended(k)] + more
  PROVE  Fits(m, k, d)
<1>1. PICK given \in Given(Mended(k)) : Size(c) <= given + n[Mended(k)]
  BY DEF Fits
<1>2. given \in Nat /\ n[Mended(k)] \in Nat /\ m[Mended(k)] \in Nat
  BY GivenIsNat
<1>3. Size(c) \in Nat /\ Size(d) \in Nat
  BY DEF Size
<1>4. Size(d) <= given + m[Mended(k)]
  BY <1>1, <1>2, <1>3
<1> QED BY <1>4 DEF Fits

LEMMA WithinMore ==
  ASSUME NEW n \in [Entries -> Nat], NEW m \in [Entries -> Nat], NEW s \in Store,
         \A e \in Entries : m[e] >= n[e], Within(n, s)
  PROVE  Within(m, s)
<1> SUFFICES ASSUME NEW k \in Keys PROVE Fits(m, k, s.recs[k].c)
  BY DEF Within
<1>1. PICK c \in Int : c = s.recs[k].c /\ Fits(n, k, c)
  BY StoreFields DEF Within
<1>2. /\ m[Mended(k)] \in Nat /\ n[Mended(k)] \in Nat
      /\ m[Mended(k)] >= n[Mended(k)] + 0 /\ Size(c) <= Size(c) + 0
  <2>1. Mended(k) \in Entries
    BY GivenIsNat
  <2>2. Size(c) \in Nat
    BY DEF Size
  <2> QED BY <2>1, <2>2
<1> QED BY <1>1, <1>2, FitsMore

LEMMA PutIsWithin ==
  ASSUME NEW n, NEW s \in Store, NEW k \in Keys, NEW count \in Int, NEW tick \in Tick,
         Within(n, s), Fits(n, k, count)
  PROVE  Within(n, Put(s, k, count, tick))
<1>1. s.recs \in [Keys -> Record] /\ Put(s, k, count, tick).recs =
        [s.recs EXCEPT ![k] = [c |-> count, t |-> tick]]
  BY StoreFields DEF Put, Store
<1>2. \A j \in Keys : Put(s, k, count, tick).recs[j].c = IF j = k THEN count ELSE s.recs[j].c
  BY <1>1
<1> QED BY <1>2 DEF Within

\* A merge takes its counts from databases that are bounded.
LEMMA MergeIsWithin ==
  ASSUME NEW n, NEW dest \in Store, NEW source \in Store,
         Within(n, dest), Within(n, source)
  PROVE  Within(n, MergeEntries(dest, source))
<1> DEFINE m == MergeEntries(dest, source)
<1> SUFFICES ASSUME NEW k \in Keys PROVE Fits(n, k, m.recs[k].c)
  BY DEF Within
<1>1. CASE k \in Written(source)
  <2>1. m.recs[k].c = MergedCount(dest, source, k)
    BY <1>1 DEF MergeEntries, Written, Store
  <2>2. MergedCount(dest, source, k) \in CountsAt(dest, source, k)
    BY <1>1, MergedCountIsLargest
  <2>3. ASSUME NEW c \in CountsAt(dest, source, k) PROVE Fits(n, k, c)
    <3>1. CASE \E j \in Known(source) : Mended(j) = k /\ c = source.recs[j].c
      <4>1. PICK j \in Keys : Mended(j) = k /\ c = source.recs[j].c
        BY <3>1 DEF Known
      <4>2. Fits(n, j, c) /\ Mended(k) = Mended(j)
        BY <4>1, GivenIsNat DEF Within
      <4> QED BY <4>2 DEF Fits
    <3>2. CASE c = dest.recs[k].c
      BY <3>2 DEF Within
    <3> QED BY <3>1, <3>2 DEF CountsAt
  <2> QED BY <2>1, <2>2, <2>3
<1>2. CASE k \notin Written(source)
  <2>1. m.recs[k] = dest.recs[k]
    BY <1>2 DEF MergeEntries, Written, Store
  <2> QED BY <2>1 DEF Within
<1> QED BY <1>1, <1>2

\* A commit counts once, and is counted once.
LEMMA CommittedIsWithin ==
  ASSUME NEW n \in [Entries -> Nat], NEW s \in Store, NEW e \in Entries,
         NEW m \in [Entries -> Nat], \A i \in Entries : m[i] >= n[i], m[e] >= n[e] + 1,
         NEW parts \in SUBSET Entries,
         NEW old \in Nat, NEW tick \in Nat, Within(n, s)
  PROVE  LET touched == Touched(s, parts, old)
         IN /\ Within(m, touched)
            /\ Within(m, Committed([touched EXCEPT !.tick = tick], e, tick))
<1> DEFINE touched == Touched(s, parts, old)
           ticked == [touched EXCEPT !.tick = tick]
<1>1. touched \in Store
  BY CommittedIsStore
<1>2. \A k \in Keys : touched.recs[k].c = s.recs[k].c
  BY DEF Touched, Store
<1> HIDE DEF touched
<1>3. ticked \in Store /\ ticked.recs = touched.recs
  BY <1>1, StoreWith DEF Store, Tick
<1> HIDE DEF ticked
<1>4. Within(m, s)
  BY WithinMore
<1>5. Within(m, touched) /\ Within(m, ticked)
  BY <1>2, <1>3, <1>4 DEF Within
<1>6. PICK c \in Int : c = s.recs[e].c /\ Fits(n, e, c) /\ ticked.recs[e].c = c
  BY <1>2, <1>3, StoreFields DEF Within, Keys
<1>7. /\ Size(c) + 1 \in Int /\ Size(Size(c) + 1) <= Size(c) + 1
      /\ e \in Keys /\ Mended(e) = e /\ tick \in Tick
  BY GivenIsNat DEF Size, Keys, Tick
<1>8. Fits(m, e, Size(c) + 1)
  BY <1>6, <1>7, FitsMore
<1>9. Within(m, Committed(ticked, e, tick))
  BY <1>3, <1>5, <1>6, <1>7, <1>8, PutIsWithin DEF Committed
<1> QED BY <1>5, <1>9 DEF ticked, touched

LEMMA OthersAreWithin ==
  ASSUME TypeOK, CountInv, NEW n \in [Entries -> Nat], n = Allowed
  PROVE  /\ Within(n, Fresh) /\ Within(n, Restored(snapshot))
         /\ Within(n, Opened)
         /\ \A s \in Store : Within(n, s) => Within(n, Initialized(s))
<1>1. Within(n, Fresh)
  BY OutsideFits DEF Fresh, Nothing, Within
<1>2. Within(n, Restored(snapshot))
  BY <1>1 DEF Restored, CountInv, TypeOK, File, IsOk, Missing, Broken
<1>3. Within(n, Opened)
  BY <1>1, <1>2 DEF Opened, CountInv, TypeOK, File
<1>4. ASSUME NEW s \in Store, Within(n, s) PROVE Within(n, Initialized(s))
  <2>1. Initialized(s).recs = s.recs
    BY DEF Initialized, Store
  <2> QED BY <1>4, <2>1 DEF Within
<1> QED BY <1>1, <1>2, <1>3, <1>4

LEMMA NextCounts == TypeOK /\ TaskInv /\ CountInv /\ [Next]_vars => CountInv'
<1> SUFFICES ASSUME TypeOK, TaskInv, CountInv, [Next]_vars PROVE CountInv'
  OBVIOUS
<1> USE DEF disk, history, task
<1>1. Missing \notin Store /\ Broken \notin Store
  BY DEF Store, Missing, Broken
<1>2. PICK n \in [Entries -> Nat] : n = Allowed
  BY AllowedIsNat
\* Nothing is committed.
<1>3. ASSUME commits' = commits, rejected' = rejected,
             file' \in Store => Within(n, file'),
             snapshot' \in Store => Within(n, snapshot'),
             db' \in Store => Within(n, db'),
             src' \in Store => Within(n, src')
      PROVE  CountInv'
  <2>1. Allowed' = n
    BY <1>3, <1>2 DEF Allowed, Earned
  <2> QED BY <1>3, <2>1 DEF CountInv
<1>4. /\ file \in Store => Within(n, file)
      /\ snapshot \in Store => Within(n, snapshot)
      /\ db \in Store => Within(n, db)
      /\ src \in Store => Within(n, src)
  BY <1>2 DEF CountInv
<1>5. /\ Within(n, Fresh) /\ Within(n, Restored(snapshot)) /\ Within(n, Opened)
      /\ \A s \in Store : Within(n, s) => Within(n, Initialized(s))
  BY <1>2, OthersAreWithin
<1>6. ASSUME NEW d \in Dicts, LoadShared(d) \/ LoadNothing(d) \/ Lookup(d) PROVE CountInv'
  BY <1>3, <1>4, <1>6 DEF LoadShared, LoadNothing, Lookup
<1>7. ASSUME NEW d \in Dicts, LoadFile(d) PROVE CountInv'
  <2>1. file' \in Store /\ Within(n, file')
    BY <1>4, <1>7, <1>5, FreshIsStore DEF LoadFile, TypeOK, File
  <2>2. Within(n, db')
    BY <1>7, <1>5, <2>1 DEF LoadFile
  <2> QED BY <1>3, <1>4, <1>7, <2>1, <2>2 DEF LoadFile
<1>8. ASSUME NEW d \in Dicts, LoadBroken(d) PROVE CountInv'
  BY <1>3, <1>4, <1>8, <1>5 DEF LoadBroken
<1>9. ASSUME NEW d \in Dicts, Recover(d) PROVE CountInv'
  <2>1. Within(n, db')
    BY <1>9, <1>5, FreshIsStore DEF Recover, TypeOK
  <2> QED BY <1>3, <1>4, <1>9, <2>1 DEF Recover
<1>10. ASSUME NEW d \in Dicts, Close(d) PROVE CountInv'
  BY <1>1, <1>3, <1>4, <1>10 DEF Close
<1>11. ASSUME NEW d \in Dicts, InUse(d) PROVE dicts[d] \in Nat /\ db \in Store
  BY <1>11 DEF InUse, TaskInv, TypeOK, Loaded, Off, Loading
\* More is allowed.
<1>12. ASSUME NEW m \in [Entries -> Nat], \A e \in Entries : m[e] >= n[e], Allowed' = m,
             \A s \in {file', snapshot', db', src'} :
               s \in Store => s \in {file, snapshot, db, src} \/ Within(m, s)
      PROVE  CountInv'
  <2>1. ASSUME NEW s \in {file, snapshot, db, src}, s \in Store PROVE Within(m, s)
    BY <1>4, <1>12, <2>1, WithinMore
  <2> QED BY <1>12, <2>1 DEF CountInv
<1>13. ASSUME NEW d \in Dicts, NEW e \in Entries, NEW parts \in SUBSET (Entries \ {e}),
             Commit(d, parts, e)
      PROVE  CountInv'
  <2> DEFINE tick == dicts[d] + 1
             touched == Touched(db, parts, dicts[d])
             new == Committed([touched EXCEPT !.tick = tick], e, tick)
  <2>1. InUse(d) /\ dicts[d] \in Nat /\ tick \in Nat /\ db \in Store /\ Within(n, db)
    BY <1>4, <1>11, <1>13 DEF Commit
  <2>2. PICK m \in [Entries -> Nat] :
          Allowed' = m /\ m[e] = n[e] + 1 /\ \A i \in Entries : m[i] >= n[i]
    <3> DEFINE m == [i \in Entries |-> IF i = e THEN n[i] + 1 ELSE n[i]]
    <3>1. commits' = [commits EXCEPT ![e] = @ + 1] /\ rejected' = rejected
      BY <1>13 DEF Commit
    <3>2. commits \in [Entries -> Nat] /\ \A i \in Entries : n[i] = Earned(i)
      BY <1>2, BoundAssumption DEF TypeOK, Allowed
    <3>3. ASSUME NEW i \in Entries PROVE Earned(i)' = m[i]
      BY <3>1, <3>2 DEF Earned
    <3>4. Allowed' = m
      BY <3>3 DEF Allowed
    <3> QED BY <3>4
  <2>3. Within(m, touched) /\ Within(m, new)
    BY <2>1, <2>2, CommittedIsWithin
  <2>4. /\ db' = new /\ snapshot' \in {touched, snapshot} /\ file' = file /\ src' = src
    BY <1>13 DEF Commit
  <2> HIDE DEF new, touched
  <2> QED BY <1>12, <2>2, <2>3, <2>4
<1>14. ASSUME NEW d \in Dicts, NEW e \in Entries, Delete(d, e) PROVE CountInv'
  <2>1. InUse(d) /\ dicts[d] \in Nat /\ db \in Store /\ db' = Deleted(db, e, dicts[d])
    BY <1>11, <1>14 DEF Delete
  <2>2. PICK c \in Int : c = db.recs[e].c /\ Fits(n, e, c)
    BY <1>4, <2>1, StoreFields DEF Within, Keys
  <2>3. PICK m \in [Entries -> Nat] :
          Allowed' = m /\ m[e] >= 1 /\ \A i \in Entries : m[i] >= n[i]
    <3> DEFINE m == [i \in Entries |-> Earned(i)']
    <3>1. /\ commits' = commits
          /\ rejected' = rejected \cup (IF commits[e] = 0 THEN {e} ELSE {})
      BY <1>14 DEF Delete
    <3>2. commits \in [Entries -> Nat] /\ \A i \in Entries : n[i] = Earned(i)
      BY <1>2, BoundAssumption DEF TypeOK, Allowed
    <3>3. ASSUME NEW i \in Entries PROVE Earned(i)' \in Nat /\ Earned(i)' >= n[i]
      BY <3>1, <3>2 DEF Earned
    <3>4. Earned(e)' >= 1
      BY <3>1, <3>2 DEF Earned
    <3>5. Allowed' = m
      BY DEF Allowed
    <3> QED BY <3>3, <3>4, <3>5
  <2>4. Fits(m, e, - Larger(1, c))
    <3>1. e \in Keys /\ Mended(e) = e /\ 0 \in Given(e)
      BY GivenIsNat DEF Keys
    <3>2. CASE Larger(1, c) = 1
      <4>1. Size(- Larger(1, c)) <= 0 + m[e]
        BY <2>3, <3>2 DEF Size
      <4> QED BY <3>1, <4>1 DEF Fits
    <3>3. CASE Larger(1, c) # 1
      <4>1. /\ Size(- Larger(1, c)) <= Size(c) + 0 /\ - Larger(1, c) \in Int
            /\ m[e] >= n[e] + 0
        BY <2>3, <3>3 DEF Size, Larger
      <4> QED BY <2>2, <3>1, <4>1, FitsMore
    <3> QED BY <3>2, <3>3
  <2>5. Within(m, db')
    <3>1. Within(m, db)
      BY <1>4, <2>1, <2>3, WithinMore
    <3>2. e \in Keys /\ dicts[d] \in Tick /\ - Larger(1, c) \in Int
      BY <2>1 DEF Keys, Tick, Larger
    <3> QED BY <2>1, <2>2, <2>4, <3>1, <3>2, PutIsWithin DEF Deleted
  <2>6. file' = file /\ snapshot' = snapshot /\ src' = src
    BY <1>14 DEF Delete
  <2> QED BY <1>12, <2>3, <2>5, <2>6
<1>15. CASE Backup \/ UpgradeBackup \/ UpgradeRemove
  BY <1>1, <1>3, <1>4, <1>15 DEF Backup, UpgradeBackup, UpgradeRemove
<1>16. ASSUME NEW e \in Entries, NEW commit \in Imports, Import(e, commit) PROVE CountInv'
  <2> DEFINE count == IF commit > 0 THEN Larger(commit, Opened.recs[e].c)
                      ELSE IF commit < 0 THEN commit ELSE Opened.recs[e].c
             tick == Larger(0, Opened.recs[e].t)
  <2>1. Opened \in Store /\ Within(n, Opened) /\ commit \in Int /\ e \in Keys
    BY <1>5, OpenedIsStore, ImportAssumption DEF TypeOK, Keys
  <2>2. Opened.recs[e].c \in Int /\ Opened.recs[e].t \in Tick
    BY <2>1, StoreFields
  <2>3. tick \in Tick /\ count \in {commit, Opened.recs[e].c} /\ count \in Int
    BY <2>1, <2>2 DEF Larger, Tick, NoTick
  <2>4. file' = Put(Opened, e, count, tick)
    BY <1>16 DEF Import, ImportEntry
  <2> HIDE DEF count, tick
  <2>5. Fits(n, e, count)
    BY <2>1, <2>3, OutsideFits DEF Within
  <2>6. Within(n, file')
    BY <2>1, <2>3, <2>4, <2>5, PutIsWithin
  <2> QED BY <1>3, <1>4, <1>16, <2>6 DEF Import
<1>17. ASSUME NEW s \in Foreign \cup {snapshot}, Restore(s) PROVE CountInv'
  <2>1. s \in Store => Within(n, s)
    BY <1>4, OutsideFits
  <2> QED BY <1>3, <1>4, <1>17, <2>1 DEF Restore
<1>18. CASE MergeFails
  BY <1>1, <1>3, <1>4, <1>18 DEF MergeFails
<1>19. CASE RestoreEntries
  <2>1. src \in Store /\ Opened \in Store
    BY <1>19, OpenedIsStore DEF RestoreEntries, TaskInv, TypeOK
  <2>2. Within(n, file')
    BY <1>4, <1>19, <1>5, <2>1, MergeIsWithin DEF RestoreEntries
  <2> QED BY <1>3, <1>4, <1>19, <2>2 DEF RestoreEntries
<1>20. CASE RestoreTick
  <2>1. src \in Store /\ file \in Store
    BY <1>20 DEF RestoreTick, TaskInv
  <2>2. file'.recs = file.recs
    BY <1>20, <2>1, MergeTickIsStore DEF RestoreTick
  <2>3. Within(n, file')
    BY <1>4, <2>1, <2>2 DEF Within
  <2> QED BY <1>1, <1>3, <1>4, <1>20, <2>3 DEF RestoreTick
<1>21. CASE Crash \/ CrashInBackup
  BY <1>1, <1>3, <1>4, <1>21 DEF Crash, CrashInBackup, Dies, Survivors
<1>22. CASE UNCHANGED vars
  BY <1>3, <1>4, <1>22 DEF vars
<1> QED
  BY <1>6, <1>7, <1>8, <1>9, <1>10, <1>13, <1>14, <1>15, <1>16, <1>17, <1>18, <1>19, <1>20,
     <1>21, <1>22 DEF Next

\* No number of sessions, crashes, recoveries, upgrades and restores makes up a
\* commit: what is in the counts was given by other machines, text files or the
\* first file, or earned, commit by commit; and one more is there only of an entry
\* that was deleted before any commit (UserDictionary, UserDictManager).
THEOREM NoneMadeUp == Spec => []NothingInvented
<1>1. Init => TypeOK /\ TaskInv /\ CountInv
  <2> SUFFICES ASSUME Init PROVE TypeOK /\ TaskInv /\ CountInv
    OBVIOUS
  <2>1. TypeOK /\ TaskInv
    BY InitTypes
  <2>2. Allowed \in [Entries -> Nat]
    BY <2>1, AllowedIsNat
  <2>3. FirstFile \in Store => Within(Allowed, FirstFile)
    BY <2>2, OutsideFits
  <2>4. CountInv
    BY <2>3 DEF Init, CountInv, Store, Missing
  <2> QED BY <2>1, <2>4
<1>2. TypeOK /\ TaskInv /\ CountInv /\ [Next]_vars => (TypeOK /\ TaskInv /\ CountInv)'
  BY NextTypes, NextCounts
<1>3. TypeOK /\ CountInv => NothingInvented
  <2> SUFFICES ASSUME TypeOK, CountInv, NEW s \in {file, snapshot, db}, IsOk(s),
                      NEW e \in Entries
               PROVE  \E given \in Given(e) : Size(s.recs[e].c) <= given + Earned(e)
    BY DEF NothingInvented
  <2>1. s \in Store /\ e \in Keys /\ Mended(e) = e
    BY GivenIsNat DEF TypeOK, File, IsOk, Missing, Broken, Keys
  <2>2. Fits(Allowed, e, s.recs[e].c)
    BY <2>1 DEF CountInv, Within
  <2> QED BY <2>1, <2>2 DEF Fits, Allowed
<1> QED BY <1>1, <1>2, <1>3, PTL DEF Spec

-----------------------------------------------------------------------------
(* The rest is about the time that a process lives: UserDict implements     *)
(* Lexicon, and the ticks of one session never lag behind those of the      *)
(* records.  First, what is seen of a database.                             *)

\* A lookup finds the count of a known entry; of the others there is none.
LEMMA CountsSeen ==
  ASSUME NEW s \in Store
  PROVE  /\ CountsOf(s) \in [Known(s) \cap Entries -> Int]
         /\ \A e \in Entries :
              /\ s.recs[e].c \in Int
              /\ e \notin Known(s) => s.recs[e].c = 0
              /\ e \in Known(s) => CountsOf(s)[e] = s.recs[e].c
<1>1. \A e \in Entries : s.recs[e].c \in Int /\ s.recs[e] \in Record
  BY StoreFields DEF Keys
<1>2. \A e \in Entries : e \notin Known(s) => s.recs[e].t = NoTick
  BY DEF Known, Keys
<1>3. \A r \in Record : r.t = NoTick => r.c = 0
  BY DEF Record, Nothing, NoTick
<1> QED BY <1>1, <1>2, <1>3 DEF CountsOf

LEMMA FreshIsSeen ==
  /\ CountsOf(Fresh) = LexiconOf!Nothing /\ LostOf(Fresh) = LexiconOf!Nothing
  /\ LexiconOf!Nothing = [e \in {} |-> 0]
BY FreshIsStore DEF CountsOf, LostOf, LexiconOf!Nothing

\* Two databases with the same records are seen alike,
LEMMA SeenAlike ==
  ASSUME NEW s, NEW r, s.recs = r.recs
  PROVE  CountsOf(s) = CountsOf(r) /\ LostOf(s) = LostOf(r) /\ Known(s) = Known(r)
BY DEF CountsOf, LostOf, Known

\* and what is lost depends on the mangled keys only.
LEMMA LostAlike ==
  ASSUME NEW s, NEW r, \A k \in Mangled : s.recs[k] = r.recs[k]
  PROVE  LostOf(s) = LostOf(r)
<1> DEFINE ms == Known(s) \cap Mangled
           mr == Known(r) \cap Mangled
<1>1. ms = mr
  BY DEF Known
<1>2. \A k \in ms : s.recs[k].c = r.recs[k].c
  OBVIOUS
<1>3. \A e : {s.recs[k].c : k \in {j \in ms : Mend[j] = e}} =
             {r.recs[k].c : k \in {j \in mr : Mend[j] = e}}
  BY <1>1, <1>2
<1> HIDE DEF ms, mr
<1>4. [e \in {Mend[k] : k \in ms} |-> Max({s.recs[k].c : k \in {j \in ms : Mend[j] = e}})]
      = [e \in {Mend[k] : k \in mr} |-> Max({r.recs[k].c : k \in {j \in mr : Mend[j] = e}})]
  BY <1>1, <1>3
<1> QED BY <1>4 DEF LostOf, ms, mr

\* What is written under an entry is seen there.
LEMMA PutIsSeen ==
  ASSUME NEW s \in Store, NEW e \in Entries, NEW count \in Int, NEW tick \in Nat
  PROVE  /\ Put(s, e, count, tick) \in Store
         /\ Known(Put(s, e, count, tick)) = Known(s) \cup {e}
         /\ \A x \in Keys : Put(s, e, count, tick).recs[x].c =
                              IF x = e THEN count ELSE s.recs[x].c
         /\ LostOf(Put(s, e, count, tick)) = LostOf(s)
<1> DEFINE new == Put(s, e, count, tick)
<1>1. e \in Keys /\ s.recs \in [Keys -> Record]
  BY StoreFields DEF Keys
<1>2. new.recs = [s.recs EXCEPT ![e] = [c |-> count, t |-> tick]]
  BY DEF Put, Store
<1>3. \A x \in Keys : new.recs[x] = IF x = e THEN [c |-> count, t |-> tick] ELSE s.recs[x]
  BY <1>1, <1>2
<1>4. LostOf(new) = LostOf(s)
  <2>1. \A k \in Mangled : new.recs[k] = s.recs[k]
    BY <1>3, MendAssumption DEF Keys
  <2> QED BY <2>1, LostAlike
<1>5. new \in Store /\ Known(new) = Known(s) \cup {e}
  BY <1>1, PutIsStore
<1>6. \A x \in Keys : new.recs[x].c = IF x = e THEN count ELSE s.recs[x].c
  BY <1>3
<1> QED BY <1>4, <1>5, <1>6

\* The parts of a phrase become known,
LEMMA TouchedIsSeen ==
  ASSUME NEW s \in Store, NEW parts \in SUBSET Entries, NEW old \in Nat
  PROVE  /\ Touched(s, parts, old) \in Store
         /\ Known(Touched(s, parts, old)) = Known(s) \cup parts
         /\ \A x \in Keys : Touched(s, parts, old).recs[x].c = s.recs[x].c
         /\ LostOf(Touched(s, parts, old)) = LostOf(s)
<1> DEFINE recs == [k \in Keys |->
                      IF k \in parts THEN [c |-> s.recs[k].c, t |-> old] ELSE s.recs[k]]
           touched == Touched(s, parts, old)
<1>1. parts \subseteq Keys /\ Mangled \subseteq Keys /\ parts \cap Mangled = {}
  BY MendAssumption DEF Keys
<1>2. recs \in [Keys -> Record]
  BY StoreFields DEF Record
<1>3. touched \in Store /\ touched.recs = recs
  BY <1>2, StoreWith DEF Touched, Store
<1>4. /\ \A k \in Keys : recs[k].c = s.recs[k].c
      /\ \A k \in Keys : recs[k].t = IF k \in parts THEN old ELSE s.recs[k].t
      /\ \A k \in Mangled : recs[k] = s.recs[k]
  BY <1>1
<1> HIDE DEF recs, touched
<1>5. Known(touched) = Known(s) \cup parts
  BY <1>1, <1>3, <1>4 DEF Known, NoTick
<1>6. LostOf(touched) = LostOf(s)
  BY <1>3, <1>4, LostAlike
<1> QED BY <1>3, <1>4, <1>5, <1>6 DEF touched

\* and the phrase is counted.
After(s, e, parts, old, tick) ==
  Committed([Touched(s, parts, old) EXCEPT !.tick = tick], e, tick)

LEMMA CommittedIsSeen ==
  ASSUME NEW s \in Store, NEW e \in Entries, NEW parts \in SUBSET Entries, e \notin parts,
         NEW old \in Nat, NEW tick \in Nat
  PROVE  /\ After(s, e, parts, old, tick) \in Store
         /\ Known(After(s, e, parts, old, tick)) = Known(s) \cup parts \cup {e}
         /\ \A x \in Keys : After(s, e, parts, old, tick).recs[x].c =
                              IF x = e THEN Size(s.recs[e].c) + 1 ELSE s.recs[x].c
         /\ LostOf(After(s, e, parts, old, tick)) = LostOf(s)
<1> DEFINE touched == Touched(s, parts, old)
           ticked == [touched EXCEPT !.tick = tick]
           n == Size(s.recs[e].c) + 1
<1>1. /\ touched \in Store /\ LostOf(touched) = LostOf(s)
      /\ Known(touched) = Known(s) \cup parts
      /\ \A x \in Keys : touched.recs[x].c = s.recs[x].c
  BY TouchedIsSeen
<1>2. After(s, e, parts, old, tick) = Committed(ticked, e, tick)
  BY DEF After
<1> HIDE DEF touched
<1>3. ticked \in Store /\ ticked.recs = touched.recs
  BY <1>1, StoreWith DEF Store, Tick
<1> HIDE DEF ticked
<1>4. LostOf(ticked) = LostOf(s) /\ Known(ticked) = Known(s) \cup parts
  BY <1>1, <1>3, SeenAlike
<1>5. e \in Keys /\ n \in Int /\ ticked.recs[e].c = s.recs[e].c
  BY <1>1, <1>3, StoreFields DEF Size, Keys
<1>6. Committed(ticked, e, tick) = Put(ticked, e, n, tick)
  BY <1>5 DEF Committed
<1> HIDE DEF n
<1>7. /\ Put(ticked, e, n, tick) \in Store
      /\ Known(Put(ticked, e, n, tick)) = Known(ticked) \cup {e}
      /\ \A x \in Keys : Put(ticked, e, n, tick).recs[x].c =
                           IF x = e THEN n ELSE ticked.recs[x].c
      /\ LostOf(Put(ticked, e, n, tick)) = LostOf(ticked)
  BY <1>3, <1>5, PutIsSeen
<1> QED BY <1>1, <1>2, <1>3, <1>4, <1>6, <1>7 DEF n

\* In particular, it loses nothing more.
LEMMA CommittedLoses ==
  ASSUME NEW s \in Store, NEW e \in Entries, NEW parts \in SUBSET Entries, e \notin parts,
         NEW old \in Nat, NEW tick \in Nat
  PROVE  /\ After(s, e, parts, old, tick) \in Store
         /\ LostOf(After(s, e, parts, old, tick)) = LostOf(s)
BY CommittedIsSeen

\* The mangled keys that were meant for an entry, and the counts they hold
MeantFor(s, e) == {j \in Known(s) \cap Mangled : Mend[j] = e}
LostAt(s, e) == {s.recs[k].c : k \in MeantFor(s, e)}

LEMMA LostIsLargest ==
  ASSUME NEW s \in Store
  PROVE  /\ DOMAIN LostOf(s) = {Mend[k] : k \in Known(s) \cap Mangled}
         /\ DOMAIN LostOf(s) \subseteq Entries
         /\ \A e \in DOMAIN LostOf(s) :
              LostOf(s)[e] \in LostAt(s, e) /\ \A c \in LostAt(s, e) : LostOf(s)[e] >= c
<1>1. /\ DOMAIN LostOf(s) = {Mend[k] : k \in Known(s) \cap Mangled}
      /\ \A e \in DOMAIN LostOf(s) : LostOf(s)[e] = Max(LostAt(s, e))
  BY DEF LostOf, LostAt, MeantFor
<1>2. DOMAIN LostOf(s) \subseteq Entries
  BY <1>1, MendAssumption
<1>3. ASSUME NEW e \in DOMAIN LostOf(s)
      PROVE  LostAt(s, e) # {} /\ LostAt(s, e) \in SUBSET Int /\ IsFiniteSet(LostAt(s, e))
  <2>1. LostAt(s, e) # {}
    <3>1. PICK k \in Known(s) \cap Mangled : e = Mend[k]
      BY <1>1
    <3>2. s.recs[k].c \in LostAt(s, e)
      BY <3>1 DEF LostAt, MeantFor
    <3> QED BY <3>2
  <2>2. MeantFor(s, e) \subseteq Keys /\ IsFiniteSet(MeantFor(s, e))
    <3>1. MeantFor(s, e) \subseteq Keys
      BY DEF MeantFor, Keys
    <3> QED BY <3>1, KeysAreFinite, FS_Subset
  <2>3. LostAt(s, e) \in SUBSET Int
    BY <2>2, StoreFields DEF LostAt
  <2> DEFINE count == [k \in MeantFor(s, e) |-> s.recs[k].c]
  <2>4. count \in Surjection(MeantFor(s, e), LostAt(s, e))
    BY DEF Surjection, LostAt
  <2> QED BY <2>1, <2>2, <2>3, <2>4, FS_Surjection
<1> QED BY <1>1, <1>2, <1>3, MaxIsLargest

LEMMA LostIsInt ==
  ASSUME NEW s \in Store
  PROVE  LostOf(s) \in [DOMAIN LostOf(s) -> Int]
<1>1. \A e : LostAt(s, e) \subseteq Int
  BY StoreFields DEF LostAt, MeantFor, Keys
<1>2. \A e \in DOMAIN LostOf(s) : LostOf(s)[e] \in Int
  BY <1>1, LostIsLargest
<1>3. LostOf(s) = [e \in DOMAIN LostOf(s) |-> LostOf(s)[e]]
  BY DEF LostOf
<1> QED BY <1>2, <1>3

\* A merge finds what is known on either side, and what was lost on the other.
LEMMA MergedIsSeen ==
  ASSUME NEW dest \in Store, NEW source \in Store
  PROVE  LET m == MergeEntries(dest, source)
         IN /\ CountsOf(m) = LexiconOf!Joined(CountsOf(dest),
                               LexiconOf!Joined(CountsOf(source), LostOf(source)))
            /\ LostOf(m) = LostOf(dest)
<1> DEFINE m == MergeEntries(dest, source)
           f == CountsOf(dest)
           g == CountsOf(source)
           h == LostOf(source)
           gh == LexiconOf!Joined(g, h)
           fgh == LexiconOf!Joined(f, gh)
<1>1. /\ m \in Store
      /\ Known(m) = Known(dest) \cup Written(source)
      /\ \A k \in Known(m) : /\ m.recs[k].c \in CountsAt(dest, source, k)
                             /\ \A c \in CountsAt(dest, source, k) : m.recs[k].c >= c
  BY MergeEntriesIsStore
<1>2. LostOf(m) = LostOf(dest)
  <2>1. \A k \in Mangled : k \notin Written(source)
    BY MendAssumption DEF Written, Mended, Known, Keys
  <2>2. \A k \in Keys : k \notin Written(source) => m.recs[k] = dest.recs[k]
    BY DEF MergeEntries, Written, Store
  <2>3. Mangled \subseteq Keys
    BY DEF Keys
  <2> QED BY <2>1, <2>2, <2>3, LostAlike
<1> HIDE DEF m
<1>3. /\ DOMAIN f = Known(dest) \cap Entries /\ \A e \in DOMAIN f : f[e] = dest.recs[e].c
      /\ DOMAIN g = Known(source) \cap Entries /\ \A e \in DOMAIN g : g[e] = source.recs[e].c
      /\ \A e \in DOMAIN f : f[e] \in Int
      /\ \A e \in DOMAIN g : g[e] \in Int
  BY CountsSeen DEF CountsOf
<1>4. /\ DOMAIN h = {Mend[k] : k \in Known(source) \cap Mangled} /\ DOMAIN h \subseteq Entries
      /\ \A e \in DOMAIN h : /\ h[e] \in LostAt(source, e)
                             /\ \A c \in LostAt(source, e) : h[e] >= c
  BY LostIsLargest
<1>5. \A e \in DOMAIN h : h[e] \in Int
  BY <1>4, StoreFields DEF LostAt, MeantFor, Keys
<1>6. /\ DOMAIN fgh = DOMAIN f \cup DOMAIN gh /\ DOMAIN gh = DOMAIN g \cup DOMAIN h
      /\ fgh = [x \in DOMAIN f \cup DOMAIN gh |-> fgh[x]]
      /\ \A x \in DOMAIN gh : gh[x] = IF x \notin DOMAIN g THEN h[x]
                                      ELSE IF x \notin DOMAIN h \/ h[x] < g[x] THEN g[x]
                                      ELSE h[x]
      /\ \A x \in DOMAIN fgh : fgh[x] = IF x \notin DOMAIN f THEN gh[x]
                                        ELSE IF x \notin DOMAIN gh \/ gh[x] < f[x] THEN f[x]
                                        ELSE gh[x]
  BY DEF LexiconOf!Joined
<1>7. \A e \in Entries : e \in Written(source) <=> e \in DOMAIN g \cup DOMAIN h
  <2>1. \A k \in Known(source) : Mended(k) = IF k \in Mangled THEN Mend[k] ELSE k
    BY DEF Mended
  <2> QED BY <1>3, <1>4, <2>1, MendAssumption DEF Written, Known, Keys
<1>8. \A e \in Entries : CountsAt(dest, source, e) =
        LostAt(source, e) \cup {g[x] : x \in DOMAIN g \cap {e}}
                          \cup {f[x] : x \in DOMAIN f \cap {e}}
  <2> SUFFICES ASSUME NEW e \in Entries
               PROVE  {source.recs[k].c : k \in {j \in Known(source) : Mended(j) = e}} =
                        LostAt(source, e) \cup {g[x] : x \in DOMAIN g \cap {e}}
    BY <1>3 DEF CountsAt
  <2>1. {j \in Known(source) : Mended(j) = e} =
          MeantFor(source, e) \cup (DOMAIN g \cap {e})
    BY <1>3, MendAssumption DEF Mended, MeantFor, Known, Keys
  <2> QED BY <1>3, <2>1 DEF LostAt
<1> HIDE DEF f, g, h, gh, fgh
<1>9. Known(m) \cap Entries = DOMAIN fgh
  BY <1>1, <1>3, <1>4, <1>6, <1>7
<1>10. ASSUME NEW e \in Known(m) \cap Entries PROVE m.recs[e].c = fgh[e]
  <2> DEFINE at == CountsAt(dest, source, e)
  <2>1. at \in SUBSET Int /\ m.recs[e].c \in at /\ \A c \in at : m.recs[e].c >= c
    BY <1>1, CountsAreFinite DEF Keys
  <2>2. /\ e \in DOMAIN g => g[e] \in at /\ g[e] \in Int
        /\ e \in DOMAIN f => f[e] \in at /\ f[e] \in Int
        /\ e \in DOMAIN h => /\ h[e] \in at /\ h[e] \in Int
                             /\ \A c \in LostAt(source, e) : h[e] >= c
        /\ e \notin DOMAIN h => LostAt(source, e) = {}
    BY <1>3, <1>4, <1>5, <1>8 DEF LostAt, MeantFor
  <2>3. \A c \in at : \/ e \in DOMAIN g /\ c = g[e]
                      \/ e \in DOMAIN f /\ c = f[e]
                      \/ e \in DOMAIN h /\ h[e] >= c
    BY <1>8, <2>2
  <2> HIDE DEF at
  <2>4. e \in DOMAIN gh =>
          /\ gh[e] \in at /\ gh[e] \in Int
          /\ e \in DOMAIN g => gh[e] >= g[e]
          /\ e \in DOMAIN h => gh[e] >= h[e]
    BY <1>6, <2>2
  <2>5. /\ fgh[e] \in at /\ fgh[e] \in Int
        /\ e \in DOMAIN f => fgh[e] >= f[e]
        /\ e \in DOMAIN gh => fgh[e] >= gh[e]
    BY <1>6, <1>9, <2>2, <2>4
  <2>6. \A c \in at : fgh[e] >= c
    BY <1>6, <2>1, <2>2, <2>3, <2>4, <2>5
  <2>7. m.recs[e].c \in Int /\ m.recs[e].c >= fgh[e] /\ fgh[e] >= m.recs[e].c
    BY <2>1, <2>5, <2>6
  <2> QED BY <2>5, <2>7
<1>11. CountsOf(m) = [x \in Known(m) \cap Entries |-> m.recs[x].c]
  BY DEF CountsOf
<1>12. CountsOf(m) = fgh
  BY <1>6, <1>9, <1>10, <1>11
<1> QED BY <1>2, <1>12 DEF m, f, g, h, gh, fgh
-----------------------------------------------------------------------------
(* As long as the process lives                                             *)

\* What a merge may find: nothing, or what somebody once lost
MayBeLost ==
  {LexiconOf!Nothing} \cup {LostOf(s) : s \in {f \in Foreign \cup {FirstFile} : IsOk(f)}}

\* What is merged is a foreign snapshot or the dictionary's own; a broken file
\* was so from the beginning, has no snapshot and is never opened; and no
\* database holds mangled keys but those that were there.
LifeInv ==
  crashes = 0 =>
    /\ stage # "recover"
    /\ stage = "idle" => src = Missing
    /\ stage # "idle" => src \in Foreign \cup {snapshot}
    /\ file = Broken => ~ Loaded /\ snapshot = Missing
    /\ \A s \in {file, db, snapshot} : s \in Store => LostOf(s) \in MayBeLost

LEMMA InitLife == Init => TypeOK /\ TaskInv /\ LifeInv
<1> SUFFICES ASSUME Init PROVE TypeOK /\ TaskInv /\ LifeInv
  OBVIOUS
<1>1. Missing \notin Store /\ ~ Loaded /\ Missing # Broken /\ \A s \in Store : IsOk(s)
  BY DEF Init, Loaded, Store, Missing, Broken, IsOk
<1>2. LifeInv
  BY <1>1 DEF Init, LifeInv, MayBeLost
<1> QED BY <1>2, InitTypes

LEMMA NextLife == TypeOK /\ TaskInv /\ LifeInv /\ [Next]_vars => LifeInv'
<1> SUFFICES ASSUME TypeOK, TaskInv, LifeInv, [Next]_vars, crashes' = 0 PROVE LifeInv'
  BY DEF LifeInv
<1> USE DEF disk, history, task
<1>0. /\ Missing \notin Store /\ Broken \notin Store /\ Missing # Broken
      /\ Fresh \in Store /\ LostOf(Fresh) \in MayBeLost
  BY FreshIsStore, FreshIsSeen DEF Store, Missing, Broken, MayBeLost
<1>1. ~ Dies
  BY BoundAssumption DEF Dies, TypeOK
<1>2. ASSUME crashes = 0
      PROVE  /\ stage # "recover" /\ (stage = "idle" => src = Missing)
             /\ stage # "idle" => src \in Foreign \cup {snapshot}
             /\ file = Broken => ~ Loaded /\ snapshot = Missing
             /\ file \in Store => LostOf(file) \in MayBeLost
             /\ db \in Store => LostOf(db) \in MayBeLost
             /\ snapshot \in Store => LostOf(snapshot) \in MayBeLost
  BY <1>2 DEF LifeInv
\* It suffices to look at what changes.
<1>3. ASSUME crashes = 0, stage' # "recover", stage' = "idle" => src' = Missing,
             stage' # "idle" => src' \in Foreign \cup {snapshot'},
             file' = Broken => ~ Loaded' /\ snapshot' = Missing,
             file' \in Store => LostOf(file') \in MayBeLost,
             db' \in Store => LostOf(db') \in MayBeLost,
             snapshot' \in Store => LostOf(snapshot') \in MayBeLost
      PROVE  LifeInv'
  BY <1>3 DEF LifeInv
<1>4. ASSUME NEW d \in Dicts, LoadShared(d) \/ LoadNothing(d) \/ Lookup(d) PROVE LifeInv'
  BY <1>2, <1>3, <1>4 DEF LoadShared, LoadNothing, Lookup, Loaded
<1>5. ASSUME NEW s \in Store PROVE LostOf(Initialized(s)) = LostOf(s)
  <2>1. Initialized(s).recs = s.recs
    BY DEF Initialized, Store
  <2> QED BY <2>1, SeenAlike
<1>6. ASSUME NEW d \in Dicts, LoadFile(d) PROVE LifeInv'
  <2>1. crashes = 0 /\ file' \in Store /\ LostOf(file') \in MayBeLost
    BY <1>0, <1>2, <1>6 DEF LoadFile, TypeOK, File
  <2>2. LostOf(db') \in MayBeLost
    BY <1>5, <1>6, <2>1 DEF LoadFile
  <2> QED BY <1>0, <1>2, <1>3, <1>6, <2>1, <2>2 DEF LoadFile
<1>7. ASSUME NEW d \in Dicts, LoadBroken(d) \/ Recover(d) PROVE LifeInv'
  BY <1>2, <1>7 DEF LoadBroken, Recover
<1>8. ASSUME NEW d \in Dicts, Close(d) PROVE LifeInv'
  <2>1. CASE Loaded /\ \A other \in Dicts \ {d} : dicts[other] = Off
    BY <1>0, <1>2, <1>3, <1>8, <2>1 DEF Close, TypeOK, Loaded
  <2>2. CASE ~ (Loaded /\ \A other \in Dicts \ {d} : dicts[other] = Off)
    BY <1>2, <1>3, <1>8, <2>2 DEF Close, Loaded
  <2> QED BY <2>1, <2>2
<1>9. ASSUME NEW d \in Dicts, InUse(d) PROVE dicts[d] \in Nat /\ db \in Store /\ Loaded
  BY <1>9 DEF InUse, TaskInv, TypeOK, Loaded, Off, Loading
<1>10. ASSUME NEW d \in Dicts, NEW e \in Entries, NEW parts \in SUBSET (Entries \ {e}),
              Commit(d, parts, e)
       PROVE  LifeInv'
  <2> DEFINE touched == Touched(db, parts, dicts[d])
             new == After(db, e, parts, dicts[d], dicts[d] + 1)
  <2>1. /\ InUse(d) /\ Loaded /\ crashes = 0 /\ dicts[d] \in Nat /\ dicts[d] + 1 \in Nat
        /\ db \in Store /\ parts \in SUBSET Entries /\ e \notin parts
    BY <1>9, <1>10 DEF Commit
  <2>2. LostOf(touched) = LostOf(db) /\ LostOf(new) = LostOf(db) /\ new \in Store
    <3>1. LostOf(touched) = LostOf(db)
      BY <2>1, TouchedIsSeen
    <3>2. PICK s \in Store, old \in Nat, tick \in Nat, p \in SUBSET Entries :
            s = db /\ old = dicts[d] /\ tick = dicts[d] + 1 /\ p = parts /\ e \notin p
      BY <2>1
    <3>3. e \notin p
      BY <3>2
    <3>4. /\ LostOf(After(s, e, p, old, tick)) = LostOf(s)
          /\ After(s, e, p, old, tick) \in Store
      BY <3>3, CommittedLoses
    <3> QED BY <3>1, <3>2, <3>4
  <2>3. /\ db' = new /\ snapshot' \in {touched, snapshot} /\ file' = file
        /\ src' = src /\ stage' = stage /\ stage = "idle"
    BY <1>10, <2>1 DEF Commit, InUse, After
  <2> HIDE DEF new, touched
  <2>4. /\ db' \in Store => LostOf(db') \in MayBeLost
        /\ snapshot' \in Store => LostOf(snapshot') \in MayBeLost
    BY <1>2, <2>1, <2>2, <2>3
  <2> QED BY <1>0, <1>2, <1>3, <2>1, <2>3, <2>4
<1>11. ASSUME NEW d \in Dicts, NEW e \in Entries, Delete(d, e) PROVE LifeInv'
  <2>1. InUse(d) /\ crashes = 0 /\ dicts[d] \in Nat /\ db \in Store /\ e \in Keys
    BY <1>9, <1>11 DEF Delete, Keys
  <2>2. - Larger(1, db.recs[e].c) \in Int
    BY <2>1, StoreFields DEF Larger
  <2>3. LostOf(db') = LostOf(db)
    BY <1>11, <2>1, <2>2, PutIsSeen DEF Delete, Deleted
  <2>4. db' \in Store
    BY <1>11, <2>1, DeletedIsStore DEF Delete
  <2> QED BY <1>0, <1>2, <1>3, <1>11, <2>1, <2>3, <2>4 DEF Delete, Loaded
<1>12. ASSUME Closed PROVE ~ Loaded /\ stage = "idle"
  BY <1>12 DEF Closed, TaskInv
<1>13. ASSUME CanOpen, crashes = 0, ~ Loaded
       PROVE  Opened \in Store /\ LostOf(Opened) \in MayBeLost
  <2>1. Opened = IF file = Missing THEN Fresh ELSE file
    BY <1>0, <1>2, <1>13 DEF CanOpen, Opened
  <2>2. file = Missing \/ file \in Store
    BY <1>2, <1>13 DEF CanOpen, TypeOK, File
  <2> QED BY <1>0, <1>2, <1>13, <2>1, <2>2
<1>14. CASE Backup \/ UpgradeBackup
  BY <1>0, <1>2, <1>3, <1>12, <1>14
     DEF Backup, UpgradeBackup, CanUpgrade, Loaded, IsOk, Broken
<1>15. ASSUME NEW e \in Entries, NEW n \in Imports, Import(e, n) PROVE LifeInv'
  <2> DEFINE count == IF n > 0 THEN Larger(n, Opened.recs[e].c)
                      ELSE IF n < 0 THEN n ELSE Opened.recs[e].c
             tick == Larger(0, Opened.recs[e].t)
  <2>1. /\ crashes = 0 /\ ~ Loaded /\ stage = "idle" /\ e \in Keys /\ n \in Int
        /\ Opened \in Store /\ LostOf(Opened) \in MayBeLost
    BY <1>12, <1>13, <1>15, ImportAssumption DEF Import, Keys
  <2>2. Opened.recs[e].c \in Int /\ Opened.recs[e].t \in Tick
    BY <2>1, StoreFields
  <2>3. tick \in Nat /\ count \in Int
    BY <2>1, <2>2 DEF Larger, Tick, NoTick
  <2>4. file' = Put(Opened, e, count, tick)
    BY <1>15 DEF Import, ImportEntry
  <2> HIDE DEF count, tick
  <2>5. LostOf(file') = LostOf(Opened) /\ file' \in Store
    <3>1. PICK s \in Store, c \in Int, t \in Nat : s = Opened /\ c = count /\ t = tick
      BY <2>1, <2>3
    <3>2. LostOf(Put(s, e, c, t)) = LostOf(s) /\ Put(s, e, c, t) \in Store
      BY PutIsSeen
    <3> QED BY <2>4, <3>1, <3>2
  <2> QED BY <1>0, <1>2, <1>3, <1>15, <2>1, <2>5 DEF Import, Loaded
<1>16. ASSUME NEW s \in Foreign \cup {snapshot}, Restore(s) PROVE LifeInv'
  BY <1>2, <1>3, <1>12, <1>16 DEF Restore, Loaded
<1>17. CASE MergeFails
  BY <1>2, <1>3, <1>17 DEF MergeFails, Loaded
<1>18. ASSUME stage \in {"remove", "merge", "tick"} PROVE ~ Loaded
  BY <1>18 DEF TaskInv
<1>19. CASE RestoreEntries
  <2>1. /\ crashes = 0 /\ ~ Loaded /\ src \in Store
        /\ Opened \in Store /\ LostOf(Opened) \in MayBeLost
    BY <1>13, <1>18, <1>19 DEF RestoreEntries, TaskInv
  <2>2. LostOf(file') = LostOf(Opened) /\ file' \in Store
    BY <1>19, <2>1, MergedIsSeen, MergeEntriesIsStore DEF RestoreEntries
  <2> QED BY <1>0, <1>2, <1>3, <1>19, <2>1, <2>2 DEF RestoreEntries, Loaded
<1>20. CASE RestoreTick
  <2>1. crashes = 0 /\ ~ Loaded /\ src \in Store /\ file \in Store
    BY <1>18, <1>20 DEF RestoreTick, TaskInv
  <2>2. file' \in Store /\ file'.recs = file.recs
    BY <1>20, <2>1, MergeTickIsStore DEF RestoreTick
  <2>3. LostOf(file') = LostOf(file)
    BY <2>2, SeenAlike
  <2> QED BY <1>0, <1>2, <1>3, <1>20, <2>1, <2>2, <2>3 DEF RestoreTick, Loaded
<1>21. CASE UpgradeRemove
  BY <1>0, <1>2, <1>3, <1>18, <1>21 DEF UpgradeRemove, Loaded
<1>22. CASE Crash \/ CrashInBackup
  BY <1>1, <1>22 DEF Crash, CrashInBackup
<1>23. CASE UNCHANGED vars
  BY <1>2, <1>3, <1>23 DEF vars, Loaded
<1> QED
  BY <1>4, <1>6, <1>7, <1>8, <1>10, <1>11, <1>14, <1>15, <1>16, <1>17, <1>19, <1>20, <1>21,
     <1>22, <1>23 DEF Next
-----------------------------------------------------------------------------
(* Every step is one of the lexicon's, or is not seen                       *)

\* Counts that nobody has are not joined.
LEMMA JoinedWithNothing ==
  ASSUME NEW f, f \in [DOMAIN f -> Int]
  PROVE  /\ LexiconOf!Joined(f, LexiconOf!Nothing) = f
         /\ LexiconOf!Joined(LexiconOf!Nothing, f) = f
BY DEF LexiconOf!Joined, LexiconOf!Nothing

\* Counts that have been joined already change nothing when they are joined again.
LEMMA JoinedTwice ==
  ASSUME NEW f, f \in [DOMAIN f -> Int], NEW g, g \in [DOMAIN g -> Int]
  PROVE  LET j == LexiconOf!Joined(f, g)
         IN j \in [DOMAIN j -> Int] /\ LexiconOf!Joined(f, j) = j
<1> DEFINE D == DOMAIN f
           E == DOMAIN g
           j == LexiconOf!Joined(f, g)
           jj == LexiconOf!Joined(f, j)
<1>1. /\ j \in [D \cup E -> Int]
      /\ \A x \in D \cup E : j[x] = IF x \notin D THEN g[x]
                                    ELSE IF x \notin E \/ g[x] < f[x] THEN f[x] ELSE g[x]
  BY DEF LexiconOf!Joined
<1> HIDE DEF j
<1>2. /\ DOMAIN jj = D \cup E /\ jj = [x \in D \cup E |-> jj[x]]
      /\ \A x \in D \cup E : jj[x] = IF x \notin D THEN j[x]
                                     ELSE IF j[x] < f[x] THEN f[x] ELSE j[x]
  BY <1>1 DEF LexiconOf!Joined
<1> HIDE DEF jj
<1>3. \A x \in D \cup E : jj[x] = j[x]
  BY <1>1, <1>2
<1>4. j = [x \in D \cup E |-> j[x]]
  BY <1>1
<1>5. jj = j
  BY <1>2, <1>3, <1>4
<1> QED BY <1>1, <1>5 DEF j, jj

\* So it is when a snapshot is merged with its own counts.
LEMMA MergedAgain ==
  ASSUME NEW s \in Store
  PROVE  LET j == LexiconOf!Joined(CountsOf(s), LostOf(s))
         IN LexiconOf!Joined(CountsOf(s), j) = j /\ LexiconOf!Joined(LexiconOf!Nothing, j) = j
<1>1. CountsOf(s) \in [DOMAIN CountsOf(s) -> Int] /\ LostOf(s) \in [DOMAIN LostOf(s) -> Int]
  BY CountsSeen, LostIsInt
<1> QED BY <1>1, JoinedTwice, JoinedWithNothing

SeenVars == << Seen, Saved, crashes > 0 >>

LEMMA StepSimulation ==
  TypeOK /\ TaskInv /\ LifeInv /\ [Next]_vars => [LexiconOf!Next]_SeenVars
<1> SUFFICES ASSUME TypeOK, TaskInv, LifeInv, [Next]_vars
             PROVE  [LexiconOf!Next]_SeenVars
  OBVIOUS
<1> USE DEF disk, history, task
<1>0. /\ Missing \notin Store /\ Broken \notin Store /\ Missing # Broken
      /\ ~ IsOk(Missing) /\ ~ IsOk(Broken) /\ \A s \in Store : IsOk(s)
      /\ Fresh \in Store /\ CountsOf(Fresh) = LexiconOf!Nothing
  BY FreshIsStore, FreshIsSeen DEF Store, Missing, Broken, IsOk
<1>1. ASSUME crashes' > 0 PROVE LexiconOf!Next
  BY <1>1 DEF LexiconOf!Next
<1>2. crashes \in Nat /\ crashes' \in {crashes, crashes + 1}
  <2>1. crashes \in Nat
    BY BoundAssumption DEF TypeOK
  <2>2. CASE Crash \/ CrashInBackup
    BY <2>1, <2>2 DEF Crash, CrashInBackup, Dies
  <2>3. CASE ~ (Crash \/ CrashInBackup)
    BY <2>1, <2>3 DEF Next, LoadShared, LoadFile, LoadNothing, LoadBroken, Recover, Close, Lookup,
                Commit, Delete, Backup, Import, Restore, MergeFails, RestoreEntries,
                RestoreTick, UpgradeBackup, UpgradeRemove, vars
  <2> QED BY <2>1, <2>2, <2>3
<1> SUFFICES ASSUME crashes = 0, crashes' = 0 PROVE [LexiconOf!Next]_SeenVars
  BY <1>1, <1>2
<1>3. ASSUME LexiconOf!Alive PROVE LexiconOf!Next
  BY <1>3 DEF LexiconOf!Next
<1>4. ASSUME Seen' = Seen, Saved' = Saved PROVE UNCHANGED SeenVars
  BY <1>4 DEF SeenVars
<1>5. /\ stage # "recover" /\ (stage = "idle" => src = Missing)
      /\ stage # "idle" => src \in Foreign \cup {snapshot}
      /\ file = Broken => ~ Loaded /\ snapshot = Missing
  BY DEF LifeInv
\* What is saved does not change with the snapshot.
<1>6. ASSUME snapshot' = snapshot PROVE Saved' = Saved
  BY <1>6 DEF Saved
\* What is seen is the open database, else the file, else what is merged.
<1>7. /\ Loaded => Content = db /\ db \in Store
      /\ ~ Loaded /\ file \in Store => Content = file
      /\ ~ Loaded /\ file = Missing /\ src \in Store => Content = src
      /\ ~ Loaded /\ file = Missing /\ src = Missing => Content = Fresh
      /\ ~ Loaded /\ file = Broken => Content = Fresh
  BY <1>0 DEF Content, Loaded, TypeOK
<1>8. /\ Loaded' => Content' = db'
      /\ ~ Loaded' /\ file' \in Store => Content' = file'
      /\ ~ Loaded' /\ file' = Missing /\ src' \in Store => Content' = src'
      /\ ~ Loaded' /\ file' = Missing /\ src' = Missing => Content' = Fresh
      /\ ~ Loaded' /\ file' = Broken => Content' = Fresh
  BY <1>0 DEF Content, Loaded
<1>9. ASSUME Content'.recs = Content.recs, snapshot' = snapshot PROVE UNCHANGED SeenVars
  BY <1>4, <1>6, <1>9, SeenAlike DEF Seen
<1>10. ASSUME NEW d \in Dicts, LoadShared(d) \/ LoadNothing(d) \/ Lookup(d)
       PROVE  UNCHANGED SeenVars
  BY <1>9, <1>10 DEF LoadShared, LoadNothing, Lookup, Content, Loaded
<1>11. \A s \in Store : Initialized(s).recs = s.recs
  BY DEF Initialized, Store
<1>12. ASSUME NEW d \in Dicts, LoadFile(d) PROVE UNCHANGED SeenVars
  <2>1. /\ ~ Loaded /\ src = Missing /\ file' \in Store
        /\ file' = IF file = Missing THEN Fresh ELSE file
    BY <1>0, <1>5, <1>12 DEF LoadFile, TypeOK, File
  <2>2. Content = file'
    BY <1>0, <1>7, <2>1
  <2>3. db' = Initialized(file') /\ db' \in Store /\ Content' = db'
    BY <1>0, <1>8, <1>12, <2>1, InitializedIsStore DEF LoadFile, Loaded
  <2> QED BY <1>9, <1>11, <1>12, <2>1, <2>2, <2>3 DEF LoadFile
<1>13. ASSUME NEW d \in Dicts, LoadBroken(d) \/ Recover(d) PROVE FALSE
  BY <1>5, <1>13 DEF LoadBroken, Recover
<1>14. ASSUME NEW d \in Dicts, Close(d) PROVE UNCHANGED SeenVars
  <2>1. CASE Loaded /\ \A other \in Dicts \ {d} : dicts[other] = Off
    <3>1. ~ Loaded' /\ file' = db /\ db \in Store
      BY <1>7, <1>14, <2>1 DEF Close, Loaded
    <3> QED BY <1>7, <1>8, <1>9, <1>14, <2>1, <3>1 DEF Close
  <2>2. CASE ~ (Loaded /\ \A other \in Dicts \ {d} : dicts[other] = Off)
    BY <1>9, <1>14, <2>2 DEF Close, Content, Loaded
  <2> QED BY <2>1, <2>2
\* What is seen, entry by entry
<1>15. Content \in Store
  BY <1>0, <1>5, <1>7 DEF TypeOK, File, Loaded
<1>16. /\ Seen = [x \in Known(Content) \cap Entries |-> Content.recs[x].c]
       /\ LexiconOf!Known = Known(Content) \cap Entries
       /\ \A x \in Entries : LexiconOf!Of(x) = Content.recs[x].c /\ Content.recs[x].c \in Int
  <2>1. Seen = [x \in Known(Content) \cap Entries |-> Content.recs[x].c]
    BY DEF Seen, CountsOf
  <2>2. LexiconOf!Known = Known(Content) \cap Entries
    BY <2>1 DEF LexiconOf!Known
  <2>3. \A x \in Entries : /\ Content.recs[x].c \in Int
                           /\ x \notin Known(Content) => Content.recs[x].c = 0
    BY <1>15, CountsSeen
  <2> QED BY <2>1, <2>2, <2>3 DEF LexiconOf!Of
<1>17. Seen' = [x \in Known(Content') \cap Entries |-> Content'.recs[x].c]
  BY DEF Seen, CountsOf
<1>18. ASSUME NEW d \in Dicts, InUse(d)
       PROVE  dicts[d] \in Nat /\ db \in Store /\ Loaded /\ Content = db /\ stage = "idle"
  BY <1>7, <1>18 DEF InUse, TaskInv, TypeOK, Loaded, Off, Loading
<1>19. ASSUME NEW d \in Dicts, NEW e \in Entries, NEW parts \in SUBSET (Entries \ {e}),
              Commit(d, parts, e)
       PROVE  LexiconOf!Learn(e, parts)
  <2>1. /\ Loaded /\ dicts[d] \in Nat /\ db \in Store /\ Content = db
        /\ parts \in SUBSET Entries /\ e \notin parts
    BY <1>18, <1>19 DEF Commit
  <2>2. PICK old \in Nat, tick \in Nat : old = dicts[d] /\ tick = dicts[d] + 1
    BY <2>1
  <2> DEFINE touched == Touched(db, parts, old)
             new == After(db, e, parts, old, tick)
  <2>3. /\ touched \in Store /\ new \in Store
        /\ Known(touched) = Known(db) \cup parts
        /\ Known(new) = Known(db) \cup parts \cup {e}
        /\ \A x \in Keys : touched.recs[x].c = db.recs[x].c
        /\ \A x \in Keys : new.recs[x].c =
                             IF x = e THEN Size(db.recs[e].c) + 1 ELSE db.recs[x].c
    <3>1. PICK s \in Store : s = db
      BY <2>1
    <3>2. /\ Touched(s, parts, old) \in Store
          /\ Known(Touched(s, parts, old)) = Known(s) \cup parts
          /\ \A x \in Keys : Touched(s, parts, old).recs[x].c = s.recs[x].c
      BY <2>1, TouchedIsSeen
    <3>3. /\ After(s, e, parts, old, tick) \in Store
          /\ Known(After(s, e, parts, old, tick)) = Known(s) \cup parts \cup {e}
          /\ \A x \in Keys : After(s, e, parts, old, tick).recs[x].c =
                               IF x = e THEN Size(s.recs[e].c) + 1 ELSE s.recs[x].c
      BY <2>1, CommittedIsSeen
    <3> QED BY <3>1, <3>2, <3>3
  <2>4. db' = new /\ snapshot' = IF BackupDue(tick) THEN touched ELSE snapshot
    BY <1>19, <2>2 DEF Commit, After
  <2> HIDE DEF new, touched
  <2>5. Content' = new
    BY <1>0, <1>8, <2>3, <2>4 DEF Loaded
  <2>6. Seen' = [x \in LexiconOf!Known \cup parts \cup {e} |->
                   IF x = e THEN LexiconOf!Size(LexiconOf!Of(e)) + 1 ELSE LexiconOf!Of(x)]
    <3>1. Known(new) \cap Entries = LexiconOf!Known \cup parts \cup {e}
      BY <1>16, <2>1, <2>3
    <3>2. \A x \in LexiconOf!Known \cup parts \cup {e} :
            new.recs[x].c = IF x = e THEN LexiconOf!Size(LexiconOf!Of(e)) + 1
                            ELSE LexiconOf!Of(x)
      BY <1>16, <2>1, <2>3 DEF Keys, Size, LexiconOf!Size
    <3> QED BY <1>17, <2>5, <3>1, <3>2
  <2>7. Saved' = Saved \/ Saved' = [x \in LexiconOf!Known \cup parts |-> LexiconOf!Of(x)]
    <3>1. CASE snapshot' = snapshot
      BY <1>6, <3>1
    <3>2. CASE snapshot' = touched
      <4>1. Saved' = [x \in Known(touched) \cap Entries |-> touched.recs[x].c]
        BY <1>0, <2>3, <3>2 DEF Saved, CountsOf
      <4>2. Known(touched) \cap Entries = LexiconOf!Known \cup parts
        BY <1>16, <2>1, <2>3
      <4>3. \A x \in LexiconOf!Known \cup parts : touched.recs[x].c = LexiconOf!Of(x)
        BY <1>16, <2>1, <2>3 DEF Keys
      <4> QED BY <4>1, <4>2, <4>3
    <3> QED BY <2>4, <3>1, <3>2
  <2> QED BY <2>6, <2>7 DEF LexiconOf!Learn
<1>20. ASSUME NEW d \in Dicts, NEW e \in Entries, Delete(d, e) PROVE LexiconOf!Forget(e)
  <2>1. Loaded /\ dicts[d] \in Nat /\ db \in Store /\ Content = db /\ e \in Keys
    BY <1>18, <1>20 DEF Delete, Keys
  <2>2. PICK n \in Int : n = Larger(1, db.recs[e].c)
    BY <2>1, StoreFields DEF Larger
  <2>3. n \in {1} \cup 1 .. LexiconOf!Size(LexiconOf!Of(e))
    BY <1>16, <2>1, <2>2 DEF Larger, LexiconOf!Size
  <2> DEFINE new == Put(db, e, - n, dicts[d])
  <2>4. /\ new \in Store /\ Known(new) = Known(db) \cup {e}
        /\ \A x \in Keys : new.recs[x].c = IF x = e THEN - n ELSE db.recs[x].c
    BY <2>1, <2>2, PutIsSeen
  <2>5. db' = new /\ snapshot' = snapshot
    BY <1>20, <2>2 DEF Delete, Deleted
  <2> HIDE DEF new
  <2>6. Content' = new
    BY <1>0, <1>8, <2>4, <2>5 DEF Loaded
  <2>7. Known(new) \cap Entries = LexiconOf!Known \cup {e}
    BY <1>16, <2>1, <2>4
  <2>8. \A x \in LexiconOf!Known \cup {e} : new.recs[x].c = IF x = e THEN - n ELSE Seen[x]
    BY <1>16, <2>1, <2>4 DEF Keys
  <2>9. LexiconOf!Set(e, - n)
    BY <1>17, <2>6, <2>7, <2>8 DEF LexiconOf!Set
  <2> QED BY <1>6, <2>3, <2>5, <2>9 DEF LexiconOf!Forget
\* The manager
<1>21. ASSUME Closed
       PROVE  /\ ~ Loaded /\ stage = "idle" /\ src = Missing
              /\ Content = IF file \in Store THEN file ELSE Fresh
  BY <1>0, <1>5, <1>7, <1>21 DEF Closed, TaskInv, TypeOK, File
<1>22. CASE Backup \/ UpgradeBackup
  <2>1. ~ Loaded /\ file \in Store /\ Content = file /\ snapshot' = file
    BY <1>0, <1>21, <1>22 DEF Backup, UpgradeBackup, CanUpgrade, TypeOK, File
  <2>2. Content' = file
    BY <1>8, <1>22, <2>1 DEF Backup, UpgradeBackup, Loaded
  <2>3. Seen' = Seen /\ Saved' = Seen
    BY <1>0, <2>1, <2>2 DEF Seen, Saved
  <2>4. LexiconOf!Save
    BY <2>3 DEF LexiconOf!Save
  <2> QED BY <1>3, <2>4 DEF LexiconOf!Alive
<1>23. ASSUME CanOpen, ~ Loaded
       PROVE  Opened = (IF file = Missing THEN Fresh ELSE file) /\ Opened \in Store
  BY <1>0, <1>5, <1>23 DEF CanOpen, Opened, TypeOK, File
<1>24. ASSUME NEW e \in Entries, NEW n \in Imports, Import(e, n) PROVE LexiconOf!Revise(e, n)
  <2>1. ~ Loaded /\ Opened \in Store /\ Content = Opened /\ e \in Keys /\ n \in Int
    BY <1>0, <1>21, <1>23, <1>24, ImportAssumption DEF Import, Keys
  <2>2. Opened.recs[e].c \in Int /\ Opened.recs[e].t \in Tick
    BY <2>1, StoreFields
  <2>3. PICK m \in Int : m = IF n > 0 THEN Larger(n, Opened.recs[e].c)
                             ELSE IF n < 0 THEN n ELSE Opened.recs[e].c
    BY <2>1, <2>2 DEF Larger
  <2>4. PICK tick \in Nat : tick = Larger(0, Opened.recs[e].t)
    BY <2>2 DEF Larger, Tick, NoTick
  <2> DEFINE new == Put(Opened, e, m, tick)
  <2>5. /\ new \in Store /\ Known(new) = Known(Opened) \cup {e}
        /\ \A x \in Keys : new.recs[x].c = IF x = e THEN m ELSE Opened.recs[x].c
    BY <2>1, PutIsSeen
  <2>6. file' = new /\ snapshot' = snapshot /\ ~ Loaded'
    BY <1>24, <2>1, <2>3, <2>4 DEF Import, ImportEntry, Loaded
  <2> HIDE DEF new
  <2>7. Content' = new
    BY <1>8, <2>5, <2>6
  <2>8. Known(new) \cap Entries = LexiconOf!Known \cup {e}
    BY <1>16, <2>1, <2>5
  <2>9. \A x \in LexiconOf!Known \cup {e} : new.recs[x].c = IF x = e THEN m ELSE Seen[x]
    BY <1>16, <2>1, <2>5 DEF Keys
  <2>10. LexiconOf!Set(e, m)
    BY <1>17, <2>7, <2>8, <2>9 DEF LexiconOf!Set
  <2>11. m = IF n > 0 THEN IF LexiconOf!Of(e) < n THEN n ELSE LexiconOf!Of(e)
             ELSE IF n < 0 THEN n ELSE LexiconOf!Of(e)
    BY <1>16, <2>1, <2>2, <2>3 DEF Larger
  <2> QED BY <1>6, <2>6, <2>10, <2>11 DEF LexiconOf!Revise
\* Where the counts of a snapshot come from
<1>25. ASSUME NEW s \in Foreign \cup {snapshot}, s \in Store
       PROVE  /\ CountsOf(s) \in {CountsOf(r) : r \in Foreign} \cup {Saved}
              /\ LostOf(s) \in MayBeLost
              /\ CountsOf(s) \in [Known(s) \cap Entries -> Int]
  <2>1. CASE s \in Foreign
    BY <1>0, <1>25, <2>1, CountsSeen DEF MayBeLost
  <2>2. CASE s = snapshot
    BY <1>0, <1>25, <2>2, CountsSeen DEF Saved, LifeInv
  <2> QED BY <2>1, <2>2
<1>26. ASSUME NEW others \in {CountsOf(s) : s \in Foreign} \cup {Saved},
              NEW lost \in MayBeLost,
              LexiconOf!Merge(LexiconOf!Joined(others, lost))
       PROVE  LexiconOf!Alive
  BY <1>26 DEF LexiconOf!Alive, MayBeLost
<1>27. ASSUME NEW s \in Foreign \cup {snapshot}, Restore(s)
       PROVE  LexiconOf!Alive \/ UNCHANGED SeenVars
  <2>1. /\ ~ Loaded /\ src = Missing /\ s \in Store /\ src' = s /\ ~ Loaded'
        /\ file' = file /\ snapshot' = snapshot
        /\ Content = IF file \in Store THEN file ELSE Fresh
    BY <1>0, <1>21, <1>27, FilesAssumption DEF Restore, TypeOK, File, Loaded
  <2>2. CASE file # Missing
    <3>1. Content' = Content
      BY <1>0, <1>8, <2>1, <2>2 DEF TypeOK, File
    <3> QED BY <1>9, <2>1, <3>1
  <2>3. CASE file = Missing
    <3>1. Seen = LexiconOf!Nothing /\ Seen' = CountsOf(s)
      BY <1>0, <1>8, <2>1, <2>3 DEF Seen
    <3>2. /\ CountsOf(s) \in {CountsOf(r) : r \in Foreign} \cup {Saved}
          /\ CountsOf(s) \in [DOMAIN CountsOf(s) -> Int]
          /\ LexiconOf!Nothing \in MayBeLost
      BY <1>25, <2>1 DEF MayBeLost
    <3>3. Seen' = LexiconOf!Joined(Seen, LexiconOf!Joined(CountsOf(s), LexiconOf!Nothing))
      BY <3>1, <3>2, JoinedWithNothing
    <3>4. LexiconOf!Merge(LexiconOf!Joined(CountsOf(s), LexiconOf!Nothing))
      BY <1>6, <2>1, <3>3 DEF LexiconOf!Merge
    <3> QED BY <1>26, <3>2, <3>4
  <2> QED BY <2>2, <2>3
<1>28. ASSUME stage \in {"remove", "merge", "tick"} PROVE ~ Loaded /\ src \in Store
  BY <1>28 DEF TaskInv
<1>29. CASE MergeFails
  <2>1. ~ Loaded /\ file = Broken /\ UNCHANGED << file, db, snapshot >>
    BY <1>28, <1>29 DEF MergeFails, CanOpen
  <2>2. Content' = Content
    BY <1>7, <1>8, <2>1 DEF Loaded
  <2> QED BY <1>9, <2>1, <2>2
\* The entries of both, and the mangled ones, which are mended; while there is
\* no file, the merge with the own counts of the snapshot changes nothing.
<1>30. CASE RestoreEntries
  <2>1. /\ ~ Loaded /\ src \in Store /\ src \in Foreign \cup {snapshot} /\ snapshot' = snapshot
        /\ Opened \in Store /\ Opened = (IF file = Missing THEN Fresh ELSE file)
        /\ file' = MergeEntries(Opened, src) /\ ~ Loaded'
    BY <1>5, <1>23, <1>28, <1>30 DEF RestoreEntries, Loaded
  <2>2. PICK r \in Store : r = src
    BY <2>1
  <2>3. PICK o \in Store : o = Opened
    BY <2>1
  <2>4. /\ MergeEntries(o, r) \in Store
        /\ CountsOf(MergeEntries(o, r)) =
             LexiconOf!Joined(CountsOf(o), LexiconOf!Joined(CountsOf(r), LostOf(r)))
    BY MergeEntriesIsStore, MergedIsSeen
  <2>5. Seen' = LexiconOf!Joined(CountsOf(o), LexiconOf!Joined(CountsOf(r), LostOf(r)))
    BY <1>8, <2>1, <2>2, <2>3, <2>4 DEF Seen
  <2>6. Seen = CountsOf(o) \/ (Seen = CountsOf(r) /\ CountsOf(o) = LexiconOf!Nothing)
    BY <1>0, <1>7, <2>1, <2>2, <2>3 DEF Seen
  <2>7. Seen' = LexiconOf!Joined(Seen, LexiconOf!Joined(CountsOf(r), LostOf(r)))
    <3>1. CASE Seen = CountsOf(o)
      BY <2>5, <3>1
    <3>2. CASE Seen = CountsOf(r) /\ CountsOf(o) = LexiconOf!Nothing
      BY <2>5, <3>2, MergedAgain
    <3> QED BY <2>6, <3>1, <3>2
  <2>8. LexiconOf!Merge(LexiconOf!Joined(CountsOf(r), LostOf(r)))
    BY <1>6, <2>1, <2>7 DEF LexiconOf!Merge
  <2>9. /\ CountsOf(r) \in {CountsOf(s) : s \in Foreign} \cup {Saved}
        /\ LostOf(r) \in MayBeLost
    BY <1>25, <2>1, <2>2
  <2> QED BY <1>3, <1>26, <2>8, <2>9
<1>31. CASE RestoreTick
  <2>1. ~ Loaded /\ ~ Loaded' /\ src \in Store /\ file \in Store /\ snapshot' = snapshot
    BY <1>28, <1>31 DEF RestoreTick, TaskInv, Loaded
  <2>2. file' \in Store /\ file'.recs = file.recs
    BY <1>31, <2>1, MergeTickIsStore DEF RestoreTick
  <2> QED BY <1>7, <1>8, <1>9, <2>1, <2>2
<1>32. CASE UpgradeRemove
  <2>1. /\ ~ Loaded /\ ~ Loaded' /\ src \in Store /\ file = src
        /\ file' = Missing /\ src' = src /\ snapshot' = snapshot
    BY <1>28, <1>32 DEF UpgradeRemove, TaskInv, Loaded
  <2> QED BY <1>7, <1>8, <1>9, <2>1
<1>33. CASE Crash \/ CrashInBackup
  BY <1>33 DEF Crash, CrashInBackup, Dies
<1>34. CASE UNCHANGED vars
  BY <1>9, <1>34 DEF vars, Content, Loaded
<1>35. ASSUME \/ \E e \in Entries : \E parts \in SUBSET (Entries \ {e}) :
                   LexiconOf!Learn(e, parts)
              \/ \E e \in Entries : LexiconOf!Forget(e)
              \/ \E e \in Entries, n \in Imports : LexiconOf!Revise(e, n)
              \/ LexiconOf!Alive
              \/ LexiconOf!Next
       PROVE  LexiconOf!Next
  BY <1>3, <1>35 DEF LexiconOf!Alive
<1> QED
  BY <1>10, <1>12, <1>13, <1>14, <1>19, <1>20, <1>22, <1>24, <1>27, <1>29, <1>30, <1>31,
     <1>32, <1>33, <1>34, <1>35 DEF Next

\* The sessions, their ticks and the steps of the manager hide nothing that the
\* lexicon does not promise: what is looked up between two crashes is what was
\* committed, deleted, imported and merged (UserDictionary, UserDictManager).
THEOREM Implementation == Spec => ImplementsLexicon
<1>1. Init => TypeOK /\ TaskInv /\ LifeInv /\ LexiconOf!Init
  <2> SUFFICES ASSUME Init PROVE LexiconOf!Init
    BY InitLife
  <2>1. /\ Missing \notin Store /\ ~ Loaded /\ \A s \in Store : IsOk(s)
        /\ ~ IsOk(Missing) /\ Missing # Broken
    BY FreshIsStore DEF Init, Loaded, Store, Missing, Broken, IsOk
  <2>2. Content \in Store
    BY <2>1, FreshIsStore, FilesAssumption DEF Init, Content, File, IsOk, Missing, Broken
  <2>3. /\ Seen \in [Known(Content) \cap Entries -> Int]
        /\ DOMAIN Seen = Known(Content) \cap Entries
    BY <2>2, CountsSeen DEF Seen
  <2>4. Saved = LexiconOf!Nothing
    BY <2>1, FreshIsSeen DEF Init, Saved
  <2> QED
    BY <2>3, <2>4 DEF Init, LexiconOf!Init, LexiconOf!Known
<1>2. TypeOK /\ TaskInv /\ LifeInv /\ [Next]_vars =>
        (TypeOK /\ TaskInv /\ LifeInv)' /\ [LexiconOf!Next]_<< Seen, Saved, crashes > 0 >>
  BY NextTypes, NextLife, StepSimulation DEF SeenVars
<1> QED BY <1>1, <1>2, PTL DEF Spec, ImplementsLexicon, LexiconOf!Spec
-----------------------------------------------------------------------------
(* Ticks                                                                    *)

\* One session only: a second one would start with a tick of its own.
OneSession == \A d, e \in Dicts : d = e

\* A file of the present version has its tick under the present key, and no
\* record later than that.
FirstIsTimely ==
  FirstFile \in Store /\ ~ FirstFile.old =>
    FirstFile.empty_tick = NoTick /\ Timely(FirstFile)

\* The same of a database.  Between the two halves of a merge the tick is the one
\* that it is about to have.  The session has the tick of the database.
Dated(s) == s \in Store /\ ~ s.old => s.empty_tick = NoTick /\ Timely(s)
TimeInv ==
  crashes = 0 =>
    /\ stage # "tick" => Dated(file)
    /\ stage = "tick" => Dated(MergeTick(file, src))
    /\ Dated(db)
    /\ Loaded => \A d \in Dicts : dicts[d] # Off => dicts[d] = FetchTickCount(db)

\* Two databases with the same records and the same ticks
LEMMA DatedAlike ==
  ASSUME NEW s \in Store, NEW r \in Store, Dated(s), r.old = s.old, r.recs = s.recs,
         FetchTickCount(r) = FetchTickCount(s), r.empty_tick = s.empty_tick
  PROVE  Dated(r)
BY DEF Dated, Timely

\* A database that is opened for the first time gets the tick 0.
LEMMA DatedInitialized ==
  ASSUME NEW s \in Store, Dated(s)
  PROVE  Dated(Initialized(s))
<1>1. CASE FetchTickCount(s) = NoTick
  <2> DEFINE new == [s EXCEPT !.tick = 0]
  <2>1. /\ new \in Store /\ new.recs = s.recs /\ new.tick = 0
        /\ new.old = s.old /\ new.empty_tick = s.empty_tick
    BY StoreWith DEF Store, Tick
  <2>2. Initialized(s) = new
    BY <1>1 DEF Initialized
  <2> HIDE DEF new
  <2>3. Larger(0, FetchTickCount(s)) = 0 /\ Larger(0, FetchTickCount(new)) = 0
    BY <1>1, <2>1 DEF FetchTickCount, Larger, NoTick
  <2> QED BY <2>1, <2>2, <2>3 DEF Dated, Timely
<1>2. CASE FetchTickCount(s) # NoTick
  BY <1>2 DEF Initialized
<1> QED BY <1>1, <1>2

\* A record may be written with any tick up to the present one.
LEMMA DatedPut ==
  ASSUME NEW s \in Store, NEW k \in Keys, NEW count \in Int, NEW tick \in Nat,
         Dated(s), ~ s.old => tick <= Larger(0, FetchTickCount(s))
  PROVE  Dated(Put(s, k, count, tick))
<1> DEFINE new == Put(s, k, count, tick)
<1>1. s.recs \in [Keys -> Record] /\ new \in Store
  BY StoreFields, PutIsStore
<1>2. /\ new.recs = [s.recs EXCEPT ![k] = [c |-> count, t |-> tick]]
      /\ new.tick = s.tick /\ new.empty_tick = s.empty_tick /\ new.old = s.old
  BY DEF Put, Store
<1>3. \A x \in Keys : new.recs[x].t = IF x = k THEN tick ELSE s.recs[x].t
  BY <1>1, <1>2
<1> HIDE DEF new
<1>4. FetchTickCount(new) = FetchTickCount(s)
  BY <1>2 DEF FetchTickCount
<1>5. Dated(new)
  BY <1>1, <1>2, <1>3, <1>4 DEF Dated, Timely
<1> QED BY <1>5 DEF new

\* A merge writes the later of the two ticks.
LEMMA DatedMerge ==
  ASSUME NEW dest \in Store, NEW source \in Store, Dated(dest)
  PROVE  Dated(Merge(dest, source))
<1> DEFINE m1 == MergeEntries(dest, source)
           m2 == MergeTick(m1, source)
           t == TickLeft(dest, source)
<1>1. /\ m1 \in Store /\ m2 \in Store /\ m2.recs = m1.recs
      /\ m1.tick = dest.tick /\ m1.old = dest.old /\ m1.empty_tick = dest.empty_tick
  BY MergeEntriesIsStore, MergeTickIsStore DEF MergeEntries, Store
<1>2. /\ t \in Nat /\ t >= GetTickCount(dest) /\ GetTickCount(dest) \in Nat
      /\ TickLeft(m1, source) = t
  BY <1>1, StoreFields DEF TickLeft, Larger, GetTickCount
<1>3. /\ m2.old = dest.old /\ m2.empty_tick = dest.empty_tick
      /\ m2.tick = IF Known(source) = {} THEN dest.tick ELSE t
  BY <1>1, <1>2 DEF MergeTick, Store
<1>4. \A k \in Keys : m1.recs[k].t = IF k \in Written(source) THEN t ELSE dest.recs[k].t
  BY DEF MergeEntries, Written, Store
<1> HIDE DEF m1, m2, t
<1>5. \A k \in Keys : dest.recs[k].t \in Tick
  BY StoreFields
<1>6. CASE Known(source) = {}
  <2>1. \A k \in Keys : m2.recs[k].t = dest.recs[k].t
    BY <1>1, <1>4, <1>6 DEF Written
  <2>2. FetchTickCount(m2) = FetchTickCount(dest)
    BY <1>3, <1>6 DEF FetchTickCount
  <2> QED BY <1>1, <1>3, <2>1, <2>2 DEF Dated, Timely, Merge, m1, m2
<1>7. CASE Known(source) # {}
  <2>1. FetchTickCount(m2) = t /\ Larger(0, t) = t
    BY <1>2, <1>3, <1>7 DEF FetchTickCount, Larger, NoTick
  <2>2. ASSUME ~ dest.old, NEW k \in Keys PROVE m2.recs[k].t <= t
    <3>1. dest.recs[k].t <= Larger(0, FetchTickCount(dest)) /\ dest.empty_tick = NoTick
      BY <2>2 DEF Dated, Timely
    <3>2. Larger(0, FetchTickCount(dest)) \in Nat
          /\ Larger(0, FetchTickCount(dest)) <= GetTickCount(dest)
      BY <3>1, StoreFields DEF FetchTickCount, GetTickCount, Larger, Tick, NoTick
    <3>3. dest.recs[k].t <= t
      BY <1>2, <1>5, <3>1, <3>2 DEF Tick, NoTick
    <3> QED BY <1>1, <1>2, <1>4, <3>3
  <2>3. Dated(m2)
    BY <1>3, <2>1, <2>2 DEF Dated, Timely
  <2> QED BY <2>3 DEF Merge, m1, m2
<1> QED BY <1>6, <1>7

\* A commit by a session that has the tick of the database: the parts get that
\* tick, the phrase and the database the next one.
LEMMA DatedCommit ==
  ASSUME NEW s \in Store, NEW e \in Entries, NEW parts \in SUBSET Entries, NEW old \in Nat,
         NEW tick \in Nat, tick = old + 1, old = FetchTickCount(s), Dated(s)
  PROVE  /\ Dated(After(s, e, parts, old, tick))
         /\ FetchTickCount(After(s, e, parts, old, tick)) = tick
<1> DEFINE recs == [k \in Keys |->
                      IF k \in parts THEN [c |-> s.recs[k].c, t |-> old] ELSE s.recs[k]]
           touched == Touched(s, parts, old)
           ticked == [touched EXCEPT !.tick = tick]
<1>1. recs \in [Keys -> Record] /\ e \in Keys
  BY StoreFields DEF Record, Keys
<1>2. /\ ticked.recs = recs /\ ticked.tick = tick
      /\ ticked.empty_tick = s.empty_tick /\ ticked.old = s.old
  BY DEF Touched, Store
<1>3. \A k \in Keys : recs[k].t = IF k \in parts THEN old ELSE s.recs[k].t
  OBVIOUS
<1>4. ticked \in Store
  <2>1. touched \in Store /\ tick \in Tick
    BY TouchedIsSeen DEF Tick
  <2> HIDE DEF touched
  <2> QED BY <1>1, <2>1, StoreWith
<1> HIDE DEF recs, touched, ticked
<1>5. /\ FetchTickCount(ticked) = tick /\ Larger(0, tick) = tick /\ Larger(0, old) = old
      /\ \A k \in Keys : s.recs[k].t \in Tick
  BY <1>2, StoreFields DEF FetchTickCount, Larger, NoTick
<1>6. ASSUME ~ s.old, NEW k \in Keys PROVE ticked.recs[k].t <= tick
  <2>1. s.recs[k].t <= old /\ s.recs[k].t \in Int
    BY <1>5, <1>6 DEF Dated, Timely, Tick, NoTick
  <2> QED BY <1>2, <1>3, <2>1
<1>7. Dated(ticked)
  BY <1>2, <1>5, <1>6 DEF Dated, Timely
<1>8. PICK n \in Int : n = Size(ticked.recs[e].c) + 1
  BY <1>1, <1>4, StoreFields DEF Size
<1>9. Dated(Put(ticked, e, n, tick))
  BY <1>1, <1>4, <1>5, <1>7, DatedPut
<1>10. FetchTickCount(Put(ticked, e, n, tick)) = tick
  BY <1>2, <1>4 DEF FetchTickCount, Put, Store, NoTick
<1> QED BY <1>8, <1>9, <1>10 DEF After, Committed, ticked, touched
LEMMA NextTime ==
  ASSUME OneSession
  PROVE  TypeOK /\ TaskInv /\ LifeInv /\ TimeInv /\ [Next]_vars => TimeInv'
<1> SUFFICES ASSUME TypeOK, TaskInv, LifeInv, TimeInv, [Next]_vars, crashes' = 0
             PROVE  TimeInv'
  BY DEF TimeInv
<1> USE DEF disk, history, task
<1>0. /\ Missing \notin Store /\ Broken \notin Store /\ Missing # Broken
      /\ Dated(Missing) /\ Dated(Broken)
      /\ Fresh \in Store /\ Dated(Fresh)
  <2>1. Dated(Fresh)
    BY DEF Dated, Timely, Fresh, Nothing, FetchTickCount, Larger, NoTick
  <2> QED BY <2>1, FreshIsStore DEF Store, Missing, Broken, Dated
<1>1. ~ Dies
  BY BoundAssumption DEF Dies, TypeOK
<1>2. ASSUME crashes = 0
      PROVE  /\ stage # "recover"
             /\ file = Broken => ~ Loaded /\ snapshot = Missing
             /\ stage # "tick" => Dated(file)
             /\ stage = "tick" => Dated(MergeTick(file, src))
             /\ Dated(db)
             /\ Loaded => \A d \in Dicts : dicts[d] # Off => dicts[d] = FetchTickCount(db)
  BY <1>2 DEF LifeInv, TimeInv
<1>3. ASSUME crashes = 0, stage' # "tick" => Dated(file'),
             stage' = "tick" => Dated(MergeTick(file', src')), Dated(db'),
             Loaded' => \A d \in Dicts : dicts'[d] # Off => dicts'[d] = FetchTickCount(db')
      PROVE  TimeInv'
  BY <1>3 DEF TimeInv
\* Only one session is there: when the database is loaded, it is its own.
<1>4. ASSUME NEW d \in Dicts, LoadShared(d) PROVE FALSE
  BY <1>4 DEF LoadShared, OneSession, TaskInv, NoSession
<1>5. ASSUME NEW d \in Dicts, LoadNothing(d) PROVE TimeInv'
  BY <1>2, <1>3, <1>5 DEF LoadNothing, Loaded
<1>6. ASSUME NEW d \in Dicts, LoadFile(d) PROVE TimeInv'
  <2>1. file' \in Store /\ Dated(file') /\ crashes = 0 /\ stage' # "tick"
    BY <1>0, <1>2, <1>6 DEF LoadFile, TypeOK, File
  <2>2. Dated(db')
    BY <1>6, <2>1, DatedInitialized DEF LoadFile
  <2>3. \A e \in Dicts : dicts'[e] = FetchTickCount(db')
    BY <1>6 DEF LoadFile, OneSession, TypeOK
  <2> QED BY <1>3, <2>1, <2>2, <2>3
<1>7. ASSUME NEW d \in Dicts, LoadBroken(d) \/ Recover(d) PROVE FALSE
  BY <1>2, <1>7 DEF LoadBroken, Recover
<1>8. ASSUME NEW d \in Dicts, Close(d) PROVE TimeInv'
  <2>1. CASE Loaded
    <3>1. \A other \in Dicts \ {d} : dicts[other] = Off
      BY DEF OneSession
    <3> QED BY <1>0, <1>2, <1>3, <1>8, <2>1, <3>1 DEF Close, Loaded
  <2>2. CASE ~ Loaded
    BY <1>2, <1>3, <1>8, <2>2 DEF Close, Loaded
  <2> QED BY <2>1, <2>2
<1>9. ASSUME NEW d \in Dicts, InUse(d), crashes = 0
      PROVE  /\ dicts[d] \in Nat /\ db \in Store /\ dicts[d] = FetchTickCount(db)
             /\ Refreshed(dicts[d]) = dicts[d] /\ stage = "idle" /\ Loaded
  BY <1>2, <1>9 DEF InUse, TaskInv, TypeOK, Loaded, Off, Loading, Refreshed
<1>10. ASSUME NEW d \in Dicts, Lookup(d) PROVE TimeInv'
  <2>1. crashes = 0 /\ dicts' = dicts
    BY <1>9, <1>10 DEF Lookup, TypeOK
  <2> QED BY <1>2, <1>3, <1>10, <2>1 DEF Lookup, Loaded
<1>11. ASSUME NEW d \in Dicts, NEW e \in Entries, NEW parts \in SUBSET (Entries \ {e}),
              Commit(d, parts, e)
       PROVE  TimeInv'
  <2>1. crashes = 0 /\ InUse(d)
    BY <1>11 DEF Commit
  <2>2. dicts[d] \in Nat /\ db \in Store /\ dicts[d] = FetchTickCount(db) /\ stage = "idle"
    BY <1>9, <2>1
  <2>3. PICK old \in Nat, tick \in Nat : old = dicts[d] /\ tick = old + 1
    BY <2>2
  <2>4. /\ db' = After(db, e, parts, old, tick) /\ dicts' = [dicts EXCEPT ![d] = tick]
        /\ stage' = stage /\ file' = file /\ parts \in SUBSET Entries
    BY <1>11, <2>3 DEF Commit, After
  <2>5. Dated(db') /\ FetchTickCount(db') = tick
    BY <1>2, <2>1, <2>2, <2>3, <2>4, DatedCommit
  <2>6. \A f \in Dicts : dicts'[f] = tick
    BY <2>4 DEF OneSession, TypeOK
  <2> QED BY <1>2, <1>3, <2>1, <2>2, <2>4, <2>5, <2>6
<1>12. ASSUME NEW d \in Dicts, NEW e \in Entries, Delete(d, e) PROVE TimeInv'
  <2>1. crashes = 0 /\ InUse(d)
    BY <1>12 DEF Delete
  <2>2. /\ dicts[d] \in Nat /\ db \in Store /\ dicts[d] = FetchTickCount(db) /\ e \in Keys
        /\ Refreshed(dicts[d]) = dicts[d] /\ stage = "idle" /\ Loaded
    BY <1>9, <2>1 DEF Keys
  <2>3. PICK n \in Int : n = - Larger(1, db.recs[e].c)
    BY <2>2, StoreFields DEF Larger
  <2>4. PICK tick \in Nat : tick = dicts[d]
    BY <2>2
  <2>5. /\ db' = Put(db, e, n, tick) /\ dicts' = dicts /\ stage' = stage /\ file' = file
    BY <1>12, <2>2, <2>3, <2>4 DEF Delete, Deleted, TypeOK
  <2>6. tick <= Larger(0, FetchTickCount(db))
    BY <2>2, <2>4 DEF Larger
  <2>7. Dated(db')
    BY <1>2, <2>1, <2>2, <2>5, <2>6, DatedPut
  <2>8. FetchTickCount(db') = FetchTickCount(db)
    BY <2>2, <2>5 DEF FetchTickCount, Put, Store
  <2> QED BY <1>2, <1>3, <2>1, <2>2, <2>5, <2>7, <2>8
\* The manager
<1>13. ASSUME CanOpen, crashes = 0, ~ Loaded, stage # "tick"
       PROVE  Opened \in Store /\ Dated(Opened)
  <2>1. Opened = IF file = Missing THEN Fresh ELSE file
    BY <1>0, <1>2, <1>13 DEF CanOpen, Opened
  <2>2. file = Missing \/ file \in Store
    BY <1>2, <1>13 DEF CanOpen, TypeOK, File
  <2> QED BY <1>0, <1>2, <1>13, <2>1, <2>2
<1>14. ASSUME stage \in {"remove", "merge", "tick"} \/ Closed PROVE ~ Loaded
  BY <1>14 DEF TaskInv, Closed
<1>15. CASE Backup \/ UpgradeBackup
  BY <1>2, <1>3, <1>14, <1>15 DEF Backup, UpgradeBackup, CanUpgrade, Closed, Loaded
<1>16. ASSUME NEW e \in Entries, NEW n \in Imports, Import(e, n) PROVE TimeInv'
  <2>1. /\ crashes = 0 /\ ~ Loaded /\ stage = "idle" /\ e \in Keys /\ n \in Int
        /\ Opened \in Store /\ Dated(Opened)
    BY <1>13, <1>14, <1>16, ImportAssumption DEF Import, Closed, Keys
  <2>2. Opened.recs[e].c \in Int /\ Opened.recs[e].t \in Tick
    BY <2>1, StoreFields
  <2>3. PICK m \in Int : m = IF n > 0 THEN Larger(n, Opened.recs[e].c)
                             ELSE IF n < 0 THEN n ELSE Opened.recs[e].c
    BY <2>1, <2>2 DEF Larger
  <2>4. PICK tick \in Nat : tick = Larger(0, Opened.recs[e].t)
    BY <2>2 DEF Larger, Tick, NoTick
  <2>5. file' = Put(Opened, e, m, tick)
    BY <1>16, <2>3, <2>4 DEF Import, ImportEntry
  <2>6. ~ Opened.old => tick <= Larger(0, FetchTickCount(Opened))
    BY <2>1, <2>2, <2>4, StoreFields DEF Dated, Timely, Larger, Tick, NoTick
  <2>7. Dated(file')
    BY <2>1, <2>5, <2>6, DatedPut
  <2> QED BY <1>2, <1>3, <1>16, <2>1, <2>7 DEF Import, Loaded
<1>17. ASSUME NEW s \in Foreign \cup {snapshot}, Restore(s) PROVE TimeInv'
  BY <1>2, <1>3, <1>14, <1>17 DEF Restore, Closed, Loaded
<1>18. CASE MergeFails
  BY <1>2, <1>3, <1>14, <1>18 DEF MergeFails, Loaded
<1>19. CASE RestoreEntries
  <2>1. /\ crashes = 0 /\ ~ Loaded /\ src \in Store /\ Opened \in Store /\ Dated(Opened)
    BY <1>13, <1>14, <1>19 DEF RestoreEntries, TaskInv
  <2>2. MergeTick(file', src') = Merge(Opened, src)
    BY <1>19 DEF RestoreEntries, Merge
  <2>3. Dated(MergeTick(file', src'))
    BY <2>1, <2>2, DatedMerge
  <2> QED BY <1>2, <1>3, <1>19, <2>1, <2>3 DEF RestoreEntries, Loaded
<1>20. CASE RestoreTick
  BY <1>2, <1>3, <1>14, <1>20 DEF RestoreTick, Loaded
<1>21. CASE UpgradeRemove
  BY <1>0, <1>2, <1>3, <1>14, <1>21 DEF UpgradeRemove, Loaded
<1>22. CASE Crash \/ CrashInBackup
  BY <1>1, <1>22 DEF Crash, CrashInBackup
<1>23. CASE UNCHANGED vars
  BY <1>2, <1>3, <1>23 DEF vars, Loaded
<1> QED
  BY <1>4, <1>5, <1>6, <1>7, <1>8, <1>10, <1>11, <1>12, <1>15, <1>16, <1>17, <1>18, <1>19,
     <1>20, <1>21, <1>22, <1>23 DEF Next

\* With one session, no merge, import, upgrade or lookup leaves a record with a
\* tick that is still to come (UserDictionary, UserDictManager).
THEOREM NoneFromTheFuture ==
  ASSUME OneSession, FirstIsTimely
  PROVE  Spec => []NoRecordFromTheFuture
<1>1. Init => TypeOK /\ TaskInv /\ LifeInv /\ TimeInv
  <2>1. Init => TimeInv
    BY DEF Init, TimeInv, Dated, FirstIsTimely, Store, Missing, Loaded
  <2> QED BY <2>1, InitLife
<1>2. TypeOK /\ TaskInv /\ LifeInv /\ TimeInv /\ [Next]_vars =>
        (TypeOK /\ TaskInv /\ LifeInv /\ TimeInv)'
  BY NextTypes, NextLife, NextTime
<1>3. TypeOK /\ LifeInv /\ TimeInv => NoRecordFromTheFuture
  <2> SUFFICES ASSUME TypeOK, LifeInv, TimeInv, crashes = 0, stage = "idle", ~ Content.old
               PROVE  Timely(Content)
    BY DEF NoRecordFromTheFuture
  <2>1. Timely(Fresh)
    BY DEF Timely, Fresh, Nothing, FetchTickCount, Larger, NoTick
  <2>2. (Content \in {db, file} /\ Content \in Store) \/ Content = Fresh
    BY DEF Content, Loaded, LifeInv, TypeOK, File, IsOk, Missing, Broken
  <2> QED BY <2>1, <2>2 DEF TimeInv, Dated
<1> QED BY <1>1, <1>2, <1>3, PTL DEF Spec
=============================================================================

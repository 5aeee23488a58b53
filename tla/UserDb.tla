------------------------------- MODULE UserDb -------------------------------
(***************************************************************************)
(* What a user database holds, and the operations of UserDictManager on    *)
(* whole databases.  A record is kept for an entry, that is for a phrase   *)
(* and its code; a negative count marks a deleted entry.  The decaying     *)
(* weight d of a record is left out: it decides only the order of          *)
(* candidates.                                                             *)
(***************************************************************************)
EXTENDS Integers, FiniteSetsExt

CONSTANTS
  Entries,    \* keys "code \ttext"
  Mangled,    \* keys that an early Import wrote without the space
  Mend        \* Mend[k]: the entry that such a key was meant for

ASSUME MendAssumption ==
  Mangled \cap Entries = {} /\ Mend \in [Mangled -> Entries]
ASSUME KeysAssumption == IsFiniteSet(Entries) /\ IsFiniteSet(Mangled)

Keys == Entries \cup Mangled
NoTick == -1
Tick == Nat \cup {NoTick}

\* A key that was never written has no record, and so no tick.
Nothing == [c |-> 0, t |-> NoTick]
Record == [c : Int, t : Nat] \cup {Nothing}

\* tick is the value of "\x01/tick", empty_tick the one an earlier version
\* wrote under the empty key, old whether "\x01/rime_version" is <= 0.9.1.
Store ==
  [state : {"ok"}, recs : [Keys -> Record],
   tick : Tick, empty_tick : Tick, old : BOOLEAN]

Missing == [state |-> "missing"]
Broken == [state |-> "broken"]    \* kyotocabinet cannot open it
File == Store \cup {Missing, Broken}
IsOk(f) == f.state = "ok"

\* what Open creates, with the metadata
Fresh ==
  [state |-> "ok", recs |-> [k \in Keys |-> Nothing],
   tick |-> NoTick, empty_tick |-> NoTick, old |-> FALSE]

Known(s) == {k \in Keys : s.recs[k].t # NoTick}
Put(s, k, count, tick) == [s EXCEPT !.recs[k] = [c |-> count, t |-> tick]]

Larger(m, n) == IF m < n THEN n ELSE m

\* UserDictionary reads the tick with the first, UserDictManager with the
\* second.
FetchTickCount(s) == IF s.tick # NoTick THEN s.tick ELSE s.empty_tick
GetTickCount(s) == IF s.tick # NoTick THEN s.tick ELSE 1

-----------------------------------------------------------------------------
(* Restore: a snapshot is merged into a database                            *)

Mended(k) == IF k \in Mangled THEN Mend[k] ELSE k

TickLeft(dest, src) == Larger(GetTickCount(dest), GetTickCount(src))

\* The counts that meet at entry e: its own, and those of its keys in src.
CountsAt(dest, src, e) ==
  {src.recs[k].c : k \in {j \in Known(src) : Mended(j) = e}} \cup
  {dest.recs[k].c : k \in Known(dest) \cap {e}}

\* Mutants: the counts are added; what comes later wins.
MergedCountSum(dest, src, e) ==
  dest.recs[e].c + (CHOOSE c \in CountsAt(Fresh, src, e) : TRUE)
MergedCountLast(dest, src, e) == CHOOSE c \in CountsAt(Fresh, src, e) : TRUE
MergedCount(dest, src, e) == Max(CountsAt(dest, src, e))

MergeEntries(dest, src) ==
  LET merged == {Mended(k) : k \in Known(src)}
  IN [dest EXCEPT !.recs = [k \in Keys |->
        IF k \in merged
        THEN [c |-> MergedCount(dest, src, k), t |-> TickLeft(dest, src)]
        ELSE dest.recs[k]]]

\* Mutant: the tick of the database is kept.
MergeTickNot(dest, src) == dest

MergeTick(dest, src) ==
  IF Known(src) = {} THEN dest
  ELSE [dest EXCEPT !.tick = TickLeft(dest, src)]

Merge(dest, src) == MergeTick(MergeEntries(dest, src), src)

-----------------------------------------------------------------------------
(* Import: one line of a text file, which may give a count                  *)

ImportEntry(s, e, commits) ==
  LET c == s.recs[e].c
  IN Put(s, e,
         IF commits > 0 THEN Larger(commits, c)
         ELSE IF commits < 0 THEN commits ELSE c,
         Larger(0, s.recs[e].t))
=============================================================================

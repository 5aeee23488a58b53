------------------------------ MODULE Lexicon ------------------------------
(***************************************************************************)
(* What a user dictionary promises: it knows how often each entry has been *)
(* committed, whoever shares it, opens and closes it or brings its file    *)
(* to a new version, as long as the process lives.  A negative count is    *)
(* the one of a deleted entry.                                             *)
(***************************************************************************)
EXTENDS Integers

CONSTANTS
  Entries,
  Counts,    \* the counts that a line of a text file may give
  Outside,   \* what other machines know: functions from entries to counts
  Lost       \* counts, such functions too, that are stored but cannot be
             \* looked up until a merge finds them

VARIABLES
  count,     \* a function from the known entries to their counts
  saved,     \* what the last backup knows; nothing at first
  died       \* whether the process has died: of what is left nothing is
             \* promised here

Known == DOMAIN count
Of(e) == IF e \in Known THEN count[e] ELSE 0
Size(n) == IF n < 0 THEN - n ELSE n
Nothing == [e \in {} |-> 0]
Set(e, n) == count' = [x \in Known \cup {e} |-> IF x = e THEN n ELSE count[x]]

Init ==
  /\ Known \subseteq Entries /\ count \in [Known -> Int]
  /\ saved = Nothing /\ died = FALSE

\* An entry is committed, together with the parts it is made of.  A part
\* becomes known; only the entry is counted, and revived if it was deleted.
\* What was known before may have been saved.
Learn(e, parts) ==
  /\ count' = [x \in Known \cup parts \cup {e} |->
                 IF x = e THEN Size(Of(e)) + 1 ELSE Of(x)]
  /\ \/ saved' = saved
     \/ saved' = [x \in Known \cup parts |-> Of(x)]

\* A deleted entry may lose some of its count, but is deleted.
Forget(e) ==
  /\ \E n \in {1} \cup 1 .. Size(Of(e)) : Set(e, - n)
  /\ saved' = saved

\* Counts from elsewhere: the larger one wins, so nothing is counted twice.
Joined(f, g) ==
  [x \in DOMAIN f \cup DOMAIN g |->
     IF x \notin DOMAIN f THEN g[x]
     ELSE IF x \notin DOMAIN g \/ g[x] < f[x] THEN f[x] ELSE g[x]]
Merge(others) == count' = Joined(count, others) /\ saved' = saved

\* The user's own text file also deletes.
Revise(e, n) ==
  /\ IF n > 0 THEN Set(e, IF Of(e) < n THEN n ELSE Of(e))
     ELSE IF n < 0 THEN Set(e, n)
     ELSE Set(e, Of(e))
  /\ saved' = saved

Save == saved' = count /\ count' = count

Alive ==
  \/ \E e \in Entries : \E parts \in SUBSET (Entries \ {e}) : Learn(e, parts)
  \/ \E e \in Entries : Forget(e)
  \/ \E others \in Outside \cup {saved}, lost \in {Nothing} \cup Lost :
       Merge(Joined(others, lost))
  \/ \E e \in Entries, n \in Counts : Revise(e, n)
  \/ Save

Next == died' \/ (~ died /\ ~ died' /\ Alive)

Spec == Init /\ [][Next]_<< count, saved, died >>
=============================================================================

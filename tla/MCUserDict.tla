----------------------------- MODULE MCUserDict -----------------------------
(* Constants for checking UserDict.                                          *)
EXTENDS UserDict, TLC

\* Sessions are alike.
Sessions == Permutations(Dicts)

NoMend == [k \in {} |-> k]
MendOne == [k \in {"mangled"} |-> "ming"]

\* a file of the version before 0.9.2, with the tick where that version
\* wrote it and a mangled key
OldFile == [Fresh EXCEPT !.old = TRUE, !.empty_tick = 2,
              !.recs["ming"] = [c |-> 1, t |-> 2],
              !.recs["mangled"] = [c |-> 2, t |-> 0]]

\* a dictionary of that version that knows nothing
OldBlank == [Fresh EXCEPT !.old = TRUE]

\* what another machine knows: an entry was deleted there
Elsewhere == {[Fresh EXCEPT !.tick = 4,
                 !.recs["ming"] = [c |-> -2, t |-> 3]],
              [Fresh EXCEPT !.tick = 2,
                 !.recs["ming"] = [c |-> 1, t |-> 1],
                 !.recs["mangled"] = [c |-> -1, t |-> 1]]}
NewMachine == {[Fresh EXCEPT !.tick = 1]}

\* counts in a text file
Lines == {-1, 0, 2}
NoLines == {}
=============================================================================

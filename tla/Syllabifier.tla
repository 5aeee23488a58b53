---------------------------- MODULE Syllabifier ----------------------------
(***************************************************************************)
(* Which syllables can the input be cut into?  The syllabifier builds a graph *)
(* whose vertices are positions in the input and whose edges are the          *)
(* syllables the prism knows between two positions; it then removes what does *)
(* not lead to the farthest position, or only in a worse way than another.    *)
(* Where the input ends inside a syllable, spellings that go on complete it.  *)
(*                                                                         *)
(* The letters of the input do not matter, only what the prism answers: any  *)
(* stretch without a delimiter may be a spelling.  The prism is external: an  *)
(* answer is a set of types, one for each syllable that has the spelling.    *)
(***************************************************************************)
EXTENDS Integers, Sequences, FiniteSetsExt, Functions

CONSTANTS
  N,           \* the length of the input
  DelimSets,   \* where in it the delimiters may be
  Spells,      \* what a stretch may evaluate to: sets of types, {} if to none
  Keys,        \* what the prism may offer as completions: sequences of
               \* spellings, each with the types of its syllables in order
  enable_completion

kNormalSpelling == 0
kAbbreviation == 1
kCompletion == 2
kAmbiguousSpelling == 3
Types == kNormalSpelling .. kAmbiguousSpelling

ASSUME InputAssumption ==
  /\ N \in Nat \ {0} /\ DelimSets \subseteq SUBSET (0 .. N - 1)
  /\ Spells \subseteq SUBSET {kNormalSpelling, kAbbreviation} /\ {} \in Spells
  /\ enable_completion \in BOOLEAN

VARIABLES
  delims,     \* positions of delimiters in the input
  pc,         \* the loop: over vertices, positions, completions
  queue,      \* vertices to be visited; the same vertex twice is discarded
              \* the second time, so that a set will do
  vertices,   \* positions that have been visited, and the type of each
  edges,      \* from pairs of positions to the types of the syllables between
  farthest,
  at,         \* the position whose edges are pruned next
  good,       \* positions from where the farthest can be reached
  last_type,  \* the type of the farthest vertex
  keys,       \* completions not yet looked at
  accessor,   \* syllables of the current one not yet looked at
  found       \* history: the edges before any was removed

graph == << vertices, edges, farthest >>
vars == << delims, pc, queue, graph, at, good, last_type, keys, accessor, found >>

Init ==
  /\ delims \in DelimSets
  /\ pc = "visit" /\ queue = {<< 0, kNormalSpelling >>}
  /\ vertices = << >> /\ edges = << >> /\ found = << >>
  /\ farthest = 0 /\ at = 0 /\ good = {} /\ last_type = kNormalSpelling
  /\ keys = << >> /\ accessor = << >>

-----------------------------------------------------------------------------
(* Building the graph                                                       *)

Top(q) ==
  CHOOSE v \in q : \A w \in q : v[1] < w[1] \/ (v[1] = w[1] /\ v[2] <= w[2])

\* trailing delimiters are consumed
EndOf(pos) == Min({p \in pos .. N : p = N \/ p \notin delims})

\* what the prism may answer for the input from pos
Answers(pos) ==
  {m \in [pos + 1 .. N -> Spells] :
     \A end \in pos + 1 .. N : pos .. end - 1 \cap delims # {} => m[end] = {}}

\* Mutant: a vertex of a worse type is never taken from the queue.
DiscardForgotten ==
  /\ pc = "visit" /\ queue # {} /\ Top(queue)[1] \in DOMAIN vertices
  /\ UNCHANGED vars

Discard ==
  /\ pc = "visit" /\ queue # {} /\ Top(queue)[1] \in DOMAIN vertices
  /\ queue' = queue \ {Top(queue)}
  /\ UNCHANGED << delims, pc, graph, at, good, last_type, keys, accessor, found >>

Visit ==
  /\ pc = "visit" /\ queue # {} /\ Top(queue)[1] \notin DOMAIN vertices
  /\ LET pos == Top(queue)[1]
         type == Top(queue)[2]
     IN \E m \in Answers(pos) :
          LET matches == {end \in DOMAIN m : m[end] # {}}
              ends == {EndOf(end) : end \in matches}
              spellings == [e \in {<< pos, end >> : end \in ends} |->
                              m[CHOOSE end \in matches : EndOf(end) = e[2]]]
          IN /\ vertices' = [p \in DOMAIN vertices \cup {pos} |->
                              IF p = pos THEN type ELSE vertices[p]]
             /\ edges' = [e \in DOMAIN edges \cup DOMAIN spellings |->
                           IF e[1] = pos THEN spellings[e] ELSE edges[e]]
             /\ queue' = (queue \ {Top(queue)}) \cup
                  {<< e[2], Max({type, Min(spellings[e])}) >> :
                     e \in DOMAIN spellings}
             /\ farthest' = Max({farthest} \cup ends)
  /\ found' = edges'
  /\ UNCHANGED << delims, pc, at, good, last_type, keys, accessor >>

BeginPruning ==
  /\ pc = "visit" /\ queue = {}
  /\ pc' = "prune" /\ at' = farthest - 1 /\ good' = {farthest}
  /\ last_type' = vertices[farthest]
  /\ UNCHANGED << delims, queue, graph, keys, accessor, found >>

\* The edges from at that lead on, with the syllables that are not of a less
\* favoured type.
\* Mutant: an edge is kept wherever it leads.
QualifiedAnywhere ==
  LET kept == {e \in DOMAIN edges : e[1] = at /\ Min(edges[e]) <= last_type}
  IN [e \in kept |-> {type \in edges[e] : type <= last_type}]

Qualified ==
  LET kept == {e \in DOMAIN edges : /\ e[1] = at /\ e[2] \in good
                                    /\ Min(edges[e]) <= last_type}
  IN [e \in kept |-> {type \in edges[e] : type <= last_type}]

\* Mutant: only the first syllable from at is tested.
CheckFirstSpelling(own) ==
  {y[2] : y \in {e \in DOMAIN own :
     \A f \in DOMAIN own : e[2] <= f[2]}} \cap
  {y[2] : y \in {e \in DOMAIN own : \E z \in DOMAIN own :
     /\ kNormalSpelling \in own[z] /\ e[2] < z[2]
     /\ << e[2], z[2] >> \in DOMAIN edges}}

\* The joints of two syllables that are one as well.
CheckOverlappedSpellings(own) ==
  {y[2] : y \in {e \in DOMAIN own : \E z \in DOMAIN own :
     /\ kNormalSpelling \in own[z] /\ e[2] < z[2]
     /\ << e[2], z[2] >> \in DOMAIN edges}}

Prune ==
  /\ pc = "prune" /\ at >= 0
  /\ IF at \notin DOMAIN vertices THEN UNCHANGED << vertices, edges, good >>
     ELSE LET own == Qualified
              joints == CheckOverlappedSpellings(own)
              others == {e \in DOMAIN edges : e[1] # at}
              marked == [p \in DOMAIN vertices |->
                           IF p \in joints THEN kAmbiguousSpelling ELSE vertices[p]]
          IN IF vertices[at] > last_type \/ own = << >>
             THEN /\ vertices' = Restrict(marked, DOMAIN marked \ {at})
                  /\ edges' = Restrict(edges, others) /\ good' = good
             ELSE /\ vertices' = marked
                  /\ edges' = [e \in DOMAIN own \cup others |->
                                IF e[1] = at THEN own[e] ELSE edges[e]]
                  /\ good' = good \cup {at}
  /\ at' = at - 1
  /\ UNCHANGED << delims, pc, queue, farthest, last_type, keys, accessor, found >>

Done ==
  /\ pc = "prune" /\ at < 0 /\ ~ (enable_completion /\ farthest < N)
  /\ pc' = "done"
  /\ UNCHANGED << delims, queue, graph, at, good, last_type, keys, accessor, found >>

-----------------------------------------------------------------------------
(* Completion                                                               *)

\* What ExpandSearch finds goes on from the rest of the input, so that no
\* delimiter is in it.
Expand ==
  /\ pc = "prune" /\ at < 0 /\ enable_completion /\ farthest < N
  /\ keys' \in {k \in Keys : delims \cap farthest .. N - 1 # {} => k = << >>}
  /\ pc' = IF keys' = << >> THEN "done" ELSE "complete"
  /\ UNCHANGED << delims, queue, graph, at, good, last_type, accessor, found >>

Complete ==
  /\ pc = "complete" /\ accessor = << >> /\ keys # << >>
  /\ accessor' = Head(keys) /\ keys' = Tail(keys)
  /\ edges' = [e \in DOMAIN edges \cup {<< farthest, N >>} |->
                IF e \in DOMAIN edges THEN edges[e] ELSE {}]
  /\ queue' = queue \cup {<< N, kCompletion >>}
  /\ UNCHANGED << delims, pc, vertices, farthest, at, good, last_type, found >>

\* A syllable whose spelling is not a normal one is met again and again: the
\* loop continues without advancing the accessor.
AddSyllable ==
  /\ pc = "complete" /\ accessor # << >>
  /\ IF Head(accessor) > kNormalSpelling THEN UNCHANGED << edges, accessor >>
     ELSE /\ edges' = [edges EXCEPT ![<< farthest, N >>] = @ \cup {kCompletion}]
          /\ accessor' = Tail(accessor)
  /\ UNCHANGED << delims, pc, queue, vertices, farthest, at, good, last_type,
                  keys, found >>

EndCompletion ==
  /\ pc = "complete" /\ accessor = << >> /\ keys = << >>
  /\ farthest' = N /\ pc' = "done"
  /\ UNCHANGED << delims, queue, vertices, edges, at, good, last_type, keys,
                  accessor, found >>

Return == pc = "done" /\ UNCHANGED vars

Step == Discard \/ Visit \/ BeginPruning \/ Prune \/ Done
          \/ Expand \/ Complete \/ AddSyllable \/ EndCompletion
Next == Step \/ Return
Spec == Init /\ [][Next]_vars
FairSpec == Spec /\ WF_vars(Step)

-----------------------------------------------------------------------------
(* The reference: paths in the graph as it was found                         *)

Along(p, q, t) == << p, q >> \in DOMAIN found /\ Min(found[<< p, q >>]) <= t
Origin(t) ==
  LET from[p \in 0 .. N] == p = 0 \/ \E q \in 0 .. p - 1 : from[q] /\ Along(q, p, t)
  IN {p \in 0 .. N : from[p]}
Leading(end, t) ==
  LET to[p \in 0 .. N] == p = end \/ \E q \in p + 1 .. end : to[q] /\ Along(p, q, t)
  IN {p \in 0 .. N : to[p]}
End == Max(Origin(kAbbreviation))
BestType(p) == Min({t \in kNormalSpelling .. kAbbreviation : p \in Origin(t)})
OnPath == LET end == End
              type == BestType(end)
          IN Origin(type) \cap Leading(end, type)

\* The variables stay in their ranges.
TypeOK ==
  /\ pc \in {"visit", "prune", "complete", "done"}
  /\ queue \subseteq (0 .. N) \X Types
  /\ DOMAIN vertices \subseteq 0 .. N /\ \A p \in DOMAIN vertices : vertices[p] \in Types
  /\ \A e \in DOMAIN edges : e \in (0 .. N) \X (0 .. N) /\ e[1] < e[2]
                             /\ edges[e] \subseteq Types
  /\ farthest \in 0 .. N /\ at \in -1 .. N - 1 /\ good \subseteq 0 .. N
  /\ last_type \in Types

\* When the syllabifier is done with pruning, the graph is what lies on some way
\* from the beginning of the input to the farthest position that syllables
\* reach, on ways as good as the best of them: nothing dangles, and no way that
\* is as good is lost.
GraphIsExact ==
  at < 0 =>
    LET end == End
        path == OnPath
        types(e) == IF e \in DOMAIN found /\ {e[1], e[2]} \subseteq path
                    THEN {t \in found[e] : t <= last_type} ELSE {}
    IN /\ last_type = BestType(end)
       /\ DOMAIN vertices = path
       /\ \A e \in (DOMAIN found \cup DOMAIN edges) \ {<< end, N >>} :
            IF types(e) = {} THEN e \notin DOMAIN edges
            ELSE e \in DOMAIN edges /\ edges[e] = types(e)
       /\ pc = "done" => farthest \in {end, N}

\* A vertex has the type of the best way to it, unless it is marked as a joint;
\* where two syllables of the graph are one as well, their joint is marked, for a
\* word to be discouraged from beginning there.
VerticesAreRated ==
  at < 0 =>
    /\ \A p \in DOMAIN vertices : vertices[p] \in {BestType(p), kAmbiguousSpelling}
    /\ \A y, z \in DOMAIN edges :
         (/\ y[1] = z[1] /\ y[2] < z[2] /\ << y[2], z[2] >> \in DOMAIN edges
          /\ kNormalSpelling \in edges[z])
         => vertices[y[2]] = kAmbiguousSpelling

Stuck == accessor # << >> /\ Head(accessor) > kNormalSpelling
\* BuildSyllableGraph returns, unless a completion is an abbreviation.
ReturnsUnlessStuck == <>(pc = "done" \/ Stuck)

\* BuildSyllableGraph returns, whatever the set of syllables a spelling evaluates to.
Returns == <>(pc = "done")
=============================================================================

------------------------- MODULE SyllabifierProofs -------------------------
(***************************************************************************)
(* The graph that the syllabifier makes is what the reference says, for      *)
(* inputs of any length, wherever the delimiters are and whatever the prism  *)
(* answers.                                                                 *)
(***************************************************************************)
EXTENDS Syllabifier, TLAPS, WellFoundedInduction

-----------------------------------------------------------------------------
(* Numbers                                                                  *)

\* A set of natural numbers has a least element,
LEMMA LeastOf ==
  ASSUME NEW S, S \subseteq Nat, S # {}
  PROVE  Min(S) \in S /\ \A k \in S : Min(S) <= k
<1>1. PICK m \in S : \A k \in S : ~ (<< k, m >> \in OpToRel(<, Nat))
  BY NatLessThanWellFounded, WFMin, Zenon
<1>2. ASSUME NEW k \in S PROVE m <= k
  <2>1. k \in Nat /\ m \in Nat /\ << k, m >> \in Nat \X Nat
    OBVIOUS
  <2>2. ~ (k < m)
    BY <1>1, <2>1 DEF OpToRel
  <2> QED BY <2>1, <2>2
<1>3. \E x \in S : \A y \in S : x =< y
  BY <1>2
<1> QED BY <1>3 DEF Min

\* and one that is bounded a largest.
LEMMA LargestOf ==
  ASSUME NEW n \in Nat, NEW S, S \subseteq 0 .. n, S # {}
  PROVE  Max(S) \in S /\ \A k \in S : k <= Max(S)
<1> DEFINE T == {n - k : k \in S}
<1>1. T \subseteq Nat /\ T # {}
  <2>1. \A k \in S : n - k \in Nat
    OBVIOUS
  <2> QED BY <2>1
<1> HIDE DEF T
<1>2. Min(T) \in T /\ \A k \in T : Min(T) <= k
  BY <1>1, LeastOf
<1>3. PICK m \in S : Min(T) = n - m
  BY <1>2 DEF T
<1>4. \A k \in S : n - k \in T
  BY DEF T
<1>5. \A k \in S : m >= k
  <2> TAKE k \in S
  <2>1. n - m <= n - k /\ k \in Nat /\ m \in Nat
    BY <1>2, <1>3, <1>4
  <2> QED BY <2>1
<1>6. \A k \in S : Max(S) >= k /\ Max(S) \in S
  BY <1>5 DEF Max
<1>7. Max(S) \in S
  BY <1>6
<1>8. \A k \in S : k \in Nat
  OBVIOUS
<1> QED BY <1>6, <1>7, <1>8

\* The better and the worse of two types.
LEMMA TypesOf ==
  /\ kNormalSpelling = 0 /\ kAbbreviation = 1
  /\ \A s : s \subseteq 0 .. 1 /\ s # {} =>
       Min(s) \in s /\ Min(s) \in 0 .. 1 /\ \A t \in s : Min(s) <= t
  /\ \A a, b \in 0 .. 1 :
       /\ Max({a, b}) \in {a, b} /\ Max({a, b}) \in 0 .. 1
       /\ a <= Max({a, b}) /\ b <= Max({a, b})
<1>1. ASSUME NEW s, s \subseteq 0 .. 1, s # {}
      PROVE  Min(s) \in s /\ Min(s) \in 0 .. 1 /\ \A t \in s : Min(s) <= t
  <2>1. s \subseteq Nat
    BY <1>1
  <2> QED BY <1>1, <2>1, LeastOf
<1>2. ASSUME NEW a \in 0 .. 1, NEW b \in 0 .. 1
      PROVE  /\ Max({a, b}) \in {a, b} /\ Max({a, b}) \in 0 .. 1
             /\ a <= Max({a, b}) /\ b <= Max({a, b})
  <2>1. {a, b} \subseteq 0 .. 1 /\ {a, b} # {}
    OBVIOUS
  <2>2. Max({a, b}) \in {a, b} /\ \A k \in {a, b} : k <= Max({a, b})
    BY <2>1, LargestOf
  <2> QED BY <2>1, <2>2
<1> QED BY <1>1, <1>2 DEF kNormalSpelling, kAbbreviation

LEMMA LengthType == N \in Nat \ {0}
  BY InputAssumption

-----------------------------------------------------------------------------
(* The reference                                                            *)

\* From the beginning, the positions that are reached are the least set that is
\* closed under steps, and this is a solution of the recursion.
LEMMA OriginSteps ==
  ASSUME NEW t
  PROVE  /\ Origin(t) \subseteq 0 .. N
         /\ \A p \in 0 .. N :
              p \in Origin(t) <=>
                p = 0 \/ \E q \in 0 .. p - 1 : q \in Origin(t) /\ Along(q, p, t)
<1> DEFINE Rec(f) == [p \in 0 .. N |->
                        p = 0 \/ \E q \in 0 .. p - 1 : f[q] /\ Along(q, p, t)]
           Closed(S) == 0 \in S /\ \A q \in S, p \in 0 .. N :
                                     q < p /\ Along(q, p, t) => p \in S
           R == {p \in 0 .. N : \A S \in SUBSET (0 .. N) : Closed(S) => p \in S}
           g == [p \in 0 .. N |-> p \in R]
           from == CHOOSE f : f = Rec(f)
<1>0. N \in Nat
  BY LengthType
<1>1. Closed(R)
  BY <1>0
<1>2. ASSUME NEW p \in R, p # 0, \A q \in 0 .. p - 1 : q \in R => ~ Along(q, p, t)
      PROVE  FALSE
  <2>1. R \ {p} \in SUBSET (0 .. N) /\ p \notin R \ {p}
    OBVIOUS
  <2>2. Closed(R \ {p})
    BY <1>0, <1>1, <1>2
  <2> QED BY <2>1, <2>2
<1>3. ASSUME NEW p \in 0 .. N
      PROVE  p \in R <=> p = 0 \/ \E q \in 0 .. p - 1 : q \in R /\ Along(q, p, t)
  <2>1. R \subseteq 0 .. N
    OBVIOUS
  <2> HIDE DEF R
  <2> QED BY <1>0, <1>1, <1>2, <2>1
<1> HIDE DEF R
<1>4. g = Rec(g)
  <2>1. ASSUME NEW p \in 0 .. N
        PROVE  g[p] <=> p = 0 \/ \E q \in 0 .. p - 1 : g[q] /\ Along(q, p, t)
    <3>1. \A q \in 0 .. p - 1 : q \in 0 .. N
      BY <1>0
    <3> QED BY <1>3, <3>1
  <2> HIDE DEF g
  <2>2. ASSUME NEW p \in 0 .. N
        PROVE  g[p] = (p = 0 \/ \E q \in 0 .. p - 1 : g[q] /\ Along(q, p, t))
    <3>1. g[p] \in BOOLEAN
      BY DEF g
    <3> QED BY <2>1, <3>1, SMT
  <2>3. g = [p \in 0 .. N |-> g[p]]
    BY DEF g
  <2> QED BY <2>2, <2>3, Zenon
<1>5. from = Rec(from)
  BY <1>4
<1>6. Origin(t) = {p \in 0 .. N : from[p]}
  BY DEF Origin
<1> HIDE DEF from
<1>7. ASSUME NEW p \in 0 .. N
      PROVE  from[p] <=> p = 0 \/ \E q \in 0 .. p - 1 : from[q] /\ Along(q, p, t)
  BY <1>5
<1>8. \A p \in 0 .. N : \A q \in 0 .. p - 1 : q \in 0 .. N
  BY <1>0
<1> QED BY <1>6, <1>7, <1>8

\* So are those from where the end is reached.
LEMMA LeadingSteps ==
  ASSUME NEW t, NEW end \in 0 .. N
  PROVE  /\ Leading(end, t) \subseteq 0 .. N
         /\ \A p \in 0 .. N :
              p \in Leading(end, t) <=>
                p = end \/ \E q \in p + 1 .. end : q \in Leading(end, t) /\ Along(p, q, t)
<1> DEFINE Rec(f) == [p \in 0 .. N |->
                        p = end \/ \E q \in p + 1 .. end : f[q] /\ Along(p, q, t)]
           Closed(S) == end \in S /\ \A q \in S, p \in 0 .. N :
                                       p < q /\ q <= end /\ Along(p, q, t) => p \in S
           R == {p \in 0 .. N : \A S \in SUBSET (0 .. N) : Closed(S) => p \in S}
           g == [p \in 0 .. N |-> p \in R]
           to == CHOOSE f : f = Rec(f)
<1>0. N \in Nat /\ end \in Nat /\ end <= N
  BY LengthType
<1>1. Closed(R)
  BY <1>0
<1>2. ASSUME NEW p \in R, p # end, \A q \in p + 1 .. end : q \in R => ~ Along(p, q, t)
      PROVE  FALSE
  <2>1. R \ {p} \in SUBSET (0 .. N) /\ p \notin R \ {p}
    OBVIOUS
  <2>2. Closed(R \ {p})
    BY <1>0, <1>1, <1>2
  <2> QED BY <2>1, <2>2
<1>3. ASSUME NEW p \in 0 .. N
      PROVE  p \in R <=> p = end \/ \E q \in p + 1 .. end : q \in R /\ Along(p, q, t)
  <2>1. R \subseteq 0 .. N
    OBVIOUS
  <2> HIDE DEF R
  <2> QED BY <1>0, <1>1, <1>2, <2>1
<1> HIDE DEF R
<1>4. g = Rec(g)
  <2>1. ASSUME NEW p \in 0 .. N
        PROVE  g[p] <=> p = end \/ \E q \in p + 1 .. end : g[q] /\ Along(p, q, t)
    <3>1. \A q \in p + 1 .. end : q \in 0 .. N
      BY <1>0
    <3> QED BY <1>3, <3>1
  <2> HIDE DEF g
  <2>2. ASSUME NEW p \in 0 .. N
        PROVE  g[p] = (p = end \/ \E q \in p + 1 .. end : g[q] /\ Along(p, q, t))
    <3>1. g[p] \in BOOLEAN
      BY DEF g
    <3> QED BY <2>1, <3>1, SMT
  <2>3. g = [p \in 0 .. N |-> g[p]]
    BY DEF g
  <2> QED BY <2>2, <2>3, Zenon
<1>5. to = Rec(to)
  BY <1>4
<1>6. Leading(end, t) = {p \in 0 .. N : to[p]}
  BY DEF Leading
<1> HIDE DEF to
<1>7. ASSUME NEW p \in 0 .. N
      PROVE  to[p] <=> p = end \/ \E q \in p + 1 .. end : to[q] /\ Along(p, q, t)
  BY <1>5
<1>8. \A p \in 0 .. N : \A q \in p + 1 .. end : q \in 0 .. N
  BY <1>0
<1> QED BY <1>6, <1>7, <1>8

\* The reference is about what was found, and nothing else.
LEMMA SameReference ==
  ASSUME UNCHANGED found
  PROVE  /\ \A t : Origin(t)' = Origin(t)
         /\ \A end, t : Leading(end, t)' = Leading(end, t)
         /\ End' = End /\ OnPath' = OnPath
         /\ \A p : BestType(p)' = BestType(p)
<1>1. ASSUME NEW t PROVE Origin(t)' = Origin(t)
  BY DEF Origin, Along
<1>2. ASSUME NEW end, NEW t PROVE Leading(end, t)' = Leading(end, t)
  BY DEF Leading, Along
<1>3. End' = End
  BY <1>1 DEF End
<1>4. ASSUME NEW p PROVE BestType(p)' = BestType(p)
  BY <1>1 DEF BestType
<1>5. OnPath' = OnPath
  BY <1>1, <1>2, <1>3, <1>4 DEF OnPath
<1> QED BY <1>1, <1>2, <1>3, <1>4, <1>5

-----------------------------------------------------------------------------
(* The inductive invariant                                                  *)

\* The type with which the syllable e arrives,
Arrives(e) == Max({vertices[e[1]], Min(edges[e])})
\* a position that is visited as well as that, or is going to be,
Offered(p, t) == << p, t >> \in queue \/ (p \in DOMAIN vertices /\ vertices[p] <= t)
\* and one that a syllable arrives at with just that type.
Supported(p, t) ==
  (p = 0 /\ t = 0) \/ \E e \in DOMAIN edges : e[2] = p /\ Arrives(e) = t

\* While the graph is built, vertices are taken in the order of their positions,
\* the best type first; whatever a syllable arrives at has been visited or waits,
\* and nothing is visited that no syllable arrives at.
VisitTypes ==
  /\ queue \subseteq (0 .. N) \X (0 .. 1)
  /\ DOMAIN vertices \subseteq 0 .. N
  /\ \A p \in DOMAIN vertices : vertices[p] \in 0 .. 1
  /\ farthest \in 0 .. N
  /\ \A e \in DOMAIN edges :
       /\ e \in (0 .. N) \X (0 .. N) /\ e[1] < e[2] /\ e[2] <= farthest
       /\ e[1] \in DOMAIN vertices
       /\ edges[e] \subseteq 0 .. 1 /\ edges[e] # {}
InOrder ==
  \A v \in queue, p \in DOMAIN vertices :
    p <= v[1] /\ (p = v[1] => vertices[p] <= v[2])
AllOffered ==
  /\ Offered(0, 0)
  /\ \A e \in DOMAIN edges, t \in 0 .. 1 : t = Arrives(e) => Offered(e[2], t)
AllSupported ==
  /\ \A p \in DOMAIN vertices, t \in 0 .. 1 : t = vertices[p] => Supported(p, t)
  /\ \A v \in queue : Supported(v[1], v[2])
  /\ farthest = 0 \/ \E e \in DOMAIN edges : e[2] = farthest
VisitInv ==
  /\ at = 0 /\ found = edges
  /\ VisitTypes /\ InOrder /\ AllOffered /\ AllSupported

\* When it is built, the reference is about it.
Reached == Origin(1)
FoundInv ==
  /\ \A e \in DOMAIN found :
       /\ e \in Reached \X Reached /\ e[1] < e[2]
       /\ found[e] \subseteq 0 .. 1 /\ found[e] # {}
  /\ End \in Reached /\ \A p \in Reached : p \in 0 .. N /\ p <= End
  /\ \A p \in Reached : BestType(p) \in 0 .. 1
  /\ \A p \in 0 .. N, t \in 0 .. 1 :
       p \in Origin(t) <=> p \in Reached /\ BestType(p) <= t

\* What is left of a syllable when it has been looked at.
Kept(e) == IF {e[1], e[2]} \subseteq OnPath THEN {t \in found[e] : t <= last_type} ELSE {}
Seen ==
  /\ at \in -1 .. End - 1 /\ last_type = BestType(End)
  /\ good = {p \in OnPath : p > at}
VerticesLeft ==
  /\ DOMAIN vertices = {p \in Reached : p <= at} \cup good
  /\ \A p \in DOMAIN vertices :
       vertices[p] = BestType(p) \/ (p > at /\ vertices[p] = kAmbiguousSpelling)
EdgesLeft ==
  /\ DOMAIN edges \subseteq DOMAIN found \cup {<< End, N >>}
  /\ << End, N >> \in DOMAIN edges => End < N
  /\ \A e \in DOMAIN found :
       IF e[1] <= at THEN e \in DOMAIN edges /\ edges[e] = found[e]
       ELSE IF Kept(e) = {} THEN e \notin DOMAIN edges
       ELSE e \in DOMAIN edges /\ edges[e] = Kept(e)
JointsMarked ==
  \A y, z \in DOMAIN found \cap DOMAIN edges :
    (/\ y[1] = z[1] /\ y[1] > at /\ y[2] < z[2]
     /\ << y[2], z[2] >> \in DOMAIN found \cap DOMAIN edges
     /\ kNormalSpelling \in edges[z])
    => vertices[y[2]] = kAmbiguousSpelling
Phases ==
  /\ pc \in {"prune", "complete", "done"}
  /\ pc # "done" => farthest = End
  /\ pc # "prune" => at = -1
  /\ pc = "complete" => End < N
  /\ pc = "done" => farthest \in {End, N}
PruneInv == FoundInv /\ Seen /\ VerticesLeft /\ EdgesLeft /\ JointsMarked /\ Phases
IInv == (pc = "visit" /\ VisitInv) \/ PruneInv

-----------------------------------------------------------------------------
(* Building the graph                                                       *)

\* The vertex that is taken next,
LEMMA TopOf ==
  ASSUME VisitTypes, queue # {}
  PROVE  /\ Top(queue) \in queue
         /\ \A w \in queue : \/ Top(queue)[1] < w[1]
                             \/ Top(queue)[1] = w[1] /\ Top(queue)[2] <= w[2]
<1> DEFINE firsts == {v[1] : v \in queue}
           pos == Min(firsts)
           types == {v[2] : v \in {w \in queue : w[1] = pos}}
           type == Min(types)
<1>1. queue \subseteq (0 .. N) \X (0 .. 1)
  BY DEF VisitTypes
<1>2. pos \in firsts /\ \A k \in firsts : pos <= k
  <2>1. firsts \subseteq Nat /\ firsts # {}
    BY <1>1
  <2> HIDE DEF firsts
  <2> QED BY <2>1, LeastOf
<1>3. \A w \in queue : pos <= w[1] /\ pos \in Nat
  BY <1>1, <1>2
<1> HIDE DEF pos
<1>4. type \in types /\ \A k \in types : type <= k
  <2>1. types \subseteq Nat /\ types # {}
    BY <1>1, <1>2
  <2> HIDE DEF types
  <2> QED BY <2>1, LeastOf
<1>5. \A w \in queue : w[1] = pos => type <= w[2]
  BY <1>4
<1>6. PICK v \in queue : v[1] = pos /\ v[2] = type
  BY <1>4
<1> HIDE DEF type
<1>7. \A w \in queue : v[1] < w[1] \/ (v[1] = w[1] /\ v[2] <= w[2])
  <2> TAKE w \in queue
  <2>1. pos <= w[1] /\ pos \in Nat /\ w[1] \in Nat
    BY <1>1, <1>3
  <2> QED BY <2>1, <1>5, <1>6
<1> QED BY <1>6, <1>7 DEF Top

\* and the end of a syllable, with its delimiters.
LEMMA EndType == ASSUME NEW pos \in 0 .. N PROVE EndOf(pos) \in pos .. N
<1> DEFINE S == {p \in pos .. N : p = N \/ p \notin delims}
<1>1. S \subseteq Nat /\ S # {}
  BY LengthType
<1> HIDE DEF S
<1>2. Min(S) \in S
  BY <1>1, LeastOf
<1> QED BY <1>2 DEF EndOf, S

LEMMA InitVisits == ASSUME Init PROVE VisitInv
<1>1. N \in Nat /\ DOMAIN vertices = {} /\ DOMAIN edges = {} /\ queue = {<< 0, 0 >>}
  BY LengthType DEF Init, kNormalSpelling
<1>2. Offered(0, 0) /\ Supported(0, 0)
  BY <1>1 DEF Offered, Supported
<1>3. VisitTypes
  BY <1>1 DEF VisitTypes, Init
<1>4. InOrder /\ AllOffered
  BY <1>1, <1>2 DEF InOrder, AllOffered
<1>5. AllSupported
  <2>1. \A v \in queue : v[1] = 0 /\ v[2] = 0
    BY <1>1
  <2>2. \A v \in queue : Supported(v[1], v[2])
    BY <2>1, <1>2
  <2> QED BY <1>1, <2>2 DEF AllSupported, Init
<1> QED BY <1>3, <1>4, <1>5 DEF VisitInv, Init

LEMMA DiscardKeeps == ASSUME VisitInv, Discard PROVE VisitInv'
<1> DEFINE top == Top(queue)
<1>1. /\ top \in queue /\ top[1] \in DOMAIN vertices
      /\ queue' = queue \ {top}
      /\ UNCHANGED << vertices, edges, farthest, at, found >>
  BY TopOf DEF Discard, VisitInv, graph
<1>2. top = << top[1], top[2] >>
  BY <1>1 DEF VisitInv, VisitTypes
<1>3. vertices[top[1]] <= top[2]
  BY <1>1 DEF VisitInv, InOrder
<1> HIDE DEF top
<1>4. \A p, t : Offered(p, t) => Offered(p, t)'
  <2> SUFFICES ASSUME NEW p, NEW t, Offered(p, t) PROVE Offered(p, t)'
    OBVIOUS
  <2>1. CASE << p, t >> = top
    <3>1. p = top[1] /\ t = top[2]
      BY <2>1, <1>2
    <3> QED BY <3>1, <1>1, <1>3 DEF Offered
  <2>2. CASE << p, t >> # top
    BY <2>2, <1>1 DEF Offered
  <2> QED BY <2>1, <2>2
<1>5. \A e : Arrives(e)' = Arrives(e)
  BY <1>1 DEF Arrives
<1>6. \A p, t : Supported(p, t)' = Supported(p, t)
  BY <1>1, <1>5 DEF Supported
<1>7. VisitTypes' /\ InOrder'
  BY <1>1 DEF VisitInv, VisitTypes, InOrder
<1>8. AllOffered'
  BY <1>1, <1>4, <1>5 DEF VisitInv, AllOffered
<1>9. AllSupported'
  BY <1>1, <1>6 DEF VisitInv, AllSupported
<1> QED BY <1>1, <1>7, <1>8, <1>9 DEF VisitInv

\* What a visit does: the syllables from a position are added, and where they end
\* is to be visited with the worse of the type there and the type they are of.
Adds(pos, type, own) ==
  /\ << pos, type >> \in queue /\ pos \notin DOMAIN vertices
  /\ \A w \in queue : pos < w[1] \/ (pos = w[1] /\ type <= w[2])
  /\ \A e \in own : /\ e \in (0 .. N) \X (0 .. N) /\ e[1] = pos /\ pos < e[2]
                    /\ e[2] <= farthest' /\ e \notin DOMAIN edges
                    /\ edges'[e] \subseteq 0 .. 1 /\ edges'[e] # {}
  /\ DOMAIN vertices' = DOMAIN vertices \cup {pos} /\ vertices'[pos] = type
  /\ \A p \in DOMAIN vertices : vertices'[p] = vertices[p]
  /\ DOMAIN edges' = DOMAIN edges \cup own
  /\ \A e \in DOMAIN edges : edges'[e] = edges[e]
  /\ queue' = (queue \ {<< pos, type >>}) \cup
                {<< e[2], Max({type, Min(edges'[e])}) >> : e \in own}
  /\ farthest' \in 0 .. N /\ farthest <= farthest'
  /\ farthest' = farthest \/ \E e \in own : e[2] = farthest'
  /\ found' = edges' /\ at' = at

LEMMA Visited ==
  ASSUME VisitInv, Visit
  PROVE  \E pos \in 0 .. N, type \in 0 .. 1, own \in SUBSET ((0 .. N) \X (0 .. N)) :
           Adds(pos, type, own)
<1>1. queue # {} /\ Top(queue) \in queue /\ Top(queue)[1] \notin DOMAIN vertices
      /\ \A w \in queue : \/ Top(queue)[1] < w[1]
                          \/ Top(queue)[1] = w[1] /\ Top(queue)[2] <= w[2]
  BY TopOf DEF Visit, VisitInv
<1> DEFINE pos == Top(queue)[1]
           type == Top(queue)[2]
<1>2. pos \in 0 .. N /\ type \in 0 .. 1 /\ Top(queue) = << pos, type >>
  BY <1>1 DEF VisitInv, VisitTypes
<1>3. << pos, type >> \in queue /\ pos \notin DOMAIN vertices
      /\ \A w \in queue : pos < w[1] \/ (pos = w[1] /\ type <= w[2])
  BY <1>1, <1>2
<1> DEFINE matches(m) == {end \in DOMAIN m : m[end] # {}}
           ends(m) == {EndOf(end) : end \in matches(m)}
           own(m) == {<< pos, end >> : end \in ends(m)}
           chosen(m, e) == CHOOSE end \in matches(m) : EndOf(end) = e[2]
           spellings(m) == [e \in own(m) |-> m[chosen(m, e)]]
<1>5. PICK m \in Answers(pos) :
        /\ vertices' = [p \in DOMAIN vertices \cup {pos} |->
                          IF p = pos THEN type ELSE vertices[p]]
        /\ edges' = [e \in DOMAIN edges \cup DOMAIN spellings(m) |->
                       IF e[1] = pos THEN spellings(m)[e] ELSE edges[e]]
        /\ queue' = (queue \ {Top(queue)}) \cup
             {<< e[2], Max({type, Min(spellings(m)[e])}) >> : e \in DOMAIN spellings(m)}
        /\ farthest' = Max({farthest} \cup ends(m))
  BY Zenon DEF Visit
<1> HIDE DEF pos, type
<1>6. /\ DOMAIN m = pos + 1 .. N
      /\ \A end \in DOMAIN m : m[end] \subseteq 0 .. 1
  <2>1. m \in [pos + 1 .. N -> Spells]
    BY DEF Answers
  <2>2. \A s \in Spells : s \subseteq 0 .. 1
    BY InputAssumption DEF kNormalSpelling, kAbbreviation
  <2> QED BY <2>1, <2>2
<1>7. \A end \in matches(m) : EndOf(end) \in pos + 1 .. N
  <2> TAKE end \in matches(m)
  <2>1. end \in pos + 1 .. N /\ N \in Nat /\ pos \in Nat
    BY <1>2, <1>6, LengthType
  <2>2. EndOf(end) \in end .. N
    BY <2>1, EndType
  <2> QED BY <2>1, <2>2
<1>8. ends(m) \subseteq pos + 1 .. N
  BY <1>7
<1>9. \A e \in own(m) : e \in (0 .. N) \X (0 .. N) /\ e[1] = pos /\ pos < e[2]
                        /\ e[2] \in ends(m)
  <2> HIDE DEF ends
  <2> QED BY <1>2, <1>8, LengthType
<1>10. \A e \in own(m) : chosen(m, e) \in matches(m)
  <2> TAKE e \in own(m)
  <2>1. \E end \in matches(m) : EndOf(end) = e[2]
    OBVIOUS
  <2> HIDE DEF matches
  <2> QED BY <2>1
<1>11. \A e \in own(m) : m[chosen(m, e)] \subseteq 0 .. 1 /\ m[chosen(m, e)] # {}
  <2> HIDE DEF chosen, own
  <2> QED BY <1>6, <1>10
<1>12. DOMAIN spellings(m) = own(m)
       /\ \A e \in own(m) : spellings(m)[e] \subseteq 0 .. 1 /\ spellings(m)[e] # {}
  <2> HIDE DEF chosen, own
  <2> QED BY <1>11
<1> HIDE DEF matches, ends, own, chosen, spellings
<1>13. \A e \in DOMAIN edges : e[1] # pos
  BY <1>3 DEF VisitInv, VisitTypes
<1>14. DOMAIN edges' = DOMAIN edges \cup own(m)
  BY <1>5, <1>12
<1>15. \A e \in DOMAIN edges : edges'[e] = edges[e]
  BY <1>5, <1>13
<1>16. \A e \in own(m) : edges'[e] = spellings(m)[e]
  BY <1>5, <1>9, <1>12
<1>17. queue' = (queue \ {<< pos, type >>}) \cup
                  {<< e[2], Max({type, Min(edges'[e])}) >> : e \in own(m)}
  <2>1. \A e \in own(m) : << e[2], Max({type, Min(spellings(m)[e])}) >>
                           = << e[2], Max({type, Min(edges'[e])}) >>
    BY <1>16
  <2>2. queue' = (queue \ {<< pos, type >>}) \cup
                   {<< e[2], Max({type, Min(spellings(m)[e])}) >> : e \in own(m)}
    BY <1>2, <1>5, <1>12
  <2> QED BY <2>1, <2>2
<1>18. farthest' \in {farthest} \cup ends(m)
       /\ \A p \in {farthest} \cup ends(m) : p <= farthest'
  <2>1. {farthest} \cup ends(m) \subseteq 0 .. N
    BY <1>2, <1>8, LengthType DEF VisitInv, VisitTypes
  <2> QED BY <1>5, <2>1, LargestOf, LengthType
<1>19. farthest' = farthest \/ \E e \in own(m) : e[2] = farthest'
  <2>1. CASE farthest' \in ends(m)
    <3>1. << pos, farthest' >> \in own(m)
      BY <2>1 DEF own
    <3> QED BY <3>1
  <2> QED BY <2>1, <1>18
<1>20. farthest' \in 0 .. N /\ farthest <= farthest'
  BY <1>2, <1>8, <1>18, LengthType DEF VisitInv, VisitTypes
<1>21. \A e \in own(m) : e[2] <= farthest' /\ e \notin DOMAIN edges
                         /\ edges'[e] \subseteq 0 .. 1 /\ edges'[e] # {}
  BY <1>9, <1>12, <1>13, <1>16, <1>18
<1>22. DOMAIN vertices' = DOMAIN vertices \cup {pos} /\ vertices'[pos] = type
       /\ \A p \in DOMAIN vertices : vertices'[p] = vertices[p]
  BY <1>3, <1>5
<1>23. found' = edges' /\ at' = at
  BY DEF Visit
<1>24. pos \in 0 .. N /\ type \in 0 .. 1 /\ own(m) \in SUBSET ((0 .. N) \X (0 .. N))
  BY <1>2, <1>9
<1>25. Adds(pos, type, own(m))
  BY <1>3, <1>9, <1>14, <1>15, <1>17, <1>19, <1>20, <1>21, <1>22, <1>23 DEF Adds
<1> QED BY <1>24, <1>25

LEMMA VisitKeeps == ASSUME VisitInv, Visit PROVE VisitInv'
<1>1. PICK pos \in 0 .. N, type \in 0 .. 1, own \in SUBSET ((0 .. N) \X (0 .. N)) :
        Adds(pos, type, own)
  BY Visited
<1>2. /\ << pos, type >> \in queue /\ pos \notin DOMAIN vertices
      /\ \A w \in queue : pos < w[1] \/ (pos = w[1] /\ type <= w[2])
  BY <1>1 DEF Adds
<1>3. \A e \in own : /\ e \in (0 .. N) \X (0 .. N) /\ e[1] = pos /\ pos < e[2]
                     /\ e[2] <= farthest' /\ e \notin DOMAIN edges
                     /\ edges'[e] \subseteq 0 .. 1 /\ edges'[e] # {}
  BY <1>1 DEF Adds
<1>4. /\ DOMAIN vertices' = DOMAIN vertices \cup {pos} /\ vertices'[pos] = type
      /\ \A p \in DOMAIN vertices : vertices'[p] = vertices[p]
  BY <1>1 DEF Adds
<1>5. /\ DOMAIN edges' = DOMAIN edges \cup own
      /\ \A e \in DOMAIN edges : edges'[e] = edges[e]
  BY <1>1 DEF Adds
<1>6. queue' = (queue \ {<< pos, type >>}) \cup
                 {<< e[2], Max({type, Min(edges'[e])}) >> : e \in own}
  BY <1>1 DEF Adds
<1>7. /\ farthest' \in 0 .. N /\ farthest <= farthest'
      /\ farthest' = farthest \/ \E e \in own : e[2] = farthest'
      /\ found' = edges' /\ at' = at
  BY <1>1 DEF Adds
<1>8. \A e \in own : Arrives(e)' = Max({type, Min(edges'[e])}) /\ Arrives(e)' \in 0 .. 1
  <2> TAKE e \in own
  <2>1. Arrives(e)' = Max({type, Min(edges'[e])})
    BY <1>3, <1>4 DEF Arrives
  <2>2. Min(edges'[e]) \in 0 .. 1
    BY <1>3, TypesOf
  <2> QED BY <2>1, <2>2, TypesOf
<1>9. \A e \in own : << e[2], Arrives(e)' >> \in queue'
  BY <1>6, <1>8
<1>10. \A v \in queue' : v \in queue \/ \E e \in own : v = << e[2], Arrives(e)' >>
  BY <1>6, <1>8
<1>11. \A e \in DOMAIN edges : Arrives(e)' = Arrives(e)
  <2> TAKE e \in DOMAIN edges
  <2>1. vertices'[e[1]] = vertices[e[1]] /\ edges'[e] = edges[e]
    BY <1>4, <1>5 DEF VisitInv, VisitTypes
  <2> QED BY <2>1 DEF Arrives
<1>12. \A p, t : Offered(p, t) => Offered(p, t)'
  <2> SUFFICES ASSUME NEW p, NEW t, Offered(p, t) PROVE Offered(p, t)'
    OBVIOUS
  <2>1. CASE << p, t >> \in queue /\ << p, t >> # << pos, type >>
    BY <2>1, <1>6 DEF Offered
  <2>2. CASE << p, t >> = << pos, type >>
    <3>1. p = pos /\ t = type
      BY <2>2
    <3> QED BY <3>1, <1>4 DEF Offered
  <2>3. CASE p \in DOMAIN vertices /\ vertices[p] <= t
    BY <2>3, <1>4 DEF Offered
  <2> QED BY <2>1, <2>2, <2>3 DEF Offered
<1>13. \A p, t : Supported(p, t) => Supported(p, t)'
  BY <1>5, <1>11 DEF Supported
<1>14. \A e \in own : \A t : t = Arrives(e)' => Supported(e[2], t)'
  BY <1>5 DEF Supported
<1>15. VisitTypes'
  <2>1. queue' \subseteq (0 .. N) \X (0 .. 1)
    <3>1. \A e \in own : << e[2], Arrives(e)' >> \in (0 .. N) \X (0 .. 1)
      BY <1>3, <1>8
    <3> QED BY <3>1, <1>10 DEF VisitInv, VisitTypes
  <2>2. DOMAIN vertices' \subseteq 0 .. N
        /\ \A p \in DOMAIN vertices' : vertices'[p] \in 0 .. 1
    BY <1>4 DEF VisitInv, VisitTypes
  <2>3. ASSUME NEW e \in DOMAIN edges'
        PROVE  /\ e \in (0 .. N) \X (0 .. N) /\ e[1] < e[2] /\ e[2] <= farthest'
               /\ e[1] \in DOMAIN vertices'
               /\ edges'[e] \subseteq 0 .. 1 /\ edges'[e] # {}
    <3>1. CASE e \in own
      BY <3>1, <1>3, <1>4
    <3>2. CASE e \in DOMAIN edges
      <4>1. /\ e \in (0 .. N) \X (0 .. N) /\ e[1] < e[2] /\ e[2] <= farthest
            /\ e[1] \in DOMAIN vertices
            /\ edges[e] \subseteq 0 .. 1 /\ edges[e] # {}
        BY <3>2 DEF VisitInv, VisitTypes
      <4>2. e[2] \in 0 .. N /\ farthest \in 0 .. N
        BY <4>1 DEF VisitInv, VisitTypes
      <4>3. e[2] <= farthest'
        BY <4>1, <4>2, <1>7, LengthType
      <4> QED BY <3>2, <4>1, <4>3, <1>4, <1>5
    <3> QED BY <3>1, <3>2, <1>5
  <2> QED BY <2>1, <2>2, <2>3, <1>7 DEF VisitTypes
<1>16. InOrder'
  <2> SUFFICES ASSUME NEW v \in queue', NEW p \in DOMAIN vertices'
               PROVE  p <= v[1] /\ (p = v[1] => vertices'[p] <= v[2])
    BY DEF InOrder
  <2>0. p \in 0 .. N /\ pos \in Nat /\ N \in Nat
    BY <1>15, LengthType DEF VisitTypes
  <2>1. p \in DOMAIN vertices => p <= pos
    <3>1. << pos, type >>[1] = pos
      OBVIOUS
    <3> QED BY <3>1, <1>2 DEF VisitInv, InOrder
  <2>2. CASE v \in queue
    <3>1. CASE p = pos
      <4>1. v[1] \in Nat
        BY <2>2 DEF VisitInv, VisitTypes
      <4>2. pos < v[1] \/ (pos = v[1] /\ type <= v[2])
        BY <2>2, <1>2
      <4> QED BY <3>1, <4>1, <4>2, <2>0, <1>4
    <3>2. CASE p \in DOMAIN vertices
      BY <3>2, <2>2, <1>4 DEF VisitInv, InOrder
    <3> QED BY <3>1, <3>2, <1>4
  <2>3. ASSUME NEW e \in own, v = << e[2], Arrives(e)' >>
        PROVE  p <= v[1] /\ (p = v[1] => vertices'[p] <= v[2])
    <3>1. v[1] = e[2] /\ pos < e[2] /\ e[2] \in Nat
      BY <2>3, <1>3
    <3>2. p <= pos
      BY <2>0, <2>1, <1>4
    <3> QED BY <3>1, <3>2, <2>0
  <2> QED BY <2>2, <2>3, <1>10
<1>17. AllOffered'
  <2>1. Offered(0, 0)'
    BY <1>12 DEF VisitInv, AllOffered
  <2>2. ASSUME NEW e \in DOMAIN edges', NEW t \in 0 .. 1, t = Arrives(e)'
        PROVE  Offered(e[2], t)'
    <3>1. CASE e \in own
      BY <2>2, <3>1, <1>9 DEF Offered
    <3>2. CASE e \in DOMAIN edges
      <4>1. Offered(e[2], t)
        BY <2>2, <3>2, <1>11 DEF VisitInv, AllOffered
      <4> QED BY <4>1, <1>12
    <3> QED BY <3>1, <3>2, <1>5
  <2> QED BY <2>1, <2>2 DEF AllOffered
<1>18. AllSupported'
  <2>1. ASSUME NEW p \in DOMAIN vertices', NEW t \in 0 .. 1, t = vertices'[p]
        PROVE  Supported(p, t)'
    <3>1. Supported(p, t)
      <4>1. CASE p = pos
        <5>1. Supported(<< pos, type >>[1], << pos, type >>[2])
          BY <1>2 DEF VisitInv, AllSupported
        <5> QED BY <4>1, <5>1, <2>1, <1>4
      <4>2. CASE p \in DOMAIN vertices
        BY <4>2, <2>1, <1>4 DEF VisitInv, AllSupported
      <4> QED BY <4>1, <4>2, <1>4
    <3> QED BY <3>1, <1>13
  <2>2. ASSUME NEW v \in queue' PROVE Supported(v[1], v[2])'
    <3>1. CASE v \in queue
      BY <3>1, <1>13 DEF VisitInv, AllSupported
    <3>2. ASSUME NEW e \in own, v = << e[2], Arrives(e)' >>
          PROVE  Supported(v[1], v[2])'
      <4>1. v[1] = e[2] /\ v[2] = Arrives(e)'
        BY <3>2
      <4> QED BY <4>1, <1>14
    <3> QED BY <3>1, <3>2, <1>10
  <2>3. farthest' = 0 \/ \E e \in DOMAIN edges' : e[2] = farthest'
    BY <1>5, <1>7 DEF VisitInv, AllSupported
  <2> QED BY <2>1, <2>2, <2>3 DEF AllSupported
<1> QED BY <1>7, <1>15, <1>16, <1>17, <1>18 DEF VisitInv

\* When there is nothing left to be visited, the vertices are the positions that
\* the reference reaches, and have the types with which it does: a position on
\* which the two would differ has one before it on which they do.
LEMMA AllVisited ==
  ASSUME VisitInv, queue = {}, NEW t \in 0 .. 1, NEW p \in 0 .. N
  PROVE  p \in Origin(t) <=> p \in DOMAIN vertices /\ vertices[p] <= t
<1> DEFINE Holds(q) == q \in DOMAIN vertices /\ vertices[q] <= t
           Wrong == {q \in 0 .. N : ~ (q \in Origin(t) <=> Holds(q))}
<1>0. N \in Nat /\ t \in Nat
  BY LengthType
<1>1. 0 \in DOMAIN vertices /\ vertices[0] <= 0 /\ vertices[0] \in 0 .. 1
  BY DEF VisitInv, AllOffered, Offered, VisitTypes
<1>2. \A e \in DOMAIN edges : e[2] \in DOMAIN vertices /\ vertices[e[2]] <= Arrives(e)
  <2> TAKE e \in DOMAIN edges
  <2>1. vertices[e[1]] \in 0 .. 1 /\ Min(edges[e]) \in 0 .. 1
    BY TypesOf DEF VisitInv, VisitTypes
  <2>2. Arrives(e) \in 0 .. 1
    BY <2>1, TypesOf DEF Arrives
  <2> QED BY <2>2 DEF VisitInv, AllOffered, Offered
<1>3. \A e \in DOMAIN edges : /\ e \in (0 .. N) \X (0 .. N) /\ e[1] < e[2]
                              /\ e[1] \in DOMAIN vertices
                              /\ vertices[e[1]] \in 0 .. 1 /\ Min(edges[e]) \in 0 .. 1
                              /\ Arrives(e) = Max({vertices[e[1]], Min(edges[e])})
  BY TypesOf DEF VisitInv, VisitTypes, Arrives
<1>4. \A e \in DOMAIN edges : Arrives(e) <= t <=> vertices[e[1]] <= t /\ Min(edges[e]) <= t
  <2> TAKE e \in DOMAIN edges
  <2> DEFINE a == vertices[e[1]]
             b == Min(edges[e])
  <2>1. a \in 0 .. 1 /\ b \in 0 .. 1 /\ Arrives(e) = Max({a, b})
    BY <1>3
  <2> HIDE DEF a, b
  <2>2. Max({a, b}) \in {a, b} /\ a <= Max({a, b}) /\ b <= Max({a, b})
    BY <2>1, TypesOf
  <2>3. Arrives(e) <= t <=> a <= t /\ b <= t
    BY <2>1, <2>2, <1>0
  <2> QED BY <2>3 DEF a, b
<1>5. \A q, r : Along(q, r, t) <=> << q, r >> \in DOMAIN edges /\ Min(edges[<< q, r >>]) <= t
  BY DEF Along, VisitInv
<1>6. ASSUME NEW q \in 0 .. N, \A r \in 0 .. N : r < q => (r \in Origin(t) <=> Holds(r)),
             q \in Origin(t)
      PROVE  Holds(q)
  <2>1. CASE q = 0
    BY <2>1, <1>0, <1>1
  <2>2. CASE q # 0
    <3>1. PICK r \in 0 .. q - 1 : r \in Origin(t) /\ Along(r, q, t)
      BY <2>2, <1>6, OriginSteps
    <3>2. r \in 0 .. N /\ r < q /\ q \in Nat
      BY <1>0
    <3>3. Holds(r)
      BY <3>1, <3>2, <1>6
    <3> DEFINE e == << r, q >>
    <3>4. e \in DOMAIN edges /\ Min(edges[e]) <= t /\ e[1] = r /\ e[2] = q
      BY <3>1, <1>5
    <3> HIDE DEF e
    <3>5. Arrives(e) <= t
      BY <3>3, <3>4, <1>4
    <3>6. q \in DOMAIN vertices /\ vertices[q] <= Arrives(e)
      BY <3>4, <1>2
    <3>7. vertices[q] \in 0 .. 1 /\ Arrives(e) \in 0 .. 1
      BY <3>4, <3>6, <1>3, TypesOf DEF VisitInv, VisitTypes
    <3> QED BY <3>5, <3>6, <3>7, <1>0
  <2> QED BY <2>1, <2>2
<1>7. ASSUME NEW q \in 0 .. N, \A r \in 0 .. N : r < q => (r \in Origin(t) <=> Holds(r)),
             Holds(q)
      PROVE  q \in Origin(t)
  <2>1. Supported(q, vertices[q])
    BY <1>7 DEF VisitInv, VisitTypes, AllSupported
  <2>2. CASE q = 0
    BY <2>2, <1>0, OriginSteps
  <2>3. ASSUME NEW e \in DOMAIN edges, e[2] = q, Arrives(e) = vertices[q]
        PROVE  q \in Origin(t)
    <3> DEFINE r == e[1]
    <3>0. e \in (0 .. N) \X (0 .. N) /\ r < e[2] /\ r \in DOMAIN vertices
      BY <1>3
    <3>1. r \in 0 .. N /\ r < q /\ e = << r, q >> /\ r \in DOMAIN vertices
      BY <2>3, <3>0
    <3>2. vertices[r] <= t /\ Min(edges[e]) <= t
      BY <2>3, <1>4, <1>7
    <3> HIDE DEF r
    <3>3. r \in Origin(t) /\ Along(r, q, t)
      BY <3>1, <3>2, <1>5, <1>7
    <3>4. r \in 0 .. q - 1
      BY <3>1, <1>0
    <3> QED BY <3>3, <3>4, OriginSteps
  <2> QED BY <2>1, <2>2, <2>3 DEF Supported
<1>8. Wrong = {}
  <2> SUFFICES ASSUME Wrong # {} PROVE FALSE
    OBVIOUS
  <2>1. Wrong \subseteq Nat
    BY <1>0
  <2> DEFINE q == Min(Wrong)
  <2>2. q \in Wrong /\ \A k \in Wrong : q <= k
    BY <2>1, LeastOf
  <2> HIDE DEF q
  <2>3. q \in 0 .. N /\ ~ (q \in Origin(t) <=> Holds(q))
    BY <2>2
  <2>4. \A r \in 0 .. N : r < q => (r \in Origin(t) <=> Holds(r))
    <3> TAKE r \in 0 .. N
    <3>1. r \in Nat /\ q \in Nat
      BY <2>3, <1>0
    <3> HIDE DEF Holds
    <3> QED BY <3>1, <2>2
  <2> HIDE DEF Holds, Wrong
  <2> QED BY <2>3, <2>4, <1>6, <1>7
<1> QED BY <1>8

LEMMA Built ==
  ASSUME VisitInv, queue = {}
  PROVE  /\ FoundInv /\ End = farthest /\ Reached = DOMAIN vertices
         /\ \A p \in Reached : BestType(p) = vertices[p]
<1>0. N \in Nat
  BY LengthType
<1>1. Reached = DOMAIN vertices
  <2>1. Reached \subseteq 0 .. N /\ DOMAIN vertices \subseteq 0 .. N
        /\ \A p \in DOMAIN vertices : vertices[p] <= 1
    BY OriginSteps DEF Reached, VisitInv, VisitTypes
  <2>2. \A p \in 0 .. N : p \in Reached <=> p \in DOMAIN vertices /\ vertices[p] <= 1
    BY AllVisited DEF Reached
  <2> QED BY <2>1, <2>2
<1>2. ASSUME NEW p \in Reached
      PROVE  BestType(p) = vertices[p] /\ vertices[p] \in 0 .. 1
  <2>1. vertices[p] \in 0 .. 1 /\ p \in 0 .. N
    BY <1>1 DEF VisitInv, VisitTypes
  <2> DEFINE S == {t \in 0 .. 1 : p \in Origin(t)}
  <2>2. S = {t \in 0 .. 1 : vertices[p] <= t}
    BY <2>1, <1>1, AllVisited
  <2>3. S \subseteq 0 .. 1 /\ vertices[p] \in S /\ \A t \in S : vertices[p] <= t
    BY <2>1, <2>2
  <2>4. BestType(p) = Min(S)
    BY DEF BestType, kNormalSpelling, kAbbreviation
  <2> HIDE DEF S
  <2>5. Min(S) \in S /\ Min(S) <= vertices[p]
    BY <2>3, TypesOf
  <2>6. Min(S) \in 0 .. 1 /\ vertices[p] <= Min(S)
    BY <2>3, <2>5
  <2> QED BY <2>1, <2>4, <2>5, <2>6
<1>3. \A e \in DOMAIN edges : e[1] \in Reached /\ e[2] \in Reached
  <2> TAKE e \in DOMAIN edges
  <2>1. e[1] \in Reached
    BY <1>1 DEF VisitInv, VisitTypes
  <2>2. vertices[e[1]] \in 0 .. 1 /\ Min(edges[e]) \in 0 .. 1
    BY TypesOf DEF VisitInv, VisitTypes
  <2>3. Arrives(e) \in 0 .. 1
    BY <2>2, TypesOf DEF Arrives
  <2>4. e[2] \in DOMAIN vertices
    BY <2>3 DEF VisitInv, AllOffered, Offered
  <2> QED BY <2>1, <2>4, <1>1
<1>4. 0 \in Reached
  BY <1>1 DEF VisitInv, AllOffered, Offered
<1>5. farthest \in Reached
  BY <1>3, <1>4 DEF VisitInv, AllSupported
<1>6. \A p \in Reached : p \in 0 .. N /\ p <= farthest
  <2> TAKE p \in Reached
  <2>1. p \in 0 .. N /\ farthest \in 0 .. N /\ vertices[p] \in 0 .. 1
    BY <1>1 DEF VisitInv, VisitTypes
  <2>2. Supported(p, vertices[p])
    BY <2>1, <1>1 DEF VisitInv, AllSupported
  <2> QED BY <2>1, <2>2, <1>0 DEF Supported, VisitInv, VisitTypes
<1>7. End = farthest
  <2>1. Reached \subseteq 0 .. N /\ Reached # {}
    BY <1>4, <1>6
  <2>2. Max(Reached) \in Reached /\ \A k \in Reached : k <= Max(Reached)
    BY <1>0, <2>1, LargestOf
  <2>3. End = Max(Reached)
    BY DEF End, Reached, kAbbreviation
  <2>4. End \in 0 .. N /\ End <= farthest /\ farthest <= End /\ farthest \in 0 .. N
    BY <2>2, <2>3, <1>5, <1>6
  <2> QED BY <2>4, <1>0
<1>8. \A p \in 0 .. N, t \in 0 .. 1 :
        p \in Origin(t) <=> p \in Reached /\ BestType(p) <= t
  BY <1>1, <1>2, AllVisited
<1>9. \A e \in DOMAIN found : /\ e \in Reached \X Reached /\ e[1] < e[2]
                              /\ found[e] \subseteq 0 .. 1 /\ found[e] # {}
  BY <1>3 DEF VisitInv, VisitTypes
<1> QED BY <1>1, <1>2, <1>5, <1>6, <1>7, <1>8, <1>9 DEF FoundInv

-----------------------------------------------------------------------------
(* Pruning                                                                  *)

\* What was found does not change any more.
LEMMA StaysFound ==
  ASSUME FoundInv, UNCHANGED found
  PROVE  /\ FoundInv' /\ Reached' = Reached /\ End' = End /\ OnPath' = OnPath
         /\ \A p : BestType(p)' = BestType(p)
<1>1. Reached' = Reached
  BY SameReference DEF Reached
<1>2. End' = End /\ OnPath' = OnPath /\ \A p : BestType(p)' = BestType(p)
  BY SameReference
<1>3. \A t : Origin(t)' = Origin(t)
  BY SameReference
<1>4. FoundInv'
  BY <1>1, <1>2, <1>3 DEF FoundInv
<1> QED BY <1>1, <1>2, <1>4

\* A position is on a way to the end that is as good as the best if a syllable
\* leads from there to one that is.
LEMMA OnPathSteps ==
  ASSUME FoundInv
  PROVE  /\ OnPath \subseteq Reached /\ End \in OnPath /\ BestType(End) \in 0 .. 1
         /\ \A p \in Reached :
              p \in OnPath <=>
                /\ BestType(p) <= BestType(End)
                /\ p = End \/ \E q \in OnPath : Along(p, q, BestType(End))
<1> DEFINE end == End
           best == BestType(End)
<1>0. /\ N \in Nat /\ end \in 0 .. N /\ end \in Reached /\ best \in 0 .. 1
      /\ \A p \in Reached : p \in 0 .. N /\ p <= end
  BY LengthType DEF FoundInv
<1>1. OnPath = Origin(best) \cap Leading(end, best)
  BY DEF OnPath
<1>2. \A p \in 0 .. N : p \in Origin(best) <=> p \in Reached /\ BestType(p) <= best
  BY <1>0 DEF FoundInv
<1> HIDE DEF end, best
<1>3. /\ Origin(best) \subseteq 0 .. N
      /\ \A p \in 0 .. N :
           p \in Origin(best) <=>
             p = 0 \/ \E q \in 0 .. p - 1 : q \in Origin(best) /\ Along(q, p, best)
  BY OriginSteps
<1>4. /\ Leading(end, best) \subseteq 0 .. N
      /\ \A p \in 0 .. N :
           p \in Leading(end, best) <=>
             p = end \/ \E q \in p + 1 .. end : q \in Leading(end, best) /\ Along(p, q, best)
  BY <1>0, LeadingSteps
<1>5. OnPath \subseteq Reached
  BY <1>1, <1>2, <1>3
<1>6. end \in OnPath
  <2>1. end \in Leading(end, best)
    BY <1>0, <1>4
  <2>2. BestType(end) <= best
    BY <1>0 DEF end, best
  <2> QED BY <2>1, <2>2, <1>0, <1>1, <1>2
<1>7. ASSUME NEW p \in OnPath, p # end PROVE \E q \in OnPath : Along(p, q, best)
  <2>1. p \in 0 .. N /\ p \in Origin(best) /\ p \in Leading(end, best)
    BY <1>1, <1>3
  <2>2. PICK q \in p + 1 .. end : q \in Leading(end, best) /\ Along(p, q, best)
    BY <1>4, <1>7, <2>1
  <2>3. q \in 0 .. N /\ p \in 0 .. q - 1
    BY <1>0, <2>1
  <2>4. q \in Origin(best)
    BY <1>3, <2>1, <2>2, <2>3
  <2> QED BY <2>2, <2>4, <1>1
<1>8. ASSUME NEW p \in Reached, BestType(p) <= best, NEW q \in OnPath, Along(p, q, best)
      PROVE  p \in OnPath
  <2>1. p \in 0 .. N /\ p \in Origin(best)
    BY <1>0, <1>2, <1>8
  <2>2. q \in 0 .. N /\ q <= end /\ q \in Leading(end, best)
    BY <1>0, <1>1, <1>5
  <2>3. << p, q >> \in DOMAIN found
    BY <1>8 DEF Along
  <2>4. << p, q >>[1] < << p, q >>[2]
    BY <2>3 DEF FoundInv
  <2>5. q \in p + 1 .. end
    BY <2>1, <2>2, <2>4, <1>0
  <2> QED BY <2>1, <2>2, <2>5, <1>1, <1>4, <1>8
<1>9. \A p \in OnPath : BestType(p) <= best
  BY <1>1, <1>2, <1>3
<1>10. \A p \in Reached :
         p \in OnPath <=>
           BestType(p) <= best /\ (p = end \/ \E q \in OnPath : Along(p, q, best))
  BY <1>6, <1>7, <1>8, <1>9
<1> QED BY <1>0, <1>5, <1>6, <1>10 DEF end, best

LEMMA BeginPruningKeeps == ASSUME VisitInv, BeginPruning PROVE PruneInv'
<1>1. /\ FoundInv /\ End = farthest /\ Reached = DOMAIN vertices
      /\ \A p \in Reached : BestType(p) = vertices[p]
  BY Built DEF BeginPruning
<1>2. /\ pc' = "prune" /\ at' = farthest - 1 /\ good' = {farthest}
      /\ last_type' = vertices[farthest]
      /\ UNCHANGED << vertices, edges, farthest, found >>
  BY DEF BeginPruning, graph
<1>3. /\ FoundInv' /\ Reached' = Reached /\ End' = End /\ OnPath' = OnPath
      /\ \A p : BestType(p)' = BestType(p)
  BY <1>1, <1>2, StaysFound
<1>4. /\ End \in Nat /\ End \in Reached /\ End \in OnPath /\ OnPath \subseteq Reached
      /\ \A p \in Reached : p \in Nat /\ p <= End
  BY <1>1, OnPathSteps, LengthType DEF FoundInv
<1>5. \A p \in Reached : p <= at' <=> p # End
  BY <1>1, <1>2, <1>4
<1>6. \A e \in DOMAIN found : e[1] <= at' /\ e[1] # End /\ ~ (e[1] > at')
  <2> TAKE e \in DOMAIN found
  <2>1. e \in Reached \X Reached /\ e[1] < e[2]
    BY <1>1 DEF FoundInv
  <2>2. e[1] \in Nat /\ e[2] \in Nat /\ e[2] <= End
    BY <2>1, <1>4
  <2> QED BY <1>1, <1>2, <1>4, <2>1, <2>2
<1>7. Seen'
  <2>1. good' = {p \in OnPath : p > at'}
    <3>1. \A p \in OnPath : p > at' <=> p = End
      BY <1>1, <1>2, <1>4
    <3>2. good' = {End}
      BY <1>1, <1>2
    <3> QED BY <3>1, <3>2, <1>4
  <2>2. at' \in -1 .. End - 1
    BY <1>1, <1>2, <1>4
  <2> QED BY <1>1, <1>2, <1>3, <1>4, <2>1, <2>2 DEF Seen
<1>8. VerticesLeft'
  BY <1>1, <1>2, <1>3, <1>4, <1>5 DEF VerticesLeft
<1>9. EdgesLeft'
  <2>1. found = edges
    BY DEF VisitInv
  <2>2. << End, N >> \notin DOMAIN edges
    BY <1>6, <2>1
  <2> QED BY <1>2, <1>3, <1>6, <2>1, <2>2 DEF EdgesLeft
<1>10. JointsMarked'
  BY <1>2, <1>6 DEF JointsMarked
<1>11. Phases'
  BY <1>1, <1>2, <1>3 DEF Phases
<1> QED BY <1>3, <1>7, <1>8, <1>9, <1>10, <1>11 DEF PruneInv

\* What pruning starts from, at every position.
LEMMA PruneFacts ==
  ASSUME PruneInv, Prune
  PROVE  /\ at \in 0 .. End - 1 /\ End \in Nat /\ N \in Nat /\ at' = at - 1
         /\ last_type \in 0 .. 1 /\ last_type = BestType(End)
         /\ OnPath \subseteq Reached /\ \A p \in Reached : p \in Nat
         /\ UNCHANGED << pc, farthest, last_type, found >>
         /\ FoundInv' /\ Reached' = Reached /\ End' = End /\ OnPath' = OnPath
         /\ \A p : BestType(p)' = BestType(p)
         /\ \A e : Kept(e)' = Kept(e)
         /\ Seen' <=> good' = {p \in OnPath : p > at'}
         /\ Phases'
<1>1. FoundInv /\ Seen /\ Phases
  BY DEF PruneInv
<1>2. /\ at >= 0 /\ at' = at - 1 /\ pc = "prune"
      /\ UNCHANGED << pc, farthest, last_type, found >>
  BY DEF Prune
<1>3. /\ FoundInv' /\ Reached' = Reached /\ End' = End /\ OnPath' = OnPath
      /\ \A p : BestType(p)' = BestType(p)
  BY <1>1, <1>2, StaysFound
<1>4. N \in Nat /\ End \in Nat /\ \A p \in Reached : p \in Nat
  BY <1>1, LengthType DEF FoundInv
<1>5. at \in 0 .. End - 1 /\ at' \in -1 .. End - 1
  BY <1>1, <1>2, <1>4 DEF Seen
<1>6. \A e : Kept(e)' = Kept(e)
  BY <1>2, <1>3 DEF Kept
<1>7. OnPath \subseteq Reached /\ BestType(End) \in 0 .. 1
  BY <1>1, OnPathSteps
<1>8. last_type = BestType(End)
  BY <1>1 DEF Seen
<1>9. Seen' <=> good' = {p \in OnPath : p > at'}
  BY <1>2, <1>3, <1>5, <1>8 DEF Seen
<1>10. Phases'
  BY <1>1, <1>2, <1>3 DEF Phases
<1> QED BY <1>2, <1>3, <1>4, <1>5, <1>6, <1>7, <1>8, <1>9, <1>10

\* No syllable was found from a position that was not reached.
LEMMA PruneNothing ==
  ASSUME PruneInv, Prune, at \notin DOMAIN vertices
  PROVE  PruneInv'
<1>1. /\ at \in 0 .. End - 1 /\ End \in Nat /\ at' = at - 1
      /\ OnPath \subseteq Reached /\ \A p \in Reached : p \in Nat
      /\ UNCHANGED << pc, farthest, last_type, found >>
      /\ FoundInv' /\ Reached' = Reached /\ End' = End /\ OnPath' = OnPath
      /\ \A p : BestType(p)' = BestType(p)
      /\ \A e : Kept(e)' = Kept(e)
  BY PruneFacts
<1>2. FoundInv /\ Seen /\ VerticesLeft /\ EdgesLeft /\ JointsMarked
  BY DEF PruneInv
<1>3. UNCHANGED << vertices, edges, good >>
  BY DEF Prune
<1>4. at \notin Reached
  BY <1>1, <1>2 DEF VerticesLeft
<1>5. \A p \in Reached : (p <= at' <=> p <= at) /\ (p > at' <=> p > at)
  BY <1>1, <1>4
<1>6. \A e \in DOMAIN found : e[1] \in Reached
  BY <1>2 DEF FoundInv
<1>7. good' = {p \in OnPath : p > at'}
  BY <1>1, <1>2, <1>3, <1>5 DEF Seen
<1>8. VerticesLeft'
  <2>1. \A p \in DOMAIN vertices : p \in Reached
    BY <1>1, <1>2 DEF VerticesLeft, Seen
  <2>2. {p \in Reached : p <= at'} = {p \in Reached : p <= at}
    BY <1>5
  <2> QED BY <1>1, <1>2, <1>3, <1>5, <2>1, <2>2 DEF VerticesLeft
<1>9. EdgesLeft'
  BY <1>1, <1>2, <1>3, <1>5, <1>6 DEF EdgesLeft
<1>10. JointsMarked'
  BY <1>1, <1>2, <1>3, <1>5, <1>6 DEF JointsMarked
<1> QED BY <1>1, <1>7, <1>8, <1>9, <1>10, PruneFacts DEF PruneInv

\* Which syllables from a vertex are qualified, and when some are.
LEMMA QualifiedAre ==
  ASSUME PruneInv, Prune, at \in DOMAIN vertices
  PROVE  /\ at \in Reached /\ vertices[at] = BestType(at)
         /\ DOMAIN Qualified \subseteq DOMAIN found \cap DOMAIN edges
         /\ \A e \in DOMAIN found :
              e[1] = at => /\ e \in DOMAIN Qualified <=>
                                e[2] \in OnPath /\ {t \in found[e] : t <= last_type} # {}
                           /\ e \in DOMAIN Qualified =>
                                Qualified[e] = {t \in found[e] : t <= last_type}
         /\ \A e \in DOMAIN Qualified : e[1] = at
         /\ at \in OnPath <=> ~ (vertices[at] > last_type \/ Qualified = << >>)
<1>1. /\ at \in 0 .. End - 1 /\ End \in Nat
      /\ last_type \in 0 .. 1 /\ last_type = BestType(End)
      /\ OnPath \subseteq Reached /\ \A p \in Reached : p \in Nat
  BY PruneFacts
<1>2. FoundInv /\ Seen /\ VerticesLeft /\ EdgesLeft
  BY DEF PruneInv
<1>3. at \notin good
  BY <1>1, <1>2 DEF Seen
<1>4. at \in Reached /\ vertices[at] = BestType(at)
  BY <1>1, <1>2, <1>3 DEF VerticesLeft
<1>5. \A e \in DOMAIN edges : e[1] = at => e \in DOMAIN found
  BY <1>1, <1>2 DEF EdgesLeft
<1>6. \A e \in DOMAIN found : e[1] = at => e \in DOMAIN edges /\ edges[e] = found[e]
  BY <1>1, <1>2 DEF EdgesLeft
<1>7. \A e \in DOMAIN found : e[1] = at => (e[2] \in good <=> e[2] \in OnPath)
  BY <1>1, <1>2 DEF FoundInv, Seen
<1> DEFINE kept == {e \in DOMAIN edges : /\ e[1] = at /\ e[2] \in good
                                         /\ Min(edges[e]) <= last_type}
<1>8. Qualified = [e \in kept |-> {type \in edges[e] : type <= last_type}]
  BY DEF Qualified
<1>9. \A e \in DOMAIN found : Min(found[e]) <= last_type <=>
                                {t \in found[e] : t <= last_type} # {}
  <2> TAKE e \in DOMAIN found
  <2>1. found[e] \subseteq 0 .. 1 /\ found[e] # {}
    BY <1>2 DEF FoundInv
  <2> DEFINE s == found[e]
  <2> HIDE DEF s
  <2>2. s \subseteq 0 .. 1 /\ s # {}
    BY <2>1 DEF s
  <2>3. Min(s) \in s /\ Min(s) \in 0 .. 1 /\ \A t \in s : Min(s) <= t
    BY <2>2, TypesOf
  <2>4. Min(s) <= last_type <=> {t \in s : t <= last_type} # {}
    <3>1. ASSUME NEW t \in s, t <= last_type PROVE Min(s) <= last_type
      <4>1. t \in 0 .. 1 /\ Min(s) <= t /\ Min(s) \in 0 .. 1 /\ last_type \in 0 .. 1
        BY <2>2, <2>3, <1>1
      <4> QED BY <3>1, <4>1
    <3>2. Min(s) <= last_type => Min(s) \in {t \in s : t <= last_type}
      BY <2>3
    <3> QED BY <3>1, <3>2
  <2> QED BY <2>4 DEF s
<1>10. \A e \in DOMAIN found :
         e[1] = at => (e \in kept <=>
                         e[2] \in OnPath /\ {t \in found[e] : t <= last_type} # {})
  BY <1>6, <1>7, <1>9
<1>11. \A e \in kept : e \in DOMAIN found /\ e[1] = at
  BY <1>5
<1>12. \A e \in kept : Qualified[e] = {t \in found[e] : t <= last_type}
  BY <1>6, <1>8, <1>11
<1>13. DOMAIN Qualified = kept
  BY <1>8
<1>14. kept = {} <=> Qualified = << >>
  <2>1. ASSUME kept = {} PROVE Qualified = << >>
    BY <1>8, <2>1
  <2>2. ASSUME Qualified = << >> PROVE kept = {}
    BY <1>13, <2>2
  <2> QED BY <2>1, <2>2
<1>15. kept \subseteq DOMAIN edges
  OBVIOUS
<1> HIDE DEF kept
<1>16. kept # {} <=> \E q \in OnPath : Along(at, q, last_type)
  <2>1. ASSUME NEW e \in kept PROVE \E q \in OnPath : Along(at, q, last_type)
    <3>1. e \in DOMAIN found /\ e[1] = at /\ e[2] \in OnPath
          /\ Min(found[e]) <= last_type
      BY <1>9, <1>10, <1>11
    <3>2. e = << at, e[2] >>
      BY <3>1, <1>2 DEF FoundInv
    <3> QED BY <3>1, <3>2 DEF Along
  <2>2. ASSUME NEW q \in OnPath, Along(at, q, last_type) PROVE kept # {}
    <3> DEFINE e == << at, q >>
    <3>1. e \in DOMAIN found /\ Min(found[e]) <= last_type
      BY <2>2 DEF Along
    <3>2. e[1] = at /\ e[2] = q
      OBVIOUS
    <3> HIDE DEF e
    <3>3. e \in kept
      BY <3>1, <3>2, <1>9, <1>10
    <3> QED BY <3>3
  <2> QED BY <2>1, <2>2
<1>17. at \in OnPath <=>
         BestType(at) <= last_type /\ \E q \in OnPath : Along(at, q, last_type)
  <2>1. at # End
    BY <1>1
  <2> QED BY <2>1, <1>1, <1>2, <1>4, OnPathSteps
<1>18. BestType(at) \in 0 .. 1
  BY <1>2, <1>4 DEF FoundInv
<1>19. at \in OnPath <=> ~ (vertices[at] > last_type \/ Qualified = << >>)
  <2>1. vertices[at] > last_type <=> ~ (BestType(at) <= last_type)
    BY <1>1, <1>4, <1>18
  <2> QED BY <2>1, <1>14, <1>16, <1>17
<1> QED BY <1>4, <1>10, <1>11, <1>12, <1>13, <1>15, <1>19

\* What the step makes of the syllables from a vertex, and of the joints.
LEMMA PrunedTo ==
  ASSUME PruneInv, Prune, at \in DOMAIN vertices
  PROVE  /\ good' = {p \in OnPath : p > at'}
         /\ DOMAIN vertices' = {p \in Reached : p <= at'} \cup good'
         /\ \A p \in DOMAIN vertices' :
              vertices'[p] = IF p \in CheckOverlappedSpellings(Qualified)
                             THEN kAmbiguousSpelling ELSE vertices[p]
         /\ \A e : e[1] # at => (e \in DOMAIN edges' <=> e \in DOMAIN edges)
         /\ \A e \in DOMAIN edges : e[1] # at => edges'[e] = edges[e]
         /\ \A e : e[1] = at => (e \in DOMAIN edges' <=>
                                   at \in OnPath /\ e \in DOMAIN Qualified)
         /\ \A e \in DOMAIN edges' : e[1] = at => edges'[e] = Qualified[e]
<1> DEFINE own == Qualified
           joints == CheckOverlappedSpellings(own)
           others == {e \in DOMAIN edges : e[1] # at}
           marked == [p \in DOMAIN vertices |->
                        IF p \in joints THEN kAmbiguousSpelling ELSE vertices[p]]
<1>1. /\ at \in 0 .. End - 1 /\ End \in Nat /\ at' = at - 1
      /\ OnPath \subseteq Reached /\ \A p \in Reached : p \in Nat
  BY PruneFacts
<1>2. /\ DOMAIN vertices = {p \in Reached : p <= at} \cup good
      /\ good = {p \in OnPath : p > at}
  BY DEF PruneInv, Seen, VerticesLeft
<1>3. /\ at \in Reached
      /\ at \in OnPath <=> ~ (vertices[at] > last_type \/ own = << >>)
      /\ \A e \in DOMAIN own : e[1] = at
  BY QualifiedAre
<1>4. IF vertices[at] > last_type \/ own = << >>
      THEN /\ vertices' = Restrict(marked, DOMAIN marked \ {at})
           /\ edges' = Restrict(edges, others) /\ good' = good
      ELSE /\ vertices' = marked
           /\ edges' = [e \in DOMAIN own \cup others |->
                         IF e[1] = at THEN own[e] ELSE edges[e]]
           /\ good' = good \cup {at}
  BY Zenon DEF Prune
<1> HIDE DEF own, joints
<1>5. \A p \in Reached : /\ p <= at' <=> p <= at /\ p # at
                         /\ p > at' <=> p > at \/ p = at
  BY <1>1
<1>6. at <= at /\ ~ (at > at)
  BY <1>1
<1>7. CASE at \notin OnPath
  <2>1. /\ vertices' = [p \in DOMAIN vertices \ {at} |-> marked[p]]
        /\ edges' = [e \in others |-> edges[e]] /\ good' = good
    BY <1>3, <1>4, <1>7 DEF Restrict
  <2>2. good' = {p \in OnPath : p > at'}
    BY <1>1, <1>2, <1>5, <1>7, <2>1
  <2>3. DOMAIN vertices' = {p \in Reached : p <= at'} \cup good'
    BY <1>1, <1>2, <1>5, <1>7, <2>1
  <2>4. \A p \in DOMAIN vertices' :
          vertices'[p] = IF p \in joints THEN kAmbiguousSpelling ELSE vertices[p]
    BY <2>1
  <2> HIDE DEF marked
  <2>5. DOMAIN edges' = others /\ \A e \in others : edges'[e] = edges[e]
    BY <2>1
  <2> QED BY <2>2, <2>3, <2>4, <2>5, <1>7 DEF own, joints
<1>8. CASE at \in OnPath
  <2>1. /\ vertices' = marked
        /\ edges' = [e \in DOMAIN own \cup others |->
                      IF e[1] = at THEN own[e] ELSE edges[e]]
        /\ good' = good \cup {at}
    BY <1>3, <1>4, <1>8
  <2>2. good' = {p \in OnPath : p > at'}
    BY <1>1, <1>2, <1>5, <1>8, <2>1
  <2>3. DOMAIN vertices' = {p \in Reached : p <= at'} \cup good'
    BY <1>1, <1>2, <1>3, <1>5, <1>6, <1>8, <2>1
  <2>4. \A p \in DOMAIN vertices' :
          vertices'[p] = IF p \in joints THEN kAmbiguousSpelling ELSE vertices[p]
    BY <2>1
  <2> HIDE DEF marked
  <2>5. /\ DOMAIN edges' = DOMAIN own \cup others
        /\ \A e \in others : edges'[e] = edges[e]
        /\ \A e \in DOMAIN own : edges'[e] = own[e]
    BY <1>3, <2>1
  <2>6. \A e : e \in others <=> e \in DOMAIN edges /\ e[1] # at
    OBVIOUS
  <2> HIDE DEF others
  <2>7. /\ \A e : e[1] # at => (e \in DOMAIN edges' <=> e \in DOMAIN edges)
        /\ \A e \in DOMAIN edges : e[1] # at => edges'[e] = edges[e]
    BY <2>5, <2>6, <1>3
  <2>8. \A e : e[1] = at => (e \in DOMAIN edges' <=> at \in OnPath /\ e \in DOMAIN own)
    BY <2>5, <2>6, <1>8
  <2>9. ASSUME NEW e \in DOMAIN edges', e[1] = at PROVE edges'[e] = own[e]
    <3>1. e \in DOMAIN own
      BY <2>8, <2>9
    <3> QED BY <3>1, <2>5
  <2> QED BY <2>2, <2>3, <2>4, <2>7, <2>8, <2>9 DEF own, joints
<1> QED BY <1>7, <1>8

LEMMA PruneVertex ==
  ASSUME PruneInv, Prune, at \in DOMAIN vertices
  PROVE  PruneInv'
<1>1. /\ at \in 0 .. End - 1 /\ End \in Nat /\ N \in Nat /\ at' = at - 1
      /\ OnPath \subseteq Reached /\ \A p \in Reached : p \in Nat
      /\ UNCHANGED << pc, farthest, last_type, found >>
      /\ FoundInv' /\ Reached' = Reached /\ End' = End /\ OnPath' = OnPath
      /\ \A p : BestType(p)' = BestType(p)
      /\ \A e : Kept(e)' = Kept(e)
  BY PruneFacts
<1>2. FoundInv /\ Seen /\ VerticesLeft /\ EdgesLeft /\ JointsMarked
  BY DEF PruneInv
<1>3. /\ good' = {p \in OnPath : p > at'}
      /\ DOMAIN vertices' = {p \in Reached : p <= at'} \cup good'
      /\ \A p \in DOMAIN vertices' :
           vertices'[p] = IF p \in CheckOverlappedSpellings(Qualified)
                          THEN kAmbiguousSpelling ELSE vertices[p]
  BY PrunedTo
<1>4. /\ \A e : e[1] # at => (e \in DOMAIN edges' <=> e \in DOMAIN edges)
      /\ \A e \in DOMAIN edges : e[1] # at => edges'[e] = edges[e]
      /\ \A e : e[1] = at => (e \in DOMAIN edges' <=>
                                at \in OnPath /\ e \in DOMAIN Qualified)
      /\ \A e \in DOMAIN edges' : e[1] = at => edges'[e] = Qualified[e]
  BY PrunedTo
<1>5. /\ DOMAIN Qualified \subseteq DOMAIN found \cap DOMAIN edges
      /\ \A e \in DOMAIN found :
           e[1] = at => /\ e \in DOMAIN Qualified <=>
                             e[2] \in OnPath /\ {t \in found[e] : t <= last_type} # {}
                        /\ e \in DOMAIN Qualified =>
                             Qualified[e] = {t \in found[e] : t <= last_type}
      /\ \A e \in DOMAIN Qualified : e[1] = at
  BY QualifiedAre
<1>6. \A e \in DOMAIN found : e = << e[1], e[2] >> /\ e[1] \in Reached /\ e[2] \in Reached
                              /\ e[1] \in Nat /\ e[2] \in Nat /\ e[1] < e[2]
  <2> TAKE e \in DOMAIN found
  <2>1. e \in Reached \X Reached /\ e[1] < e[2]
    BY <1>2 DEF FoundInv
  <2> QED BY <2>1, <1>1
<1>7. \A p \in Reached : /\ p <= at' <=> p <= at /\ p # at
                         /\ p > at' <=> p > at \/ p = at
  BY <1>1
<1>8. \A p \in CheckOverlappedSpellings(Qualified) : p > at'
  <2>1. \A e \in DOMAIN Qualified : e[2] > at'
    BY <1>1, <1>5, <1>6
  <2> QED BY <2>1 DEF CheckOverlappedSpellings
<1>9. VerticesLeft'
  <2>1. ASSUME NEW p \in DOMAIN vertices'
        PROVE  vertices'[p] = BestType(p) \/ (p > at' /\ vertices'[p] = kAmbiguousSpelling)
    <3>1. CASE p \in CheckOverlappedSpellings(Qualified)
      BY <3>1, <1>3, <1>8
    <3>2. CASE p \notin CheckOverlappedSpellings(Qualified)
      <4>1. p \in Reached
        BY <1>1, <1>3
      <4>2. p \in DOMAIN vertices
        <5>1. p <= at \/ p > at
          BY <4>1, <1>1
        <5> QED BY <5>1, <4>1, <1>1, <1>2, <1>3, <1>7 DEF VerticesLeft, Seen
      <4>3. vertices[p] = BestType(p) \/ (p > at' /\ vertices[p] = kAmbiguousSpelling)
        BY <4>1, <4>2, <1>2, <1>7 DEF VerticesLeft
      <4> QED BY <3>2, <4>3, <1>3
    <3> QED BY <3>1, <3>2
  <2> QED BY <2>1, <1>1, <1>3 DEF VerticesLeft
<1>10. EdgesLeft'
  <2>1. << End, N >>[1] # at
    BY <1>1
  <2>2. /\ DOMAIN edges' \subseteq DOMAIN found \cup {<< End, N >>}
        /\ << End, N >> \in DOMAIN edges' => End < N
    BY <2>1, <1>2, <1>4, <1>5 DEF EdgesLeft
  <2>3. ASSUME NEW e \in DOMAIN found
        PROVE  IF e[1] <= at' THEN e \in DOMAIN edges' /\ edges'[e] = found[e]
               ELSE IF Kept(e) = {} THEN e \notin DOMAIN edges'
               ELSE e \in DOMAIN edges' /\ edges'[e] = Kept(e)
    <3>1. CASE e[1] = at
      <4>1. ~ (e[1] <= at')
        BY <3>1, <1>1
      <4>2. Kept(e) = IF at \in OnPath /\ e \in DOMAIN Qualified THEN Qualified[e] ELSE {}
        BY <3>1, <1>5 DEF Kept
      <4>3. e \in DOMAIN Qualified => Qualified[e] # {}
        BY <3>1, <1>5
      <4> QED BY <3>1, <4>1, <4>2, <4>3, <1>4
    <3>2. CASE e[1] # at
      <4>1. e[1] <= at' <=> e[1] <= at
        BY <3>2, <1>6, <1>7
      <4>2. IF e[1] <= at THEN e \in DOMAIN edges /\ edges[e] = found[e]
            ELSE IF Kept(e) = {} THEN e \notin DOMAIN edges
            ELSE e \in DOMAIN edges /\ edges[e] = Kept(e)
        BY <1>2 DEF EdgesLeft
      <4> HIDE DEF Kept
      <4> QED BY <3>2, <4>1, <4>2, <1>4
    <3> QED BY <3>1, <3>2
  <2> QED BY <2>2, <2>3, <1>1 DEF EdgesLeft
<1>11. JointsMarked'
  <2> SUFFICES ASSUME NEW y \in DOMAIN found \cap DOMAIN edges',
                      NEW z \in DOMAIN found \cap DOMAIN edges',
                      y[1] = z[1], y[1] > at', y[2] < z[2],
                      << y[2], z[2] >> \in DOMAIN found \cap DOMAIN edges',
                      kNormalSpelling \in edges'[z]
               PROVE  vertices'[y[2]] = kAmbiguousSpelling
    BY <1>1 DEF JointsMarked
  <2> DEFINE joint == y[2]
             over == << y[2], z[2] >>
  <2>1. joint \in Reached /\ joint > at /\ over[1] = joint
    BY <1>1, <1>6, <1>7
  <2>2. over \in DOMAIN edges
    BY <2>1, <1>1, <1>4
  <2>3. joint \in OnPath
    <3>1. Kept(y) # {}
      <4>1. ~ (y[1] <= at')
        BY <1>1, <1>6
      <4> QED BY <4>1, <1>1, <1>10 DEF EdgesLeft
    <3> QED BY <3>1 DEF Kept
  <2>4. joint \in DOMAIN vertices'
    BY <2>1, <2>3, <1>3, <1>7
  <2>5. CASE y[1] = at
    <3>1. y \in DOMAIN Qualified /\ z \in DOMAIN Qualified
          /\ kNormalSpelling \in Qualified[z]
      BY <2>5, <1>4
    <3>2. joint \in CheckOverlappedSpellings(Qualified)
      BY <3>1, <2>2 DEF CheckOverlappedSpellings
    <3> QED BY <3>2, <2>4, <1>3
  <2>6. CASE y[1] # at
    <3>1. y[1] > at /\ y \in DOMAIN edges /\ z \in DOMAIN edges /\ edges'[z] = edges[z]
      BY <2>6, <1>4, <1>6, <1>7
    <3>2. vertices[joint] = kAmbiguousSpelling
      BY <3>1, <2>2, <1>2 DEF JointsMarked
    <3> QED BY <3>2, <2>4, <1>3
  <2> QED BY <2>5, <2>6
<1> QED BY <1>1, <1>3, <1>9, <1>10, <1>11, PruneFacts DEF PruneInv

LEMMA PruneKeeps == ASSUME PruneInv, Prune PROVE PruneInv'
  BY PruneNothing, PruneVertex

-----------------------------------------------------------------------------
(* Completion                                                               *)

\* Completion changes one edge, which no syllable was found for.
LEMMA CompletionKeeps ==
  ASSUME PruneInv, Phases', UNCHANGED << vertices, good, at, last_type, found >>,
         \A e : e # << End, N >> => (e \in DOMAIN edges' <=> e \in DOMAIN edges),
         \A e \in DOMAIN edges : e # << End, N >> => edges'[e] = edges[e],
         << End, N >> \in DOMAIN edges' => End < N
  PROVE  PruneInv'
<1>1. FoundInv /\ Seen /\ VerticesLeft /\ EdgesLeft /\ JointsMarked
  BY DEF PruneInv
<1>2. /\ FoundInv' /\ Reached' = Reached /\ End' = End /\ OnPath' = OnPath
      /\ \A p : BestType(p)' = BestType(p)
  BY <1>1, StaysFound
<1>3. \A e : Kept(e)' = Kept(e)
  BY <1>2 DEF Kept
<1>4. << End, N >> \notin DOMAIN found
  <2> SUFFICES ASSUME << End, N >> \in DOMAIN found PROVE FALSE
    OBVIOUS
  <2>1. << End, N >> \in Reached \X Reached /\ << End, N >>[1] < << End, N >>[2]
    BY <1>1 DEF FoundInv
  <2>2. N \in Reached /\ End < N
    BY <2>1
  <2>3. N <= End /\ N \in Nat /\ End \in Nat
    BY <1>1, <2>2, LengthType DEF FoundInv
  <2> QED BY <2>2, <2>3
<1>5. Seen' /\ VerticesLeft'
  BY <1>1, <1>2 DEF Seen, VerticesLeft
<1>6. EdgesLeft'
  <2>1. DOMAIN edges' \subseteq DOMAIN found \cup {<< End, N >>}
    BY <1>1 DEF EdgesLeft
  <2>2. \A e \in DOMAIN found : /\ e \in DOMAIN edges' <=> e \in DOMAIN edges
                                /\ e \in DOMAIN edges => edges'[e] = edges[e]
    BY <1>4
  <2> HIDE DEF Kept
  <2> QED BY <1>1, <1>2, <1>3, <2>1, <2>2 DEF EdgesLeft
<1>7. JointsMarked'
  BY <1>1, <1>4 DEF JointsMarked
<1> QED BY <1>2, <1>5, <1>6, <1>7 DEF PruneInv

\* What the steps after pruning leave alone.
LEMMA DoneKeeps == ASSUME PruneInv, Done \/ Expand PROVE PruneInv'
<1>1. Phases /\ Seen /\ EdgesLeft /\ FoundInv
  BY DEF PruneInv
<1>2. /\ pc = "prune" /\ at < 0 /\ pc' \in {"done", "complete"}
      /\ pc' = "complete" => farthest < N
      /\ UNCHANGED << vertices, edges, farthest, good, at, last_type, found >>
  BY DEF Done, Expand, graph
<1>3. End' = End
  BY <1>1, <1>2, StaysFound
<1>4. Phases'
  <2>1. End \in Nat
    BY <1>1, LengthType DEF FoundInv
  <2>2. at = -1
    BY <1>1, <1>2, <2>1 DEF Seen
  <2> QED BY <1>1, <1>2, <1>3, <2>2 DEF Phases
<1> QED BY <1>1, <1>2, <1>4, CompletionKeeps DEF EdgesLeft

LEMMA CompleteKeeps ==
  ASSUME PruneInv, Complete \/ AddSyllable \/ EndCompletion PROVE PruneInv'
<1>1. Phases /\ EdgesLeft /\ FoundInv
  BY DEF PruneInv
<1>2. /\ pc = "complete" /\ UNCHANGED << vertices, good, at, last_type, found >>
      /\ \/ pc' = pc /\ farthest' = farthest
         \/ pc' = "done" /\ farthest' = N
  BY DEF Complete, AddSyllable, EndCompletion
<1>3. farthest = End /\ End < N /\ at = -1
  BY <1>1, <1>2 DEF Phases
<1>4. End' = End
  BY <1>1, <1>2, StaysFound
<1>5. Phases'
  BY <1>2, <1>3, <1>4 DEF Phases
<1>6. /\ \A e : e # << End, N >> => (e \in DOMAIN edges' <=> e \in DOMAIN edges)
      /\ \A e \in DOMAIN edges : e # << End, N >> => edges'[e] = edges[e]
  <2>1. CASE Complete
    <3>1. edges' = [e \in DOMAIN edges \cup {<< End, N >>} |->
                      IF e \in DOMAIN edges THEN edges[e] ELSE {}]
      BY <2>1, <1>3 DEF Complete
    <3> QED BY <3>1
  <2>2. CASE AddSyllable
    <3>1. edges' = edges
          \/ edges' = [edges EXCEPT ![<< End, N >>] = @ \cup {kCompletion}]
      BY <2>2, <1>3 DEF AddSyllable
    <3> QED BY <3>1
  <2>3. CASE EndCompletion
    BY <2>3 DEF EndCompletion
  <2> QED BY <2>1, <2>2, <2>3
<1> QED BY <1>2, <1>3, <1>5, <1>6, CompletionKeeps

-----------------------------------------------------------------------------
(* Every step                                                               *)

LEMMA StepKeeps == ASSUME IInv, Next PROVE IInv'
<1>1. CASE pc = "visit" /\ VisitInv
  <2>1. CASE Discard
    BY <1>1, <2>1, DiscardKeeps DEF IInv, Discard
  <2>2. CASE Visit
    BY <1>1, <2>2, VisitKeeps DEF IInv, Visit
  <2>3. CASE BeginPruning
    BY <1>1, <2>3, BeginPruningKeeps DEF IInv
  <2> QED BY <1>1, <2>1, <2>2, <2>3
          DEF Next, Step, Prune, Done, Expand, Complete, AddSyllable, EndCompletion, Return
<1>2. CASE PruneInv
  <2>1. pc # "visit"
    BY <1>2 DEF PruneInv, Phases
  <2>2. CASE Prune
    BY <1>2, <2>2, PruneKeeps DEF IInv
  <2>3. CASE Done \/ Expand
    BY <1>2, <2>3, DoneKeeps DEF IInv
  <2>4. CASE Complete \/ AddSyllable \/ EndCompletion
    BY <1>2, <2>4, CompleteKeeps DEF IInv
  <2>5. CASE Return
    <3>1. UNCHANGED << pc, vertices, edges, farthest, good, at, last_type, found >>
      BY <2>5 DEF Return, vars, graph
    <3>2. Phases' /\ EdgesLeft
      BY <1>2, <3>1, StaysFound DEF PruneInv, Phases
    <3> QED BY <1>2, <3>1, <3>2, CompletionKeeps DEF IInv, EdgesLeft
  <2> QED BY <2>1, <2>2, <2>3, <2>4, <2>5
          DEF Next, Step, Discard, Visit, BeginPruning
<1> QED BY <1>1, <1>2 DEF IInv

LEMMA Inductive == Spec => []IInv
<1>1. Init => IInv
  BY InitVisits DEF IInv, Init
<1>2. IInv /\ [Next]_vars => IInv'
  <2> SUFFICES ASSUME IInv, [Next]_vars PROVE IInv'
    OBVIOUS
  <2>1. CASE Next
    BY <2>1, StepKeeps
  <2>2. CASE UNCHANGED vars
    <3>1. UNCHANGED << pc, queue, vertices, edges, farthest, good, at, last_type, found >>
      BY <2>2 DEF vars, graph
    <3>2. CASE pc = "visit" /\ VisitInv
      <4>1. \A p, t : Offered(p, t)' = Offered(p, t)
        BY <3>1 DEF Offered
      <4>2. \A e : Arrives(e)' = Arrives(e)
        BY <3>1 DEF Arrives
      <4>3. \A p, t : Supported(p, t)' = Supported(p, t)
        BY <3>1, <4>2 DEF Supported
      <4>4. VisitTypes' /\ InOrder'
        BY <3>1, <3>2 DEF VisitInv, VisitTypes, InOrder
      <4>5. AllOffered'
        BY <3>1, <3>2, <4>1, <4>2 DEF VisitInv, AllOffered
      <4>6. AllSupported'
        BY <3>1, <3>2, <4>3 DEF VisitInv, AllSupported
      <4> QED BY <3>1, <3>2, <4>4, <4>5, <4>6 DEF IInv, VisitInv
    <3>3. CASE PruneInv
      <4>1. Phases' /\ EdgesLeft
        BY <3>1, <3>3, StaysFound DEF PruneInv, Phases
      <4> QED BY <3>1, <3>3, <4>1, CompletionKeeps DEF IInv, EdgesLeft
    <3> QED BY <3>2, <3>3 DEF IInv
  <2> QED BY <2>1, <2>2
<1> QED BY <1>1, <1>2, PTL DEF Spec

-----------------------------------------------------------------------------
(* What the invariant says of the graph                                     *)

\* When the syllabifier is done with pruning, the graph is what lies on some way
\* from the beginning of the input to the farthest position that syllables
\* reach, on ways as good as the best of them (GraphIsExact): however long the
\* input is, nothing dangles and no way that is as good is lost.
THEOREM ExactGraph == Spec => []GraphIsExact
<1>1. IInv => GraphIsExact
  <2> SUFFICES ASSUME IInv, at < 0 PROVE GraphIsExact
    BY DEF GraphIsExact
  <2>1. PruneInv
    BY DEF IInv, VisitInv
  <2>2. FoundInv /\ Seen /\ VerticesLeft /\ EdgesLeft /\ Phases
    BY <2>1 DEF PruneInv
  <2>3. /\ OnPath \subseteq Reached /\ at = -1
        /\ \A p \in Reached : p \in Nat /\ ~ (p <= at) /\ p > at
    <3>1. End \in Nat /\ \A p \in Reached : p \in Nat
      BY <2>2, LengthType DEF FoundInv
    <3>2. at = -1
      BY <2>2, <3>1 DEF Seen
    <3> QED BY <2>2, <3>1, <3>2, OnPathSteps
  <2>4. DOMAIN vertices = OnPath
    BY <2>2, <2>3 DEF VerticesLeft, Seen
  <2>5. \A e \in (DOMAIN found \cup DOMAIN edges) \ {<< End, N >>} :
          IF Kept(e) = {} THEN e \notin DOMAIN edges
          ELSE e \in DOMAIN edges /\ edges[e] = Kept(e)
    <3> TAKE e \in (DOMAIN found \cup DOMAIN edges) \ {<< End, N >>}
    <3>1. e \in DOMAIN found /\ e[1] \in Reached
      BY <2>2 DEF EdgesLeft, FoundInv
    <3> HIDE DEF Kept
    <3> QED BY <2>2, <2>3, <3>1 DEF EdgesLeft
  <2>6. \A e \in (DOMAIN found \cup DOMAIN edges) \ {<< End, N >>} :
          Kept(e) = IF e \in DOMAIN found /\ {e[1], e[2]} \subseteq OnPath
                    THEN {t \in found[e] : t <= last_type} ELSE {}
    BY <2>2 DEF EdgesLeft, Kept
  <2>7. last_type = BestType(End) /\ (pc = "done" => farthest \in {End, N})
    BY <2>2 DEF Seen, Phases
  <2> QED BY <2>4, <2>5, <2>6, <2>7, Zenon DEF GraphIsExact
<1> QED BY <1>1, Inductive, PTL

\* A vertex has the type of the best way to it, unless it is marked as a joint;
\* where two syllables of the graph are one as well, their joint is marked
\* (VerticesAreRated), whatever the order in which they were looked at.
THEOREM RatedVertices == Spec => []VerticesAreRated
<1>1. IInv => VerticesAreRated
  <2> SUFFICES ASSUME IInv, at < 0 PROVE VerticesAreRated
    BY DEF VerticesAreRated
  <2>1. PruneInv
    BY DEF IInv, VisitInv
  <2>2. FoundInv /\ Seen /\ VerticesLeft /\ EdgesLeft /\ JointsMarked
    BY <2>1 DEF PruneInv
  <2>3. N \in Nat /\ End \in Nat /\ \A p \in Reached : p \in Nat /\ p <= End
    BY <2>2, LengthType DEF FoundInv
  <2>4. at = -1
    BY <2>2, <2>3 DEF Seen
  <2>5. \A e \in DOMAIN found : /\ e[1] \in Nat /\ e[2] \in Nat
                                /\ e[1] < e[2] /\ e[2] <= End /\ e[1] > at
    <3> TAKE e \in DOMAIN found
    <3>1. e \in Reached \X Reached /\ e[1] < e[2]
      BY <2>2 DEF FoundInv
    <3> QED BY <2>3, <2>4, <3>1
  <2>6. \A e \in DOMAIN edges :
          e \in DOMAIN found \/ (e[1] = End /\ e[2] = N /\ End < N)
    BY <2>2 DEF EdgesLeft
  <2>7. \A p \in DOMAIN vertices : vertices[p] \in {BestType(p), kAmbiguousSpelling}
    BY <2>2 DEF VerticesLeft
  <2>8. ASSUME NEW y \in DOMAIN edges, NEW z \in DOMAIN edges,
               y[1] = z[1], y[2] < z[2], << y[2], z[2] >> \in DOMAIN edges,
               kNormalSpelling \in edges[z]
        PROVE  vertices[y[2]] = kAmbiguousSpelling
    <3> DEFINE over == << y[2], z[2] >>
    <3>0. over[1] = y[2] /\ over[2] = z[2] /\ over \in DOMAIN edges
      BY <2>8
    <3> HIDE DEF over
    <3>1. y \in DOMAIN found
      BY <2>3, <2>5, <2>6, <2>8
    <3>2. z \in DOMAIN found
      BY <2>3, <2>5, <2>6, <2>8, <3>1
    <3>3. over \in DOMAIN found
      BY <2>3, <2>5, <2>6, <2>8, <3>0, <3>1, <3>2
    <3> QED BY <2>2, <2>5, <2>8, <3>1, <3>2, <3>3 DEF JointsMarked, over
  <2> QED BY <2>7, <2>8 DEF VerticesAreRated
<1> QED BY <1>1, Inductive, PTL

-----------------------------------------------------------------------------
(* Ranges                                                                   *)

\* What the invariant does not say of the ranges, for it is not needed there.
RestInv ==
  /\ queue \subseteq (0 .. N) \X Types /\ \A e \in DOMAIN edges : edges[e] \subseteq Types
  /\ pc = "visit" => good = {} /\ last_type = kNormalSpelling

LEMMA TypeFacts == 0 .. 1 \subseteq Types /\ kCompletion \in Types
                   /\ kNormalSpelling \in Types /\ kAmbiguousSpelling \in Types
  BY DEF Types, kNormalSpelling, kCompletion, kAmbiguousSpelling

LEMMA RestStep == ASSUME IInv, IInv', RestInv, [Next]_vars PROVE RestInv'
<1>1. CASE UNCHANGED vars \/ Return \/ BeginPruning \/ Done \/ Expand \/ EndCompletion
  <2>1. UNCHANGED << queue, edges >>
        /\ (pc' = "visit" => pc = "visit" /\ UNCHANGED << good, last_type >>)
    BY <1>1 DEF Return, BeginPruning, Done, Expand, EndCompletion, vars, graph
  <2> QED BY <2>1 DEF RestInv
<1>2. CASE Discard
  BY <1>2 DEF RestInv, Discard, graph
<1>3. CASE Visit
  <2>1. pc' = "visit" /\ pc = "visit" /\ UNCHANGED << good, last_type >>
    BY <1>3 DEF Visit
  <2>2. VisitTypes'
    BY <2>1 DEF IInv, VisitInv, PruneInv, Phases
  <2>3. queue' \subseteq (0 .. N) \X Types /\ \A e \in DOMAIN edges' : edges'[e] \subseteq Types
    BY <2>2, TypeFacts DEF VisitTypes
  <2> QED BY <2>1, <2>3 DEF RestInv
<1>4. CASE Prune
  <2>1. pc' = "prune" /\ queue' = queue /\ PruneInv
    BY <1>4 DEF Prune, IInv
  <2>2. CASE at \notin DOMAIN vertices
    BY <1>4, <2>1, <2>2 DEF Prune, RestInv
  <2>3. CASE at \in DOMAIN vertices
    <3>1. \A e : e[1] # at => (e \in DOMAIN edges' <=> e \in DOMAIN edges)
      BY <1>4, <2>1, <2>3, PrunedTo
    <3>2. \A e \in DOMAIN edges : e[1] # at => edges'[e] = edges[e]
      BY <1>4, <2>1, <2>3, PrunedTo
    <3>3. \A e \in DOMAIN edges' : e[1] = at => e \in DOMAIN Qualified /\ edges'[e] = Qualified[e]
      BY <1>4, <2>1, <2>3, PrunedTo
    <3>4. \A e \in DOMAIN Qualified : e \in DOMAIN edges /\ Qualified[e] \subseteq edges[e]
      BY DEF Qualified
    <3>5. \A e \in DOMAIN edges' : edges'[e] \subseteq Types
      BY <3>1, <3>2, <3>3, <3>4 DEF RestInv
    <3> QED BY <2>1, <3>5 DEF RestInv
  <2> QED BY <2>2, <2>3
<1>5. CASE Complete
  <2>1. << N, kCompletion >> \in (0 .. N) \X Types
    BY LengthType, TypeFacts
  <2>2. pc' = "complete" /\ queue' = queue \cup {<< N, kCompletion >>}
    BY <1>5 DEF Complete
  <2>3. \A e \in DOMAIN edges' : edges'[e] \subseteq Types
    BY <1>5 DEF Complete, RestInv
  <2> QED BY <2>1, <2>2, <2>3 DEF RestInv
<1>6. CASE AddSyllable
  <2>1. pc' = "complete" /\ queue' = queue
    BY <1>6 DEF AddSyllable
  <2>2. edges' = edges \/ edges' = [edges EXCEPT ![<< farthest, N >>] = @ \cup {kCompletion}]
    BY <1>6 DEF AddSyllable
  <2>3. \A e \in DOMAIN edges' : edges'[e] \subseteq Types
    BY <2>2, TypeFacts DEF RestInv
  <2> QED BY <2>1, <2>3 DEF RestInv
<1> QED BY <1>1, <1>2, <1>3, <1>4, <1>5, <1>6 DEF Next, Step

\* The variables stay in their ranges (TypeOK); so a vertex is a position in the
\* input, and no edge leads back.
THEOREM TypeCorrect == Spec => []TypeOK
<1>1. Init => RestInv
  BY LengthType, TypeFacts DEF Init, RestInv
<1>2. IInv /\ RestInv => TypeOK
  <2> SUFFICES ASSUME IInv, RestInv PROVE TypeOK
    OBVIOUS
  <2>0. N \in Nat \ {0}
    BY LengthType
  <2>1. CASE pc = "visit" /\ VisitInv
    <3>1. VisitTypes /\ at = 0 /\ good = {} /\ last_type = kNormalSpelling
      BY <2>1 DEF VisitInv, RestInv
    <3> QED BY <2>0, <2>1, <3>1, TypeFacts DEF TypeOK, RestInv, VisitTypes
  <2>2. CASE PruneInv
    <3>1. FoundInv /\ Seen /\ VerticesLeft /\ EdgesLeft /\ Phases
      BY <2>2 DEF PruneInv
    <3>2. /\ OnPath \subseteq Reached /\ \A p \in Reached : p \in 0 .. N
          /\ End \in 0 .. N /\ BestType(End) \in 0 .. 1
      BY <3>1, OnPathSteps DEF FoundInv
    <3>3. farthest \in 0 .. N /\ at \in -1 .. N - 1 /\ good \subseteq 0 .. N
          /\ last_type \in Types
      BY <2>0, <3>1, <3>2, TypeFacts DEF Seen, Phases
    <3>4. DOMAIN vertices \subseteq Reached
      BY <3>1, <3>2 DEF VerticesLeft, Seen
    <3>5. \A p \in DOMAIN vertices : vertices[p] \in Types
      BY <3>1, <3>4, TypeFacts DEF VerticesLeft, FoundInv
    <3>6. \A e \in DOMAIN edges : e \in (0 .. N) \X (0 .. N) /\ e[1] < e[2]
      <4> TAKE e \in DOMAIN edges
      <4>1. CASE e \in DOMAIN found
        BY <3>1, <3>2, <4>1 DEF FoundInv
      <4>2. CASE e = << End, N >> /\ End < N
        BY <2>0, <3>2, <4>2
      <4> QED BY <3>1, <4>1, <4>2 DEF EdgesLeft
    <3> QED BY <3>1, <3>2, <3>3, <3>4, <3>5, <3>6 DEF TypeOK, RestInv, Phases
  <2> QED BY <2>1, <2>2 DEF IInv
<1>3. Spec => []RestInv
  <2>1. IInv /\ IInv' /\ RestInv /\ [Next]_vars => RestInv'
    BY RestStep
  <2> QED BY <1>1, <2>1, Inductive, PTL DEF Spec
<1> QED BY <1>2, <1>3, Inductive, PTL
=============================================================================

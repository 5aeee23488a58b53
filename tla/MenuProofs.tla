----------------------------- MODULE MenuProofs -----------------------------
(***************************************************************************)
(* Theorems about Menu, for all that translators may offer, for every page    *)
(* size and whatever the filters know of texts.  In which order generators   *)
(* are asked matters for the order of the menu alone.                        *)
(***************************************************************************)
EXTENDS Menu, TLAPS, FiniteSetTheorems, WellFoundedInduction

\* Candidates that were recruited, each with those that were merged into it, and
\* lists of candidates in which every text is different
Entries(s) == \E F, O : s \in Seq([first : F, others : O])
OneEach(s) == \A i, j \in DOMAIN s : i # j => s[i].first.text # s[j].first.text
Different(cs) ==
  /\ Len(cs) \in Nat /\ DOMAIN cs = 1 .. Len(cs)
  /\ \A i, j \in DOMAIN cs : i # j => cs[i].text # cs[j].text

\* A page is shown until the next key, and so is a highlight on it.
Resting ==
  /\ op = "none" => want = 0
  /\ page # NoPage => op = "none"
  /\ candidates = << >> => selected_index = 0

IInv ==
  /\ TypeOK /\ IsSequence(translations) /\ IsSequence(recipe)
  /\ Entries(candidates) /\ Resting /\ NoDuplicates /\ HighlightIsShown

-----------------------------------------------------------------------------
(* Numbers and sequences                                                    *)

LEMMA PageSize == page_size \in Nat \ {0}
  BY PageAssumption

\* A page has the indices from its start to the start of the next one.
LEMMA Division ==
  ASSUME NEW n \in Nat, NEW size \in Nat \ {0}
  PROVE  /\ n \div size \in Nat /\ (n \div size) * size \in Nat
         /\ (n \div size) * size <= n /\ n < (n \div size) * size + size
<1>1. n \div size \in Nat
  OBVIOUS
<1>2. n = (n \div size) * size + (n % size) /\ (n % size) \in 0 .. size - 1
  OBVIOUS
<1> QED BY <1>1, <1>2

LEMMA SequenceOf ==
  ASSUME NEW s, IsSequence(s) PROVE \E S : s \in Seq(S)
<1> DEFINE S == {s[i] : i \in 1 .. Len(s)}
<1>1. s \in [1 .. Len(s) -> S] /\ Len(s) \in Nat
  BY DEF IsSequence
<1>2. s \in Seq(S)
  BY <1>1
<1> QED BY <1>2

LEMMA IsSequenceOf ==
  ASSUME NEW S, NEW s \in Seq(S) PROVE IsSequence(s)
  BY DEF IsSequence

\* A set of natural numbers has a least element.
LEMMA Least ==
  ASSUME NEW S, S \subseteq Nat, S # {}
  PROVE  \E m \in S : \A k \in S : m <= k
<1>1. PICK m \in S : \A k \in S : ~ (<< k, m >> \in OpToRel(<, Nat))
  BY NatLessThanWellFounded, WFMin, Zenon
<1>2. ASSUME NEW k \in S PROVE m <= k
  <2>1. k \in Nat /\ m \in Nat /\ << k, m >> \in Nat \X Nat
    OBVIOUS
  <2>2. ~ (k < m)
    BY <1>1, <2>1 DEF OpToRel
  <2> QED BY <2>1, <2>2
<1> QED BY <1>2

LEMMA Removed ==
  ASSUME NEW S, NEW s \in Seq(S), NEW k \in DOMAIN s
  PROVE  RemoveAt(s, k) \in Seq(S) /\ Len(RemoveAt(s, k)) = Len(s) - 1
<1>1. /\ SubSeq(s, 1, k - 1) \in Seq(S) /\ Len(SubSeq(s, 1, k - 1)) = k - 1
      /\ SubSeq(s, k + 1, Len(s)) \in Seq(S)
      /\ Len(SubSeq(s, k + 1, Len(s))) = Len(s) - k
  OBVIOUS
<1> DEFINE a == SubSeq(s, 1, k - 1)
           b == SubSeq(s, k + 1, Len(s))
<1>2. RemoveAt(s, k) = a \o b
  BY DEF RemoveAt
<1> HIDE DEF a, b
<1>3. a \o b \in Seq(S) /\ Len(a \o b) = Len(a) + Len(b)
  BY <1>1 DEF a, b
<1>4. Len(a) = k - 1 /\ Len(b) = Len(s) - k
  BY <1>1 DEF a, b
<1> QED BY <1>2, <1>3, <1>4

\* In an order, each rank is that of one element.
LEMMA Ranks ==
  ASSUME NEW S, IsFiniteSet(S), NEW upto \in [S -> SUBSET S],
         \A i \in S : i \in upto[i],
         \A i, j \in S : i # j => \/ upto[i] \subseteq upto[j] /\ j \notin upto[i]
                                  \/ upto[j] \subseteq upto[i] /\ i \notin upto[j]
  PROVE  /\ Cardinality(S) \in Nat
         /\ \A i \in S : Cardinality(upto[i]) \in 1 .. Cardinality(S)
         /\ \A i, j \in S : Cardinality(upto[i]) = Cardinality(upto[j]) => i = j
         /\ \A n \in 1 .. Cardinality(S) : \E i \in S : Cardinality(upto[i]) = n
<1> DEFINE N == Cardinality(S)
           f == [i \in S |-> Cardinality(upto[i])]
<1>1. N \in Nat
  BY FS_CardinalityType
<1>2. ASSUME NEW i \in S
      PROVE  IsFiniteSet(upto[i]) /\ Cardinality(upto[i]) \in 1 .. N
  <2>1. upto[i] \in SUBSET S /\ {i} \in SUBSET upto[i]
    OBVIOUS
  <2>2. IsFiniteSet(upto[i]) /\ Cardinality(upto[i]) <= N
    BY <2>1, FS_Subset
  <2>3. Cardinality({i}) = 1 /\ Cardinality({i}) <= Cardinality(upto[i])
    BY <2>1, <2>2, FS_Subset, FS_Singleton
  <2>4. Cardinality(upto[i]) \in Nat
    BY <2>2, FS_CardinalityType
  <2> QED BY <1>1, <2>2, <2>3, <2>4
<1>3. ASSUME NEW i \in S, NEW j \in S, i # j, upto[i] \subseteq upto[j], j \notin upto[i]
      PROVE  Cardinality(upto[i]) # Cardinality(upto[j])
  <2>1. upto[i] \in SUBSET upto[j] /\ upto[i] # upto[j]
    BY <1>3
  <2> QED BY <1>2, <2>1, FS_Subset
<1>4. \A i, j \in S : Cardinality(upto[i]) = Cardinality(upto[j]) => i = j
  BY <1>3
<1>5. f \in Injection(S, 1 .. N)
  BY <1>2, <1>4 DEF Injection, IsInjective
<1>6. IsFiniteSet(1 .. N) /\ Cardinality(1 .. N) = N
  BY <1>1, FS_Interval
<1>7. f \in Surjection(S, 1 .. N)
  <2> HIDE DEF f
  <2> QED BY <1>5, <1>6, FS_Injection
<1>8. \A n \in 1 .. N : \E i \in S : Cardinality(upto[i]) = n
  BY <1>7 DEF Surjection
<1> QED BY <1>1, <1>2, <1>4, <1>8

Rank(indices, i) == Cardinality({j \in indices : j <= i})

\* What is kept of a sequence is its elements at the indices, each once.
LEMMA KeptAt ==
  ASSUME NEW cs, Len(cs) \in Nat, DOMAIN cs = 1 .. Len(cs),
         NEW indices, indices \subseteq DOMAIN cs
  PROVE  /\ Cardinality(indices) \in Nat
         /\ Kept(cs, indices) \in [1 .. Cardinality(indices) -> {cs[i] : i \in indices}]
         /\ \A i \in indices : /\ Rank(indices, i) \in 1 .. Cardinality(indices)
                               /\ Kept(cs, indices)[Rank(indices, i)] = cs[i]
         /\ \A i, j \in indices : Rank(indices, i) = Rank(indices, j) => i = j
         /\ \A n \in 1 .. Cardinality(indices) : \E i \in indices : Rank(indices, i) = n
<1> DEFINE upto == [i \in indices |-> {j \in indices : j <= i}]
           at(n) == CHOOSE i \in indices : Rank(indices, i) = n
<1>1. IsFiniteSet(indices) /\ indices \subseteq Nat
  <2>1. IsFiniteSet(1 .. Len(cs))
    BY FS_Interval
  <2> QED BY <2>1, FS_Subset
<1>2. /\ upto \in [indices -> SUBSET indices]
      /\ \A i \in indices : i \in upto[i] /\ Cardinality(upto[i]) = Rank(indices, i)
      /\ \A i, j \in indices : i # j => \/ upto[i] \subseteq upto[j] /\ j \notin upto[i]
                                        \/ upto[j] \subseteq upto[i] /\ i \notin upto[j]
  <2>1. \A i \in indices : i \in upto[i] /\ Cardinality(upto[i]) = Rank(indices, i)
    BY <1>1 DEF Rank
  <2>2. ASSUME NEW i \in indices, NEW j \in indices, i < j
        PROVE  upto[i] \subseteq upto[j] /\ j \notin upto[i]
    BY <1>1, <2>2
  <2>3. \A i, j \in indices : i # j => i < j \/ j < i
    BY <1>1
  <2> HIDE DEF upto
  <2>4. \A i, j \in indices : i # j => \/ upto[i] \subseteq upto[j] /\ j \notin upto[i]
                                       \/ upto[j] \subseteq upto[i] /\ i \notin upto[j]
    BY <2>2, <2>3
  <2>5. upto \in [indices -> SUBSET indices]
    BY DEF upto
  <2> QED BY <2>1, <2>4, <2>5
<1> HIDE DEF upto
<1>3. /\ Cardinality(indices) \in Nat
      /\ \A i \in indices : Cardinality(upto[i]) \in 1 .. Cardinality(indices)
      /\ \A i, j \in indices : Cardinality(upto[i]) = Cardinality(upto[j]) => i = j
      /\ \A n \in 1 .. Cardinality(indices) : \E i \in indices : Cardinality(upto[i]) = n
  BY <1>1, <1>2, Ranks
<1>4. /\ \A i \in indices : Rank(indices, i) \in 1 .. Cardinality(indices)
      /\ \A i, j \in indices : Rank(indices, i) = Rank(indices, j) => i = j
      /\ \A n \in 1 .. Cardinality(indices) : \E i \in indices : Rank(indices, i) = n
  BY <1>2, <1>3
<1>5. \A n \in 1 .. Cardinality(indices) : at(n) \in indices /\ Rank(indices, at(n)) = n
  BY <1>4
<1>6. Kept(cs, indices) = [n \in 1 .. Cardinality(indices) |-> cs[at(n)]]
  BY DEF Kept, Rank
<1>7. ASSUME NEW i \in indices PROVE Kept(cs, indices)[Rank(indices, i)] = cs[i]
  <2>1. Rank(indices, i) \in 1 .. Cardinality(indices)
    BY <1>4
  <2>2. at(Rank(indices, i)) = i
    BY <1>4, <1>5, <2>1
  <2> HIDE DEF at
  <2> QED BY <1>6, <2>1, <2>2
<1>8. Kept(cs, indices) \in [1 .. Cardinality(indices) -> {cs[i] : i \in indices}]
  BY <1>5, <1>6
<1> QED BY <1>3, <1>4, <1>7, <1>8

LEMMA KeptOnce ==
  ASSUME NEW cs, Len(cs) \in Nat, DOMAIN cs = 1 .. Len(cs),
         NEW indices, indices \subseteq DOMAIN cs
  PROVE  /\ Cardinality(indices) \in Nat
         /\ Kept(cs, indices) \in [1 .. Cardinality(indices) -> {cs[i] : i \in indices}]
         /\ \A m, n \in 1 .. Cardinality(indices) : m # n =>
              \E i, j \in indices : /\ i # j /\ Kept(cs, indices)[m] = cs[i]
                                    /\ Kept(cs, indices)[n] = cs[j]
<1>1. ASSUME NEW m \in 1 .. Cardinality(indices), NEW n \in 1 .. Cardinality(indices), m # n
      PROVE  \E i, j \in indices : /\ i # j /\ Kept(cs, indices)[m] = cs[i]
                                   /\ Kept(cs, indices)[n] = cs[j]
  <2>1. PICK i \in indices, j \in indices : Rank(indices, i) = m /\ Rank(indices, j) = n
    BY KeptAt
  <2>2. Kept(cs, indices)[m] = cs[i] /\ Kept(cs, indices)[n] = cs[j]
    BY <2>1, KeptAt
  <2> QED BY <1>1, <2>1, <2>2
<1> QED BY <1>1, KeptAt

-----------------------------------------------------------------------------
(* Filters                                                                  *)

\* A candidate becomes a list of candidates of different texts.
LEMMA Simplified ==
  ASSUME NEW c
  PROVE  Different(Simplifier(c))
<1>1. CASE simplification /\ c.text \in DOMAIN Forms
  <2> DEFINE forms == Forms[c.text]
             cs == [i \in DOMAIN forms |-> Candidate(forms[i], c.end, c.type)]
  <2>1. Simplifier(c) = cs
    BY <1>1 DEF Simplifier
  <2>2. Len(forms) \in Nat /\ DOMAIN forms = 1 .. Len(forms) /\ IsInjective(forms)
    BY <1>1, FormsAssumption DEF IsSequence
  <2>3. cs \in [1 .. Len(forms) -> {cs[i] : i \in 1 .. Len(forms)}]
    BY <2>2
  <2>4. Len(cs) = Len(forms) /\ DOMAIN cs = 1 .. Len(forms)
    BY <2>2, <2>3
  <2>5. \A i \in DOMAIN cs : cs[i].text = forms[i]
    BY DEF Candidate
  <2>6. \A i, j \in DOMAIN forms : i # j => forms[i] # forms[j]
    BY <2>2 DEF IsInjective
  <2> HIDE DEF cs, forms
  <2> QED BY <2>1, <2>2, <2>4, <2>5, <2>6 DEF Different
<1>2. CASE ~ (simplification /\ c.text \in DOMAIN Forms)
  <2>1. Simplifier(c) = << c >>
    BY <1>2 DEF Simplifier
  <2> QED BY <2>1 DEF Different
<1> QED BY <1>1, <1>2

LEMMA EntryOf ==
  ASSUME NEW F, NEW O, NEW x \in [first : F, others : O]
  PROVE  x.first \in F /\ x = [first |-> x.first, others |-> x.others]
  OBVIOUS

\* What was recruited keeps its place and its text; what is new has other texts.
LEMMA Uniquified ==
  ASSUME NEW recruited, Entries(recruited), OneEach(recruited),
         NEW cs, Different(cs),
         NEW u, u = Uniquifier(recruited, cs)
  PROVE  /\ Entries(u) /\ OneEach(u)
         /\ Len(recruited) <= Len(u) /\ Len(u) <= Len(recruited) + Len(cs)
         /\ \A j \in DOMAIN u :
              IF j <= Len(recruited)
              THEN j \in DOMAIN recruited /\ u[j].first = recruited[j].first
              ELSE \E i \in DOMAIN cs : u[j].first = cs[i]
         /\ \A i \in DOMAIN cs : \E j \in DOMAIN u : u[j].first.text = cs[i].text
<1>1. PICK F, O : recruited \in Seq([first : F, others : O])
  BY DEF Entries
<1>2. /\ Len(cs) \in Nat /\ DOMAIN cs = 1 .. Len(cs)
       /\ \A i, j \in DOMAIN cs : i # j => cs[i].text # cs[j].text
  BY DEF Different
<1>3. \A i, j \in DOMAIN recruited :
         i # j => recruited[i].first.text # recruited[j].first.text
  BY DEF OneEach
<1> DEFINE merged(j) == Kept(cs, {i \in DOMAIN cs : cs[i].text = recruited[j].first.text})
           indices == {i \in DOMAIN cs : SameText(recruited, cs[i]) = {}}
           fresh == Kept(cs, indices)
           n == Cardinality(indices)
           old == [j \in DOMAIN recruited |->
                     [recruited[j] EXCEPT !.others = @ \o merged(j)]]
           F2 == F \cup {cs[i] : i \in DOMAIN cs}
           O2 == {recruited[j].others \o merged(j) : j \in DOMAIN recruited} \cup {<< >>}
<1>4. /\ DOMAIN recruited = 1 .. Len(recruited) /\ Len(recruited) \in Nat
      /\ \A j \in DOMAIN recruited : recruited[j] \in [first : F, others : O]
  <2> DEFINE E == [first : F, others : O]
  <2>1. recruited \in Seq(E)
    BY <1>1
  <2> HIDE DEF E
  <2>2. /\ DOMAIN recruited = 1 .. Len(recruited) /\ Len(recruited) \in Nat
        /\ \A j \in DOMAIN recruited : recruited[j] \in E
    BY <2>1
  <2> QED BY <2>2 DEF E
<1>5. u = old \o New(fresh)
  BY DEF Uniquifier
<1>6. /\ n \in Nat /\ n <= Len(cs) /\ fresh \in [1 .. n -> {cs[i] : i \in indices}]
      /\ \A k, l \in 1 .. n : k # l =>
           \E i, j \in indices : i # j /\ fresh[k] = cs[i] /\ fresh[l] = cs[j]
  <2>1. indices \subseteq DOMAIN cs
    OBVIOUS
  <2> HIDE DEF indices
  <2>2. n <= Len(cs)
    <3>1. IsFiniteSet(DOMAIN cs) /\ Cardinality(DOMAIN cs) = Len(cs)
      BY SMTT(20), <1>2, FS_Interval
    <3> QED BY <2>1, <3>1, FS_Subset
  <2> QED BY <1>2, <2>1, <2>2, KeptOnce
<1>6a. \A i \in indices : \E k \in 1 .. n : fresh[k] = cs[i]
  <2>1. indices \subseteq DOMAIN cs
    OBVIOUS
  <2> HIDE DEF indices
  <2> QED BY SMTT(20), <1>2, <2>1, KeptAt
<1> HIDE DEF merged, fresh, n
<1>7. /\ old \in Seq([first : F2, others : O2]) /\ Len(old) = Len(recruited)
      /\ \A j \in DOMAIN recruited : old[j].first = recruited[j].first
  <2>1. \A j \in DOMAIN recruited :
          /\ old[j] = [first |-> recruited[j].first,
                       others |-> recruited[j].others \o merged(j)]
          /\ old[j] \in [first : F2, others : O2]
    <3>1. ASSUME NEW j \in DOMAIN recruited
          PROVE  old[j] = [first |-> recruited[j].first,
                           others |-> recruited[j].others \o merged(j)]
      <4>1. recruited[j] = [first |-> recruited[j].first, others |-> recruited[j].others]
        <5> HIDE DEF old, F2, O2
        <5> QED BY <1>4, EntryOf
      <4>2. old[j] = [recruited[j] EXCEPT !.others = recruited[j].others \o merged(j)]
        OBVIOUS
      <4> HIDE DEF old
      <4> QED BY <4>1, <4>2
    <3>2. ASSUME NEW j \in DOMAIN recruited
          PROVE  recruited[j].first \in F2 /\ recruited[j].others \o merged(j) \in O2
      <4>1. recruited[j].first \in F
        <5> HIDE DEF old, F2, O2
        <5> QED BY <1>4, EntryOf
      <4> QED BY <4>1
    <3> DEFINE E == [first : F2, others : O2]
    <3>3. ASSUME NEW j \in DOMAIN recruited PROVE old[j] \in E
      <4> DEFINE a == recruited[j].first
                 b == recruited[j].others \o merged(j)
      <4>1. old[j] = [first |-> a, others |-> b] /\ a \in F2 /\ b \in O2
        BY <3>1, <3>2
      <4> HIDE DEF a, b, old, F2, O2
      <4> QED BY <4>1
    <3> HIDE DEF old, F2, O2
    <3> QED BY <3>1, <3>3
  <2> DEFINE E == [first : F2, others : O2]
  <2>2. old \in [1 .. Len(recruited) -> E]
    <3>1. DOMAIN old = 1 .. Len(recruited) /\ old = [j \in DOMAIN old |-> old[j]]
      OBVIOUS
    <3>2. \A j \in 1 .. Len(recruited) : old[j] \in E
      BY <1>4, <2>1
    <3> HIDE DEF old, E
    <3> QED BY <3>1, <3>2
  <2>3. old \in Seq(E) /\ Len(old) = Len(recruited)
    <3> HIDE DEF old, E
    <3> QED BY <1>4, <2>2
  <2>4. \A j \in DOMAIN recruited : old[j].first = recruited[j].first
    <3> HIDE DEF old, merged
    <3> TAKE j \in DOMAIN recruited
    <3> DEFINE a == recruited[j].first
               b == recruited[j].others \o merged(j)
    <3>1. old[j] = [first |-> a, others |-> b]
      BY <2>1
    <3>2. old[j].first = a
      <4> HIDE DEF a, b
      <4> QED BY <3>1
    <3> QED BY <3>2
  <2> QED BY <2>3, <2>4
<1>8. /\ New(fresh) \in Seq([first : F2, others : O2]) /\ Len(New(fresh)) = n
      /\ \A k \in 1 .. n : New(fresh)[k].first = fresh[k]
  <2>1. New(fresh) = [k \in 1 .. n |-> [first |-> fresh[k], others |-> << >>]]
    BY <1>6 DEF New
  <2>2. \A k \in 1 .. n : fresh[k] \in F2
    BY <1>6
  <2>3. New(fresh) \in [1 .. n -> [first : F2, others : O2]]
    BY <2>1, <2>2
  <2>4. \A k \in 1 .. n : New(fresh)[k].first = fresh[k]
    BY <2>1
  <2> DEFINE new == New(fresh)
             E == [first : F2, others : O2]
  <2>5. new \in Seq(E) /\ Len(new) = n
    <3>1. n \in Nat /\ new \in [1 .. n -> E]
      BY <1>6, <2>3
    <3> HIDE DEF new, E
    <3> QED BY <3>1
  <2> QED BY <2>4, <2>5
<1> HIDE DEF old, F2, O2
<1>9. /\ u \in Seq([first : F2, others : O2]) /\ Len(u) = Len(recruited) + n
      /\ \A j \in DOMAIN recruited : u[j].first = recruited[j].first
      /\ \A k \in 1 .. n : u[Len(recruited) + k].first = fresh[k]
  <2> DEFINE new == New(fresh)
  <2>1. /\ new \in Seq([first : F2, others : O2]) /\ Len(new) = n
        /\ \A k \in 1 .. n : new[k].first = fresh[k]
    BY <1>8
  <2>2. u = old \o new
    BY <1>5
  <2> HIDE DEF new
  <2> DEFINE Entry == [first : F2, others : O2]
  <2>6. old \in Seq(Entry) /\ new \in Seq(Entry)
    BY <1>7, <2>1
  <2>3. u \in Seq(Entry) /\ Len(u) = Len(recruited) + n
    <3> HIDE DEF Entry
    <3>1. old \o new \in Seq(Entry)
      BY <2>6
    <3>2. Len(old \o new) = Len(old) + Len(new)
      BY <2>6
    <3> QED BY <1>7, <2>1, <2>2, <3>1, <3>2
  <2>4. \A j \in DOMAIN recruited : u[j] = old[j]
    BY <1>7, <2>1, <2>2
  <2>5. \A k \in 1 .. n : u[Len(recruited) + k] = new[k]
    BY <1>6, <1>7, <2>1, <2>2
  <2> QED BY <1>7, <2>1, <2>3, <2>4, <2>5
<1>10. \A j \in DOMAIN recruited, i \in indices : recruited[j].first.text # cs[i].text
  BY DEF SameText
<1>11. ASSUME NEW i \in DOMAIN u, NEW j \in DOMAIN u, i < j
      PROVE  u[i].first.text # u[j].first.text
  <2>1. /\ i \in 1 .. Len(recruited) + n /\ j \in 1 .. Len(recruited) + n
        /\ Len(recruited) \in Nat /\ n \in Nat
    BY <1>6, <1>9
  <2> DEFINE m == Len(recruited)
  <2>5. ASSUME NEW p \in 1 .. m + n, p > m PROVE p - m \in 1 .. n /\ p = m + (p - m)
    BY <2>1, <2>5
  <2>6. \A l \in 1 .. n : \E b \in indices : fresh[l] = cs[b]
    <3> HIDE DEF indices
    <3> QED BY <1>6
  <2>2. CASE j <= Len(recruited)
    <3>1. i \in DOMAIN recruited /\ j \in DOMAIN recruited
      BY <1>4, <1>11, <2>1, <2>2
    <3> QED BY <1>9, <1>11, <1>3, <3>1
  <2>3. CASE i <= Len(recruited) /\ j > Len(recruited)
    <3>1. i \in DOMAIN recruited
      BY <1>4, <2>1, <2>3
    <3>2. PICK l \in 1 .. n : j = Len(recruited) + l
      BY <2>1, <2>3, <2>5
    <3>3. PICK b \in indices : fresh[l] = cs[b]
      BY <2>6
    <3>4. u[i].first = recruited[i].first /\ u[j].first = cs[b]
      BY <1>9, <3>1, <3>2, <3>3
    <3> HIDE DEF indices
    <3> QED BY <1>10, <3>1, <3>3, <3>4
  <2>4. CASE i > Len(recruited)
    <3>1. PICK k \in 1 .. n : i = Len(recruited) + k
      BY <2>1, <2>4, <2>5
    <3>2. PICK l \in 1 .. n : j = Len(recruited) + l /\ k # l
      <4>1. PICK l \in 1 .. n : j = Len(recruited) + l
        BY <1>11, <2>1, <2>4, <2>5
      <4>2. k # l
        BY <1>11, <3>1, <4>1
      <4> QED BY <4>1, <4>2
    <3>3. PICK a \in indices, b \in indices : a # b /\ fresh[k] = cs[a] /\ fresh[l] = cs[b]
      BY <1>6, <3>2
    <3>4. cs[a].text # cs[b].text
      BY <1>2, <3>3
    <3> QED BY <1>9, <3>1, <3>2, <3>3, <3>4
  <2> QED BY <2>1, <2>2, <2>3, <2>4
<1>12. OneEach(u)
  <2>1. \A i, j \in DOMAIN u : i \in Nat /\ j \in Nat
    BY <1>9
  <2>2. ASSUME NEW i \in DOMAIN u, NEW j \in DOMAIN u, i # j
        PROVE  u[i].first.text # u[j].first.text
    <3>1. i < j \/ j < i
      BY <2>1, <2>2
    <3> QED BY <1>11, <3>1
  <2> QED BY <2>2 DEF OneEach
<1>13. Len(recruited) <= Len(u) /\ Len(u) <= Len(recruited) + Len(cs)
  BY <1>2, <1>4, <1>6, <1>9
<1>14. ASSUME NEW j \in DOMAIN u
       PROVE  IF j <= Len(recruited)
              THEN j \in DOMAIN recruited /\ u[j].first = recruited[j].first
              ELSE \E i \in DOMAIN cs : u[j].first = cs[i]
  <2>1. j \in 1 .. Len(recruited) + n /\ Len(recruited) \in Nat /\ n \in Nat
    BY <1>4, <1>6, <1>9
  <2>2. CASE j <= Len(recruited)
    BY <1>4, <1>9, <2>1, <2>2
  <2>3. CASE ~ (j <= Len(recruited))
    <3>1. PICK k \in 1 .. n : j = Len(recruited) + k
      <4>1. j - Len(recruited) \in 1 .. n /\ j = Len(recruited) + (j - Len(recruited))
        BY <2>1, <2>3
      <4> QED BY <4>1
    <3>2. fresh[k] \in {cs[i] : i \in indices}
      BY <1>6
    <3>3. u[j].first = fresh[k]
      BY <1>9, <3>1
    <3> QED BY <2>3, <3>2, <3>3
  <2> QED BY <2>2, <2>3
<1>15. ASSUME NEW i \in DOMAIN cs
       PROVE  \E j \in DOMAIN u : u[j].first.text = cs[i].text
  <2>1. DOMAIN u = 1 .. Len(recruited) + n /\ Len(recruited) \in Nat /\ n \in Nat
    BY <1>4, <1>6, <1>9
  <2>2. CASE i \in indices
    <3>1. PICK k \in 1 .. n : fresh[k] = cs[i]
      BY <1>6a, <2>2
    <3>2. Len(recruited) + k \in DOMAIN u
      BY <2>1
    <3>3. u[Len(recruited) + k].first = cs[i]
      BY <1>9, <3>1
    <3> QED BY <3>2, <3>3
  <2>3. CASE i \notin indices
    <3>1. PICK j \in DOMAIN recruited : recruited[j].first.text = cs[i].text
      BY <2>3 DEF SameText
    <3>2. j \in DOMAIN u /\ u[j].first = recruited[j].first
      BY <1>4, <1>9, <2>1
    <3> QED BY <3>1, <3>2
  <2> QED BY <2>2, <2>3
<1> QED BY <1>9, <1>12, <1>13, <1>14, <1>15 DEF Entries

-----------------------------------------------------------------------------
(* Generators                                                               *)

LEMMA FunctionIsSequence ==
  ASSUME NEW s, NEW n \in Nat, NEW S, s \in [1 .. n -> S]
  PROVE  s \in Seq(S) /\ IsSequence(s) /\ Len(s) = n /\ DOMAIN s = 1 .. n
<1>1. s \in Seq(S) /\ Len(s) = n
  OBVIOUS
<1> QED BY <1>1, IsSequenceOf

LEMMA AskedSequence ==
  ASSUME IsSequence(translations), NEW n
  PROVE  /\ IsSequence(Asked(n)) /\ Len(Asked(n)) = Len(translations)
         /\ DOMAIN Asked(n) = DOMAIN translations
<1> DEFINE asked(i) == IF i <= n /\ translations[i].kind = "echo" /\ GivesWay(i)
                       THEN [translations[i] EXCEPT !.done = TRUE] ELSE translations[i]
           L == Len(translations)
<1>1. L \in Nat /\ DOMAIN translations = 1 .. L
  BY DEF IsSequence
<1>2. Asked(n) = [i \in 1 .. L |-> asked(i)]
  BY <1>1 DEF Asked
<1> HIDE DEF asked, L
<1>3. Asked(n) \in [1 .. L -> {asked(i) : i \in 1 .. L}]
  BY <1>2
<1> QED BY <1>1, <1>3, FunctionIsSequence DEF L

LEMMA RemovedSequence ==
  ASSUME NEW s, IsSequence(s), NEW k \in DOMAIN s
  PROVE  IsSequence(RemoveAt(s, k)) /\ Len(RemoveAt(s, k)) = Len(s) - 1
<1>1. PICK S : s \in Seq(S)
  BY SequenceOf
<1> QED BY <1>1, Removed, IsSequenceOf

LEMMA ChangedSequence ==
  ASSUME NEW s, IsSequence(s), NEW k, NEW x
  PROVE  IsSequence([s EXCEPT ![k] = x]) /\ Len([s EXCEPT ![k] = x]) = Len(s)
<1>1. Len(s) \in Nat /\ DOMAIN s = 1 .. Len(s)
  BY DEF IsSequence
<1> DEFINE n == Len(s)
           S == {s[i] : i \in 1 .. n} \cup {x}
           changed == [s EXCEPT ![k] = x]
<1>2. changed \in [1 .. n -> S]
  <2>1. s \in [1 .. n -> S]
    BY DEF IsSequence
  <2>2. x \in S
    OBVIOUS
  <2> HIDE DEF n, S
  <2> QED BY <2>1, <2>2
<1> HIDE DEF S, changed, n
<1>3. n \in Nat
  BY <1>1 DEF n
<1>4. IsSequence(changed) /\ Len(changed) = n
  BY <1>2, <1>3, FunctionIsSequence
<1> QED BY <1>4 DEF changed, n

-----------------------------------------------------------------------------
(* The invariant                                                            *)

LEMMA InitInv ==
  ASSUME Init PROVE IInv
<1>1. IsSequence(recipe) /\ translations = recipe /\ Len(recipe) \in Nat
  BY RecipeAssumption DEF Init, IsSequence
<1>2. /\ candidates = << >> /\ selected_index = 0 /\ page = NoPage /\ op = "none"
      /\ want = 0
  BY DEF Init
<1>3. candidates \in Seq([first : {}, others : {}])
  BY <1>2
<1>4. NoDuplicates
  BY <1>2 DEF NoDuplicates
<1> QED BY <1>1, <1>2, <1>3, <1>4 DEF IInv, TypeOK, Entries, Resting, HighlightIsShown

\* the generators only become fewer
LEMMA RecruitGenerators ==
  ASSUME IInv, Recruit
  PROVE  IsSequence(translations') /\ Len(translations') <= Len(translations)
<1>1. IsSequence(translations) /\ Len(translations) \in Nat
  BY DEF IInv, IsSequence
<1>2. PICK k, next :
        /\ k \in DOMAIN translations
        /\ \/ translations' = RemoveAt(Asked(k - 1), k)
           \/ translations' = [Asked(k - 1) EXCEPT ![k] = next]
  BY DEF Recruit, Winners
<1> DEFINE asked == Asked(k - 1)
<1>4. /\ IsSequence(asked) /\ Len(asked) = Len(translations)
      /\ k \in DOMAIN asked
  BY <1>1, <1>2, AskedSequence
<1> HIDE DEF asked
<1>5. CASE translations' = RemoveAt(asked, k)
  <2>1. IsSequence(RemoveAt(asked, k)) /\ Len(RemoveAt(asked, k)) = Len(asked) - 1
    BY <1>4, RemovedSequence
  <2> QED BY <1>1, <1>4, <1>5, <2>1
<1>6. CASE translations' = [asked EXCEPT ![k] = next]
  <2>1. /\ IsSequence([asked EXCEPT ![k] = next])
        /\ Len([asked EXCEPT ![k] = next]) = Len(asked)
    BY <1>4, ChangedSequence
  <2> QED BY <1>1, <1>4, <1>6, <2>1
<1> QED BY <1>2, <1>5, <1>6 DEF asked

\* the menu only grows, by texts that it has not
LEMMA RecruitCandidates ==
  ASSUME IInv, Recruit
  PROVE  /\ Entries(candidates') /\ NoDuplicates'
         /\ Len(candidates) \in Nat /\ Len(candidates') \in Nat
         /\ Len(candidates) <= Len(candidates')
         /\ candidates # << >> => candidates' # << >>
<1>1. Entries(candidates) /\ OneEach(candidates)
  BY DEF IInv, NoDuplicates, OneEach
<1>2. \A s : Entries(s) => Len(s) \in Nat /\ (s # << >> <=> Len(s) # 0)
  BY DEF Entries
<1>3. ASSUME UNCHANGED candidates
      PROVE  /\ Entries(candidates') /\ OneEach(candidates')
             /\ Len(candidates) <= Len(candidates')
  BY <1>1, <1>2, <1>3
<1>4. ASSUME NEW c, candidates' = Uniquifier(candidates, Simplifier(c))
      PROVE  /\ Entries(candidates') /\ OneEach(candidates')
             /\ Len(candidates) <= Len(candidates')
  <2>1. PICK recruited, cs, u :
          recruited = candidates /\ cs = Simplifier(c) /\ u = candidates'
    OBVIOUS
  <2>2. /\ Entries(recruited) /\ OneEach(recruited) /\ Different(cs)
        /\ u = Uniquifier(recruited, cs)
    BY <1>1, <1>4, <2>1, Simplified
  <2>3. Entries(u) /\ OneEach(u) /\ Len(recruited) <= Len(u)
    BY <2>2, Uniquified
  <2> QED BY <2>1, <2>3
<1>5. UNCHANGED candidates \/ \E c : candidates' = Uniquifier(candidates, Simplifier(c))
  BY DEF Recruit
<1>6. Entries(candidates') /\ OneEach(candidates') /\ Len(candidates) <= Len(candidates')
  BY <1>3, <1>4, <1>5
<1>7. NoDuplicates'
  BY <1>6 DEF NoDuplicates, OneEach
<1>8. /\ Len(candidates) \in Nat /\ (candidates # << >> <=> Len(candidates) # 0)
      /\ Len(candidates') \in Nat /\ (candidates' # << >> <=> Len(candidates') # 0)
  BY <1>1, <1>2, <1>6
<1> QED BY <1>6, <1>7, <1>8

LEMMA RecruitStep ==
  ASSUME IInv, Recruit PROVE IInv'
<1>1. UNCHANGED << recipe, selected_index, page, op, want >> /\ want > 0
  <2>1. Entries(candidates) /\ want \in Nat
    BY DEF IInv, TypeOK
  <2>2. Len(candidates) \in Nat
    BY RecruitCandidates
  <2> QED BY <2>1, <2>2 DEF Recruit, Preparing, offered
<1>2. page = NoPage
  BY <1>1 DEF IInv, Resting
<1>3. TypeOK' /\ IsSequence(translations') /\ IsSequence(recipe')
  <2>1. Len(translations') \in Nat /\ Len(translations) \in Nat /\ Len(recipe) \in Nat
    BY RecruitGenerators DEF IInv, IsSequence
  <2> QED BY <1>1, <1>2, <2>1, RecruitGenerators DEF IInv, TypeOK
<1>4. Resting'
  BY <1>1, <1>2, RecruitCandidates DEF IInv, Resting
<1>5. HighlightIsShown'
  <2>1. selected_index = 0 \/ candidates # << >>
    BY DEF IInv, Resting
  <2>2. candidates' # << >> => Len(candidates') > 0
    BY RecruitCandidates DEF Entries
  <2>3. selected_index \in Nat /\ (candidates # << >> => selected_index < Len(candidates))
    BY DEF IInv, TypeOK, HighlightIsShown
  <2>4. candidates' # << >> => selected_index < Len(candidates')
    BY <2>1, <2>2, <2>3, RecruitCandidates
  <2> QED BY <1>1, <1>2, <2>4 DEF HighlightIsShown
<1> QED BY <1>3, <1>4, <1>5, RecruitCandidates DEF IInv

LEMMA FailStep ==
  ASSUME IInv, FailToSelect PROVE IInv'
<1>1. /\ UNCHANGED << recipe, candidates, selected_index, page, op >> /\ want' = 0
      /\ translations' = Asked(Len(translations))
  BY DEF FailToSelect, offered
<1>2. IsSequence(translations') /\ Len(translations') = Len(translations)
  BY <1>1, AskedSequence DEF IInv
<1>3. TypeOK' /\ Resting' /\ HighlightIsShown'
  BY <1>1, <1>2 DEF IInv, TypeOK, Resting, HighlightIsShown
<1>4. NoDuplicates' /\ Entries(candidates') /\ IsSequence(recipe')
  BY <1>1 DEF IInv, NoDuplicates
<1> QED BY <1>2, <1>3, <1>4 DEF IInv

\* The highlight may go to any candidate, and stays at 0 while there is none.
LEMMA MoveStep ==
  ASSUME IInv, NEW index \in Nat, Move(index),
         candidates = << >> => index = 0,
         candidates # << >> => index < Len(candidates)
  PROVE  IInv'
<1>1. /\ UNCHANGED << recipe, translations, candidates >>
      /\ selected_index' = index /\ page' = NoPage /\ op' = "none" /\ want' = 0
  BY DEF Move, offered
<1>2. TypeOK' /\ Resting' /\ HighlightIsShown'
  BY <1>1 DEF IInv, TypeOK, Resting, HighlightIsShown
<1>3. NoDuplicates' /\ Entries(candidates') /\ IsSequence(recipe') /\ IsSequence(translations')
  BY <1>1 DEF IInv, NoDuplicates
<1> QED BY <1>2, <1>3 DEF IInv

LEMMA RequestStep ==
  ASSUME IInv, NEW n \in Nat,
         NEW name \in {"PageDown", "CursorDown", "Select", "GetContext"},
         Request(name, n)
  PROVE  IInv'
<1>1. /\ UNCHANGED << recipe, translations, candidates, selected_index >>
      /\ page' = NoPage /\ op' = name /\ want' = n
  BY DEF Request, offered
<1>2. TypeOK' /\ Resting' /\ HighlightIsShown'
  BY <1>1 DEF IInv, TypeOK, Resting, HighlightIsShown
<1>3. NoDuplicates' /\ Entries(candidates') /\ IsSequence(recipe') /\ IsSequence(translations')
  BY <1>1 DEF IInv, NoDuplicates
<1> QED BY <1>2, <1>3 DEF IInv

\* The page that is shown is the one of the highlight.
LEMMA PageStep ==
  ASSUME IInv, CreatePage PROVE IInv'
<1>1. /\ UNCHANGED << recipe, translations, candidates, selected_index >>
      /\ op' = "none" /\ want' = 0
  BY DEF CreatePage, offered
<1>2. Len(candidates) \in Nat /\ (candidates = << >> <=> Len(candidates) = 0)
  BY DEF IInv, Entries
<1>3. /\ selected_index \in Nat /\ PageStart \in Nat /\ selected_index \div page_size \in Nat
      /\ PageStart <= selected_index /\ selected_index < PageStart + page_size
      /\ PageStart = page_size * (selected_index \div page_size)
  <2>1. selected_index \in Nat
    BY DEF IInv, TypeOK
  <2> QED BY <2>1, PageSize, Division DEF PageStart
<1> DEFINE size == Len(candidates)
           end == IF PageStart + page_size < size THEN PageStart + page_size ELSE size
<1>4. ASSUME page' # NoPage
      PROVE  /\ PageStart < size /\ page'.size = end - PageStart
             /\ page'.no = selected_index \div page_size
  <2>1. page' = IF PageStart >= size THEN NoPage
                ELSE [no |-> selected_index \div page_size, size |-> end - PageStart,
                      last |-> translations = << >> /\ end = size]
    BY DEF CreatePage
  <2>2. ~ (PageStart >= size)
    BY <1>4, <2>1
  <2> HIDE DEF end
  <2> QED BY <1>2, <1>3, <2>1, <2>2
<1>5. ASSUME page' # NoPage
      PROVE  /\ page'.no \in Nat /\ page'.size \in 1 .. page_size
             /\ selected_index - page_size * page'.no \in 0 .. page'.size - 1
  <2>1. selected_index < size
    BY <1>2, <1>3, <1>4, <1>5 DEF IInv, HighlightIsShown
  <2>2. /\ page'.size = end - PageStart /\ page'.no = selected_index \div page_size
        /\ PageStart < size
    BY <1>4, <1>5
  <2>3. /\ end \in Nat /\ PageStart < end /\ end <= PageStart + page_size
        /\ selected_index < end
    BY <1>2, <1>3, <2>1, <2>2, PageSize
  <2>4. page_size * page'.no = PageStart
    BY <1>3, <2>2
  <2> HIDE DEF end
  <2> QED BY <1>3, <2>2, <2>3, <2>4, PageSize
<1>6. TypeOK' /\ Resting'
  BY <1>1, <1>5 DEF IInv, TypeOK, Resting
<1>7. HighlightIsShown'
  BY <1>1, <1>5 DEF IInv, HighlightIsShown
<1>8. NoDuplicates' /\ Entries(candidates') /\ IsSequence(recipe') /\ IsSequence(translations')
  BY <1>1 DEF IInv, NoDuplicates
<1> QED BY <1>6, <1>7, <1>8 DEF IInv

LEMMA StepInv ==
  ASSUME IInv, [Next]_vars PROVE IInv'
<1>1. /\ Len(candidates) \in Nat /\ (candidates = << >> <=> Len(candidates) = 0)
      /\ selected_index \in Nat /\ want \in Nat /\ page_size \in Nat \ {0}
      /\ candidates = << >> => selected_index = 0
  BY PageSize DEF IInv, Entries, TypeOK, Resting
<1>2. candidates # << >> => selected_index < Len(candidates)
  BY DEF IInv, HighlightIsShown
<1>3. PageStart \in Nat /\ NextPage \in Nat
  <2>1. selected_index + page_size \in Nat
    BY <1>1
  <2> QED BY <1>1, <2>1, Division DEF PageStart, NextPage
<1>4. CASE PageUp
  <2> DEFINE index == IF selected_index < page_size THEN 0 ELSE selected_index - page_size
  <2>1. index \in Nat /\ index <= selected_index /\ Move(index)
    BY <1>1, <1>4 DEF PageUp
  <2> HIDE DEF index
  <2>2. candidates = << >> => index = 0
    BY <1>1, <2>1
  <2>3. candidates # << >> => index < Len(candidates)
    BY <1>1, <1>2, <2>1
  <2> QED BY <2>1, <2>2, <2>3, MoveStep
<1>5. CASE CursorUp
  <2>1. /\ selected_index - 1 \in Nat /\ Move(selected_index - 1) /\ candidates # << >>
        /\ selected_index - 1 < Len(candidates)
    BY <1>1, <1>2, <1>5 DEF CursorUp
  <2> QED BY <2>1, MoveStep
<1>6. CASE Home
  <2>1. Move(0) /\ (candidates # << >> => 0 < Len(candidates))
    BY <1>1, <1>6 DEF Home
  <2> QED BY <2>1, MoveStep
<1>7. CASE PageDown
  <2>1. NextPage + page_size \in Nat /\ Request("PageDown", NextPage + page_size)
    BY <1>1, <1>3, <1>7 DEF PageDown
  <2> QED BY <2>1, RequestStep
<1>8. CASE CursorDown
  <2>1. selected_index + 2 \in Nat /\ Request("CursorDown", selected_index + 2)
    BY <1>1, <1>8 DEF CursorDown
  <2> QED BY <2>1, RequestStep
<1>9. CASE GetContext
  <2>1. PageStart + page_size \in Nat /\ Request("GetContext", PageStart + page_size)
    BY <1>1, <1>3, <1>9 DEF GetContext
  <2> QED BY <2>1, RequestStep
<1>10. ASSUME NEW i \in 0 .. page_size - 1, SelectCandidateAt(i) PROVE IInv'
  <2>1. PageStart + i + 1 \in Nat /\ Request("Select", PageStart + i + 1)
    BY <1>1, <1>3, <1>10 DEF SelectCandidateAt, PageStart
  <2> QED BY <2>1, RequestStep
<1>11. CASE TurnPage
  <2> DEFINE index == IF Len(candidates) <= NextPage THEN selected_index
                      ELSE IF selected_index + page_size >= Len(candidates)
                           THEN Len(candidates) - 1 ELSE selected_index + page_size
  <2>1. Move(index)
    BY <1>11 DEF TurnPage
  <2>2. index \in Nat /\ (candidates = << >> => index = 0)
    BY <1>1, <1>3
  <2>3. candidates # << >> => index < Len(candidates)
    BY <1>1, <1>2, <1>3
  <2> HIDE DEF index
  <2> QED BY <2>1, <2>2, <2>3, MoveStep
<1>12. CASE MoveDown
  <2> DEFINE index == IF Len(candidates) <= selected_index + 1 THEN selected_index
                      ELSE selected_index + 1
  <2>1. Move(index)
    BY <1>12 DEF MoveDown
  <2>2. index \in Nat /\ (candidates = << >> => index = 0)
    BY <1>1
  <2>3. candidates # << >> => index < Len(candidates)
    BY <1>1, <1>2
  <2> HIDE DEF index
  <2> QED BY <2>1, <2>2, <2>3, MoveStep
<1>13. CASE SelectPrepared
  <2> DEFINE index == IF want \in 1 .. Len(candidates) THEN want - 1 ELSE selected_index
  <2>1. Move(index)
    BY <1>13 DEF SelectPrepared
  <2>2. index \in Nat /\ (candidates = << >> => index = 0)
    BY <1>1
  <2>3. candidates # << >> => index < Len(candidates)
    BY <1>1, <1>2
  <2> HIDE DEF index
  <2> QED BY <2>1, <2>2, <2>3, MoveStep
<1>14. CASE UNCHANGED vars
  <2>1. TypeOK' /\ Resting' /\ HighlightIsShown'
    BY <1>14 DEF IInv, TypeOK, Resting, HighlightIsShown, vars, offered
  <2>2. NoDuplicates' /\ Entries(candidates') /\ IsSequence(recipe') /\ IsSequence(translations')
    BY <1>14 DEF IInv, NoDuplicates, vars, offered
  <2> QED BY <2>1, <2>2 DEF IInv
<1> QED
  BY <1>4, <1>5, <1>6, <1>7, <1>8, <1>9, <1>10, <1>11, <1>12, <1>13, <1>14,
     RecruitStep, FailStep, PageStep
     DEF Next, Answer

LEMMA Always == Spec => []IInv
<1>1. Init => IInv
  BY InitInv
<1>2. IInv /\ [Next]_vars => IInv'
  BY StepInv
<1> QED BY <1>1, <1>2, PTL DEF Spec

-----------------------------------------------------------------------------
(* What a charset filter passes over                                        *)

Settled(u) == ~ u.filtered \/ u.done \/ Passed(Peek(u).text)
\* One step of a charset filter
PassOver(u) == IF Settled(u) THEN u ELSE Step(u)
\* The filter's steps from t
Passing(t, run) == run[0] = t /\ \A n \in Nat \ {0} : run[n] = PassOver(run[n - 1])

\* The recursive function of a charset filter has a value.
LEMMA Runs ==
  ASSUME NEW t
  PROVE  \E run : run = [n \in Nat |-> IF n = 0 THEN t ELSE PassOver(run[n - 1])]
<1> DEFINE Rec(f, m) == /\ f[0] = t
                        /\ \A k \in 1 .. m : f[k] = PassOver(f[k - 1])
           none == {m \in Nat : ~ \E f : Rec(f, m)}
           at(m) == CHOOSE f : Rec(f, m)
           run == [n \in Nat |-> at(n)[n]]
<1>1. ASSUME none # {} PROVE FALSE
  <2>1. PICK m \in none : \A k \in none : m <= k
    <3>1. none \subseteq Nat
      OBVIOUS
    <3> HIDE DEF none
    <3> QED BY <1>1, <3>1, Least
  <2>2. m \in Nat /\ ~ \E f : Rec(f, m)
    BY <2>1
  <2>3. CASE m = 0
    <3> DEFINE f == [k \in 0 .. 0 |-> t]
    <3>1. f[0] = t
      OBVIOUS
    <3>2. Rec(f, m)
      <4> HIDE DEF f
      <4> QED BY <2>3, <3>1
    <3> QED BY <2>2, <3>2
  <2>4. CASE m # 0
    <3>1. m - 1 \in Nat /\ m - 1 \notin none
      BY <2>1, <2>2, <2>4
    <3>2. PICK f : Rec(f, m - 1)
      <4> HIDE DEF Rec
      <4> QED BY <3>1
    <3> DEFINE g == [k \in 0 .. m |-> IF k = m THEN PassOver(f[m - 1]) ELSE f[k]]
    <3>3. g[0] = t
      BY <2>2, <2>4, <3>2
    <3>4. ASSUME NEW k \in 1 .. m PROVE g[k] = PassOver(g[k - 1])
      <4>1. k \in 0 .. m /\ k - 1 \in 0 .. m /\ k - 1 # m
        BY <2>2
      <4>2. g[k - 1] = f[k - 1]
        BY <4>1
      <4>3. CASE k = m
        BY <4>1, <4>2, <4>3
      <4>4. CASE k # m
        <5>1. k \in 1 .. m - 1
          BY <2>2, <4>4
        <5>2. f[k] = PassOver(f[k - 1])
          BY <3>2, <5>1
        <5> QED BY <4>1, <4>2, <4>4, <5>2
      <4> QED BY <4>3, <4>4
    <3>5. Rec(g, m)
      <4> HIDE DEF g
      <4> QED BY <3>3, <3>4
    <3> HIDE DEF Rec
    <3> QED BY <2>2, <3>5
  <2> QED BY <2>3, <2>4
<1>2. \A m \in Nat : Rec(at(m), m)
  <2> HIDE DEF Rec
  <2>1. \A m \in Nat : \E f : Rec(f, m)
    BY <1>1
  <2> QED BY <2>1
<1> HIDE DEF at
<1>3. ASSUME NEW m \in Nat \ {0} PROVE at(m)[m - 1] = at(m - 1)[m - 1]
  <2> DEFINE f == at(m)
             g == at(m - 1)
             apart == {k \in 0 .. m - 1 : f[k] # g[k]}
  <2>1. Rec(f, m) /\ Rec(g, m - 1)
    <3> HIDE DEF Rec
    <3>1. m \in Nat /\ m - 1 \in Nat
      OBVIOUS
    <3> QED BY <1>2, <3>1
  <2> HIDE DEF f, g
  <2>2. ASSUME apart # {} PROVE FALSE
    <3>1. PICK k \in apart : \A l \in apart : k <= l
      <4>1. apart \subseteq Nat
        OBVIOUS
      <4> HIDE DEF apart
      <4> QED BY <2>2, <4>1, Least
    <3>2. k \in 0 .. m - 1 /\ f[k] # g[k]
      BY <3>1
    <3>3. k # 0
      BY <2>1, <3>2
    <3>4. k - 1 \in 0 .. m - 1 /\ k - 1 \notin apart /\ k \in 1 .. m /\ k \in 1 .. m - 1
      BY <3>1, <3>2, <3>3
    <3>5. f[k - 1] = g[k - 1]
      BY <3>4
    <3>6. f[k] = PassOver(f[k - 1]) /\ g[k] = PassOver(g[k - 1])
      BY <2>1, <3>4
    <3> QED BY <3>2, <3>5, <3>6
  <2>3. m - 1 \in 0 .. m - 1
    OBVIOUS
  <2>4. f[m - 1] = g[m - 1]
    BY <2>2, <2>3
  <2> QED BY <2>4 DEF f, g
<1>4. ASSUME NEW n \in Nat
      PROVE  run[n] = IF n = 0 THEN t ELSE PassOver(run[n - 1])
  <2>1. CASE n = 0
    BY <1>2, <2>1
  <2>2. CASE n # 0
    <3>1. n - 1 \in Nat /\ n \in 1 .. n /\ n \in Nat \ {0}
      BY <2>2
    <3>2. at(n)[n] = PassOver(at(n)[n - 1])
      BY <1>2, <3>1
    <3>3. run[n] = at(n)[n] /\ run[n - 1] = at(n - 1)[n - 1]
      BY <3>1
    <3> HIDE DEF run
    <3> QED BY <1>3, <2>2, <3>1, <3>2, <3>3
  <2> QED BY <2>1, <2>2
<1>5. run = [n \in Nat |-> IF n = 0 THEN t ELSE PassOver(run[n - 1])]
  <2>1. run = [n \in Nat |-> run[n]]
    OBVIOUS
  <2> HIDE DEF run
  <2> QED BY <1>4, <2>1
<1> QED BY <1>5

LEMMA Locating ==
  ASSUME NEW t
  PROVE  \E run :
           /\ Passing(t, run)
           /\ LocateNextCandidate(t) =
                run[IF t.kind = "lazy" THEN EntryCount(t.keys) ELSE Len(t.items)]
<1> DEFINE settled(u) == ~ u.filtered \/ u.done \/ Passed(Peek(u).text)
           chosen(x) == CHOOSE u \in {IF settled(v) THEN v ELSE Step(v) : v \in {x}} : TRUE
           after == CHOOSE f : f = [n \in Nat |-> IF n = 0 THEN t ELSE chosen(f[n - 1])]
           last == IF t.kind = "lazy" THEN EntryCount(t.keys) ELSE Len(t.items)
<1>1. \A x : chosen(x) = PassOver(x)
  <2>1. ASSUME NEW x PROVE chosen(x) = PassOver(x)
    <3> DEFINE y == IF settled(x) THEN x ELSE Step(x)
    <3>1. {IF settled(v) THEN v ELSE Step(v) : v \in {x}} = {y}
      <4> HIDE DEF settled
      <4> QED OBVIOUS
    <3>2. chosen(x) = CHOOSE u \in {y} : TRUE
      <4> HIDE DEF y, settled
      <4> QED BY <3>1
    <3>3. y = PassOver(x)
      BY DEF PassOver, Settled
    <3> HIDE DEF y, chosen
    <3> QED BY <3>2, <3>3
  <2> QED BY <2>1
<1>2. LocateNextCandidate(t) = after[last]
  BY DEF LocateNextCandidate
<1> HIDE DEF chosen, last
<1>3. \E f : f = [n \in Nat |-> IF n = 0 THEN t ELSE chosen(f[n - 1])]
  <2>1. PICK run : run = [n \in Nat |-> IF n = 0 THEN t ELSE PassOver(run[n - 1])]
    BY Runs
  <2>2. [n \in Nat |-> IF n = 0 THEN t ELSE PassOver(run[n - 1])]
          = [n \in Nat |-> IF n = 0 THEN t ELSE chosen(run[n - 1])]
    BY <1>1
  <2> QED BY <2>1, <2>2
<1>4. after = [n \in Nat |-> IF n = 0 THEN t ELSE chosen(after[n - 1])]
  BY <1>3
<1> HIDE DEF after
<1>5. Passing(t, after)
  <2>1. after[0] = t
    BY <1>4
  <2>2. ASSUME NEW n \in Nat \ {0} PROVE after[n] = PassOver(after[n - 1])
    BY <1>1, <1>4
  <2> QED BY <2>1, <2>2 DEF Passing
<1> QED BY <1>2, <1>5 DEF last

-----------------------------------------------------------------------------
(* What is left of a generator                                              *)

\* The longest first, and the input only in an echo,
HasForm(t) ==
  /\ {"kind", "filtered", "done"} \subseteq DOMAIN t
  /\ IF t.kind = "lazy"
     THEN /\ {"keys", "end"} \subseteq DOMAIN t /\ t.end \in Nat
          /\ IsSequence(t.keys)
          /\ \A k \in DOMAIN t.keys : IsSequence(t.keys[k].entries)
     ELSE /\ "items" \in DOMAIN t /\ IsSequence(t.items) /\ (~ t.done => t.items # << >>)
          /\ Descending(t.items)
          /\ t.kind # "echo" => \A j \in DOMAIN t.items : t.items[j].type # "raw"
\* and nothing that is longer than this.
EndsBy(t, end) ==
  IF t.kind = "lazy" THEN t.end <= end ELSE \A i \in DOMAIN t.items : t.items[i].end <= end
\* A generator that has gone on
GoneOn(t, u) ==
  /\ HasForm(u) /\ u.kind = t.kind /\ u.filtered = t.filtered
  /\ \A end : EndsBy(t, end) => EndsBy(u, end)

LEMMA FieldChanged ==
  ASSUME NEW r, NEW f, NEW x, NEW u, u = [r EXCEPT ![f] = x]
  PROVE  /\ DOMAIN u = DOMAIN r
         /\ \A g \in DOMAIN r : u[g] = IF g = f THEN x ELSE r[g]
  OBVIOUS

LEMMA EmptySequence == IsSequence(<< >>) /\ Len(<< >>) = 0
<1>1. << >> \in Seq({}) /\ Len(<< >>) = 0
  OBVIOUS
<1> QED BY <1>1, IsSequenceOf

\* What is left of a list of which the first m items were passed
LEMMA RestOf ==
  ASSUME NEW s, IsSequence(s), s # << >>
  PROVE  /\ Len(s) \in Nat \ {0} /\ DOMAIN s = 1 .. Len(s)
         /\ IsSequence(Tail(s)) /\ Len(Tail(s)) = Len(s) - 1
         /\ DOMAIN Tail(s) = 1 .. Len(s) - 1
         /\ \A i \in 1 .. Len(s) - 1 : Tail(s)[i] = s[i + 1]
         /\ \A m \in 1 .. Len(s) :
              /\ IsSequence(SubSeq(s, m, Len(s))) /\ Len(SubSeq(s, m, Len(s))) = Len(s) - m + 1
              /\ DOMAIN SubSeq(s, m, Len(s)) = 1 .. Len(s) - m + 1
              /\ \A i \in 1 .. Len(s) - m + 1 : SubSeq(s, m, Len(s))[i] = s[m + i - 1]
<1>1. PICK S : s \in Seq(S)
  BY SequenceOf
<1>2. Len(s) \in Nat \ {0} /\ DOMAIN s = 1 .. Len(s)
  BY <1>1
<1>3. /\ Tail(s) \in Seq(S) /\ Len(Tail(s)) = Len(s) - 1
      /\ \A i \in 1 .. Len(s) - 1 : Tail(s)[i] = s[i + 1]
  BY <1>1
<1>4. IsSequence(Tail(s)) /\ DOMAIN Tail(s) = 1 .. Len(s) - 1
  <2>1. DOMAIN Tail(s) = 1 .. Len(Tail(s))
    BY <1>3
  <2>2. IsSequence(Tail(s))
    BY <1>3, IsSequenceOf
  <2> QED BY <1>3, <2>1, <2>2
<1>5. ASSUME NEW m \in 1 .. Len(s)
      PROVE  /\ IsSequence(SubSeq(s, m, Len(s))) /\ Len(SubSeq(s, m, Len(s))) = Len(s) - m + 1
             /\ DOMAIN SubSeq(s, m, Len(s)) = 1 .. Len(s) - m + 1
             /\ \A i \in 1 .. Len(s) - m + 1 : SubSeq(s, m, Len(s))[i] = s[m + i - 1]
  <2>1. SubSeq(s, m, Len(s)) \in Seq(S)
    BY <1>1, <1>2
  <2>2. Len(SubSeq(s, m, Len(s))) = Len(s) - m + 1
    BY <1>1, <1>2
  <2>3. \A i \in 1 .. Len(s) - m + 1 : SubSeq(s, m, Len(s))[i] = s[m + i - 1]
    BY <1>1, <1>2
  <2>4. DOMAIN SubSeq(s, m, Len(s)) = 1 .. Len(s) - m + 1
    BY <2>1, <2>2
  <2>5. IsSequence(SubSeq(s, m, Len(s)))
    BY <2>1, IsSequenceOf
  <2> QED BY <2>2, <2>3, <2>4, <2>5
<1> QED BY <1>2, <1>3, <1>4, <1>5

LEMMA RestGoesOn ==
  ASSUME NEW t, HasForm(t), t.kind # "lazy",
         NEW u, DOMAIN u = DOMAIN t, u.kind = t.kind, u.filtered = t.filtered,
         IsSequence(u.items), ~ u.done => u.items # << >>,
         NEW m \in Nat, Len(u.items) + m <= Len(t.items),
         \A i \in 1 .. Len(u.items) : u.items[i] = t.items[i + m]
  PROVE  GoneOn(t, u)
<1>1. /\ {"kind", "filtered", "done", "items"} \subseteq DOMAIN u
      /\ Descending(t.items) /\ IsSequence(t.items)
      /\ t.kind # "echo" => \A j \in DOMAIN t.items : t.items[j].type # "raw"
  BY DEF HasForm
<1>2. /\ Len(u.items) \in Nat /\ DOMAIN u.items = 1 .. Len(u.items)
      /\ Len(t.items) \in Nat /\ DOMAIN t.items = 1 .. Len(t.items)
  BY <1>1 DEF IsSequence
<1>3. \A i \in DOMAIN u.items : i + m \in DOMAIN t.items /\ u.items[i] = t.items[i + m]
  BY <1>2
<1>4. Descending(u.items)
  <2>1. ASSUME NEW i \in DOMAIN u.items, NEW j \in DOMAIN u.items
        PROVE  u.items[i].end \in Nat /\ (i < j => u.items[i].end >= u.items[j].end)
    <3>1. /\ i + m \in DOMAIN t.items /\ u.items[i] = t.items[i + m]
          /\ j + m \in DOMAIN t.items /\ u.items[j] = t.items[j + m]
      BY <1>3
    <3>2. i < j => i + m < j + m
      BY <1>2
    <3> QED BY <1>1, <3>1, <3>2 DEF Descending
  <2> QED BY <2>1 DEF Descending
<1>5. \A end : EndsBy(t, end) => EndsBy(u, end)
  BY <1>3 DEF EndsBy
<1>6. HasForm(u)
  BY <1>1, <1>3, <1>4 DEF HasForm
<1> QED BY <1>5, <1>6 DEF GoneOn

LEMMA LazyGoesOn ==
  ASSUME NEW t, HasForm(t), t.kind = "lazy" PROVE GoneOn(t, NextLazy(t))
<1> DEFINE Kept5(u) == /\ DOMAIN u = DOMAIN t /\ u.kind = t.kind /\ u.filtered = t.filtered
                       /\ u.keys = t.keys /\ u.end = t.end
           fields == {"kind", "filtered", "keys", "end"}
<1>1. fields \subseteq DOMAIN t
  BY DEF HasForm
<1>2. ASSUME NEW r, Kept5(r), NEW f, f \notin fields, NEW x
      PROVE  Kept5([r EXCEPT ![f] = x])
  <2> DEFINE u == [r EXCEPT ![f] = x]
  <2>1. DOMAIN u = DOMAIN r /\ \A g \in DOMAIN r : u[g] = IF g = f THEN x ELSE r[g]
    BY FieldChanged
  <2> HIDE DEF u
  <2>2. \A g \in fields : u[g] = r[g]
    BY <1>1, <1>2, <2>1
  <2>3. u.kind = r.kind /\ u.filtered = r.filtered /\ u.keys = r.keys /\ u.end = r.end
    BY <2>2
  <2>4. Kept5(u)
    BY <1>2, <2>1, <2>3
  <2> QED BY <2>4 DEF u
<1> HIDE DEF fields
<1>3. "iter" \notin fields /\ "limit" \notin fields /\ "count" \notin fields /\ "done" \notin fields
  BY DEF fields
<1>4. Kept5(t)
  OBVIOUS
<1> HIDE DEF Kept5
<1>5. Kept5(FetchMore(t))
  <2>1. PICK x, y, z, d : FetchMore(t)
          = [[[[t EXCEPT !.limit = x] EXCEPT !.count = y] EXCEPT !.iter = z] EXCEPT !.done = d]
    BY DEF FetchMore
  <2>2. Kept5([t EXCEPT !.limit = x])
    BY <1>2, <1>3, <1>4
  <2>3. Kept5([[t EXCEPT !.limit = x] EXCEPT !.count = y])
    BY <1>2, <1>3, <2>2
  <2>4. Kept5([[[t EXCEPT !.limit = x] EXCEPT !.count = y] EXCEPT !.iter = z])
    BY <1>2, <1>3, <2>3
  <2>5. Kept5([[[[t EXCEPT !.limit = x] EXCEPT !.count = y] EXCEPT !.iter = z] EXCEPT !.done = d])
    BY <1>2, <1>3, <2>4
  <2> QED BY <2>1, <2>5
<1>6. ASSUME NEW y, NEW d, NextLazy(t) = [[t EXCEPT !.iter = y] EXCEPT !.done = d]
      PROVE  Kept5(NextLazy(t))
  <2>1. Kept5([t EXCEPT !.iter = y])
    BY <1>2, <1>3, <1>4
  <2>2. Kept5([[t EXCEPT !.iter = y] EXCEPT !.done = d])
    BY <1>2, <1>3, <2>1
  <2> QED BY <1>6, <2>2
<1>7. \/ NextLazy(t) = FetchMore(t)
      \/ \E y, d : NextLazy(t) = [[t EXCEPT !.iter = y] EXCEPT !.done = d]
  BY DEF NextLazy
<1>8. ASSUME NextLazy(t) # FetchMore(t) PROVE Kept5(NextLazy(t))
  <2>1. PICK y, d : NextLazy(t) = [[t EXCEPT !.iter = y] EXCEPT !.done = d]
    BY <1>7, <1>8
  <2> QED BY <1>6, <2>1
<1>9. Kept5(NextLazy(t))
  BY <1>5, <1>8
<1> QED BY <1>9 DEF Kept5, GoneOn, HasForm, EndsBy

LEMMA R10nGoesOn ==
  ASSUME NEW t, HasForm(t), t.kind = "r10n", ~ t.done PROVE GoneOn(t, NextR10n(t))
<1> DEFINE seen == t.seen \cup {t.items[1].text}
           new == {i \in 2 .. Len(t.items) : t.items[1].type = "sentence"
                                                \/ t.items[i].text \notin seen}
           rest == IF new = {} THEN << >> ELSE SubSeq(t.items, Min(new), Len(t.items))
           a == [t EXCEPT !.seen = seen]
           b == [a EXCEPT !.items = rest]
           c == [b EXCEPT !.done = rest = << >>]
<1>1. NextR10n(t) = c
  BY DEF NextR10n
<1>2. /\ {"kind", "filtered", "done", "items"} \subseteq DOMAIN t
      /\ IsSequence(t.items) /\ t.items # << >>
  BY DEF HasForm
<1>3. Len(t.items) \in Nat \ {0}
  BY <1>2, RestOf
<1>4. PICK m \in Nat : /\ IsSequence(rest) /\ Len(rest) + m <= Len(t.items)
                       /\ \A i \in 1 .. Len(rest) : rest[i] = t.items[i + m]
  <2>1. CASE new = {}
    <3>1. rest = << >>
      BY <2>1
    <3> HIDE DEF rest
    <3>2. IsSequence(rest) /\ Len(rest) = 0
      BY <3>1, EmptySequence
    <3>3. Len(rest) + 0 <= Len(t.items)
      BY <1>3, <3>2
    <3>4. \A i \in 1 .. Len(rest) : rest[i] = t.items[i + 0]
      BY <3>2
    <3> QED BY <3>2, <3>3, <3>4
  <2>2. CASE new # {}
    <3> DEFINE n == Min(new)
    <3>1. PICK l \in new : \A k \in new : l <= k
      <4>1. new \subseteq Nat
        BY <1>3
      <4> HIDE DEF new
      <4> QED BY <2>2, <4>1, Least
    <3>2. n \in new
      <4> HIDE DEF new
      <4> QED BY <3>1 DEF Min
    <3>3. n \in 2 .. Len(t.items)
      <4> HIDE DEF n
      <4> QED BY <3>2
    <3>4. rest = SubSeq(t.items, n, Len(t.items))
      BY <2>2
    <3> HIDE DEF rest, n, new
    <3>5. n \in 1 .. Len(t.items) /\ n - 1 \in Nat
      BY <1>3, <3>3
    <3>6. /\ IsSequence(rest) /\ Len(rest) = Len(t.items) - n + 1
          /\ \A i \in 1 .. Len(t.items) - n + 1 : rest[i] = t.items[n + i - 1]
      BY <1>2, <3>4, <3>5, RestOf
    <3>7. \A i \in 1 .. Len(rest) : rest[i] = t.items[i + (n - 1)]
      <4>1. \A i \in 1 .. Len(rest) : n + i - 1 = i + (n - 1)
        BY <1>3, <3>3, <3>6
      <4> QED BY <3>6, <4>1
    <3>8. Len(rest) + (n - 1) <= Len(t.items)
      BY <1>3, <3>3, <3>6
    <3> QED BY <3>5, <3>6, <3>7, <3>8
  <2> QED BY <2>1, <2>2
<1> HIDE DEF rest, seen, new
<1>5. DOMAIN a = DOMAIN t /\ \A g \in DOMAIN t : a[g] = IF g = "seen" THEN seen ELSE t[g]
  BY FieldChanged
<1> HIDE DEF a
<1>6. DOMAIN b = DOMAIN a /\ \A g \in DOMAIN a : b[g] = IF g = "items" THEN rest ELSE a[g]
  BY FieldChanged
<1> HIDE DEF b
<1>7. DOMAIN c = DOMAIN b /\ \A g \in DOMAIN b : c[g] = IF g = "done" THEN rest = << >> ELSE b[g]
  BY FieldChanged
<1> HIDE DEF c
<1>8. /\ DOMAIN c = DOMAIN t /\ c.kind = t.kind /\ c.filtered = t.filtered
      /\ c.items = rest /\ c.done = (rest = << >>)
  BY <1>2, <1>5, <1>6, <1>7
<1>9. GoneOn(t, c)
  <2>1. ~ c.done => c.items # << >>
    BY <1>8, Zenon
  <2>2. /\ DOMAIN c = DOMAIN t /\ c.kind = t.kind /\ c.filtered = t.filtered
        /\ IsSequence(c.items) /\ Len(c.items) + m <= Len(t.items)
        /\ \A i \in 1 .. Len(c.items) : c.items[i] = t.items[i + m]
    BY <1>4, <1>8
  <2>3. t.kind # "lazy"
    OBVIOUS
  <2> QED BY <2>1, <2>2, <2>3, RestGoesOn
<1> QED BY <1>1, <1>9

LEMMA ListGoesOn ==
  ASSUME NEW t, HasForm(t), t.kind \notin {"lazy", "r10n"}, ~ t.done
  PROVE  GoneOn(t, Step(t)) /\ (Len(t.items) = 1 => Step(t).done)
<1> DEFINE a == [t EXCEPT !.items = Tail(t.items)]
           c == [a EXCEPT !.done = Len(t.items) = 1]
<1>1. Step(t) = c
  BY DEF Step
<1>2. /\ {"kind", "filtered", "done", "items"} \subseteq DOMAIN t
      /\ IsSequence(t.items) /\ t.items # << >>
  BY DEF HasForm
<1>3. DOMAIN a = DOMAIN t /\ \A g \in DOMAIN t : a[g] = IF g = "items" THEN Tail(t.items) ELSE t[g]
  BY FieldChanged
<1> HIDE DEF a
<1>4. DOMAIN c = DOMAIN a /\ \A g \in DOMAIN a : c[g] = IF g = "done" THEN Len(t.items) = 1 ELSE a[g]
  BY FieldChanged
<1> HIDE DEF c
<1>5. /\ DOMAIN c = DOMAIN t /\ c.kind = t.kind /\ c.filtered = t.filtered
      /\ c.items = Tail(t.items) /\ c.done = (Len(t.items) = 1)
  BY <1>2, <1>3, <1>4
<1>6. /\ Len(t.items) \in Nat \ {0} /\ IsSequence(c.items) /\ Len(c.items) = Len(t.items) - 1
      /\ \A i \in 1 .. Len(c.items) : c.items[i] = t.items[i + 1]
  BY <1>2, <1>5, RestOf
<1>7. c.items = << >> => Len(c.items) = 0
  OBVIOUS
<1>8. GoneOn(t, c)
  <2>1. 1 \in Nat /\ Len(c.items) + 1 <= Len(t.items)
    BY <1>6
  <2>2. ASSUME ~ c.done PROVE c.items # << >>
    <3>1. Len(t.items) # 1
      BY <1>5, <2>2, Zenon
    <3> QED BY <1>6, <1>7, <3>1
  <2>3. /\ DOMAIN c = DOMAIN t /\ c.kind = t.kind /\ c.filtered = t.filtered
        /\ t.kind # "lazy"
    BY <1>5
  <2>4. \A i \in 1 .. Len(c.items) : c.items[i] = t.items[i + 1]
    BY <1>6
  <2> QED BY <1>6, <2>1, <2>2, <2>3, <2>4, RestGoesOn
<1> QED BY <1>1, <1>5, <1>8

LEMMA StepGoesOn ==
  ASSUME NEW t, HasForm(t), ~ t.done PROVE GoneOn(t, Step(t))
<1>1. CASE t.kind = "lazy"
  BY <1>1, LazyGoesOn DEF Step
<1>2. CASE t.kind = "r10n"
  BY <1>2, R10nGoesOn DEF Step
<1> QED BY <1>1, <1>2, ListGoesOn

\* The words of a chunk, as a set of pairs
Cells(chunks, n) == UNION {{k} \X DOMAIN chunks[k].entries : k \in 1 .. n}

LEMMA CellsFinite ==
  ASSUME NEW chunks, IsSequence(chunks),
         \A k \in DOMAIN chunks : IsSequence(chunks[k].entries), NEW n \in 0 .. Len(chunks)
  PROVE  IsFiniteSet(Cells(chunks, n)) /\ Cardinality(Cells(chunks, n)) \in Nat
<1> DEFINE part(k) == {k} \X DOMAIN chunks[k].entries
           S == 1 .. n
           T == {part(k) : k \in S}
           f == [k \in S |-> part(k)]
<1>1. /\ n \in Nat /\ IsFiniteSet(S) /\ S \subseteq DOMAIN chunks
  <2>1. n \in Nat /\ \A k \in S : k \in DOMAIN chunks
    BY DEF IsSequence
  <2> QED BY <2>1, FS_Interval
<1>2. \A k \in S : IsFiniteSet(part(k))
  <2>1. ASSUME NEW k \in S PROVE IsFiniteSet(part(k))
    <3> DEFINE D == DOMAIN chunks[k].entries
    <3>1. IsSequence(chunks[k].entries)
      BY <1>1
    <3>2. D = 1 .. Len(chunks[k].entries) /\ Len(chunks[k].entries) \in Nat
      BY <3>1 DEF IsSequence
    <3> HIDE DEF D
    <3>3. IsFiniteSet(D)
      <4>1. \A l \in Nat : IsFiniteSet(1 .. l)
        BY FS_Interval
      <4> QED BY <3>2, <4>1
    <3>4. IsFiniteSet({k})
      BY FS_Singleton
    <3>5. IsFiniteSet({k} \X D)
      BY <3>3, <3>4, FS_Product
    <3> QED BY <3>5 DEF D
  <2> HIDE DEF part
  <2> QED BY <2>1
<1>3. Cells(chunks, n) = UNION T
  BY DEF Cells
<1> HIDE DEF part, S
<1>4. f \in Surjection(S, T)
  BY DEF Surjection
<1>5. IsFiniteSet(T)
  <2> HIDE DEF T, f
  <2> QED BY <1>1, <1>4, FS_Surjection
<1>6. IsFiniteSet(UNION T)
  <2>1. \A P \in T : IsFiniteSet(P)
    BY <1>2
  <2> HIDE DEF T
  <2> QED BY <1>5, <2>1, FS_UNION
<1> HIDE DEF T
<1> QED BY <1>3, <1>6, FS_CardinalityType

LEMMA CellsCounted ==
  ASSUME NEW chunks, IsSequence(chunks), NEW n \in 0 .. Len(chunks)
  PROVE  /\ EntryCount(SubSeq(chunks, 1, n)) = Cardinality(Cells(chunks, n))
         /\ EntryCount(chunks) = Cardinality(Cells(chunks, Len(chunks)))
<1>1. PICK S : chunks \in Seq(S)
  BY SequenceOf
<1> DEFINE s == SubSeq(chunks, 1, n)
<1>2. DOMAIN s = 1 .. n /\ \A k \in 1 .. n : s[k] = chunks[k]
  BY <1>1
<1> HIDE DEF s
<1>3. EntryCount(s) = Cardinality(Cells(chunks, n))
  <2>1. UNION {{k} \X DOMAIN s[k].entries : k \in DOMAIN s} = Cells(chunks, n)
    BY <1>2 DEF Cells
  <2> QED BY <2>1 DEF EntryCount
<1>4. DOMAIN chunks = 1 .. Len(chunks)
  BY <1>1
<1> QED BY <1>3, <1>4 DEF EntryCount, Cells, s

LEMMA CountOfEntries ==
  ASSUME NEW keys, IsSequence(keys), \A k \in DOMAIN keys : IsSequence(keys[k].entries)
  PROVE  EntryCount(keys) \in Nat
<1>1. Len(keys) \in 0 .. Len(keys)
  BY DEF IsSequence
<1> QED BY <1>1, CellsFinite, CellsCounted

LEMMA GoneOnFurther ==
  ASSUME NEW t, NEW u, NEW v, GoneOn(t, u), GoneOn(u, v) PROVE GoneOn(t, v)
  BY DEF GoneOn

\* A charset filter passes over candidates, and leaves what is exhausted.
LEMMA PassingGoesOn ==
  ASSUME NEW t, HasForm(t), NEW run, Passing(t, run), NEW n \in Nat
  PROVE  GoneOn(t, run[n]) /\ (t.done => run[n] = t)
<1> DEFINE good(m) == GoneOn(t, run[m]) /\ (t.done => run[m] = t)
           bad == {m \in Nat : ~ good(m)}
<1>1. ASSUME bad # {} PROVE FALSE
  <2>1. PICK m \in bad : \A k \in bad : m <= k
    <3>1. bad \subseteq Nat
      OBVIOUS
    <3> HIDE DEF bad
    <3> QED BY <1>1, <3>1, Least
  <2>2. m \in Nat /\ ~ good(m)
    BY <2>1
  <2>3. CASE m = 0
    <3>1. run[m] = t
      BY <2>3 DEF Passing
    <3> QED BY <2>2, <3>1 DEF GoneOn
  <2>4. CASE m # 0
    <3>1. m - 1 \in Nat /\ m - 1 \notin bad
      BY <2>1, <2>2, <2>4
    <3>2. good(m - 1)
      <4> HIDE DEF good
      <4> QED BY <3>1
    <3> DEFINE v == run[m - 1]
    <3>3. run[m] = PassOver(v)
      BY <2>2, <2>4 DEF Passing
    <3>4. GoneOn(t, v) /\ (t.done => v = t)
      BY <3>2
    <3> HIDE DEF v
    <3>5. CASE Settled(v)
      BY <2>2, <3>3, <3>4, <3>5 DEF PassOver
    <3>6. CASE ~ Settled(v)
      <4>1. ~ v.done /\ run[m] = Step(v)
        BY <3>3, <3>6 DEF PassOver, Settled
      <4>2. GoneOn(v, Step(v))
        BY <3>4, <4>1, StepGoesOn DEF GoneOn
      <4>3. GoneOn(t, run[m])
        BY <3>4, <4>1, <4>2, GoneOnFurther
      <4> QED BY <2>2, <3>4, <4>1, <4>3
    <3> QED BY <3>5, <3>6
  <2> QED BY <2>3, <2>4
<1>2. n \notin bad
  BY <1>1
<1> QED BY <1>2

LEMMA Located ==
  ASSUME NEW t, HasForm(t)
  PROVE  /\ GoneOn(t, LocateNextCandidate(t))
         /\ t.done => LocateNextCandidate(t) = t
<1> DEFINE last == IF t.kind = "lazy" THEN EntryCount(t.keys) ELSE Len(t.items)
<1>1. PICK run : Passing(t, run) /\ LocateNextCandidate(t) = run[last]
  BY Locating
<1>2. last \in Nat
  <2>1. CASE t.kind = "lazy"
    BY <2>1, CountOfEntries DEF HasForm
  <2>2. CASE t.kind # "lazy"
    BY <2>2 DEF HasForm, IsSequence
  <2> QED BY <2>1, <2>2
<1> HIDE DEF last
<1> QED BY <1>1, <1>2, PassingGoesOn

\* A candidate has been taken from a generator, an echo from an echo.
LEMMA Advanced ==
  ASSUME NEW t, HasForm(t), ~ t.done
  PROVE  /\ GoneOn(t, Advance(t))
         /\ t.kind = "echo" /\ Len(t.items) = 1 => Advance(t).done
<1> DEFINE s == Step(t)
           T == {LocateNextCandidate(r) : r \in {s}}
<1>1. Advance(t) = LocateNextCandidate(s)
  <2>1. T = {LocateNextCandidate(s)}
    OBVIOUS
  <2>2. Advance(t) = CHOOSE u \in T : TRUE
    BY DEF Advance
  <2> HIDE DEF T, s
  <2> QED BY <2>1, <2>2
<1>2. GoneOn(t, s)
  BY StepGoesOn
<1>3. t.kind = "echo" /\ Len(t.items) = 1 => s.done
  BY ListGoesOn
<1> HIDE DEF s
<1>4. HasForm(s)
  BY <1>2 DEF GoneOn
<1>5. GoneOn(t, Advance(t))
  BY <1>1, <1>2, <1>4, Located, GoneOnFurther
<1> QED BY <1>1, <1>3, <1>4, <1>5, Located

LEMMA OfferedForm ==
  ASSUME recipe \in Recipes, NEW i \in DOMAIN recipe
  PROVE  /\ HasForm(recipe[i]) /\ ~ recipe[i].done
         /\ recipe[i].kind = "echo" => i = 1 /\ Len(recipe[i].items) = 1
                                         /\ recipe[i].items[1].text \notin DOMAIN Forms
<1> DEFINE t == recipe[i]
<1>1. /\ IsGenerator(t)
      /\ IF t.kind = "echo"
         THEN i = 1 /\ Len(t.items) = 1 /\ t.items[1].text \notin DOMAIN Forms
         ELSE t.kind # "lazy" => \A j \in DOMAIN t.items : t.items[j].type # "raw"
  BY OfferAssumption
<1> HIDE DEF t
<1>2. HasForm(t) /\ ~ t.done
  <2>1. CASE t.kind = "lazy"
    BY <1>1, <2>1 DEF HasForm, IsGenerator, IsChunk
  <2>2. CASE t.kind # "lazy"
    BY <1>1, <2>2 DEF HasForm, IsGenerator
  <2> QED BY <2>1, <2>2
<1> QED BY <1>1, <1>2 DEF t

-----------------------------------------------------------------------------
(* The order of the menu                                                    *)

\* An echo that has not been asked is as it was; one that has been asked is exhausted.
EchoRests ==
  \A i \in DOMAIN translations :
    translations[i].kind = "echo" =>
      i = 1 /\ (translations[i].done \/ (candidates = << >> /\ translations = recipe))
InputAlone ==
  \A i \in DOMAIN candidates :
    candidates[i].first.type = "raw" =>
      /\ Len(candidates) = 1 /\ translations = << >>
      /\ Len(recipe) = 1 /\ recipe[1].kind = "echo"
\* What the generators still have is no longer than what was recruited.
TwoOffered == Len(recipe) <= 2 /\ \A i \in DOMAIN recipe : Comparable(recipe[i])
Merged ==
  /\ \A i \in DOMAIN translations : Comparable(translations[i]) /\ ~ translations[i].done
  /\ \A j \in DOMAIN candidates :
       /\ candidates[j].first.end \in Nat
       /\ \A i \in DOMAIN translations : EndsBy(translations[i], candidates[j].first.end)
  /\ \A i, j \in DOMAIN candidates :
       i < j => candidates[i].first.end >= candidates[j].first.end
OrderInv ==
  /\ recipe \in Recipes /\ \A i \in DOMAIN translations : HasForm(translations[i])
  /\ EchoRests /\ InputAlone /\ (TwoOffered => Merged)

LEMMA Peeked ==
  ASSUME NEW t, HasForm(t), ~ t.done, NEW c, c = Peek(t)
  PROVE  /\ c.end \in Nat /\ EndsBy(t, c.end)
         /\ \A end : EndsBy(t, end) => c.end <= end
         /\ t.kind # "echo" => c.type # "raw"
<1>1. CASE t.kind = "lazy"
  <2>1. /\ c.end = t.end /\ c.type \in {"zh", "completion"} /\ t.end \in Nat
    BY <1>1 DEF Peek, Candidate, HasForm
  <2> QED BY <1>1, <2>1 DEF EndsBy
<1>2. CASE t.kind # "lazy"
  <2>1. /\ c = t.items[1] /\ 1 \in DOMAIN t.items /\ DOMAIN t.items \subseteq Nat \ {0}
    BY <1>2, RestOf DEF HasForm, Peek
  <2>2. Descending(t.items) /\ (t.kind # "echo" => c.type # "raw")
    BY <1>2, <2>1 DEF HasForm
  <2>3. c.end \in Nat /\ \A i \in DOMAIN t.items : t.items[i].end <= c.end
    <3>1. c.end \in Nat
      BY <2>1, <2>2 DEF Descending
    <3>2. ASSUME NEW i \in DOMAIN t.items PROVE t.items[i].end <= c.end
      <4>1. t.items[i].end \in Nat /\ (1 < i => c.end >= t.items[i].end)
        BY <2>1, <2>2 DEF Descending
      <4>2. i = 1 \/ 1 < i
        BY <2>1
      <4> QED BY <2>1, <3>1, <4>1, <4>2
    <3> QED BY <3>1, <3>2
  <2> QED BY <1>2, <2>1, <2>2, <2>3 DEF EndsBy
<1> QED BY <1>1, <1>2

LEMMA SimplifiedAlike ==
  ASSUME NEW c, NEW i \in DOMAIN Simplifier(c)
  PROVE  Simplifier(c)[i].end = c.end /\ Simplifier(c)[i].type = c.type
<1>1. CASE simplification /\ c.text \in DOMAIN Forms
  <2> DEFINE forms == Forms[c.text]
  <2>1. Simplifier(c) = [j \in DOMAIN forms |-> Candidate(forms[j], c.end, c.type)]
    BY <1>1 DEF Simplifier
  <2> HIDE DEF forms
  <2>2. Simplifier(c)[i] = Candidate(forms[i], c.end, c.type)
    BY <2>1
  <2> QED BY <2>2 DEF Candidate
<1>2. CASE ~ (simplification /\ c.text \in DOMAIN Forms)
  <2>1. Simplifier(c) = << c >>
    BY <1>2 DEF Simplifier
  <2> QED BY <2>1
<1> QED BY <1>1, <1>2

\* The generators once the n first of them have been asked
LEMMA AskedEach ==
  ASSUME IInv, OrderInv, NEW n, NEW i \in DOMAIN translations
  PROVE  /\ DOMAIN Asked(n) = DOMAIN translations
         /\ HasForm(Asked(n)[i]) /\ Asked(n)[i].kind = translations[i].kind
         /\ translations[i].kind # "echo" => Asked(n)[i] = translations[i]
         /\ translations[i].done => Asked(n)[i].done
         /\ i <= n /\ translations[i].kind = "echo" /\ GivesWay(i) => Asked(n)[i].done
<1> DEFINE t == translations[i]
           u == [t EXCEPT !.done = TRUE]
<1>1. /\ DOMAIN Asked(n) = DOMAIN translations
      /\ Asked(n)[i] = IF i <= n /\ t.kind = "echo" /\ GivesWay(i) THEN u ELSE t
  BY DEF Asked
<1>2. HasForm(t)
  BY DEF OrderInv
<1> HIDE DEF t
<1>3. DOMAIN u = DOMAIN t /\ \A g \in DOMAIN t : u[g] = IF g = "done" THEN TRUE ELSE t[g]
  BY FieldChanged
<1> HIDE DEF u
<1>4. CASE t.kind = "echo"
  <2>1. {"kind", "filtered", "done", "items"} \subseteq DOMAIN t
    BY <1>2, <1>4 DEF HasForm
  <2>2. u.kind = t.kind /\ u.items = t.items /\ u.done = TRUE
    BY <1>3, <2>1
  <2>3. HasForm(u)
    BY <1>2, <1>3, <1>4, <2>1, <2>2 DEF HasForm
  <2> QED BY <1>1, <1>2, <2>2, <2>3 DEF t
<1>5. CASE t.kind # "echo"
  BY <1>1, <1>2, <1>5 DEF t
<1> QED BY <1>4, <1>5

LEMMA RemovedEach ==
  ASSUME NEW s, IsSequence(s), NEW k \in DOMAIN s, NEW i \in DOMAIN RemoveAt(s, k)
  PROVE  /\ i \in Nat \ {0} /\ i <= Len(s) - 1
         /\ IF i < k THEN i \in DOMAIN s /\ RemoveAt(s, k)[i] = s[i]
                     ELSE i + 1 \in DOMAIN s /\ RemoveAt(s, k)[i] = s[i + 1]
<1>1. PICK S : s \in Seq(S)
  BY SequenceOf
<1>2. k \in 1 .. Len(s) /\ Len(s) \in Nat /\ DOMAIN s = 1 .. Len(s)
  BY <1>1
<1> DEFINE a == SubSeq(s, 1, k - 1)
           b == SubSeq(s, k + 1, Len(s))
<1>3. /\ a \in Seq(S) /\ Len(a) = k - 1 /\ \A j \in 1 .. k - 1 : a[j] = s[j]
  BY <1>1, <1>2
<1>4. /\ b \in Seq(S) /\ Len(b) = Len(s) - k /\ \A j \in 1 .. Len(s) - k : b[j] = s[k + j]
  BY SMTT(20), <1>1, <1>2
<1>5. RemoveAt(s, k) = a \o b
  BY DEF RemoveAt
<1> HIDE DEF a, b
<1>6. /\ i \in 1 .. Len(s) - 1
      /\ (a \o b)[i] = IF i <= Len(a) THEN a[i] ELSE b[i - Len(a)]
  <2>1. DOMAIN (a \o b) = 1 .. Len(a) + Len(b)
    BY <1>3, <1>4
  <2>2. i \in 1 .. Len(s) - 1
    BY <1>2, <1>3, <1>4, <1>5, <2>1
  <2>3. CASE i <= Len(a)
    BY <1>2, <1>3, <1>4, <2>2, <2>3
  <2>4. CASE ~ (i <= Len(a))
    <3>1. i - Len(a) \in 1 .. Len(b)
      BY <1>2, <1>3, <1>4, <2>2, <2>4
    <3>2. (a \o b)[i] = b[i - Len(a)]
      BY <1>2, <1>3, <1>4, <2>2, <2>4, <3>1
    <3> QED BY <2>2, <2>4, <3>2
  <2> QED BY <2>2, <2>3, <2>4
<1>7. CASE i < k
  BY <1>2, <1>3, <1>5, <1>6, <1>7
<1>8. CASE ~ (i < k)
  <2>1. i - (k - 1) \in 1 .. Len(s) - k /\ k + (i - (k - 1)) = i + 1
    BY <1>2, <1>6, <1>8
  <2>2. b[i - (k - 1)] = s[i + 1]
    BY <1>4, <2>1
  <2> QED BY <1>2, <1>3, <1>5, <1>6, <1>8, <2>2
<1> QED BY <1>7, <1>8

\* The generator that provides
Provider == CHOOSE i \in Winners : \A j \in Winners : i <= j

LEMMA ProviderWins ==
  ASSUME IInv, Winners # {}
  PROVE  /\ Provider \in DOMAIN translations /\ ~ Loses(Provider)
         /\ Len(translations) \in Nat /\ DOMAIN translations = 1 .. Len(translations)
         /\ \A j \in DOMAIN translations : j < Provider => Loses(j)
<1>1. Len(translations) \in Nat /\ DOMAIN translations = 1 .. Len(translations)
  BY DEF IInv, IsSequence
<1>2. Winners \subseteq Nat
  BY <1>1 DEF Winners
<1>3. PICK i \in Winners : \A j \in Winners : i <= j
  BY <1>2, Least
<1>4. Provider \in Winners /\ \A j \in Winners : Provider <= j
  BY <1>3 DEF Provider
<1>5. ASSUME NEW j \in DOMAIN translations, j < Provider PROVE Loses(j)
  <2>1. j \notin Winners
    BY <1>1, <1>2, <1>4, <1>5
  <2> QED BY <2>1 DEF Winners
<1> QED BY <1>1, <1>4, <1>5 DEF Winners

LEMMA Recruited ==
  ASSUME IInv, Recruit
  PROVE  /\ Winners # {} /\ translations # << >> /\ UNCHANGED recipe
         /\ LET t == translations[Provider] IN
            IF t.done
            THEN /\ translations' = RemoveAt(Asked(Provider - 1), Provider)
                 /\ UNCHANGED candidates
            ELSE /\ translations' = IF Advance(t).done
                                    THEN RemoveAt(Asked(Provider - 1), Provider)
                                    ELSE [Asked(Provider - 1) EXCEPT ![Provider] = Advance(t)]
                 /\ candidates' = Uniquifier(candidates, Simplifier(Peek(t)))
<1>1. Winners \subseteq Nat
  BY DEF Winners, IInv, IsSequence
<1>2. PICK k \in Winners : \A j \in Winners : k <= j
  BY DEF Recruit
<1>3. ASSUME NEW l \in Winners, \A j \in Winners : l <= j PROVE l = k
  BY <1>1, <1>2, <1>3
<1>4. Provider = k
  BY <1>2, <1>3 DEF Provider
<1> QED BY <1>3, <1>4 DEF Recruit, Preparing, offered

\* Each generator that is left is one that was there, which has been asked or has
\* provided.
LEMMA LeftAfter ==
  ASSUME IInv, OrderInv, Recruit, NEW i \in DOMAIN translations'
  PROVE  \E j \in DOMAIN translations :
           /\ i \in Nat \ {0} /\ j \in {i, i + 1}
           /\ HasForm(translations'[i]) /\ translations'[i].kind = translations[j].kind
           /\ \/ j # Provider /\ translations'[i] = Asked(Provider - 1)[j]
              \/ /\ j = Provider /\ ~ translations[j].done /\ ~ translations'[i].done
                 /\ translations'[i] = Advance(translations[j])
<1> DEFINE k == Provider
           asked == Asked(k - 1)
           t == translations[k]
<1>1. /\ k \in DOMAIN translations /\ Len(translations) \in Nat
      /\ DOMAIN translations = 1 .. Len(translations)
  BY ProviderWins, Recruited
<1>2. /\ IsSequence(asked) /\ DOMAIN asked = DOMAIN translations
      /\ Len(asked) = Len(translations)
  BY AskedSequence DEF IInv
<1>3. \A j \in DOMAIN translations :
        HasForm(asked[j]) /\ asked[j].kind = translations[j].kind
  BY AskedEach
<1> HIDE DEF asked
<1>4. CASE translations' = RemoveAt(asked, k)
  <2>1. /\ i \in Nat \ {0} /\ i <= Len(asked) - 1
        /\ IF i < k THEN i \in DOMAIN asked /\ translations'[i] = asked[i]
                    ELSE i + 1 \in DOMAIN asked /\ translations'[i] = asked[i + 1]
    BY <1>1, <1>2, <1>4, RemovedEach
  <2>2. CASE i < k
    <3>1. /\ i \in DOMAIN translations /\ i # k /\ translations'[i] = asked[i]
      BY <1>1, <1>2, <2>1, <2>2
    <3> QED BY <1>3, <2>1, <3>1 DEF asked
  <2>3. CASE ~ (i < k)
    <3>1. /\ i + 1 \in DOMAIN translations /\ i + 1 # k /\ translations'[i] = asked[i + 1]
      BY <1>1, <1>2, <2>1, <2>3
    <3> QED BY <1>3, <2>1, <3>1 DEF asked
  <2> QED BY <2>2, <2>3
<1>5. CASE ~ t.done /\ ~ Advance(t).done /\ translations' = [asked EXCEPT ![k] = Advance(t)]
  <2>1. i \in DOMAIN translations /\ i \in Nat \ {0}
    BY <1>1, <1>2, <1>5
  <2>2. CASE i = k
    <3>1. translations'[i] = Advance(t)
      BY <1>2, <1>5, <2>1, <2>2
    <3>2. HasForm(t)
      BY <1>1 DEF OrderInv
    <3>3. GoneOn(t, Advance(t))
      BY <1>5, <3>2, Advanced
    <3> QED BY <1>5, <2>1, <2>2, <3>1, <3>3 DEF GoneOn
  <2>3. CASE i # k
    <3>1. translations'[i] = asked[i]
      BY <1>2, <1>5, <2>1, <2>3
    <3> QED BY <1>3, <2>1, <2>3, <3>1 DEF asked
  <2> QED BY <2>2, <2>3
<1> QED BY <1>4, <1>5, Recruited DEF asked

\* An echo that provides is alone, and is exhausted.
LEMMA EchoProvides ==
  ASSUME IInv, OrderInv, Winners # {}, NEW t, t = translations[Provider],
         t.kind = "echo", ~ t.done
  PROVE  /\ Provider = 1 /\ candidates = << >> /\ translations = recipe
         /\ Len(translations) = 1 /\ Advance(t).done
         /\ Peek(t).text \notin DOMAIN Forms
<1>1. /\ Provider \in DOMAIN translations /\ ~ Loses(Provider)
      /\ Len(translations) \in Nat /\ DOMAIN translations = 1 .. Len(translations)
  BY ProviderWins
<1>2. Provider = 1 /\ candidates = << >> /\ translations = recipe
  BY <1>1 DEF OrderInv, EchoRests
<1>3. recipe \in Recipes /\ HasForm(t)
  BY <1>1 DEF OrderInv
<1>4. Len(t.items) = 1 /\ t.items[1].text \notin DOMAIN Forms
  BY <1>1, <1>2, <1>3, OfferedForm
<1>5. Len(translations) = 1
  <2>1. ~ GivesWay(1)
    BY <1>1, <1>2 DEF Loses
  <2>2. ~ (1 < Len(translations) /\ ~ translations[2].done)
    BY <2>1 DEF GivesWay, HasNext
  <2>3. 1 < Len(translations) => 2 \in DOMAIN recipe
    BY <1>1, <1>2
  <2>4. ~ (1 < Len(translations))
    BY <1>2, <1>3, <2>2, <2>3, OfferedForm
  <2> QED BY <1>1, <2>4
<1>6. Advance(t).done
  BY <1>3, <1>4, Advanced
<1>7. Peek(t) = t.items[1]
  BY DEF Peek
<1> QED BY <1>2, <1>4, <1>5, <1>6, <1>7

LEMMA RecruitRests ==
  ASSUME IInv, OrderInv, Recruit PROVE EchoRests'
<1>1. Winners # {}
  BY Recruited
<1> SUFFICES ASSUME NEW i \in DOMAIN translations', translations'[i].kind = "echo"
             PROVE  i = 1 /\ translations'[i].done
  BY DEF EchoRests
<1>2. PICK j \in DOMAIN translations :
        /\ i \in Nat \ {0} /\ j \in {i, i + 1}
        /\ translations'[i].kind = translations[j].kind
        /\ \/ j # Provider /\ translations'[i] = Asked(Provider - 1)[j]
           \/ /\ j = Provider /\ ~ translations[j].done /\ ~ translations'[i].done
              /\ translations'[i] = Advance(translations[j])
  BY LeftAfter
<1>3. j = 1 /\ translations[j].kind = "echo"
  BY <1>2 DEF OrderInv, EchoRests
<1>4. i = 1
  BY <1>2, <1>3
<1>5. CASE j # Provider /\ translations'[i] = Asked(Provider - 1)[j]
  <2>1. Provider \in Nat /\ 1 <= Provider - 1 /\ Loses(1)
    <3>1. Provider \in Nat \ {0} /\ Provider # 1
      BY <1>1, <1>3, <1>5, ProviderWins
    <3>2. 1 < Provider
      BY <3>1
    <3> QED BY <1>1, <1>2, <1>3, <3>1, <3>2, ProviderWins
  <2>2. GivesWay(1)
    BY <1>3, <2>1 DEF Loses, GivesWay
  <2>3. Asked(Provider - 1)[j].done
    BY <1>3, <2>1, <2>2, AskedEach
  <2> QED BY <1>4, <1>5, <2>3
<1>6. CASE /\ j = Provider /\ ~ translations[j].done /\ ~ translations'[i].done
           /\ translations'[i] = Advance(translations[j])
  BY <1>1, <1>3, <1>6, EchoProvides
<1> QED BY <1>2, <1>5, <1>6

\* What a candidate was made from
LEMMA RecruitedFirsts ==
  ASSUME IInv, OrderInv, Recruit, NEW i \in DOMAIN candidates'
  PROVE  /\ i \in Nat \ {0} /\ Len(candidates) \in Nat
         /\ \/ /\ i <= Len(candidates) /\ i \in DOMAIN candidates
               /\ candidates'[i].first = candidates[i].first
            \/ LET t == translations[Provider] IN
               /\ i > Len(candidates) /\ ~ t.done /\ HasForm(t)
               /\ candidates'[i].first.end = Peek(t).end
               /\ candidates'[i].first.type = Peek(t).type
<1> DEFINE t == translations[Provider]
           cs == Simplifier(Peek(t))
<1>1. Entries(candidates) /\ Entries(candidates') /\ OneEach(candidates)
  BY RecruitCandidates DEF IInv, NoDuplicates, OneEach
<1>2. /\ Len(candidates) \in Nat /\ DOMAIN candidates = 1 .. Len(candidates)
      /\ i \in Nat \ {0}
  BY <1>1 DEF Entries
<1>3. HasForm(t)
  BY ProviderWins, Recruited DEF OrderInv
<1>4. CASE UNCHANGED candidates
  BY <1>2, <1>4
<1>5. CASE ~ t.done /\ candidates' = Uniquifier(candidates, cs)
  <2>1. Different(cs)
    BY Simplified
  <2> DEFINE recruited == candidates
             u == candidates'
  <2>2. u = Uniquifier(recruited, cs) /\ Entries(recruited) /\ OneEach(recruited)
    BY <1>1, <1>5
  <2>3. IF i <= Len(candidates)
        THEN i \in DOMAIN candidates /\ candidates'[i].first = candidates[i].first
        ELSE \E b \in DOMAIN cs : candidates'[i].first = cs[b]
    <3> HIDE DEF cs
    <3>1. PICK r, v : r = candidates /\ v = candidates'
      OBVIOUS
    <3>2. /\ v = Uniquifier(r, cs) /\ Entries(r) /\ OneEach(r) /\ i \in DOMAIN v
      BY <2>2, <3>1
    <3>3. IF i <= Len(r)
          THEN i \in DOMAIN r /\ v[i].first = r[i].first
          ELSE \E b \in DOMAIN cs : v[i].first = cs[b]
      BY SMTT(20), <2>1, <3>2, Uniquified
    <3> QED BY <3>1, <3>3
  <2>4. \A b \in DOMAIN cs : cs[b].end = Peek(t).end /\ cs[b].type = Peek(t).type
    BY SimplifiedAlike
  <2> HIDE DEF cs
  <2>5. CASE i <= Len(candidates)
    BY <1>2, <2>3, <2>5
  <2>6. CASE ~ (i <= Len(candidates))
    BY <1>2, <1>3, <1>5, <2>3, <2>4, <2>6
  <2> QED BY <2>5, <2>6
<1> QED BY <1>4, <1>5, Recruited

LEMMA NoneLeft ==
  ASSUME NEW s, IsSequence(s), Len(s) = 0 PROVE s = << >>
<1>1. PICK S : s \in Seq(S)
  BY SequenceOf
<1> QED BY <1>1

LEMMA RecruitAlone ==
  ASSUME IInv, OrderInv, Recruit PROVE InputAlone'
<1> DEFINE t == translations[Provider]
           c == Peek(t)
<1>1. Winners # {} /\ translations # << >> /\ UNCHANGED recipe
  BY Recruited
<1> SUFFICES ASSUME NEW i \in DOMAIN candidates', candidates'[i].first.type = "raw"
             PROVE  /\ Len(candidates') = 1 /\ translations' = << >>
                    /\ Len(recipe) = 1 /\ recipe[1].kind = "echo"
  BY <1>1 DEF InputAlone
<1>2. ~ t.done /\ HasForm(t) /\ c.type = "raw"
  <2>1. \A j \in DOMAIN candidates : candidates[j].first.type # "raw"
    BY <1>1 DEF OrderInv, InputAlone
  <2> QED BY <2>1, RecruitedFirsts
<1>3. t.kind = "echo"
  BY <1>2, Peeked
<1>4. /\ Provider = 1 /\ candidates = << >> /\ translations = recipe
      /\ Len(translations) = 1 /\ Advance(t).done /\ c.text \notin DOMAIN Forms
  BY <1>1, <1>2, <1>3, EchoProvides
<1>5. /\ translations' = RemoveAt(Asked(0), 1)
      /\ candidates' = Uniquifier(candidates, << c >>)
  <2>1. Simplifier(c) = << c >>
    BY <1>4 DEF Simplifier
  <2> HIDE DEF c
  <2> QED BY <1>2, <1>4, <2>1, Recruited DEF c
<1>6. translations' = << >>
  <2> DEFINE asked == Asked(0)
  <2>1. IsSequence(asked) /\ Len(asked) = 1
    BY <1>4, AskedSequence DEF IInv
  <2>2. translations' = RemoveAt(asked, 1)
    BY <1>5
  <2> HIDE DEF asked
  <2>3. 1 \in DOMAIN asked
    BY <2>1 DEF IsSequence
  <2>4. IsSequence(RemoveAt(asked, 1)) /\ Len(RemoveAt(asked, 1)) = Len(asked) - 1
    BY <2>1, <2>3, RemovedSequence
  <2>5. IsSequence(RemoveAt(asked, 1)) /\ Len(RemoveAt(asked, 1)) = 0
    BY <2>1, <2>4
  <2> QED BY <2>2, <2>5, NoneLeft
<1>7. Len(candidates') = 1
  <2> HIDE DEF c
  <2>1. PICK r, cs, v : r = candidates /\ cs = << c >> /\ v = candidates'
    OBVIOUS
  <2>2. Different(cs) /\ Len(cs) = 1
    BY <2>1 DEF Different
  <2>3. Entries(r) /\ OneEach(r) /\ v = Uniquifier(r, cs) /\ Len(r) = 0
    BY <1>4, <1>5, <2>1 DEF IInv, NoDuplicates, OneEach
  <2>4. Entries(v) /\ Len(v) <= Len(r) + Len(cs)
    BY <2>2, <2>3, Uniquified
  <2>5. Len(v) \in Nat /\ DOMAIN v = 1 .. Len(v) /\ i \in DOMAIN v
    BY <2>1, <2>4 DEF Entries
  <2> QED BY <2>1, <2>2, <2>3, <2>4, <2>5
<1> QED BY <1>3, <1>4, <1>6, <1>7

\* The one that provides has the longest candidate of two.
LEMMA ProvidesTheLongest ==
  ASSUME IInv, OrderInv, Winners # {}, Len(recipe) <= 2, Merged,
         NEW i \in DOMAIN translations
  PROVE  EndsBy(translations[i], Peek(translations[Provider]).end)
<1> DEFINE k == Provider
           end(j) == Peek(translations[j]).end
<1>1. /\ k \in DOMAIN translations /\ ~ Loses(k)
      /\ Len(translations) \in Nat /\ DOMAIN translations = 1 .. Len(translations)
      /\ \A j \in DOMAIN translations : j < k => Loses(j)
  BY ProviderWins
<1>2. Len(translations) <= 2
  BY <1>1 DEF IInv, TypeOK, IsSequence
<1>3. \A j \in DOMAIN translations :
        /\ end(j) \in Nat /\ EndsBy(translations[j], end(j))
        /\ \A e : EndsBy(translations[j], e) => end(j) <= e
        /\ translations[j].kind \notin {"echo", "reverse"} /\ ~ translations[j].done
  BY Peeked DEF OrderInv, Merged, Comparable
<1>4. ASSUME NEW t, HasForm(t), NEW a \in Nat, NEW b \in Nat, EndsBy(t, a), a <= b
      PROVE  EndsBy(t, b)
  <2>1. CASE t.kind = "lazy"
    BY <1>4, <2>1 DEF EndsBy, HasForm
  <2>2. CASE t.kind # "lazy"
    BY <1>4, <2>2 DEF EndsBy, HasForm, Descending
  <2> QED BY <2>1, <2>2
<1>5. CASE i = k
  BY <1>3, <1>5
<1>6. CASE i # k
  <2>1. /\ 1 \in DOMAIN translations /\ 2 \in DOMAIN translations
        /\ Len(translations) = 2 /\ k \in {1, 2} /\ i = 3 - k
    <3>1. PICK n \in Nat : n = Len(translations) /\ n <= 2 /\ i \in 1 .. n /\ k \in 1 .. n
      BY <1>1, <1>2
    <3>2. n = 2
      BY <1>6, <3>1
    <3>3. DOMAIN translations = 1 .. 2 /\ Len(translations) = 2
      BY <1>1, <3>1, <3>2
    <3>4. k \in {1, 2} /\ i = 3 - k
      BY <1>6, <3>1, <3>2
    <3> HIDE DEF k
    <3> QED BY <3>3, <3>4
  <2>2. HasNext(1)
    BY <1>3, <2>1 DEF HasNext
  <2>3. Loses(1) <=> end(1) < end(2)
    BY <1>3, <2>1, <2>2 DEF Loses
  <2>4. end(i) <= end(k)
    BY <1>1, <1>3, <2>1, <2>3
  <2>5. HasForm(translations[i])
    BY DEF OrderInv
  <2> HIDE DEF end
  <2>6. EndsBy(translations[i], end(k))
    BY <1>1, <1>3, <1>4, <2>4, <2>5
  <2> QED BY <2>6 DEF end
<1> QED BY <1>5, <1>6

LEMMA RecruitMerged ==
  ASSUME IInv, OrderInv, Recruit, Len(recipe) <= 2, Merged PROVE Merged'
<1> DEFINE t == translations[Provider]
           e == Peek(t).end
<1>1. Winners # {} /\ Provider \in DOMAIN translations
  BY Recruited, ProviderWins
<1>2. /\ e \in Nat /\ \A end : EndsBy(t, end) => e <= end
      /\ \A i \in DOMAIN translations : EndsBy(translations[i], e)
  <2>1. HasForm(t) /\ ~ t.done
    BY <1>1 DEF OrderInv, Merged
  <2> QED BY <1>1, <2>1, Peeked, ProvidesTheLongest
<1> HIDE DEF e
<1>3. ASSUME NEW i \in DOMAIN translations'
      PROVE  \E j \in DOMAIN translations :
               /\ Comparable(translations'[i]) /\ ~ translations'[i].done
               /\ \A end : EndsBy(translations[j], end) => EndsBy(translations'[i], end)
  <2>1. PICK j \in DOMAIN translations :
          /\ translations'[i].kind = translations[j].kind
          /\ \/ j # Provider /\ translations'[i] = Asked(Provider - 1)[j]
             \/ /\ j = Provider /\ ~ translations[j].done /\ ~ translations'[i].done
                /\ translations'[i] = Advance(translations[j])
    BY LeftAfter
  <2>2. /\ HasForm(translations[j]) /\ Comparable(translations[j]) /\ ~ translations[j].done
        /\ translations[j].kind # "echo"
    BY DEF OrderInv, Merged, Comparable
  <2>3. Comparable(translations'[i])
    BY <2>1, <2>2 DEF Comparable
  <2>4. CASE translations'[i] = Asked(Provider - 1)[j]
    <3>1. translations'[i] = translations[j]
      BY <2>2, <2>4, AskedEach
    <3> QED BY <2>2, <3>1
  <2>5. CASE ~ translations'[i].done /\ translations'[i] = Advance(translations[j])
    <3>1. GoneOn(translations[j], translations'[i])
      BY <2>2, <2>5, Advanced
    <3> QED BY <2>3, <2>5, <3>1 DEF GoneOn
  <2> QED BY <2>1, <2>4, <2>5
<1>4. ASSUME NEW i \in DOMAIN candidates'
      PROVE  /\ i \in Nat /\ Len(candidates) \in Nat
             /\ \/ /\ i <= Len(candidates) /\ i \in DOMAIN candidates
                   /\ candidates'[i].first.end = candidates[i].first.end
                \/ i > Len(candidates) /\ candidates'[i].first.end = e
  BY RecruitedFirsts DEF e
<1>5. ASSUME NEW j \in DOMAIN candidates
      PROVE  /\ candidates[j].first.end \in Nat /\ e <= candidates[j].first.end
             /\ \A i \in DOMAIN translations : EndsBy(translations[i], candidates[j].first.end)
  BY <1>1, <1>2 DEF Merged
<1>6. ASSUME NEW j \in DOMAIN candidates'
      PROVE  /\ candidates'[j].first.end \in Nat
             /\ \A i \in DOMAIN translations' : EndsBy(translations'[i], candidates'[j].first.end)
  <2>1. /\ candidates'[j].first.end \in Nat
        /\ \A i \in DOMAIN translations : EndsBy(translations[i], candidates'[j].first.end)
    BY <1>2, <1>4, <1>5
  <2> QED BY <1>3, <2>1
<1>7. ASSUME NEW i \in DOMAIN candidates', NEW j \in DOMAIN candidates', i < j
      PROVE  candidates'[i].first.end >= candidates'[j].first.end
  <2>1. CASE j \in DOMAIN candidates /\ i \in DOMAIN candidates
             /\ candidates'[j].first.end = candidates[j].first.end
             /\ candidates'[i].first.end = candidates[i].first.end
    BY <1>7, <2>1 DEF Merged
  <2>2. CASE i \in DOMAIN candidates /\ candidates'[i].first.end = candidates[i].first.end
             /\ candidates'[j].first.end = e
    BY <1>2, <1>5, <2>2
  <2>3. CASE candidates'[i].first.end = e /\ candidates'[j].first.end = e
    BY <1>2, <2>3
  <2> QED BY <1>4, <1>7, <2>1, <2>2, <2>3
<1>8. \A i \in DOMAIN translations' : Comparable(translations'[i]) /\ ~ translations'[i].done
  BY <1>3
<1> QED BY <1>6, <1>7, <1>8 DEF Merged

LEMMA OrderInit ==
  ASSUME Init PROVE OrderInv
<1>1. recipe \in Recipes /\ translations = recipe /\ candidates = << >>
  BY DEF Init
<1>2. \A i \in DOMAIN translations :
        /\ HasForm(translations[i]) /\ ~ translations[i].done
        /\ translations[i].kind = "echo" => i = 1
  BY <1>1, OfferedForm
<1>3. DOMAIN candidates = {}
  BY <1>1
<1>4. EchoRests /\ InputAlone /\ (TwoOffered => Merged)
  BY <1>1, <1>2, <1>3 DEF EchoRests, InputAlone, TwoOffered, Merged
<1> QED BY <1>1, <1>2, <1>4 DEF OrderInv

LEMMA OrderUnchanged ==
  ASSUME OrderInv, UNCHANGED << recipe, translations, candidates >> PROVE OrderInv'
<1>1. EchoRests' /\ InputAlone' /\ (TwoOffered => Merged)'
  BY DEF OrderInv, EchoRests, InputAlone, TwoOffered, Merged
<1> QED BY <1>1 DEF OrderInv

LEMMA OrderFail ==
  ASSUME IInv, OrderInv, FailToSelect PROVE OrderInv'
<1>1. /\ UNCHANGED << recipe, candidates >> /\ Winners = {}
      /\ translations' = Asked(Len(translations))
  BY DEF FailToSelect, offered
<1>2. DOMAIN translations = 1 .. Len(translations) /\ Len(translations) \in Nat
  BY DEF IInv, IsSequence
<1>3. DOMAIN translations' = DOMAIN translations
  BY <1>1, AskedSequence DEF IInv
<1>4. ASSUME NEW i \in DOMAIN translations
      PROVE  /\ HasForm(translations'[i]) /\ translations'[i].kind = translations[i].kind
             /\ translations[i].kind # "echo" => translations'[i] = translations[i]
             /\ translations[i].kind = "echo" => i = 1 /\ translations'[i].done
  <2>1. Loses(i)
    BY <1>1 DEF Winners
  <2>2. translations[i].kind = "echo" => GivesWay(i)
    BY <2>1 DEF Loses, GivesWay
  <2> QED BY <1>1, <1>2, <2>2, AskedEach DEF OrderInv, EchoRests
<1>5. EchoRests' /\ InputAlone'
  <2>1. InputAlone'
    <3>1. translations = << >> => translations' = << >>
      <4>1. ASSUME translations = << >> PROVE translations' = << >>
        <5>1. IsSequence(translations') /\ Len(translations') = 0
          BY <1>1, <4>1, AskedSequence DEF IInv
        <5> QED BY <5>1, NoneLeft
      <4> QED BY <4>1
    <3> QED BY <1>1, <3>1 DEF OrderInv, InputAlone
  <2> QED BY <1>3, <1>4, <2>1 DEF EchoRests
<1>6. ASSUME TwoOffered' PROVE Merged'
  <2>1. Merged
    BY <1>1, <1>6 DEF OrderInv, TwoOffered
  <2>2. \A i \in DOMAIN translations : translations'[i] = translations[i]
    BY <1>4, <2>1 DEF Merged, Comparable
  <2> QED BY <1>1, <1>3, <2>1, <2>2 DEF Merged
<1> QED BY <1>1, <1>3, <1>4, <1>5, <1>6 DEF OrderInv

LEMMA OrderStep ==
  ASSUME IInv, OrderInv, [Next]_vars PROVE OrderInv'
<1>1. CASE Recruit
  <2>1. UNCHANGED recipe
    BY <1>1, Recruited
  <2>2. \A i \in DOMAIN translations' : HasForm(translations'[i])
    BY <1>1, LeftAfter
  <2>3. ASSUME TwoOffered' PROVE Merged'
    <3>1. TwoOffered
      BY <2>1, <2>3 DEF TwoOffered
    <3> QED BY <1>1, <3>1, RecruitMerged DEF OrderInv, TwoOffered
  <2>4. EchoRests' /\ InputAlone'
    BY <1>1, RecruitRests, RecruitAlone
  <2> QED BY <2>1, <2>2, <2>3, <2>4 DEF OrderInv
<1>2. CASE FailToSelect
  BY <1>2, OrderFail
<1>3. CASE UNCHANGED << recipe, translations, candidates >>
  BY <1>3, OrderUnchanged
<1> QED
  BY <1>1, <1>2, <1>3 DEF Next, Answer, vars, offered, PageUp, CursorUp, Home, PageDown,
     CursorDown, GetContext, SelectCandidateAt, TurnPage, MoveDown, SelectPrepared,
     CreatePage, Move, Request

-----------------------------------------------------------------------------
(* What a lookup still has                                                   *)

ChunkHas(chunk, text) == \E i \in DOMAIN chunk.entries : chunk.entries[i].text = text
Have(chunks, text) == \E k \in DOMAIN chunks : ChunkHas(chunks[k], text)
Chunks(s) == IsSequence(s) /\ \A k \in DOMAIN s : IsChunk(s[k]) /\ s[k].entries # << >>

LEMMA FirstWord ==
  ASSUME NEW chunk, IsChunk(chunk), chunk.entries # << >>
  PROVE  /\ 1 \in DOMAIN chunk.entries /\ chunk.remaining \in Nat
         /\ chunk.entries[1].weight \in Int
<1>1. 1 \in DOMAIN chunk.entries
  <2>1. IsSequence(chunk.entries)
    BY DEF IsChunk
  <2> QED BY <2>1, RestOf
<1> QED BY <1>1 DEF IsChunk

\* Sorting loses none of the chunks.
LEMMA Sorted ==
  ASSUME NEW chunks, Chunks(chunks), NEW s, s = Sort(chunks)
  PROVE  Chunks(s) /\ \A k \in DOMAIN chunks : \E n \in DOMAIN s : s[n] = chunks[k]
<1> DEFINE S == DOMAIN chunks
           precedes(i, j) == \/ Before(chunks[i], chunks[j])
                             \/ ~ Before(chunks[j], chunks[i]) /\ i < j
           upto == [i \in S |-> {j \in S : j = i \/ precedes(j, i)}]
           rank(i) == Cardinality({j \in S : j = i \/ precedes(j, i)})
           at(n) == CHOOSE i \in S : rank(i) = n
<1>1. Len(chunks) \in Nat /\ S = 1 .. Len(chunks)
  BY DEF Chunks, IsSequence
<1>2. IsFiniteSet(S) /\ Cardinality(S) = Len(chunks)
  <2>1. \A n \in Nat : IsFiniteSet(1 .. n) /\ Cardinality(1 .. n) = n
    BY FS_Interval
  <2> HIDE DEF S
  <2> QED BY <1>1, <2>1
<1>3. /\ \A i, j \in S : i # j => precedes(i, j) \/ precedes(j, i)
      /\ \A i, j \in S : ~ (precedes(i, j) /\ precedes(j, i) /\ i # j)
      /\ \A i, j, k \in S : precedes(i, j) /\ precedes(j, k) => precedes(i, k)
  <2> DEFINE r == [i \in S |-> chunks[i].remaining]
             w == [i \in S |-> chunks[i].entries[1].weight]
             less(i, j) == r[i] < r[j] \/ (r[i] = r[j] /\ w[i] > w[j])
  <2>1. \A i \in S : r[i] \in Nat /\ w[i] \in Int /\ i \in Nat
    BY <1>1, FirstWord DEF Chunks
  <2>2. \A i, j \in S : Before(chunks[i], chunks[j]) <=> less(i, j)
    BY DEF Before
  <2> HIDE DEF r, w, S
  <2>3. \A i, j \in S : precedes(i, j) <=> less(i, j) \/ (~ less(j, i) /\ i < j)
    BY <2>2
  <2> HIDE DEF precedes
  <2>4. \A i, j \in S : i # j => precedes(i, j) \/ precedes(j, i)
    BY <2>1, <2>3
  <2>5. \A i, j \in S : ~ (precedes(i, j) /\ precedes(j, i) /\ i # j)
    BY <2>1, <2>3
  <2>6. ASSUME NEW i \in S, NEW j \in S, NEW k \in S, precedes(i, j), precedes(j, k)
        PROVE  precedes(i, k)
    BY <2>1, <2>3, <2>6
  <2> QED BY <2>4, <2>5, <2>6
<1> HIDE DEF precedes
<1>4. /\ upto \in [S -> SUBSET S]
      /\ \A i \in S : i \in upto[i] /\ Cardinality(upto[i]) = rank(i)
      /\ \A i, j \in S : i # j => \/ upto[i] \subseteq upto[j] /\ j \notin upto[i]
                                  \/ upto[j] \subseteq upto[i] /\ i \notin upto[j]
  <2>1. \A i \in S : i \in upto[i] /\ Cardinality(upto[i]) = rank(i)
    OBVIOUS
  <2>2. ASSUME NEW i \in S, NEW j \in S, i # j, precedes(i, j)
        PROVE  upto[i] \subseteq upto[j] /\ j \notin upto[i]
    <3> HIDE DEF S
    <3> QED BY <1>3, <2>2
  <2>3. upto \in [S -> SUBSET S]
    OBVIOUS
  <2> HIDE DEF upto, rank, S
  <2>4. \A i, j \in S : i # j => \/ upto[i] \subseteq upto[j] /\ j \notin upto[i]
                                 \/ upto[j] \subseteq upto[i] /\ i \notin upto[j]
    BY <1>3, <2>2
  <2> QED BY <2>1, <2>3, <2>4
<1> HIDE DEF upto, rank
<1>5. /\ \A i \in S : rank(i) \in S
      /\ \A i, j \in S : rank(i) = rank(j) => i = j
      /\ \A n \in S : \E i \in S : rank(i) = n
  <2>1. /\ \A i \in S : Cardinality(upto[i]) \in 1 .. Cardinality(S)
        /\ \A i, j \in S : Cardinality(upto[i]) = Cardinality(upto[j]) => i = j
        /\ \A n \in 1 .. Cardinality(S) : \E i \in S : Cardinality(upto[i]) = n
    <3> HIDE DEF S
    <3> QED BY <1>2, <1>4, Ranks
  <2>2. S = 1 .. Cardinality(S)
    BY <1>1, <1>2
  <2>3. \A i \in S : Cardinality(upto[i]) = rank(i)
    BY <1>4
  <2> HIDE DEF S
  <2>4. \A i \in S : rank(i) \in S
    BY <2>1, <2>2, <2>3
  <2>5. \A i, j \in S : rank(i) = rank(j) => i = j
    BY <2>1, <2>3
  <2>6. ASSUME NEW n \in S PROVE \E i \in S : rank(i) = n
    <3>1. n \in 1 .. Cardinality(S)
      BY <2>2
    <3>2. PICK i \in S : Cardinality(upto[i]) = n
      BY <2>1, <3>1
    <3> QED BY <2>3, <3>2
  <2> QED BY <2>4, <2>5, <2>6
<1>6. \A n \in S : at(n) \in S /\ rank(at(n)) = n
  BY <1>5
<1>7. s = [n \in S |-> chunks[at(n)]]
  BY DEF Sort, precedes, rank
<1> HIDE DEF at
<1>8. ASSUME NEW k \in DOMAIN chunks PROVE \E n \in DOMAIN s : s[n] = chunks[k]
  <2>1. rank(k) \in S /\ at(rank(k)) = k
    BY <1>5, <1>6
  <2> QED BY <1>7, <2>1
<1>9. Chunks(s)
  <2>1. s \in [1 .. Len(chunks) -> {chunks[k] : k \in S}]
    BY <1>1, <1>6, <1>7
  <2>2. IsSequence(s) /\ DOMAIN s = S
    BY <1>1, <2>1, FunctionIsSequence
  <2>3. \A n \in DOMAIN s : \E k \in DOMAIN chunks : s[n] = chunks[k]
    BY <1>6, <1>7, <2>2
  <2> QED BY <2>2, <2>3 DEF Chunks
<1> QED BY <1>8, <1>9

\* An iterator moves past its first word only.
LEMMA NextEntryLeaves ==
  ASSUME NEW chunks, Chunks(chunks), chunks # << >>, NEW next, next = NextEntry(chunks)
  PROVE  /\ Chunks(next)
         /\ \A text : Have(chunks, text) =>
              text = chunks[1].entries[1].text \/ Have(next, text)
<1> DEFINE head == chunks[1]
           rest == Tail(head.entries)
           changed == [head EXCEPT !.entries = rest]
           moved == [chunks EXCEPT ![1] = changed]
<1>1. /\ Len(chunks) \in Nat \ {0} /\ DOMAIN chunks = 1 .. Len(chunks) /\ IsChunk(head)
      /\ head.entries # << >> /\ IsSequence(chunks)
  BY RestOf DEF Chunks
<1>2. /\ IsSequence(head.entries) /\ Len(head.entries) \in Nat \ {0}
      /\ DOMAIN head.entries = 1 .. Len(head.entries)
      /\ \A i \in 1 .. Len(head.entries) - 1 : rest[i] = head.entries[i + 1]
      /\ IsSequence(rest) /\ DOMAIN rest = 1 .. Len(head.entries) - 1
  BY <1>1, RestOf DEF IsChunk
<1> HIDE DEF rest
<1>3. ASSUME NEW i \in DOMAIN head.entries, i # 1
      PROVE  i - 1 \in DOMAIN rest /\ rest[i - 1] = head.entries[i]
  <2>1. i - 1 \in 1 .. Len(head.entries) - 1 /\ (i - 1) + 1 = i
    BY <1>2, <1>3
  <2> QED BY <1>2, <2>1
<1>4. CASE rest = << >>
  <2>1. next = Tail(chunks)
    BY <1>4 DEF NextEntry, rest
  <2>2. /\ IsSequence(next) /\ DOMAIN next = 1 .. Len(chunks) - 1
        /\ \A k \in 1 .. Len(chunks) - 1 : next[k] = chunks[k + 1]
    BY <1>1, <2>1, RestOf
  <2>3. Chunks(next)
    <3>1. \A k \in DOMAIN next : k + 1 \in DOMAIN chunks /\ next[k] = chunks[k + 1]
      BY <1>1, <2>2
    <3> QED BY <2>2, <3>1 DEF Chunks
  <2>4. ASSUME NEW text, Have(chunks, text), text # head.entries[1].text
        PROVE  Have(next, text)
    <3>1. PICK k \in DOMAIN chunks : ChunkHas(chunks[k], text)
      BY <2>4 DEF Have
    <3>2. k # 1
      <4>1. ASSUME k = 1 PROVE FALSE
        <5>1. PICK i \in DOMAIN head.entries : head.entries[i].text = text
          BY <3>1, <4>1 DEF ChunkHas
        <5>2. i - 1 \in DOMAIN rest
          BY <1>3, <2>4, <5>1
        <5> QED BY <1>4, <5>2
      <4> QED BY <4>1
    <3>3. k - 1 \in DOMAIN next /\ next[k - 1] = chunks[k]
      <4>1. k - 1 \in 1 .. Len(chunks) - 1 /\ (k - 1) + 1 = k
        BY <1>1, <3>2
      <4> QED BY <2>2, <4>1
    <3> QED BY <3>1, <3>3 DEF Have
  <2> QED BY <2>3, <2>4
<1>5. CASE rest # << >>
  <2>1. next = Sort(moved)
    BY <1>5 DEF NextEntry, rest
  <2>2. IsSequence(moved) /\ DOMAIN moved = DOMAIN chunks /\ moved[1] = changed
        /\ \A k \in DOMAIN chunks : k # 1 => moved[k] = chunks[k]
    <3> HIDE DEF changed
    <3>1. 1 \in DOMAIN chunks
      BY <1>1
    <3> QED BY <1>1, <3>1, ChangedSequence
  <2>3. DOMAIN changed = DOMAIN head
        /\ \A g \in DOMAIN head : changed[g] = IF g = "entries" THEN rest ELSE head[g]
    BY FieldChanged
  <2> HIDE DEF changed
  <2>4. IsChunk(changed) /\ changed.entries = rest
    <3>1. {"remaining", "entries"} \subseteq DOMAIN head /\ head.remaining \in Nat
          /\ \A i \in DOMAIN head.entries : head.entries[i].weight \in Int
      BY <1>1 DEF IsChunk
    <3>2. changed.entries = rest /\ changed.remaining = head.remaining
      BY <2>3, <3>1
    <3>3. \A i \in DOMAIN rest : i + 1 \in DOMAIN head.entries /\ rest[i] = head.entries[i + 1]
      BY <1>2
    <3> QED BY <1>2, <2>3, <3>1, <3>2, <3>3 DEF IsChunk
  <2> HIDE DEF moved
  <2>5. Chunks(moved)
    <3>1. ASSUME NEW k \in DOMAIN moved PROVE IsChunk(moved[k]) /\ moved[k].entries # << >>
      <4>1. CASE k = 1
        BY <1>5, <2>2, <2>4, <4>1
      <4>2. CASE k # 1
        BY <2>2, <4>2 DEF Chunks
      <4> QED BY <4>1, <4>2
    <3> QED BY <2>2, <3>1 DEF Chunks
  <2>6. Chunks(next) /\ \A k \in DOMAIN moved : \E n \in DOMAIN next : next[n] = moved[k]
    BY <2>1, <2>5, Sorted
  <2>7. ASSUME NEW text, Have(chunks, text), text # head.entries[1].text
        PROVE  Have(next, text)
    <3>1. PICK k \in DOMAIN chunks : ChunkHas(chunks[k], text)
      BY <2>7 DEF Have
    <3>2. ChunkHas(moved[k], text)
      <4>1. CASE k = 1
        <5>1. PICK i \in DOMAIN head.entries : head.entries[i].text = text
          BY <3>1, <4>1 DEF ChunkHas
        <5>2. i - 1 \in DOMAIN rest /\ rest[i - 1].text = text
          BY <1>3, <2>7, <5>1
        <5> QED BY <2>2, <2>4, <4>1, <5>2 DEF ChunkHas
      <4>2. CASE k # 1
        BY <2>2, <3>1, <4>2
      <4> QED BY <4>1, <4>2
    <3>3. PICK n \in DOMAIN next : next[n] = moved[k]
      BY <2>2, <2>6
    <3> QED BY <3>2, <3>3 DEF Have
  <2> QED BY <2>6, <2>7
<1> QED BY <1>4, <1>5

-----------------------------------------------------------------------------
(* A lookup of more keys has all that one of fewer has, in the same places.    *)

\* A chunk that comes later has words that are not among the first.
LEMMA CellsAdded ==
  ASSUME NEW chunks, Chunks(chunks), NEW m \in 0 .. Len(chunks), NEW n \in m .. Len(chunks)
  PROVE  /\ Cardinality(Cells(chunks, m)) <= Cardinality(Cells(chunks, n))
         /\ m < n => Cardinality(Cells(chunks, m)) < Cardinality(Cells(chunks, n))
<1>1. /\ IsSequence(chunks) /\ \A k \in DOMAIN chunks : IsSequence(chunks[k].entries)
      /\ n \in 0 .. Len(chunks) /\ Len(chunks) \in Nat /\ DOMAIN chunks = 1 .. Len(chunks)
  BY DEF Chunks, IsChunk, IsSequence
<1>2. /\ IsFiniteSet(Cells(chunks, n)) /\ Cardinality(Cells(chunks, n)) \in Nat
      /\ Cardinality(Cells(chunks, m)) \in Nat
  BY <1>1, CellsFinite
<1>3. Cells(chunks, m) \in SUBSET Cells(chunks, n)
  <2>1. 1 .. m \subseteq 1 .. n
    BY <1>1
  <2> QED BY <2>1 DEF Cells
<1>4. /\ Cardinality(Cells(chunks, m)) <= Cardinality(Cells(chunks, n))
      /\ Cardinality(Cells(chunks, n)) = Cardinality(Cells(chunks, m))
           => Cells(chunks, n) = Cells(chunks, m)
  BY <1>2, <1>3, FS_Subset
<1>5. ASSUME m < n PROVE Cells(chunks, n) # Cells(chunks, m)
  <2>1. n \in DOMAIN chunks /\ n \in 1 .. n /\ n \notin 1 .. m
    BY <1>1, <1>5
  <2>2. 1 \in DOMAIN chunks[n].entries
    BY <2>1, FirstWord DEF Chunks
  <2>3. << n, 1 >> \in Cells(chunks, n)
    BY <2>1, <2>2 DEF Cells
  <2>4. << n, 1 >> \notin Cells(chunks, m)
    BY <2>1 DEF Cells
  <2> QED BY <2>3, <2>4
<1> QED BY <1>2, <1>4, <1>5

LEMMA LookedUp ==
  ASSUME NEW keys, IsSequence(keys), \A k \in DOMAIN keys : IsChunk(keys[k]),
         NEW limit \in Nat, NEW found, found = LookupWords(keys, limit)
  PROVE  /\ Chunks(found) /\ EntryCount(found) \in Nat
         /\ \A k \in DOMAIN keys : \A text :
              k <= limit /\ ChunkHas(keys[k], text) => Have(found, text)
<1> DEFINE S == {k \in WithWords(keys) : k <= limit}
<1>1. /\ Len(keys) \in Nat /\ DOMAIN keys = 1 .. Len(keys) /\ S \subseteq DOMAIN keys
  BY DEF IsSequence, WithWords
<1>2. found = Kept(keys, S)
  BY DEF LookupWords
<1>3. \A k \in S : keys[k].entries # << >>
  BY DEF WithWords
<1>4. ASSUME NEW k \in DOMAIN keys, NEW text, k <= limit, ChunkHas(keys[k], text)
      PROVE  k \in S
  <2>1. keys[k].entries # << >>
    BY <1>4 DEF ChunkHas
  <2> QED BY <1>4, <2>1 DEF WithWords
<1> HIDE DEF S
<1>5. /\ Cardinality(S) \in Nat
      /\ found \in [1 .. Cardinality(S) -> {keys[i] : i \in S}]
      /\ \A i \in S : /\ Rank(S, i) \in 1 .. Cardinality(S) /\ found[Rank(S, i)] = keys[i]
  BY <1>1, <1>2, KeptAt
<1>6. IsSequence(found) /\ DOMAIN found = 1 .. Cardinality(S)
  BY <1>5, FunctionIsSequence
<1>7. Chunks(found)
  <2>1. \A n \in DOMAIN found : \E i \in S : found[n] = keys[i]
    BY <1>5, <1>6
  <2> QED BY <1>1, <1>3, <1>6, <2>1 DEF Chunks
<1>8. EntryCount(found) \in Nat
  <2>1. Len(found) \in 0 .. Len(found) /\ \A k \in DOMAIN found : IsSequence(found[k].entries)
    BY SMTT(20), <1>6, <1>7 DEF IsSequence, Chunks, IsChunk
  <2> QED BY ZenonT(30), <1>6, <2>1, CellsFinite, CellsCounted
<1>9. ASSUME NEW k \in DOMAIN keys, NEW text, k <= limit, ChunkHas(keys[k], text)
      PROVE  Have(found, text)
  <2>1. Rank(S, k) \in DOMAIN found /\ found[Rank(S, k)] = keys[k]
    BY <1>4, <1>5, <1>6, <1>9
  <2> QED BY <1>9, <2>1 DEF Have
<1> QED BY <1>7, <1>8, <1>9

LEMMA MoreLookedUp ==
  ASSUME NEW keys, IsSequence(keys), \A k \in DOMAIN keys : IsChunk(keys[k]),
         NEW limit \in Nat, NEW further \in Nat, limit <= further,
         NEW less, less = LookupWords(keys, limit),
         NEW more, more = LookupWords(keys, further)
  PROVE  /\ Len(less) \in 0 .. Len(more) /\ \A n \in 1 .. Len(less) : more[n] = less[n]
         /\ \A k \in WithWords(keys) : limit < k /\ k <= further =>
              \E m \in DOMAIN more : m > Len(less) /\ more[m] = keys[k]
<1> DEFINE S == {k \in WithWords(keys) : k <= limit}
           T == {k \in WithWords(keys) : k <= further}
<1>1. /\ Len(keys) \in Nat /\ DOMAIN keys = 1 .. Len(keys) /\ S \subseteq T
      /\ T \subseteq DOMAIN keys /\ T \subseteq Nat
  BY DEF IsSequence, WithWords
<1>2. less = Kept(keys, S) /\ more = Kept(keys, T)
  BY DEF LookupWords
<1>3. ASSUME NEW i \in S PROVE Rank(S, i) = Rank(T, i)
  <2>1. {j \in S : j <= i} = {j \in T : j <= i}
    BY <1>1
  <2> HIDE DEF S, T
  <2> QED BY <2>1 DEF Rank
<1>4. \A i \in S, k \in T : k > limit => i <= k /\ i # k
  BY <1>1
<1>5. \A k \in WithWords(keys) : k <= further => k \in T
  OBVIOUS
<1>6. \A k \in S : k <= limit
  OBVIOUS
<1>7. IsFiniteSet(T)
  <2>1. IsFiniteSet(1 .. Len(keys))
    BY <1>1, FS_Interval
  <2> HIDE DEF T
  <2> QED BY <1>1, <2>1, FS_Subset
<1> HIDE DEF S, T
<1>8. S \subseteq DOMAIN keys
  BY <1>1
<1>9. /\ Cardinality(S) \in Nat /\ less \in [1 .. Cardinality(S) -> {keys[i] : i \in S}]
      /\ \A i \in S : /\ Rank(S, i) \in 1 .. Cardinality(S) /\ less[Rank(S, i)] = keys[i]
      /\ \A n \in 1 .. Cardinality(S) : \E i \in S : Rank(S, i) = n
  BY <1>1, <1>2, <1>8, KeptAt
<1>10. /\ Cardinality(T) \in Nat /\ more \in [1 .. Cardinality(T) -> {keys[i] : i \in T}]
       /\ \A i \in T : /\ Rank(T, i) \in 1 .. Cardinality(T) /\ more[Rank(T, i)] = keys[i]
  BY <1>1, <1>2, KeptAt
<1>11. /\ Len(less) = Cardinality(S) /\ Len(more) = Cardinality(T)
       /\ DOMAIN more = 1 .. Cardinality(T)
  BY <1>9, <1>10, FunctionIsSequence
<1>12. Cardinality(S) <= Cardinality(T) /\ IsFiniteSet(S)
  BY <1>1, <1>7, FS_Subset
<1>13. ASSUME NEW n \in 1 .. Len(less) PROVE more[n] = less[n]
  <2>1. PICK i \in S : Rank(S, i) = n
    BY <1>9, <1>11
  <2>2. less[n] = keys[i] /\ more[n] = keys[i]
    BY <1>1, <1>3, <1>9, <1>10, <2>1
  <2> QED BY <2>2
<1>14. ASSUME NEW k \in WithWords(keys), limit < k, k <= further
       PROVE  \E m \in DOMAIN more : m > Len(less) /\ more[m] = keys[k]
  <2> DEFINE upto == {j \in T : j <= k}
  <2>1. k \in T /\ k \notin S
    BY <1>1, <1>5, <1>6, <1>14
  <2>2. S \cup {k} \in SUBSET upto /\ upto \in SUBSET T
    BY <1>1, <1>4, <1>14, <2>1
  <2>3. Rank(T, k) = Cardinality(upto) /\ IsFiniteSet(upto)
    BY <1>7, <2>2, FS_Subset DEF Rank
  <2> HIDE DEF upto
  <2>4. Cardinality(S \cup {k}) = Cardinality(S) + 1
    BY <1>12, <2>1, FS_AddElement
  <2>5. Cardinality(S) + 1 <= Rank(T, k)
    BY <2>2, <2>3, <2>4, FS_Subset
  <2>6. Rank(T, k) \in DOMAIN more /\ more[Rank(T, k)] = keys[k]
    BY <1>10, <1>11, <2>1
  <2> QED BY <1>9, <1>11, <2>5, <2>6
<1> QED BY <1>9, <1>10, <1>11, <1>12, <1>13, <1>14

\* What follows an item of a list
LEMMA Suffix ==
  ASSUME NEW s, IsSequence(s), NEW m \in Nat \ {0}
  PROVE  /\ IsSequence(SubSeq(s, m, Len(s)))
         /\ \A i \in DOMAIN SubSeq(s, m, Len(s)) :
              \E j \in DOMAIN s : SubSeq(s, m, Len(s))[i] = s[j]
<1>1. PICK S : s \in Seq(S)
  BY SequenceOf
<1>2. Len(s) \in Nat /\ DOMAIN s = 1 .. Len(s)
  BY <1>1
<1>3. CASE m <= Len(s)
  <2>1. s # << >> /\ m \in 1 .. Len(s)
    BY <1>1, <1>2, <1>3
  <2>2. /\ IsSequence(SubSeq(s, m, Len(s))) /\ DOMAIN SubSeq(s, m, Len(s)) = 1 .. Len(s) - m + 1
        /\ \A i \in 1 .. Len(s) - m + 1 : SubSeq(s, m, Len(s))[i] = s[m + i - 1]
    BY <2>1, RestOf
  <2>3. \A i \in 1 .. Len(s) - m + 1 : m + i - 1 \in DOMAIN s
    BY <1>2, <1>3
  <2> QED BY <2>2, <2>3
<1>4. CASE ~ (m <= Len(s))
  <2>1. SubSeq(s, m, Len(s)) = << >>
    BY <1>1, <1>2, <1>4
  <2>2. DOMAIN << >> = {}
    OBVIOUS
  <2> QED BY <2>1, <2>2, EmptySequence
<1> QED BY <1>3, <1>4

\* Skipping no more words than the first p chunks have leaves all others.
LEMMA SkipLeaves ==
  ASSUME NEW chunks, Chunks(chunks), NEW p \in 0 .. Len(chunks),
         NEW n \in Nat, n <= Cardinality(Cells(chunks, p)), NEW rest, rest = Skip(chunks, n)
  PROVE  /\ Chunks(rest)
         /\ \A m \in DOMAIN chunks : m > p =>
              \E j \in DOMAIN rest : rest[j].entries = chunks[m].entries
<1> DEFINE skipped(k) == n - EntryCount(SubSeq(chunks, 1, k - 1))
           left(k) == IF skipped(k) <= 0 THEN chunks[k].entries
                      ELSE SubSeq(chunks[k].entries, skipped(k) + 1, Len(chunks[k].entries))
           cut == [k \in DOMAIN chunks |-> [chunks[k] EXCEPT !.entries = left(k)]]
           S == WithWords(cut)
<1>1. /\ Len(chunks) \in Nat /\ DOMAIN chunks = 1 .. Len(chunks) /\ IsSequence(chunks)
      /\ \A k \in DOMAIN chunks : IsChunk(chunks[k]) /\ IsSequence(chunks[k].entries)
  BY DEF Chunks, IsSequence, IsChunk
<1>2. rest = Kept(cut, S)
  BY DEF Skip
<1>3. ASSUME NEW k \in DOMAIN chunks
      PROVE  skipped(k) \in Int /\ (k > p => skipped(k) <= 0)
  <2>1. k - 1 \in 0 .. Len(chunks)
    BY <1>1
  <2>2. EntryCount(SubSeq(chunks, 1, k - 1)) = Cardinality(Cells(chunks, k - 1))
    BY <1>1, <2>1, CellsCounted
  <2>3. Cardinality(Cells(chunks, k - 1)) \in Nat /\ Cardinality(Cells(chunks, p)) \in Nat
    BY <1>1, <2>1, CellsFinite
  <2>4. k > p => k - 1 \in p .. Len(chunks)
    BY <1>1
  <2>5. k > p => Cardinality(Cells(chunks, p)) <= Cardinality(Cells(chunks, k - 1))
    BY <2>4, CellsAdded
  <2> QED BY <2>2, <2>3, <2>5
<1> HIDE DEF skipped
<1>4. ASSUME NEW k \in DOMAIN chunks
      PROVE  /\ IsSequence(left(k))
             /\ \A i \in DOMAIN left(k) : \E j \in DOMAIN chunks[k].entries :
                  left(k)[i] = chunks[k].entries[j]
  <2>1. CASE skipped(k) <= 0
    BY <1>1, <2>1
  <2>2. CASE ~ (skipped(k) <= 0)
    <3>1. skipped(k) + 1 \in Nat \ {0}
      BY <1>3, <2>2
    <3> QED BY <1>1, <2>2, <3>1, Suffix
  <2> QED BY <2>1, <2>2
<1>5. \A k \in DOMAIN chunks : k > p => left(k) = chunks[k].entries
  BY <1>3
<1> HIDE DEF left
<1>6. ASSUME NEW k \in DOMAIN chunks PROVE IsChunk(cut[k]) /\ cut[k].entries = left(k)
  <2> DEFINE c == chunks[k]
             d == [c EXCEPT !.entries = left(k)]
  <2>1. cut[k] = d
    OBVIOUS
  <2>2. DOMAIN d = DOMAIN c /\ \A g \in DOMAIN c : d[g] = IF g = "entries" THEN left(k) ELSE c[g]
    BY FieldChanged
  <2>3. IsChunk(c)
    BY <1>1
  <2> HIDE DEF c, d, cut
  <2>4. d.entries = left(k) /\ d.remaining = c.remaining
    BY <2>2, <2>3 DEF IsChunk
  <2>5. \A i \in DOMAIN left(k) : left(k)[i].weight \in Int
    BY <1>4, <2>3 DEF IsChunk, c
  <2> QED BY <1>4, <2>1, <2>2, <2>3, <2>4, <2>5 DEF IsChunk
<1>7. DOMAIN cut = 1 .. Len(chunks) /\ Len(cut) = Len(chunks) /\ S \subseteq DOMAIN cut
  <2>1. cut \in [1 .. Len(chunks) -> {cut[k] : k \in DOMAIN chunks}] /\ S \subseteq DOMAIN cut
    BY <1>1 DEF WithWords
  <2> HIDE DEF cut, S
  <2> QED BY <1>1, <2>1, FunctionIsSequence
<1>8. \A k \in DOMAIN chunks : k \in S <=> cut[k].entries # << >>
  BY <1>1, <1>7 DEF WithWords
<1> HIDE DEF cut, S
<1>9. /\ Cardinality(S) \in Nat
      /\ rest \in [1 .. Cardinality(S) -> {cut[i] : i \in S}]
      /\ \A i \in S : /\ Rank(S, i) \in 1 .. Cardinality(S) /\ rest[Rank(S, i)] = cut[i]
  BY <1>1, <1>2, <1>7, KeptAt
<1>10. IsSequence(rest) /\ DOMAIN rest = 1 .. Cardinality(S)
  BY <1>9, FunctionIsSequence
<1>11. Chunks(rest)
  <2>1. \A m \in DOMAIN rest : \E i \in S : rest[m] = cut[i]
    BY <1>9, <1>10
  <2>2. \A i \in S : IsChunk(cut[i]) /\ cut[i].entries # << >>
    BY <1>1, <1>6, <1>7, <1>8
  <2> QED BY <1>10, <2>1, <2>2 DEF Chunks
<1>12. ASSUME NEW m \in DOMAIN chunks, m > p
       PROVE  \E j \in DOMAIN rest : rest[j].entries = chunks[m].entries
  <2>1. cut[m].entries = chunks[m].entries
    BY <1>5, <1>6, <1>12
  <2>2. m \in S
    BY <1>8, <2>1 DEF Chunks
  <2> QED BY <1>9, <1>10, <2>1, <2>2
<1> QED BY <1>11, <1>12

-----------------------------------------------------------------------------
(* What a generator still has                                               *)

Remains(t, text) ==
  IF t.kind = "lazy"
  THEN \/ Have(t.iter, text)
       \/ t.limit > 0 /\ \E k \in DOMAIN t.keys : k > t.limit /\ ChunkHas(t.keys[k], text)
  ELSE /\ \E i \in DOMAIN t.items : t.items[i].text = text
       /\ t.kind = "r10n" => text \notin t.seen

Looking(t) ==
  /\ {"keys", "iter", "limit", "count", "done"} \subseteq DOMAIN t
  /\ IsSequence(t.keys) /\ (\A k \in DOMAIN t.keys : IsChunk(t.keys[k])) /\ NoGap(t.keys)
  /\ Chunks(t.iter) /\ t.limit \in Nat
  /\ t.limit > 0 => /\ t.limit >= kInitialSearchLimit
                    /\ t.count = EntryCount(LookupWords(t.keys, t.limit))
  /\ ~ t.done => t.iter # << >>

\* What an expanded search gains
LEMMA Fetched ==
  ASSUME NEW t, Looking(t), t.limit > 0,
         NEW limit, limit = t.limit * kExpandingFactor,
         NEW more, more = LookupWords(t.keys, limit),
         NEW text, NEW k \in DOMAIN t.keys, k > t.limit, ChunkHas(t.keys[k], text)
  PROVE  /\ limit \in Nat /\ limit >= t.limit /\ EntryCount(more) > t.count
         /\ Chunks(Skip(more, t.count))
         /\ k <= limit => Have(Skip(more, t.count), text)
<1> DEFINE less == LookupWords(t.keys, t.limit)
           p == Len(less)
<1>1. limit \in Nat /\ limit >= t.limit
  <2>1. \A a, b \in Nat : b > 0 => a * b \in Nat /\ a * b >= a
    OBVIOUS
  <2>2. t.limit \in Nat /\ kExpandingFactor \in Nat /\ kExpandingFactor > 0
    BY LimitAssumption DEF Looking
  <2> QED BY <2>1, <2>2
<1>2. /\ IsSequence(t.keys) /\ \A l \in DOMAIN t.keys : IsChunk(t.keys[l])
      /\ t.limit \in Nat /\ t.count = EntryCount(less) /\ t.limit >= kInitialSearchLimit
  BY DEF Looking
<1>3. Chunks(less) /\ EntryCount(less) \in Nat /\ Chunks(more) /\ EntryCount(more) \in Nat
  BY <1>1, <1>2, LookedUp
<1>4. /\ p \in 0 .. Len(more) /\ \A n \in 1 .. p : more[n] = less[n]
      /\ \A l \in WithWords(t.keys) : t.limit < l /\ l <= limit =>
              \E m \in DOMAIN more : m > p /\ more[m] = t.keys[l]
  BY <1>1, <1>2, MoreLookedUp
<1>5. k \in WithWords(t.keys)
  BY DEF ChunkHas, WithWords
<1> HIDE DEF less
<1>6. Len(more) \in Nat /\ p \in Nat /\ IsSequence(more) /\ IsSequence(less) /\ DOMAIN more = 1 .. Len(more)
  BY <1>3, <1>4 DEF Chunks, IsSequence
<1>7. t.count = Cardinality(Cells(more, p)) /\ EntryCount(more) = Cardinality(Cells(more, Len(more)))
  <2>1. Cells(more, p) = Cells(less, p)
    BY <1>4 DEF Cells
  <2>2. EntryCount(less) = Cardinality(Cells(less, p))
    BY <1>6, CellsCounted
  <2>3. EntryCount(more) = Cardinality(Cells(more, Len(more)))
    BY <1>6, CellsCounted
  <2> QED BY <1>2, <2>1, <2>2, <2>3
<1>8. EntryCount(more) > t.count
  <2>1. PICK l \in WithWords(t.keys) : t.limit < l /\ l <= limit
    BY <1>2, <1>5 DEF Looking, NoGap, WithWords, IsSequence
  <2>2. p < Len(more)
    BY <1>4, <1>6, <2>1
  <2>3. Len(more) \in p .. Len(more)
    BY <1>6, <2>2
  <2>4. Cardinality(Cells(more, p)) < Cardinality(Cells(more, Len(more)))
    BY <1>3, <1>4, <2>2, <2>3, CellsAdded
  <2> QED BY <1>2, <1>3, <1>7, <2>4
<1>9. t.count \in Nat /\ t.count <= Cardinality(Cells(more, p))
  BY <1>2, <1>3, <1>7
<1>10. /\ Chunks(Skip(more, t.count))
       /\ \A m \in DOMAIN more : m > p =>
              \E j \in DOMAIN Skip(more, t.count) :
                Skip(more, t.count)[j].entries = more[m].entries
  BY SMTT(20), <1>3, <1>4, <1>9, SkipLeaves
<1>11. ASSUME k <= limit PROVE Have(Skip(more, t.count), text)
  <2>1. PICK m \in DOMAIN more : m > p /\ more[m] = t.keys[k]
    BY <1>4, <1>5, <1>11
  <2>2. PICK j \in DOMAIN Skip(more, t.count) :
          Skip(more, t.count)[j].entries = t.keys[k].entries
    BY <1>10, <2>1
  <2> QED BY <2>2 DEF Have, ChunkHas
<1> QED BY <1>1, <1>8, <1>10, <1>11

Holds(t) ==
  /\ t.done => \A text : ~ Remains(t, text)
  /\ t.kind = "lazy" => Looking(t)
  /\ t.kind = "r10n" => "seen" \in DOMAIN t

LEMMA NextLazyLeaves ==
  ASSUME NEW t, HasForm(t), Holds(t), t.kind = "lazy", ~ t.done, NEW u, u = NextLazy(t)
  PROVE  /\ Holds(u)
         /\ \A text : Remains(t, text) => text = Peek(t).text \/ Remains(u, text)
<1> DEFINE next == NextEntry(t.iter)
           fields == {"keys", "iter", "limit", "count", "done"}
           word == t.iter[1].entries[1].text
<1>1. u.kind = "lazy"
  BY LazyGoesOn DEF GoneOn
<1>2. Looking(t) /\ fields \subseteq DOMAIN t /\ t.iter # << >> /\ t.limit \in Nat
  BY DEF Holds, Looking
<1>3. /\ Chunks(next)
      /\ \A text : Have(t.iter, text) => text = word \/ Have(next, text)
  BY <1>2, NextEntryLeaves DEF Looking
<1>4. Peek(t).text = word
  BY DEF Peek, Candidate
<1>5. \A text : ~ Have(<< >>, text)
  BY DEF Have
<1> HIDE DEF next, fields, word
<1>6. ASSUME ~ (t.limit > 0 /\ next = << >>)
      PROVE  /\ Holds(u)
             /\ \A text : Remains(t, text) => text = word \/ Remains(u, text)
  <2> DEFINE a == [t EXCEPT !.iter = next]
             b == [a EXCEPT !.done = next = << >>]
  <2>1. u = b
    BY <1>6 DEF NextLazy, next
  <2>2. DOMAIN a = DOMAIN t /\ \A g \in DOMAIN t : a[g] = IF g = "iter" THEN next ELSE t[g]
    BY FieldChanged
  <2> HIDE DEF a
  <2>3. DOMAIN b = DOMAIN a /\ \A g \in DOMAIN a : b[g] = IF g = "done" THEN next = << >> ELSE a[g]
    BY FieldChanged
  <2> HIDE DEF b
  <2>4. /\ fields \subseteq DOMAIN u /\ u.keys = t.keys /\ u.limit = t.limit
        /\ u.count = t.count /\ u.iter = next
    BY <1>2, <2>1, <2>2, <2>3 DEF fields
  <2>5. u.done = (next = << >>)
    BY <1>2, <2>1, <2>2, <2>3 DEF fields
  <2>6. u.done <=> next = << >>
    BY <2>5, Zenon
  <2>7. Looking(u)
    BY <1>2, <1>3, <2>4, <2>6 DEF Looking, fields
  <2>8. ASSUME u.done, NEW text PROVE ~ Remains(u, text)
    <3>1. next = << >> /\ u.limit = 0
      BY <1>2, <1>6, <2>4, <2>6, <2>8
    <3> QED BY <1>1, <1>5, <2>4, <3>1 DEF Remains
  <2>9. ASSUME NEW text, Remains(t, text) PROVE text = word \/ Remains(u, text)
    BY <1>1, <1>3, <2>4, <2>9 DEF Remains
  <2> QED BY <1>1, <2>7, <2>8, <2>9 DEF Holds
<1>7. ASSUME t.limit > 0, next = << >>
      PROVE  /\ Holds(u)
             /\ \A text : Remains(t, text) => text = word \/ Remains(u, text)
  <2> DEFINE limit == t.limit * kExpandingFactor
             more == LookupWords(t.keys, limit)
             gained == EntryCount(more) > t.count
             iter == IF gained THEN Skip(more, t.count) ELSE << >>
             far == IF Len(t.keys) < limit THEN 0 ELSE limit
             count == IF gained THEN EntryCount(more) ELSE t.count
             a == [t EXCEPT !.limit = far]
             b == [a EXCEPT !.count = count]
             c == [b EXCEPT !.iter = iter]
             d == [c EXCEPT !.done = iter = << >>]
  <2>1. u = d
    <3>1. u = FetchMore(t)
      BY <1>7 DEF NextLazy, next
    <3>2. b = [t EXCEPT !.limit = far, !.count = IF gained THEN EntryCount(more) ELSE @]
      BY <1>2 DEF fields
    <3>3. FetchMore(t) = d
      BY <3>2 DEF FetchMore
    <3> QED BY <3>1, <3>3
  <2>2. limit \in Nat /\ limit >= kInitialSearchLimit /\ t.limit <= limit
    <3>1. \A n, m \in Nat : m > 0 => n * m \in Nat /\ n * m >= n
      OBVIOUS
    <3>2. /\ t.limit \in Nat /\ t.limit >= kInitialSearchLimit /\ kInitialSearchLimit \in Nat
          /\ kExpandingFactor \in Nat /\ kExpandingFactor > 0
      BY <1>2, <1>7, LimitAssumption DEF Looking
    <3>3. limit \in Nat /\ limit >= t.limit
      BY <3>1, <3>2
    <3> HIDE DEF limit
    <3> QED BY <3>2, <3>3
  <2>3. IsSequence(t.keys) /\ \A k \in DOMAIN t.keys : IsChunk(t.keys[k])
    BY <1>2 DEF Looking
  <2> HIDE DEF far, iter, count
  <2>4. DOMAIN a = DOMAIN t /\ \A g \in DOMAIN t : a[g] = IF g = "limit" THEN far ELSE t[g]
    BY FieldChanged
  <2> HIDE DEF a
  <2>5. DOMAIN b = DOMAIN a /\ \A g \in DOMAIN a : b[g] = IF g = "count" THEN count ELSE a[g]
    BY FieldChanged
  <2> HIDE DEF b
  <2>6. DOMAIN c = DOMAIN b /\ \A g \in DOMAIN b : c[g] = IF g = "iter" THEN iter ELSE b[g]
    BY FieldChanged
  <2> HIDE DEF c
  <2>7. DOMAIN d = DOMAIN c /\ \A g \in DOMAIN c : d[g] = IF g = "done" THEN iter = << >> ELSE c[g]
    BY FieldChanged
  <2> HIDE DEF d
  <2>8. /\ fields \subseteq DOMAIN u /\ u.keys = t.keys /\ u.limit = far
        /\ u.count = count /\ u.iter = iter
    BY <1>2, <2>1, <2>4, <2>5, <2>6, <2>7 DEF fields
  <2>9. u.done = (iter = << >>)
    BY <1>2, <2>1, <2>4, <2>5, <2>6, <2>7 DEF fields
  <2>10. u.done <=> iter = << >>
    BY <2>9, Zenon
  <2>11. far \in Nat /\ (far > 0 => far = limit /\ limit <= Len(t.keys))
    <3> HIDE DEF limit
    <3>1. Len(t.keys) \in Nat
      BY <2>3 DEF IsSequence
    <3> QED BY <2>2, <3>1 DEF far
  <2>12. ASSUME NEW k \in DOMAIN t.keys, k > t.limit, NEW text, ChunkHas(t.keys[k], text)
         PROVE  /\ gained /\ Chunks(iter)
                /\ (k <= limit => Have(iter, text))
    <3>1. /\ gained /\ Chunks(Skip(more, t.count))
          /\ (k <= limit => Have(Skip(more, t.count), text))
      <4> HIDE DEF limit, more
      <4> QED BY <1>2, <1>7, <2>12, Fetched DEF limit, more
    <3> QED BY <3>1 DEF iter
  <2>13. ASSUME NEW k \in WithWords(t.keys) PROVE \E text : ChunkHas(t.keys[k], text)
    <3>1. k \in DOMAIN t.keys /\ t.keys[k].entries # << >>
      BY DEF WithWords
    <3>2. 1 \in DOMAIN t.keys[k].entries
      BY <2>3, <3>1, FirstWord
    <3> QED BY <3>2 DEF ChunkHas
  <2>14. CASE \E k \in WithWords(t.keys) : k > t.limit
    <3>1. PICK k \in WithWords(t.keys) : t.limit < k /\ k <= limit
      BY <1>2, <1>7, <2>14 DEF Looking, NoGap, WithWords, IsSequence
    <3>2. PICK text : ChunkHas(t.keys[k], text)
      BY <2>13
    <3>3. k \in DOMAIN t.keys /\ k > t.limit
      BY <1>2, <3>1 DEF WithWords, Looking, IsSequence
    <3>4. gained /\ Chunks(iter) /\ Have(iter, text)
      <4> HIDE DEF gained, limit
      <4> QED BY <2>12, <3>1, <3>2, <3>3
    <3>5. iter # << >> /\ count = EntryCount(more)
      BY <1>5, <3>4 DEF count
    <3>6. Looking(u)
      <4>1. far > 0 => count = EntryCount(LookupWords(t.keys, far)) /\ far >= kInitialSearchLimit
        BY <2>2, <2>11, <3>5
      <4> HIDE DEF limit, more, gained
      <4> QED BY <1>2, <2>8, <2>11, <3>4, <3>5, <4>1 DEF Looking, fields
    <3>7. ~ u.done
      BY <2>10, <3>5
    <3>8. ASSUME NEW other, Remains(t, other) PROVE other = word \/ Remains(u, other)
      <4>1. CASE Have(t.iter, other)
        BY <1>3, <1>5, <1>7, <4>1
      <4>2. ASSUME NEW l \in DOMAIN t.keys, l > t.limit, ChunkHas(t.keys[l], other)
            PROVE  Remains(u, other)
        <5>1. l \in Nat /\ Len(t.keys) \in Nat /\ l <= Len(t.keys) /\ limit \in Nat
          BY <2>2, <2>3 DEF IsSequence
        <5>2. CASE l <= limit
          <6>1. Have(iter, other)
            <7> HIDE DEF limit, gained
            <7> QED BY <2>12, <4>2, <5>2
          <6> QED BY <1>1, <2>8, <6>1 DEF Remains
        <5>3. CASE l > limit
          <6>1. limit > 0 /\ far = limit
            <7> HIDE DEF limit
            <7>1. kInitialSearchLimit \in Nat /\ kInitialSearchLimit > 0
              BY LimitAssumption
            <7> QED BY <2>2, <5>1, <5>3, <7>1 DEF far
          <6>2. l > far /\ far > 0
            <7> HIDE DEF limit
            <7> QED BY <5>3, <6>1
          <6> QED BY <1>1, <2>8, <4>2, <6>2 DEF Remains
        <5> HIDE DEF limit
        <5> QED BY <5>1, <5>2, <5>3
      <4> QED BY <3>8, <4>1, <4>2 DEF Remains
    <3> QED BY <1>1, <3>6, <3>7, <3>8 DEF Holds
  <2>15. CASE ~ \E k \in WithWords(t.keys) : k > t.limit
    <3>1. more = LookupWords(t.keys, t.limit)
      <4>1. \A k \in WithWords(t.keys) : k \in Nat /\ k <= t.limit /\ t.limit <= limit
        <5> HIDE DEF limit
        <5>1. \A k \in WithWords(t.keys) : k \in Nat
          BY <2>3 DEF WithWords, IsSequence
        <5> QED BY <1>2, <2>2, <2>15, <5>1
      <4>2. {k \in WithWords(t.keys) : k <= limit} = {k \in WithWords(t.keys) : k <= t.limit}
        <5> HIDE DEF limit
        <5> QED BY <1>2, <2>2, <4>1
      <4> HIDE DEF limit
      <4> QED BY <4>2 DEF LookupWords
    <3>2. t.count = EntryCount(more) /\ EntryCount(more) \in Nat
      BY <1>2, <1>7, <2>3, <3>1, LookedUp DEF Looking
    <3>3. iter = << >> /\ count = EntryCount(more)
      <4> HIDE DEF more
      <4> QED BY <3>2 DEF iter, count
    <3>4. Looking(u)
      <4>1. far > 0 => count = EntryCount(LookupWords(t.keys, far)) /\ far >= kInitialSearchLimit
        BY <2>2, <2>11, <3>3
      <4>2. Chunks(<< >>)
        BY EmptySequence DEF Chunks
      <4> HIDE DEF limit, more, gained
      <4> QED BY <1>2, <2>8, <2>10, <2>11, <3>3, <4>1, <4>2 DEF Looking, fields
    <3>5. ASSUME NEW k \in DOMAIN t.keys, NEW text, ChunkHas(t.keys[k], text) PROVE ~ (k > t.limit)
      BY <2>15, <3>5 DEF WithWords, ChunkHas
    <3>6. ASSUME NEW k \in DOMAIN t.keys, NEW text, ChunkHas(t.keys[k], text) PROVE ~ (far > 0 /\ k > far)
      <4>1. k \in Nat /\ t.limit \in Nat
        BY <1>2, <2>3 DEF IsSequence
      <4>2. ~ (k > t.limit)
        BY <3>5, <3>6
      <4> HIDE DEF limit
      <4> QED BY <2>2, <2>11, <4>1, <4>2
    <3>7. \A text : ~ Remains(u, text)
      BY <1>1, <1>5, <2>8, <3>3, <3>6 DEF Remains
    <3>8. ASSUME NEW other, Remains(t, other) PROVE other = word
      <4>1. Have(t.iter, other)
        BY <3>5, <3>8 DEF Remains
      <4> QED BY <1>3, <1>5, <1>7, <4>1
    <3> QED BY <1>1, <3>4, <3>7, <3>8 DEF Holds
  <2> QED BY <2>14, <2>15
<1> QED BY <1>4, <1>6, <1>7

LEMMA NextR10nLeaves ==
  ASSUME NEW t, HasForm(t), Holds(t), t.kind = "r10n", ~ t.done, NEW u, u = NextR10n(t)
  PROVE  /\ Holds(u)
         /\ \A text : Remains(t, text) => text = Peek(t).text \/ Remains(u, text)
<1> DEFINE seen == t.seen \cup {t.items[1].text}
           new == {i \in 2 .. Len(t.items) : t.items[1].type = "sentence"
                                                \/ t.items[i].text \notin seen}
           rest == IF new = {} THEN << >> ELSE SubSeq(t.items, Min(new), Len(t.items))
           a == [t EXCEPT !.seen = seen]
           b == [a EXCEPT !.items = rest]
           c == [b EXCEPT !.done = rest = << >>]
<1>1. u = c
  BY DEF NextR10n
<1>2. /\ {"kind", "filtered", "done", "items", "seen"} \subseteq DOMAIN t
      /\ IsSequence(t.items) /\ t.items # << >>
  BY DEF HasForm, Holds
<1>3. Len(t.items) \in Nat \ {0} /\ DOMAIN t.items = 1 .. Len(t.items)
  BY <1>2, RestOf
<1>4. ASSUME NEW i \in new PROVE \E j \in DOMAIN rest : rest[j] = t.items[i]
  <2> DEFINE n == Min(new)
  <2>1. PICK l \in new : \A k \in new : l <= k
    <3>1. new \subseteq Nat /\ new # {}
      BY <1>3
    <3> HIDE DEF new
    <3> QED BY <3>1, Least
  <2>2. n \in new /\ n <= i
    <3> HIDE DEF new
    <3> QED BY <2>1 DEF Min
  <2>3. n \in 1 .. Len(t.items) /\ i \in 1 .. Len(t.items)
    <3> HIDE DEF n
    <3> QED BY <1>3, <2>2
  <2>4. rest = SubSeq(t.items, n, Len(t.items))
    OBVIOUS
  <2> HIDE DEF rest, n, new
  <2>5. /\ DOMAIN rest = 1 .. Len(t.items) - n + 1
        /\ \A j \in 1 .. Len(t.items) - n + 1 : rest[j] = t.items[n + j - 1]
    BY <1>2, <2>3, <2>4, RestOf
  <2>6. i - n + 1 \in 1 .. Len(t.items) - n + 1 /\ n + (i - n + 1) - 1 = i
    BY <1>3, <2>2, <2>3
  <2> QED BY <2>5, <2>6
<1>5. ASSUME NEW i \in DOMAIN t.items, t.items[i].text \notin seen PROVE i \in new
  <2>1. i # 1
    BY <1>5
  <2> QED BY <1>3, <1>5, <2>1
<1> HIDE DEF rest, new
<1>6. DOMAIN a = DOMAIN t /\ \A g \in DOMAIN t : a[g] = IF g = "seen" THEN seen ELSE t[g]
  BY FieldChanged
<1> HIDE DEF a
<1>7. DOMAIN b = DOMAIN a /\ \A g \in DOMAIN a : b[g] = IF g = "items" THEN rest ELSE a[g]
  BY FieldChanged
<1> HIDE DEF b
<1>8. DOMAIN c = DOMAIN b /\ \A g \in DOMAIN b : c[g] = IF g = "done" THEN rest = << >> ELSE b[g]
  BY FieldChanged
<1> HIDE DEF c
<1>9. /\ "seen" \in DOMAIN u /\ u.kind = "r10n" /\ u.seen = seen /\ u.items = rest
      /\ u.done = (rest = << >>)
  BY <1>1, <1>2, <1>6, <1>7, <1>8
<1>10. u.done <=> rest = << >>
  BY <1>9, Zenon
<1>11. Holds(u)
  <2>1. DOMAIN << >> = {}
    OBVIOUS
  <2> QED BY <1>9, <1>10, <2>1 DEF Holds, Remains
<1>12. ASSUME NEW text, Remains(t, text), text # Peek(t).text PROVE Remains(u, text)
  <2>1. PICK i \in DOMAIN t.items : t.items[i].text = text /\ text \notin t.seen
    BY <1>12 DEF Remains
  <2>2. text \notin seen
    BY <1>12, <2>1 DEF Peek
  <2>3. PICK j \in DOMAIN rest : rest[j] = t.items[i]
    BY <1>4, <1>5, <2>1, <2>2
  <2> HIDE DEF seen
  <2> QED BY <1>9, <2>1, <2>2, <2>3 DEF Remains
<1> QED BY <1>11, <1>12

LEMMA StepLeaves ==
  ASSUME NEW t, HasForm(t), Holds(t), t.kind # "echo", ~ t.done, NEW u, u = Step(t)
  PROVE  /\ Holds(u) /\ GoneOn(t, u)
         /\ \A text : Remains(t, text) => text = Peek(t).text \/ Remains(u, text)
<1>1. CASE t.kind = "lazy"
  BY <1>1, NextLazyLeaves, StepGoesOn DEF Step
<1>2. CASE t.kind = "r10n"
  BY <1>2, NextR10nLeaves, StepGoesOn DEF Step
<1>3. CASE t.kind \notin {"lazy", "r10n"}
  <2> DEFINE a == [t EXCEPT !.items = Tail(t.items)]
             c == [a EXCEPT !.done = Len(t.items) = 1]
  <2>1. u = c
    BY <1>3 DEF Step
  <2>2. /\ {"kind", "filtered", "done", "items"} \subseteq DOMAIN t
        /\ IsSequence(t.items) /\ t.items # << >>
    BY <1>3 DEF HasForm
  <2>3. DOMAIN a = DOMAIN t /\ \A g \in DOMAIN t : a[g] = IF g = "items" THEN Tail(t.items) ELSE t[g]
    BY FieldChanged
  <2> HIDE DEF a
  <2>4. DOMAIN c = DOMAIN a /\ \A g \in DOMAIN a : c[g] = IF g = "done" THEN Len(t.items) = 1 ELSE a[g]
    BY FieldChanged
  <2> HIDE DEF c
  <2>5. u.kind = t.kind /\ u.items = Tail(t.items) /\ u.done = (Len(t.items) = 1)
    BY <2>1, <2>2, <2>3, <2>4
  <2>6. u.done <=> Len(t.items) = 1
    BY <2>5, Zenon
  <2>7. /\ Len(t.items) \in Nat \ {0} /\ DOMAIN t.items = 1 .. Len(t.items)
        /\ DOMAIN u.items = 1 .. Len(t.items) - 1
        /\ \A i \in 1 .. Len(t.items) - 1 : u.items[i] = t.items[i + 1]
    BY <2>2, <2>5, RestOf
  <2>8. ASSUME u.done, NEW text PROVE ~ Remains(u, text)
    <3>1. DOMAIN u.items = {}
      BY <2>6, <2>7, <2>8
    <3> QED BY <1>3, <2>5, <3>1 DEF Remains
  <2>9. Holds(u)
    BY <1>3, <2>5, <2>8 DEF Holds
  <2>10. ASSUME NEW text, Remains(t, text), text # Peek(t).text PROVE Remains(u, text)
    <3>1. PICK i \in DOMAIN t.items : t.items[i].text = text
      BY <1>3, <2>10 DEF Remains
    <3>2. i # 1
      BY <1>3, <2>10, <3>1 DEF Peek
    <3>3. i - 1 \in 1 .. Len(t.items) - 1 /\ (i - 1) + 1 = i
      BY <2>7, <3>2
    <3>4. i - 1 \in DOMAIN u.items /\ u.items[i - 1].text = text
      BY <2>7, <3>1, <3>3
    <3> QED BY <1>3, <2>5, <3>4 DEF Remains
  <2> QED BY <1>3, <2>9, <2>10, StepGoesOn
<1> QED BY <1>1, <1>2, <1>3

\* A charset filter passes over rejected texts only.
Withheld(t, text) == t.filtered /\ text \in Extended

LEMMA PassingLeaves ==
  ASSUME NEW t, HasForm(t), Holds(t), t.kind # "echo", NEW run, Passing(t, run), NEW n \in Nat
  PROVE  /\ HasForm(run[n]) /\ Holds(run[n]) /\ run[n].kind = t.kind
         /\ run[n].filtered = t.filtered
         /\ \A text : Remains(t, text) => Withheld(t, text) \/ Remains(run[n], text)
<1> DEFINE good(m) ==
             /\ HasForm(run[m]) /\ Holds(run[m]) /\ run[m].kind = t.kind
             /\ run[m].filtered = t.filtered
             /\ \A text : Remains(t, text) => Withheld(t, text) \/ Remains(run[m], text)
           bad == {m \in Nat : ~ good(m)}
<1>1. ASSUME bad # {} PROVE FALSE
  <2>1. PICK m \in bad : \A k \in bad : m <= k
    <3>1. bad \subseteq Nat
      OBVIOUS
    <3> HIDE DEF bad
    <3> QED BY <1>1, <3>1, Least
  <2>2. m \in Nat /\ ~ good(m)
    BY <2>1
  <2>3. CASE m = 0
    <3>1. run[m] = t
      BY <2>3 DEF Passing
    <3> QED BY <2>2, <3>1
  <2>4. CASE m # 0
    <3>1. m - 1 \in Nat /\ m - 1 \notin bad
      BY <2>1, <2>2, <2>4
    <3>2. good(m - 1)
      <4> HIDE DEF good
      <4> QED BY <3>1
    <3> DEFINE v == run[m - 1]
    <3>3. run[m] = PassOver(v)
      BY <2>2, <2>4 DEF Passing
    <3>4. /\ HasForm(v) /\ Holds(v) /\ v.kind = t.kind /\ v.filtered = t.filtered
          /\ \A text : Remains(t, text) => Withheld(t, text) \/ Remains(v, text)
      BY <3>2
    <3> HIDE DEF v
    <3>5. CASE Settled(v)
      <4>1. run[m] = v
        BY <3>3, <3>5 DEF PassOver
      <4> QED BY <2>2, <3>4, <4>1
    <3>6. CASE ~ Settled(v)
      <4>1. ~ v.done /\ run[m] = Step(v) /\ v.filtered /\ Peek(v).text \in Extended
        BY <3>3, <3>6 DEF PassOver, Settled, Passed
      <4>2. /\ Holds(run[m]) /\ GoneOn(v, run[m])
            /\ \A text : Remains(v, text) => text = Peek(v).text \/ Remains(run[m], text)
        BY <3>4, <4>1, StepLeaves
      <4>3. \A text : Remains(t, text) => Withheld(t, text) \/ Remains(run[m], text)
        BY <3>4, <4>1, <4>2 DEF Withheld
      <4> QED BY <2>2, <3>4, <4>2, <4>3 DEF GoneOn
    <3> QED BY <3>5, <3>6
  <2> QED BY <2>3, <2>4
<1>2. n \notin bad
  BY <1>1
<1>3. good(n)
  <2> HIDE DEF good
  <2> QED BY <1>2
<1> QED BY <1>3

LEMMA LocatedLeaves ==
  ASSUME NEW t, HasForm(t), Holds(t), t.kind # "echo", NEW u, u = LocateNextCandidate(t)
  PROVE  /\ Holds(u) /\ u.kind = t.kind /\ u.filtered = t.filtered
         /\ \A text : Remains(t, text) => Withheld(t, text) \/ Remains(u, text)
<1> DEFINE last == IF t.kind = "lazy" THEN EntryCount(t.keys) ELSE Len(t.items)
<1>1. PICK run : Passing(t, run) /\ LocateNextCandidate(t) = run[last]
  BY Locating
<1>2. last \in Nat
  <2>1. CASE t.kind = "lazy"
    BY <2>1, CountOfEntries DEF HasForm
  <2>2. CASE t.kind # "lazy"
    BY <2>2 DEF HasForm, IsSequence
  <2> QED BY <2>1, <2>2
<1> HIDE DEF last
<1> QED BY <1>1, <1>2, PassingLeaves

LEMMA AdvancedLeaves ==
  ASSUME NEW t, HasForm(t), Holds(t), t.kind # "echo", ~ t.done, NEW u, u = Advance(t)
  PROVE  /\ Holds(u) /\ u.filtered = t.filtered
         /\ \A text : Remains(t, text) =>
              text = Peek(t).text \/ Withheld(t, text) \/ Remains(u, text)
<1> DEFINE s == Step(t)
           T == {LocateNextCandidate(r) : r \in {s}}
<1>1. u = LocateNextCandidate(s)
  <2>1. T = {LocateNextCandidate(s)}
    OBVIOUS
  <2>2. u = CHOOSE v \in T : TRUE
    BY DEF Advance
  <2> HIDE DEF T, s
  <2> QED BY <2>1, <2>2
<1>2. /\ Holds(s) /\ GoneOn(t, s)
      /\ \A text : Remains(t, text) => text = Peek(t).text \/ Remains(s, text)
  BY StepLeaves
<1> HIDE DEF s
<1>3. HasForm(s) /\ s.kind = t.kind /\ s.filtered = t.filtered
  BY <1>2 DEF GoneOn
<1>4. /\ Holds(u) /\ u.filtered = s.filtered
      /\ \A text : Remains(s, text) => Withheld(s, text) \/ Remains(u, text)
  BY <1>1, <1>2, <1>3, LocatedLeaves
<1> QED BY <1>2, <1>3, <1>4 DEF Withheld

LEMMA LazyBegins ==
  ASSUME NEW keys, IsSequence(keys), \A k \in DOMAIN keys : IsChunk(keys[k]), NoGap(keys),
         NEW end \in Nat, NEW t, t \in {Lazy(keys, end), CharsetFilter(Lazy(keys, end))},
         ~ t.done
  PROVE  /\ Holds(t)
         /\ \A k \in DOMAIN keys : \A text :
              ChunkHas(keys[k], text) => Remains(t, text) \/ Withheld(t, text)
<1> DEFINE iter == LookupWords(keys, kInitialSearchLimit)
           fields == {"kind", "keys", "end", "iter", "limit", "count", "done", "filtered"}
           Begun(u) == /\ fields \subseteq DOMAIN u /\ u.kind = "lazy" /\ u.keys = keys
                       /\ u.end = end /\ u.iter = iter /\ u.limit = kInitialSearchLimit
                       /\ u.count = EntryCount(iter) /\ u.done = (iter = << >>)
           a == Lazy(keys, end)
           b == [a EXCEPT !.filtered = TRUE]
<1>1. Begun(a) /\ a.filtered = FALSE
  BY DEF Lazy
<1>2. Begun(b) /\ b.filtered = TRUE
  <2> HIDE DEF a
  <2>1. DOMAIN b = DOMAIN a /\ \A g \in DOMAIN a : b[g] = IF g = "filtered" THEN TRUE ELSE a[g]
    BY FieldChanged
  <2> HIDE DEF b
  <2> QED BY <1>1, <2>1
<1> HIDE DEF a, b
<1>3. kInitialSearchLimit \in Nat \ {0}
  BY LimitAssumption
<1>4. Chunks(iter) /\ \A l \in DOMAIN keys : \A x :
        l <= kInitialSearchLimit /\ ChunkHas(keys[l], x) => Have(iter, x)
  BY <1>3, LookedUp
<1>5. DOMAIN keys \subseteq Nat /\ \A l \in DOMAIN keys : IsSequence(keys[l].entries)
  BY DEF IsSequence, IsChunk
<1>6. ASSUME NEW u, Begun(u), ~ u.done
      PROVE  /\ HasForm(u) /\ Holds(u) /\ u.kind # "echo"
             /\ \A k \in DOMAIN keys : \A text : ChunkHas(keys[k], text) => Remains(u, text)
  <2>1. iter # << >>
    BY <1>6
  <2> HIDE DEF iter
  <2>2. HasForm(u)
    BY <1>5, <1>6 DEF HasForm
  <2>3. Looking(u)
    BY <1>3, <1>4, <1>6, <2>1 DEF Looking, iter
  <2>4. Holds(u)
    BY <1>6, <2>3 DEF Holds
  <2>5. ASSUME NEW k \in DOMAIN keys, NEW text, ChunkHas(keys[k], text) PROVE Remains(u, text)
    BY <1>3, <1>4, <1>5, <1>6, <2>5 DEF Remains
  <2> QED BY <1>6, <2>2, <2>4, <2>5
<1> HIDE DEF Begun
<1>7. CASE t = a
  BY <1>1, <1>6, <1>7
<1>8. CASE t = CharsetFilter(a)
  <2>1. t = LocateNextCandidate(b)
    BY <1>8 DEF CharsetFilter, b
  <2>2. HasForm(b)
    BY <1>2, <1>5 DEF Begun, HasForm
  <2>3. ~ b.done
    BY <2>1, <2>2, Located
  <2>4. /\ Holds(b) /\ b.kind # "echo"
        /\ \A k \in DOMAIN keys : \A text : ChunkHas(keys[k], text) => Remains(b, text)
    BY <1>2, <1>6, <2>3
  <2> QED BY <1>2, <2>1, <2>2, <2>4, LocatedLeaves DEF Withheld
<1> QED BY <1>7, <1>8 DEF a

LEMMA OfferedHolds ==
  ASSUME Gapless, recipe \in Recipes, NEW i \in DOMAIN recipe, recipe[i].kind # "echo"
  PROVE  /\ Holds(recipe[i])
         /\ \A text \in Contents(recipe[i]) : Remains(recipe[i], text)
<1> DEFINE t == recipe[i]
<1>1. IsGenerator(t) /\ t.kind # "echo" /\ (t.kind = "lazy" => NoGap(t.keys))
  BY OfferAssumption DEF Gapless
<1> HIDE DEF t
<1>2. CASE t.kind = "lazy"
  <2>1. /\ t.end \in Nat /\ IsSequence(t.keys) /\ (\A k \in DOMAIN t.keys : IsChunk(t.keys[k]))
        /\ t \in {Lazy(t.keys, t.end), CharsetFilter(Lazy(t.keys, t.end))} /\ ~ t.done
    BY <1>1, <1>2 DEF IsGenerator
  <2>2. /\ Holds(t)
        /\ \A k \in DOMAIN t.keys : \A text :
             ChunkHas(t.keys[k], text) => Remains(t, text) \/ Withheld(t, text)
    BY <1>1, <1>2, <2>1, LazyBegins
  <2>3. ASSUME NEW text \in Contents(t) PROVE Remains(t, text)
    <3>1. text \in Words(t) /\ (t.filtered => text \notin Extended)
      BY DEF Contents
    <3>2. PICK k \in DOMAIN t.keys : \E j \in DOMAIN t.keys[k].entries :
            t.keys[k].entries[j].text = text
      BY <1>2, <3>1 DEF Words, ToSet
    <3> QED BY <2>2, <3>1, <3>2 DEF ChunkHas, Withheld
  <2> QED BY <2>2, <2>3 DEF t
<1>3. CASE t.kind # "lazy"
  <2>1. /\ IsSequence(t.items) /\ ~ t.done /\ t.items # << >>
        /\ t.kind = "r10n" => /\ "seen" \in DOMAIN t
                              /\ t.seen \subseteq IF t.filtered THEN Extended ELSE {}
    BY <1>1, <1>3 DEF IsGenerator
  <2>2. Holds(t)
    BY <1>3, <2>1 DEF Holds
  <2>3. ASSUME NEW text \in Contents(t) PROVE Remains(t, text)
    <3>1. text \in Words(t) /\ (t.filtered => text \notin Extended)
      BY DEF Contents
    <3>2. PICK j \in DOMAIN t.items : t.items[j].text = text
      BY <1>3, <3>1 DEF Words, ToSet
    <3>3. t.kind = "r10n" => text \notin t.seen
      BY <2>1, <3>1
    <3> QED BY <1>3, <3>2, <3>3 DEF Remains
  <2> QED BY <1>3, <2>2, <2>3 DEF t
<1> QED BY <1>2, <1>3 DEF t

-----------------------------------------------------------------------------
(* Nothing is lost                                                          *)

Covered(text) == \A form \in FormsOf(text) : \E c \in Shown : c.text = form
Awaited(text) ==
  \E i \in DOMAIN translations :
    /\ translations[i].kind # "echo" /\ Remains(translations[i], text)
    /\ ~ Withheld(translations[i], text)
RestInv ==
  /\ \A i \in DOMAIN translations : translations[i].kind # "echo" => Holds(translations[i])
  /\ \A text \in Offered : Covered(text) \/ Awaited(text)

\* The menu keeps what it has, and gets each form of what is provided.
LEMMA RecruitCovers ==
  ASSUME IInv, Recruit
  PROVE  /\ \A text : Covered(text) => Covered(text)'
         /\ \A text :
              /\ ~ translations[Provider].done
              /\ text = Peek(translations[Provider]).text
              => Covered(text)'
<1> DEFINE t == translations[Provider]
           c == Peek(t)
           cs == Simplifier(c)
<1>1. UNCHANGED simplification
  BY DEF Recruit, offered
<1>2. \A text : FormsOf(text)' = FormsOf(text)
  BY <1>1 DEF FormsOf
<1>3. Entries(candidates) /\ OneEach(candidates)
  BY DEF IInv, NoDuplicates, OneEach
<1>4. CASE t.done
  <2>1. UNCHANGED candidates
    BY <1>4, Recruited
  <2>2. Shown' = Shown
    BY <2>1 DEF Shown
  <2> QED BY <1>2, <1>4, <2>2 DEF Covered
<1>5. CASE ~ t.done
  <2>1. candidates' = Uniquifier(candidates, cs) /\ Different(cs)
    BY <1>5, Recruited, Simplified
  <2> HIDE DEF cs
  <2>2. /\ \A i \in DOMAIN candidates :
             i \in DOMAIN candidates' /\ candidates'[i].first = candidates[i].first
        /\ \A b \in DOMAIN cs : \E j \in DOMAIN candidates' :
             candidates'[j].first.text = cs[b].text
    <3>1. PICK r, u : r = candidates /\ u = candidates'
      OBVIOUS
    <3>2. Entries(r) /\ OneEach(r) /\ u = Uniquifier(r, cs)
      BY <1>3, <2>1, <3>1
    <3>3. /\ Entries(u) /\ Len(r) <= Len(u)
          /\ \A j \in DOMAIN u :
               IF j <= Len(r)
               THEN j \in DOMAIN r /\ u[j].first = r[j].first
               ELSE \E i \in DOMAIN cs : u[j].first = cs[i]
          /\ \A i \in DOMAIN cs : \E j \in DOMAIN u : u[j].first.text = cs[i].text
      BY SMTT(20), <2>1, <3>2, Uniquified
    <3>4. /\ Len(r) \in Nat /\ DOMAIN r = 1 .. Len(r)
          /\ Len(u) \in Nat /\ DOMAIN u = 1 .. Len(u)
      BY <3>2, <3>3 DEF Entries
    <3>5. \A i \in DOMAIN r : i \in DOMAIN u /\ i <= Len(r)
      BY <3>3, <3>4
    <3> QED BY <3>1, <3>3, <3>5
  <2>3. \A d \in Shown : d \in Shown'
    BY <2>2 DEF Shown
  <2>4. ASSUME NEW form \in FormsOf(c.text) PROVE \E b \in DOMAIN cs : cs[b].text = form
    <3>1. CASE simplification /\ c.text \in DOMAIN Forms
      <4>1. PICK b \in DOMAIN Forms[c.text] : form = Forms[c.text][b]
        BY <2>4, <3>1 DEF FormsOf, ToSet
      <4>2. cs = [i \in DOMAIN Forms[c.text] |-> Candidate(Forms[c.text][i], c.end, c.type)]
        BY <3>1 DEF cs, Simplifier
      <4>3. b \in DOMAIN cs /\ cs[b] = Candidate(form, c.end, c.type)
        BY <4>1, <4>2
      <4> QED BY <4>3 DEF Candidate
    <3>2. CASE ~ (simplification /\ c.text \in DOMAIN Forms)
      <4>1. form = c.text /\ cs = << c >>
        BY <2>4, <3>2 DEF FormsOf, cs, Simplifier
      <4>2. 1 \in DOMAIN cs /\ cs[1] = c
        BY <4>1
      <4> QED BY <4>1, <4>2
    <3> QED BY <3>1, <3>2
  <2>5. \A form \in FormsOf(c.text) : \E d \in Shown' : d.text = form
    <3>1. \A j \in DOMAIN candidates' : candidates'[j].first \in Shown'
      BY DEF Shown
    <3> HIDE DEF c
    <3> QED BY <2>2, <2>4, <3>1
  <2>6. ASSUME NEW text, text = c.text PROVE Covered(text)'
    <3>1. \A form \in FormsOf(text) : \E d \in Shown' : d.text = form
      BY <2>5, <2>6
    <3> HIDE DEF c
    <3> QED BY <1>2, <3>1 DEF Covered
  <2>7. ASSUME NEW text, Covered(text) PROVE Covered(text)'
    BY <1>2, <2>3, <2>7 DEF Covered
  <2> QED BY <2>6, <2>7
<1> QED BY <1>4, <1>5

\* Who is not dropped is still there.
LEMMA StillThere ==
  ASSUME IInv, OrderInv, Recruit, NEW j \in DOMAIN translations
  PROVE  IF j # Provider
         THEN \E i \in DOMAIN translations' : translations'[i] = Asked(Provider - 1)[j]
         ELSE \/ translations[j].done \/ Advance(translations[j]).done
              \/ \E i \in DOMAIN translations' : translations'[i] = Advance(translations[j])
<1> DEFINE k == Provider
           asked == Asked(k - 1)
           t == translations[k]
<1>1. /\ k \in DOMAIN translations /\ Len(translations) \in Nat
      /\ DOMAIN translations = 1 .. Len(translations)
  BY ProviderWins, Recruited
<1>2. /\ IsSequence(asked) /\ DOMAIN asked = DOMAIN translations
      /\ Len(asked) = Len(translations)
  BY AskedSequence DEF IInv
<1> HIDE DEF asked
<1>3. CASE translations' = RemoveAt(asked, k) /\ (t.done \/ Advance(t).done)
  <2>1. /\ IsSequence(translations') /\ Len(translations') = Len(translations) - 1
    BY <1>1, <1>2, <1>3, RemovedSequence
  <2>2. DOMAIN translations' = 1 .. Len(translations) - 1
    BY <2>1 DEF IsSequence
  <2>3. \A i \in DOMAIN translations' :
          IF i < k THEN translations'[i] = asked[i] ELSE translations'[i] = asked[i + 1]
    BY <1>1, <1>2, <1>3, RemovedEach
  <2>4. CASE j = k
    BY <1>3, <2>4
  <2>5. CASE j < k
    <3>1. j \in DOMAIN translations' /\ j # k
      BY <1>1, <2>2, <2>5
    <3> QED BY <2>3, <2>5, <3>1 DEF asked
  <2>6. CASE j > k
    <3>1. j - 1 \in DOMAIN translations' /\ ~ (j - 1 < k) /\ (j - 1) + 1 = j /\ j # k
      BY <1>1, <2>2, <2>6
    <3>2. translations'[j - 1] = asked[j]
      BY <2>3, <3>1
    <3> QED BY <3>1, <3>2 DEF asked
  <2> QED BY <1>1, <2>4, <2>5, <2>6
<1>4. CASE translations' = [asked EXCEPT ![k] = Advance(t)]
  BY <1>1, <1>2, <1>4 DEF asked
<1> QED BY <1>3, <1>4, Recruited DEF asked

LEMMA RecruitRest ==
  ASSUME IInv, OrderInv, RestInv, Recruit PROVE RestInv'
<1> DEFINE k == Provider
           t == translations[k]
<1>1. UNCHANGED recipe /\ k \in DOMAIN translations
  BY Recruited, ProviderWins
<1>2. \A i \in DOMAIN translations : HasForm(translations[i])
  BY DEF OrderInv
<1>3. ASSUME NEW i \in DOMAIN translations', translations'[i].kind # "echo"
      PROVE  Holds(translations'[i])
  <2>1. PICK j \in DOMAIN translations :
          /\ translations'[i].kind = translations[j].kind
          /\ \/ j # Provider /\ translations'[i] = Asked(Provider - 1)[j]
             \/ /\ j = Provider /\ ~ translations[j].done
                /\ translations'[i] = Advance(translations[j])
    BY LeftAfter
  <2>2. Holds(translations[j])
    BY <1>3, <2>1 DEF RestInv
  <2>3. CASE translations'[i] = Asked(Provider - 1)[j]
    BY <1>3, <2>1, <2>2, <2>3, AskedEach
  <2>4. CASE ~ translations[j].done /\ translations'[i] = Advance(translations[j])
    BY <1>2, <1>3, <2>1, <2>2, <2>4, AdvancedLeaves
  <2> QED BY <2>1, <2>3, <2>4
<1>4. ASSUME NEW text, Covered(text) \/ Awaited(text), ~ Covered(text)'
      PROVE  Awaited(text)'
  <2>1. ~ Covered(text) /\ (~ t.done => text # Peek(t).text)
    BY <1>4, RecruitCovers
  <2>2. PICK j \in DOMAIN translations :
          /\ translations[j].kind # "echo" /\ Remains(translations[j], text)
          /\ ~ Withheld(translations[j], text)
    BY <1>4, <2>1 DEF Awaited
  <2>3. Holds(translations[j]) /\ HasForm(translations[j]) /\ ~ translations[j].done
    BY <1>2, <2>2 DEF RestInv, Holds
  <2>4. CASE j # k
    <3>1. PICK i \in DOMAIN translations' : translations'[i] = Asked(Provider - 1)[j]
      BY <2>4, StillThere
    <3>2. translations'[i] = translations[j]
      BY <2>2, <3>1, AskedEach
    <3> QED BY <2>2, <3>2 DEF Awaited
  <2>5. CASE j = k
    <3> DEFINE u == Advance(t)
    <3>1. /\ Holds(u) /\ u.filtered = t.filtered
          /\ \A x : Remains(t, x) => x = Peek(t).text \/ Withheld(t, x) \/ Remains(u, x)
      BY <2>2, <2>3, <2>5, AdvancedLeaves
    <3>2. Remains(u, text) /\ ~ Withheld(u, text)
      BY <2>1, <2>2, <2>3, <2>5, <3>1 DEF Withheld
    <3>3. ~ u.done
      BY <3>1, <3>2 DEF Holds
    <3>4. PICK i \in DOMAIN translations' : translations'[i] = u
      BY <2>3, <2>5, <3>3, StillThere
    <3>5. u.kind = t.kind
      BY <2>3, <2>5, Advanced DEF GoneOn
    <3> QED BY <2>2, <2>5, <3>2, <3>4, <3>5 DEF Awaited
  <2> QED BY <2>4, <2>5
<1>5. Offered' = Offered
  BY <1>1 DEF Offered
<1> QED BY <1>3, <1>4, <1>5 DEF RestInv

LEMMA RestStep ==
  ASSUME IInv, OrderInv, RestInv, [Next]_vars PROVE RestInv'
<1>1. CASE FailToSelect
  <2>1. /\ UNCHANGED << recipe, simplification, candidates >>
        /\ translations' = Asked(Len(translations))
    BY <1>1 DEF FailToSelect, offered
  <2>2. DOMAIN translations' = DOMAIN translations
    BY <2>1, AskedSequence DEF IInv
  <2>3. \A i \in DOMAIN translations :
          /\ translations'[i].kind = translations[i].kind
          /\ translations[i].kind # "echo" => translations'[i] = translations[i]
    BY <2>1, AskedEach
  <2>4. \A text : Covered(text)' = Covered(text)
    BY <2>1 DEF Covered, FormsOf, Shown
  <2>5. \A text : Awaited(text) => Awaited(text)'
    BY <2>2, <2>3 DEF Awaited
  <2>6. Offered' = Offered
    BY <2>1 DEF Offered
  <2> QED BY <2>2, <2>3, <2>4, <2>5, <2>6 DEF RestInv
<1>2. CASE UNCHANGED << recipe, simplification, translations, candidates >>
  BY <1>2 DEF RestInv, Awaited, Covered, FormsOf, Shown, Offered
<1> QED
  BY <1>1, <1>2, RecruitRest DEF Next, Answer, vars, offered, PageUp, CursorUp, Home,
     PageDown, CursorDown, GetContext, SelectCandidateAt, TurnPage, MoveDown,
     SelectPrepared, CreatePage, Move, Request

LEMMA RestInit ==
  ASSUME Gapless, Init PROVE RestInv
<1>1. recipe \in Recipes /\ translations = recipe
  BY DEF Init
<1>2. ASSUME NEW text \in Offered PROVE Awaited(text)
  <2>1. PICK i \in DOMAIN recipe : recipe[i].kind # "echo" /\ text \in Contents(recipe[i])
    BY DEF Offered
  <2>2. Remains(recipe[i], text)
    BY <1>1, <2>1, OfferedHolds
  <2>3. ~ Withheld(recipe[i], text)
    BY <2>1 DEF Contents, Withheld
  <2> QED BY <1>1, <2>1, <2>2, <2>3 DEF Awaited
<1> QED BY <1>1, <1>2, OfferedHolds DEF RestInv

-----------------------------------------------------------------------------
(* Theorems                                                                 *)

\* Generators are only dropped from a menu, and a page has no more candidates than
\* the front end is told.
THEOREM TypeCorrect == Spec => []TypeOK
<1>1. IInv => TypeOK
  BY DEF IInv
<1> QED BY <1>1, Always, PTL

\* Whatever the generators offer, in whichever order they are asked, and whether or
\* not texts are simplified, no text is in the menu twice (uniquifier.cc).
THEOREM TextsAreUnique == Spec => []NoDuplicates
<1>1. IInv => NoDuplicates
  BY DEF IInv
<1> QED BY <1>1, Always, PTL

\* However the user moves in a menu that is still being prepared, the highlight is
\* on a candidate, and on the page that the front end shows (selector.cc, menu.cc).
THEOREM HighlightStays == Spec => []HighlightIsShown
<1>1. IInv => HighlightIsShown
  BY DEF IInv
<1> QED BY <1>1, Always, PTL

\* A menu that is merged from two generators never shows a shorter candidate before a
\* longer one, and never offers the input beside something else, however the user
\* moves while it is prepared (menu.cc, translation.cc, echo_translator.cc).
THEOREM MenuStaysInOrder == Spec => []MenuIsInOrder
<1>1. Init => IInv /\ OrderInv
  BY InitInv, OrderInit
<1>2. IInv /\ OrderInv /\ [Next]_vars => (IInv /\ OrderInv)'
  BY StepInv, OrderStep
<1>3. IInv /\ OrderInv => MenuIsInOrder
  <2> SUFFICES ASSUME IInv, OrderInv PROVE MenuIsInOrder
    OBVIOUS
  <2>1. EchoWhenAlone
    <3> SUFFICES ASSUME NEW i \in DOMAIN candidates, candidates[i].first.type = "raw"
                 PROVE  Len(candidates) = 1 /\ Offered = {}
      BY DEF EchoWhenAlone, Shown
    <3>1. Len(candidates) = 1 /\ Len(recipe) = 1 /\ recipe[1].kind = "echo"
      BY DEF OrderInv, InputAlone
    <3>2. DOMAIN recipe = 1 .. 1
      BY <3>1 DEF IInv, IsSequence
    <3>3. {j \in DOMAIN recipe : recipe[j].kind # "echo"} = {}
      BY <3>1, <3>2
    <3> QED BY <3>1, <3>3 DEF Offered
  <2>2. LongestFirst
    BY DEF OrderInv, LongestFirst, TwoOffered, Merged
  <2> QED BY <2>1, <2>2 DEF MenuIsInOrder
<1> QED BY <1>1, <1>2, <1>3, PTL DEF Spec

\* Whatever the generators offer, and in whichever order they are asked, the menu has
\* every text of every one of them once all are exhausted: none is lost between a page
\* of a lookup and the next, by a charset filter, or by the filters of the menu (menu.cc,
\* table_translator.cc, uniquifier.cc).  A lookup is given up when an expanded search
\* finds no more words, so this needs that each one finds some while there are any.
THEOREM AllIsOffered == ASSUME Gapless PROVE Spec => []NothingLost
<1>1. Init => IInv /\ OrderInv /\ RestInv
  BY InitInv, OrderInit, RestInit
<1>2. IInv /\ OrderInv /\ RestInv /\ [Next]_vars => (IInv /\ OrderInv /\ RestInv)'
  BY StepInv, OrderStep, RestStep
<1>3. IInv /\ OrderInv /\ RestInv => NothingLost
  <2> SUFFICES ASSUME RestInv, \A i \in DOMAIN translations : translations[i].done,
                      NEW text \in Offered
               PROVE  Covered(text)
    BY DEF NothingLost, Covered
  <2>1. ~ Awaited(text)
    BY DEF Awaited, RestInv, Holds
  <2> QED BY <2>1 DEF RestInv
<1> QED BY <1>1, <1>2, <1>3, PTL DEF Spec
=============================================================================

------------------------ MODULE SegmentationProofs ------------------------
(***************************************************************************)
(* Lemmas about Segmentation, for every input, menu and set of characters.  *)
(* A chain is a sequence of segments that are consecutive intervals from 0  *)
(* on, only the last one perhaps empty.  Every method of the segmentation   *)
(* and every segmentor takes chains to chains, and the two passes of the    *)
(* engine take a chain to one that ends where the input does.               *)
(***************************************************************************)
EXTENDS Segmentation, TLAPS, WellFoundedInduction, SequenceTheorems

\* The candidates of a segment end behind its start; the highlighted one is
\* among them, and does not reach beyond the segment. Those of a raw segment
\* are echoes of all of it.
Loose(seg) ==
  /\ seg.start <= seg.end
  /\ \A k \in DOMAIN seg.cands : seg.start < seg.cands[k]
  /\ seg.cands # << >> =>
       HasSelectedCandidate(seg) /\ SelectedEnd(seg) <= seg.end
  /\ "raw" \in seg.tags => \A k \in DOMAIN seg.cands : seg.cands[k] = seg.end

\* Once selected, the segment ends with that candidate; as long as there is a
\* choice, every candidate fits in it.
Fine(seg) ==
  /\ Loose(seg)
  /\ seg.status >= kSelected /\ seg.cands # << >> => SelectedEnd(seg) = seg.end
  /\ seg.status = kGuess => \A k \in DOMAIN seg.cands : seg.cands[k] <= seg.end

\* consecutive segments of an input of length n, from its beginning
Chain(segs, n) ==
  /\ segs \in Seq(Segment)
  /\ \A i \in 1 .. Len(segs) :
       /\ Fine(segs[i]) /\ segs[i].end <= n
       /\ segs[i].start = IF i = 1 THEN 0 ELSE segs[i - 1].end
       /\ i # Len(segs) => ~ IsEmpty(segs[i])

-----------------------------------------------------------------------------
(* Numbers                                                                  *)

\* A set of natural numbers has a least element.
LEMMA LeastNat ==
  ASSUME NEW S, S \subseteq Nat, S # {}
  PROVE  \E m \in S : \A k \in S : m <= k
<1>1. PICK m \in S : \A k \in S : ~ (<< k, m >> \in OpToRel(<, Nat))
  BY NatLessThanWellFounded, WFMin, Zenon
<1>2. ASSUME NEW k \in S PROVE m <= k
  <2>1. k \in Nat /\ m \in Nat /\ << k, m >> \in Nat \X Nat
    OBVIOUS
  <2>2. ~ (k < m)
    BY <1>1, <2>1 DEF OpToRel
  <2> QED BY <2>1, <2>2
<1> QED BY <1>2

\* A bounded set of natural numbers has a greatest element.
LEMMA GreatestNat ==
  ASSUME NEW n \in Nat, NEW S, S \subseteq 0 .. n, S # {}
  PROVE  \E m \in S : \A k \in S : k <= m
<1> DEFINE T == {j \in Nat : n - j \in S}
<1>1. T # {} /\ T \subseteq Nat
  <2>1. PICK k \in S : k \in 0 .. n
    OBVIOUS
  <2>2. n - k \in Nat /\ n - (n - k) = k
    BY <2>1
  <2> QED BY <2>1, <2>2
<1>2. PICK j \in T : \A i \in T : j <= i
  BY <1>1, LeastNat
<1>3. \A k \in S : n - k \in T /\ k \in Int
  <2> SUFFICES ASSUME NEW k \in S PROVE n - k \in T /\ k \in Int
    OBVIOUS
  <2>1. n - k \in Nat /\ n - (n - k) = k
    OBVIOUS
  <2> QED BY <2>1
<1>4. \A k \in S : k <= n - j
  <2> SUFFICES ASSUME NEW k \in S PROVE k <= n - j
    OBVIOUS
  <2>1. j <= n - k /\ j \in Int /\ k \in Int
    BY <1>2, <1>3
  <2> QED BY <2>1
<1> QED BY <1>2, <1>4

-----------------------------------------------------------------------------
(* Segments and sequences of them                                           *)

\* A new segment is well-formed: it has no candidates yet.
LEMMA NewSegmentFine ==
  ASSUME NEW s \in Nat, NEW e \in Nat, s <= e, NEW tags \in SUBSET Tags
  PROVE  /\ NewSegment(s, e, tags) \in Segment
         /\ Fine(NewSegment(s, e, tags))
BY DEF NewSegment, Segment, Status, kVoid, kConfirmed, Fine, Loose

\* Being well-formed does not depend on the tags, but for raw.
LEMMA FineSame ==
  ASSUME NEW seg, Fine(seg), NEW new,
         new.status = seg.status, new.start = seg.start, new.end = seg.end,
         new.cands = seg.cands, new.selected = seg.selected,
         "raw" \in new.tags => "raw" \in seg.tags
  PROVE  Fine(new)
<1>1. /\ HasSelectedCandidate(new) <=> HasSelectedCandidate(seg)
      /\ SelectedEnd(new) = SelectedEnd(seg)
  BY DEF HasSelectedCandidate, HasCandidateAt, SelectedEnd, CandidateEnd
<1> QED BY <1>1 DEF Fine, Loose

\* The last segment of a chain.
LEMMA BackOf ==
  ASSUME NEW n \in Nat, NEW segs, Chain(segs, n), segs # << >>
  PROVE  /\ Len(segs) \in Nat \ {0} /\ Back(segs) = segs[Len(segs)]
         /\ Back(segs) \in Segment /\ Fine(Back(segs)) /\ Back(segs).end <= n
         /\ Back(segs).start \in Nat /\ Back(segs).end \in Nat
<1>1. Len(segs) \in Nat \ {0} /\ Len(segs) \in 1 .. Len(segs)
  BY DEF Chain
<1>2. segs[Len(segs)] \in Segment /\ Fine(segs[Len(segs)]) /\ segs[Len(segs)].end <= n
  BY <1>1 DEF Chain
<1> QED BY <1>1, <1>2 DEF Back, Segment

\* What pop_back leaves of a chain is a chain,
LEMMA ChainFront ==
  ASSUME NEW n, NEW segs, Chain(segs, n), NEW m \in 0 .. Len(segs)
  PROVE  /\ Chain(SubSeq(segs, 1, m), n)
         /\ Len(SubSeq(segs, 1, m)) = m
         /\ \A i \in 1 .. m : SubSeq(segs, 1, m)[i] = segs[i]
<1>1. /\ SubSeq(segs, 1, m) \in Seq(Segment)
      /\ Len(SubSeq(segs, 1, m)) = m
      /\ \A i \in 1 .. m : SubSeq(segs, 1, m)[i] = segs[i]
  BY SubSeqProperties DEF Chain
<1>2. ASSUME NEW i \in 1 .. m
      PROVE  /\ Fine(SubSeq(segs, 1, m)[i]) /\ SubSeq(segs, 1, m)[i].end <= n
             /\ SubSeq(segs, 1, m)[i].start =
                  IF i = 1 THEN 0 ELSE SubSeq(segs, 1, m)[i - 1].end
             /\ i # m => ~ IsEmpty(SubSeq(segs, 1, m)[i])
  <2>1. i \in 1 .. Len(segs) /\ (i # 1 => i - 1 \in 1 .. m)
    BY DEF Chain
  <2> QED BY <1>1, <2>1 DEF Chain
<1> QED BY <1>1, <1>2 DEF Chain

\* The ends of a chain do not decrease.
LEMMA ChainMonotone ==
  ASSUME NEW n \in Nat, NEW segs, Chain(segs, n),
         NEW i \in 1 .. Len(segs), NEW j \in i .. Len(segs)
  PROVE  segs[i].end <= segs[j].end
<1>1. \A k \in 1 .. Len(segs) : segs[k].end \in Nat /\ segs[k].start \in Nat
  <2>1. \A k \in 1 .. Len(segs) : segs[k] \in Segment
    BY DEF Chain
  <2> QED BY <2>1 DEF Segment
<1>2. Len(segs) \in Nat
  BY DEF Chain
<1> DEFINE S == {k \in 1 .. j : segs[k].end > segs[j].end}
<1>3. SUFFICES ASSUME S # {} PROVE FALSE
  BY <1>1
<1>4. PICK k \in S : \A l \in S : l <= k
  <2>1. S \subseteq 0 .. j /\ j \in Nat
    BY <1>2
  <2> HIDE DEF S
  <2> QED BY <1>3, <2>1, GreatestNat
<1>5. k + 1 \in 1 .. j /\ k < j
  BY <1>1, <1>2, <1>4
<1>6. segs[k + 1].start = segs[k].end /\ segs[k + 1].start <= segs[k + 1].end
  BY <1>2, <1>4, <1>5 DEF Chain, Fine, Loose
<1>7. k + 1 \in S
  BY SMTT(20), <1>1, <1>2, <1>4, <1>5, <1>6
<1> QED BY <1>4, <1>7

\* The last segment may be replaced by one that starts where it did.
LEMMA ChainSetBack ==
  ASSUME NEW n \in Nat, NEW segs, Chain(segs, n), segs # << >>,
         NEW seg \in Segment, Fine(seg), seg.end <= n, seg.start = Back(segs).start
  PROVE  /\ Chain(SetBack(segs, seg), n)
         /\ SetBack(segs, seg) # << >> /\ Back(SetBack(segs, seg)) = seg
         /\ Len(SetBack(segs, seg)) = Len(segs)
<1>1. /\ SetBack(segs, seg) \in Seq(Segment)
      /\ Len(SetBack(segs, seg)) = Len(segs) /\ Len(segs) \in Nat \ {0}
      /\ \A i \in 1 .. Len(segs) :
           SetBack(segs, seg)[i] = IF i = Len(segs) THEN seg ELSE segs[i]
  BY BackOf DEF SetBack, Chain
<1>2. SetBack(segs, seg) # << >> /\ Back(SetBack(segs, seg)) = seg
  BY <1>1 DEF Back
<1>3. ASSUME NEW i \in 1 .. Len(segs)
      PROVE  LET s == SetBack(segs, seg)
             IN /\ Fine(s[i]) /\ s[i].end <= n
                /\ s[i].start = IF i = 1 THEN 0 ELSE s[i - 1].end
                /\ i # Len(segs) => ~ IsEmpty(s[i])
  <2>1. i # 1 => i - 1 \in 1 .. Len(segs) /\ i - 1 # Len(segs)
    BY <1>1
  <2>2. segs[i].start = IF i = 1 THEN 0 ELSE segs[i - 1].end
    BY DEF Chain
  <2>3. SetBack(segs, seg)[i].start = segs[i].start
    BY <1>1 DEF Back
  <2>4. i # 1 => SetBack(segs, seg)[i - 1] = segs[i - 1]
    BY <1>1, <2>1
  <2>5. Fine(segs[i]) /\ segs[i].end <= n /\ (i # Len(segs) => ~ IsEmpty(segs[i]))
    BY DEF Chain
  <2> QED BY <1>1, <2>2, <2>3, <2>4, <2>5
<1> QED BY <1>1, <1>2, <1>3 DEF Chain

\* A segment may follow where the last one, not empty, ends.
LEMMA ChainAppend ==
  ASSUME NEW n \in Nat, NEW segs, Chain(segs, n), NEW seg \in Segment, Fine(seg),
         seg.end <= n, seg.start = GetCurrentEndPosition(segs),
         segs # << >> => ~ IsEmpty(Back(segs))
  PROVE  /\ Chain(Append(segs, seg), n)
         /\ Append(segs, seg) # << >> /\ Back(Append(segs, seg)) = seg
<1>1. /\ Append(segs, seg) \in Seq(Segment)
      /\ Len(Append(segs, seg)) = Len(segs) + 1 /\ Len(segs) \in Nat
      /\ \A i \in 1 .. Len(segs) : Append(segs, seg)[i] = segs[i]
      /\ Append(segs, seg)[Len(segs) + 1] = seg
  BY DEF Chain
<1>2. seg.start = IF Len(segs) = 0 THEN 0 ELSE segs[Len(segs)].end
  BY DEF Chain, GetCurrentEndPosition, Back
<1>3. ASSUME NEW i \in 1 .. Len(segs) + 1
      PROVE  LET s == Append(segs, seg)
             IN /\ Fine(s[i]) /\ s[i].end <= n
                /\ s[i].start = IF i = 1 THEN 0 ELSE s[i - 1].end
                /\ i # Len(segs) + 1 => ~ IsEmpty(s[i])
  <2>1. CASE i = Len(segs) + 1
    <3>1. Append(segs, seg)[i] = seg /\ (i # 1 => Append(segs, seg)[i - 1] = segs[i - 1])
      BY <1>1, <2>1
    <3>2. seg.start = IF i = 1 THEN 0 ELSE segs[i - 1].end
      BY <1>1, <1>2, <2>1
    <3> QED BY <2>1, <3>1, <3>2
  <2>2. CASE i \in 1 .. Len(segs)
    <3>1. /\ Append(segs, seg)[i] = segs[i]
          /\ i # 1 => Append(segs, seg)[i - 1] = segs[i - 1]
      BY <1>1, <2>2
    <3>2. i = Len(segs) => ~ IsEmpty(segs[i])
      BY <1>1, <2>2 DEF Back, Chain
    <3> QED BY <2>2, <3>1, <3>2 DEF Chain
  <2> QED BY <1>1, <2>1, <2>2
<1> QED BY <1>1, <1>3 DEF Chain, Back

-----------------------------------------------------------------------------
(* The methods of Segmentation                                              *)

\* The current positions of Segmentation lie in the input.
LEMMA Positions ==
  ASSUME NEW n \in Nat, NEW segs, Chain(segs, n)
  PROVE  /\ GetCurrentStartPosition(segs) \in 0 .. n
         /\ GetCurrentEndPosition(segs) \in 0 .. n
         /\ GetCurrentStartPosition(segs) <= GetCurrentEndPosition(segs)
         /\ segs # << >> => /\ GetCurrentStartPosition(segs) = Back(segs).start
                            /\ GetCurrentEndPosition(segs) = Back(segs).end
BY BackOf DEF GetCurrentStartPosition, GetCurrentEndPosition, Fine, Loose

\* Forward begins an empty segment where the last one ends.
LEMMA ForwardChain ==
  ASSUME NEW n \in Nat, NEW segs, Chain(segs, n)
  PROVE  /\ Chain(Forward(segs), n)
         /\ GetCurrentStartPosition(Forward(segs)) = GetCurrentEndPosition(segs)
         /\ GetCurrentEndPosition(Forward(segs)) = GetCurrentEndPosition(segs)
         /\ Forward(segs) = << >> <=> segs = << >>
<1>1. CASE segs = << >>
  BY <1>1 DEF Forward, GetCurrentStartPosition, GetCurrentEndPosition
<1>2. CASE segs # << >> /\ IsEmpty(Back(segs))
  BY <1>2, Positions DEF Forward, IsEmpty
<1>3. CASE segs # << >> /\ ~ IsEmpty(Back(segs))
  <2> DEFINE new == NewSegment(Back(segs).end, Back(segs).end, {})
  <2>1. Forward(segs) = Append(segs, new)
    BY <1>3 DEF Forward
  <2>2. /\ new \in Segment /\ Fine(new)
        /\ new.start = Back(segs).end /\ new.end = Back(segs).end
    <3>1. Back(segs).end \in Nat /\ Back(segs).end <= Back(segs).end /\ {} \in SUBSET Tags
      BY <1>3, BackOf
    <3> QED BY <3>1, NewSegmentFine DEF NewSegment
  <2>3. new.end <= n /\ GetCurrentEndPosition(segs) = Back(segs).end
    BY <1>3, <2>2, BackOf, Positions
  <2> HIDE DEF new
  <2>4. /\ Chain(Append(segs, new), n) /\ Append(segs, new) # << >>
        /\ Back(Append(segs, new)) = new
    BY <1>3, <2>2, <2>3, ChainAppend
  <2> QED
    BY <1>3, <2>1, <2>2, <2>3, <2>4
       DEF GetCurrentStartPosition, GetCurrentEndPosition
<1> QED BY <1>1, <1>2, <1>3

\* pop_back, as often as the segmentors and Trim need it
LEMMA PopBackChain ==
  ASSUME NEW n \in Nat, NEW segs, Chain(segs, n), segs # << >>
  PROVE  /\ Chain(PopBack(segs), n)
         /\ GetCurrentEndPosition(PopBack(segs)) = Back(segs).start
<1>1. Len(segs) \in Nat \ {0} /\ Len(segs) - 1 \in 0 .. Len(segs)
  BY BackOf
<1>2. /\ Chain(PopBack(segs), n) /\ Len(PopBack(segs)) = Len(segs) - 1
      /\ \A i \in 1 .. Len(segs) - 1 : PopBack(segs)[i] = segs[i]
  BY <1>1, ChainFront DEF PopBack
<1>3. Back(segs).start =
        IF Len(segs) = 1 THEN 0 ELSE segs[Len(segs) - 1].end
  <2>1. Len(segs) \in 1 .. Len(segs)
    BY <1>1
  <2> QED BY <2>1 DEF Chain, Back
<1>4. PopBack(segs) = << >> <=> Len(segs) = 1
  BY <1>1, <1>2 DEF Chain
<1> QED BY <1>1, <1>2, <1>3, <1>4 DEF GetCurrentEndPosition, Back

\* Trim takes away no input.
LEMMA TrimChain ==
  ASSUME NEW n \in Nat, NEW segs, Chain(segs, n)
  PROVE  /\ Chain(Trim(segs), n)
         /\ GetCurrentEndPosition(Trim(segs)) = GetCurrentEndPosition(segs)
BY PopBackChain, Positions DEF Trim, CanTrim, IsEmpty

\* A loop of pop_back leaves a front of the chain, up to the first segment kept.
Popped(segs, drop, n, kept) ==
  \E m \in 0 .. Len(segs) :
    /\ kept = SubSeq(segs, 1, m)
    /\ m \notin drop /\ \A i \in m + 1 .. Len(segs) : i \in drop
    /\ Chain(kept, n) /\ Len(kept) = m
    /\ \A i \in 1 .. m : kept[i] = segs[i]

LEMMA PopBackWhilePops ==
  ASSUME NEW n \in Nat, NEW segs, Chain(segs, n), NEW drop \in SUBSET (1 .. Len(segs))
  PROVE  Popped(segs, drop, n, PopBackWhile(segs, drop))
<1> DEFINE P(m) == m + 1 .. Len(segs) \subseteq drop /\ m \notin drop
           Kept == {m \in 0 .. Len(segs) : m \notin drop}
<1>1. Len(segs) \in Nat
  BY DEF Chain
<1>2. \E m \in 0 .. Len(segs) : P(m)
  <2>1. 0 \in Kept /\ Kept \subseteq 0 .. Len(segs)
    BY <1>1
  <2>2. PICK m \in Kept : \A k \in Kept : k <= m
    <3> HIDE DEF Kept
    <3> QED BY <1>1, <2>1, GreatestNat
  <2> QED BY <1>1, <2>2
<1> DEFINE m == CHOOSE m \in 0 .. Len(segs) : P(m)
<1>3. m \in 0 .. Len(segs) /\ P(m)
  <2> HIDE DEF P
  <2> QED BY <1>2
<1>4. PICK kept : kept = PopBackWhile(segs, drop)
  OBVIOUS
<1>5. kept = SubSeq(segs, 1, m)
  BY <1>4 DEF PopBackWhile
<1> HIDE DEF m
<1>6. /\ Chain(kept, n) /\ Len(kept) = m /\ \A i \in 1 .. m : kept[i] = segs[i]
  BY <1>3, <1>5, ChainFront
<1>7. Popped(segs, drop, n, kept)
  BY <1>3, <1>5, <1>6 DEF Popped
<1> QED BY <1>4, <1>7

LEMMA PopBackWhileChain ==
  ASSUME NEW n \in Nat, NEW segs, Chain(segs, n), NEW drop \in SUBSET (1 .. Len(segs))
  PROVE  \E m \in 0 .. Len(segs) :
           /\ PopBackWhile(segs, drop) = SubSeq(segs, 1, m)
           /\ m \notin drop /\ \A i \in m + 1 .. Len(segs) : i \in drop
           /\ Chain(PopBackWhile(segs, drop), n)
           /\ Len(PopBackWhile(segs, drop)) = m
           /\ \A i \in 1 .. m : PopBackWhile(segs, drop)[i] = segs[i]
  BY PopBackWhilePops DEF Popped

\* Segmentation::AddSegment never loses ground, whatever segment it is given;
\* only a longer one makes the last segment raw.
LEMMA AddSegmentChain ==
  ASSUME NEW n \in Nat, NEW segs, Chain(segs, n),
         NEW seg \in Segment, Fine(seg), seg.end <= n,
         "raw" \in seg.tags => GetCurrentEndPosition(segs) < seg.end
  PROVE  /\ Chain(AddSegment(segs, seg), n)
         /\ GetCurrentEndPosition(segs) <= GetCurrentEndPosition(AddSegment(segs, seg))
         /\ seg.start = GetCurrentStartPosition(segs) =>
              seg.end <= GetCurrentEndPosition(AddSegment(segs, seg))
<1>0. seg.start \in Nat /\ seg.end \in Nat
  BY DEF Segment
<1>1. CASE seg.start # GetCurrentStartPosition(segs)
  BY <1>1, Positions DEF AddSegment
<1>2. CASE seg.start = GetCurrentStartPosition(segs) /\ segs = << >>
  <2>1. AddSegment(segs, seg) = Append(segs, seg)
    BY <1>2 DEF AddSegment
  <2>2. seg.start = GetCurrentEndPosition(segs)
    BY <1>2 DEF GetCurrentStartPosition, GetCurrentEndPosition
  <2>3. GetCurrentEndPosition(Append(segs, seg)) = seg.end /\ Chain(Append(segs, seg), n)
    BY <1>2, <2>2, ChainAppend DEF GetCurrentEndPosition
  <2>4. GetCurrentEndPosition(segs) = 0
    BY <1>2 DEF GetCurrentEndPosition
  <2> QED BY <1>0, <2>1, <2>3, <2>4
<1>3. CASE seg.start = GetCurrentStartPosition(segs) /\ segs # << >>
  <2>1. /\ Back(segs) \in Segment /\ Fine(Back(segs)) /\ Back(segs).end <= n
        /\ seg.start = Back(segs).start /\ GetCurrentEndPosition(segs) = Back(segs).end
        /\ Back(segs).end \in Nat
    BY <1>3, BackOf, Positions
  <2>2. CASE Back(segs).end > seg.end
    BY <1>0, <1>3, <2>1, <2>2, Positions DEF AddSegment
  <2>3. CASE Back(segs).end < seg.end
    <3>1. AddSegment(segs, seg) = SetBack(segs, seg)
      BY <1>0, <1>3, <2>1, <2>3 DEF AddSegment
    <3>2. /\ Chain(SetBack(segs, seg), n) /\ SetBack(segs, seg) # << >>
          /\ Back(SetBack(segs, seg)) = seg
      BY <1>3, <2>1, ChainSetBack
    <3> QED BY <1>0, <2>1, <2>3, <3>1, <3>2 DEF GetCurrentEndPosition
  <2>4. CASE Back(segs).end = seg.end
    <3> DEFINE new == [Back(segs) EXCEPT !.tags = @ \cup seg.tags]
    <3>1. AddSegment(segs, seg) = SetBack(segs, new)
      BY <1>0, <1>3, <2>1, <2>4 DEF AddSegment
    <3>2. /\ new \in Segment /\ Fine(new)
          /\ new.start = Back(segs).start /\ new.end = Back(segs).end
      <4>1. /\ new \in Segment /\ new.status = Back(segs).status
            /\ new.start = Back(segs).start /\ new.end = Back(segs).end
            /\ new.cands = Back(segs).cands /\ new.selected = Back(segs).selected
            /\ new.tags = Back(segs).tags \cup seg.tags
        BY <2>1 DEF Segment
      <4> HIDE DEF new
      <4>2. "raw" \notin seg.tags
        BY <1>0, <2>1, <2>4
      <4> QED BY <2>1, <4>1, <4>2, FineSame
    <3> HIDE DEF new
    <3>3. /\ Chain(SetBack(segs, new), n) /\ SetBack(segs, new) # << >>
          /\ Back(SetBack(segs, new)) = new
      BY <1>3, <2>1, <3>2, ChainSetBack
    <3> QED BY <1>0, <2>1, <2>4, <3>1, <3>2, <3>3 DEF GetCurrentEndPosition
  <2> QED BY <1>0, <2>1, <2>2, <2>3, <2>4
<1> QED BY <1>1, <1>2, <1>3

-----------------------------------------------------------------------------
(* Reset                                                                    *)

\* A chain is bounded by the end of its last segment.
LEMMA ChainBound ==
  ASSUME NEW n \in Nat, NEW segs, Chain(segs, n), NEW d \in Nat,
         segs # << >> => Back(segs).end <= d
  PROVE  Chain(segs, d)
<1>1. ASSUME NEW i \in 1 .. Len(segs) PROVE segs[i].end <= d
  <2>1. segs # << >> /\ Len(segs) \in i .. Len(segs)
    BY DEF Chain
  <2>2. segs[i].end <= Back(segs).end
    BY <2>1, ChainMonotone DEF Back
  <2>3. segs[i].end \in Nat /\ Back(segs).end \in Nat
    <3>1. segs[i] \in Segment
      BY DEF Chain
    <3> QED BY <2>1, <3>1, BackOf DEF Segment
  <2> QED BY <2>1, <2>2, <2>3
<1> QED BY <1>1 DEF Chain

\* There is a longest common prefix.
LEMMA DiffPosInRange ==
  ASSUME NEW a \in Seq(Char), NEW b \in Seq(Char)
  PROVE  /\ DiffPos(a, b) \in 0 .. Len(a) /\ DiffPos(a, b) <= Len(b)
         /\ \/ DiffPos(a, b) = Len(a) \/ DiffPos(a, b) = Len(b)
            \/ a[DiffPos(a, b) + 1] # b[DiffPos(a, b) + 1]
<1> DEFINE Same == {d \in 0 .. Len(a) : d <= Len(b) /\ \A i \in 1 .. d : a[i] = b[i]}
           P(d) == /\ d <= Len(b)
                   /\ \A i \in 1 .. d : a[i] = b[i]
                   /\ d = Len(a) \/ d = Len(b) \/ a[d + 1] # b[d + 1]
<1>1. Len(a) \in Nat /\ Len(b) \in Nat
  OBVIOUS
<1>2. 0 \in Same /\ Same \subseteq 0 .. Len(a)
  BY <1>1
<1>3. PICK d \in Same : \A k \in Same : k <= d
  <2> HIDE DEF Same
  <2> QED BY <1>1, <1>2, GreatestNat
<1>4. P(d)
  <2>1. SUFFICES ASSUME d # Len(a), d # Len(b), a[d + 1] = b[d + 1] PROVE FALSE
    BY <1>3
  <2>2. d + 1 \in Same
    BY <1>1, <1>3, <2>1
  <2> QED BY <1>1, <1>3, <2>2
<1>5. DiffPos(a, b) = CHOOSE e \in 0 .. Len(a) : P(e)
  BY DEF DiffPos
<1> HIDE DEF P
<1>6. DiffPos(a, b) \in 0 .. Len(a) /\ P(DiffPos(a, b))
  BY <1>3, <1>4, <1>5
<1> QED BY <1>6 DEF P

\* After Reset the segments are about the new input, as far as it agrees with
\* the old one.
LEMMA ResetChain ==
  ASSUME NEW n \in Nat, NEW segs, Chain(segs, n),
         NEW old \in Seq(Char), NEW new \in Seq(Char)
  PROVE  Chain(Reset(segs, old, new), Len(new))
<1> DEFINE d == DiffPos(old, new)
           drop == {i \in DOMAIN segs : segs[i].end > d}
           kept == PopBackWhile(segs, drop)
<1>1. d \in Nat /\ d <= Len(new) /\ Len(new) \in Nat
  BY DiffPosInRange
<1>2. DOMAIN segs = 1 .. Len(segs) /\ Len(segs) \in Nat /\ drop \in SUBSET (1 .. Len(segs))
  BY DEF Chain
<1>3. Reset(segs, old, new) = IF Len(kept) < Len(segs) THEN Forward(kept) ELSE segs
  BY DEF Reset
<1> HIDE DEF d
<1>4. PICK m \in 0 .. Len(segs) :
        /\ m \notin drop
        /\ Chain(kept, n) /\ Len(kept) = m
        /\ \A i \in 1 .. m : kept[i] = segs[i]
        /\ kept = SubSeq(segs, 1, m)
  <2> HIDE DEF drop
  <2> QED BY <1>2, PopBackWhileChain
<1>5. segs[m].end <= d \/ m = 0
  <2>1. m # 0 => segs[m].end \in Nat
    <3>1. m # 0 => segs[m] \in Segment
      BY DEF Chain
    <3> QED BY <3>1 DEF Segment
  <2> QED BY <1>1, <1>2, <1>4, <2>1
<1> HIDE DEF drop, kept
<1>6. Chain(kept, d) /\ Chain(kept, Len(new))
  <2>1. kept # << >> => m # 0 /\ Back(kept) = segs[m]
    BY <1>4 DEF Chain, Back
  <2>2. kept # << >> => Back(kept).end <= d /\ Back(kept).end \in Nat
    BY <1>4, <1>5, <2>1, BackOf
  <2>3. kept # << >> => Back(kept).end <= Len(new)
    BY <1>1, <2>2
  <2>4. Chain(kept, d)
    BY <1>1, <1>4, <2>2, ChainBound
  <2>5. Chain(kept, Len(new))
    BY <1>1, <1>4, <2>3, ChainBound
  <2> QED BY <2>4, <2>5
<1>7. CASE Len(kept) < Len(segs)
  BY <1>1, <1>3, <1>6, <1>7, ForwardChain
<1>8. CASE ~ (Len(kept) < Len(segs))
  <2>1. m = Len(segs)
    <3>1. Len(kept) = m /\ Len(segs) \in Nat
      BY <1>2, <1>4, Zenon
    <3> QED BY <1>8, <3>1
  <2>2. segs \in Seq(Segment)
    BY DEF Chain
  <2>3. kept = segs
    BY <1>4, <2>1, <2>2, SubSeqFull
  <2> QED BY <1>3, <1>6, <1>8, <2>3
<1> QED BY <1>7, <1>8

-----------------------------------------------------------------------------
(* The segmentors                                                           *)

\* A round takes a chain further: it ends behind where the last one started.
Advances(segs, next, n) ==
  /\ Chain(next, n)
  /\ GetCurrentStartPosition(segs) < GetCurrentEndPosition(next)

\* The confirmed position is one, so that GetMatch searches a range of positions.
LEMMA ConfirmedPosition ==
  ASSUME NEW n, NEW segs, Chain(segs, n)
  PROVE  GetConfirmedPosition(segs) \in Nat
<1>1. CASE LastSelected(segs) = {}
  BY <1>1 DEF GetConfirmedPosition
<1>2. CASE LastSelected(segs) # {}
  <2>1. (CHOOSE i \in LastSelected(segs) : TRUE) \in 1 .. Len(segs)
    BY <1>2 DEF LastSelected, Chain
  <2>2. segs[CHOOSE i \in LastSelected(segs) : TRUE] \in Segment
    BY <2>1 DEF Chain
  <2> QED BY <1>2, <2>2 DEF GetConfirmedPosition, Segment
<1> QED BY <1>1, <1>2

\* ascii_segmentor takes all the rest.
LEMMA AsciiSegmentorAdvances ==
  ASSUME NEW input \in Seq(Char), NEW segs, Chain(segs, Len(input)),
         ~ HasFinishedSegmentation(segs, input)
  PROVE  Advances(segs, AsciiSegmentor(segs, input), Len(input))
<1> DEFINE j == GetCurrentStartPosition(segs)
           seg == NewSegment(j, Len(input), {"raw"})
<1>1. j \in Nat /\ Len(input) \in Nat /\ j < Len(input)
  BY Positions DEF HasFinishedSegmentation
<1>2. AsciiSegmentor(segs, input) = AddSegment(segs, seg)
  BY <1>1 DEF AsciiSegmentor
<1>3. /\ seg \in Segment /\ Fine(seg) /\ seg.start = j /\ seg.end = Len(input)
      /\ GetCurrentEndPosition(segs) < Len(input)
  BY <1>1, NewSegmentFine, Positions DEF NewSegment, Tags, HasFinishedSegmentation
<1> HIDE DEF seg
<1>4. Chain(AddSegment(segs, seg), Len(input))
  BY <1>1, <1>3, AddSegmentChain
<1>5. Len(input) <= GetCurrentEndPosition(AddSegment(segs, seg))
  BY <1>1, <1>3, AddSegmentChain
<1>6. GetCurrentEndPosition(AddSegment(segs, seg)) \in Nat
  BY <1>1, <1>4, Positions
<1> QED BY <1>1, <1>2, <1>4, <1>5, <1>6 DEF Advances

\* matcher ends its segment with the input, even after it has dropped segments.
LEMMA MatcherAdvances ==
  ASSUME NEW input \in Seq(Char), NEW segs, Chain(segs, Len(input)),
         ~ HasFinishedSegmentation(segs, input), MatchFound(input, segs)
  PROVE  Advances(segs, Matcher(segs, input), Len(input))
<1> DEFINE p == MatchStart(input, segs)
           drop == {i \in DOMAIN segs : segs[i].start > p}
           kept == PopBackWhile(segs, drop)
           seg == NewSegment(p, Len(input), {"pattern"})
<1>1. /\ Len(input) \in Nat
      /\ GetCurrentStartPosition(segs) \in Nat
      /\ GetCurrentEndPosition(segs) < Len(input)
      /\ GetCurrentStartPosition(segs) <= GetCurrentEndPosition(segs)
      /\ GetCurrentEndPosition(segs) \in Nat
  BY Positions DEF HasFinishedSegmentation
<1>2. /\ p \in Nat /\ p < Len(input)
      /\ \/ p = GetCurrentEndPosition(segs)
         \/ \E i \in DOMAIN segs : segs[i].start = p
  <2>1. p \in MatchStarts(input, segs)
    BY DEF MatchFound, MatchStart
  <2>2. GetConfirmedPosition(segs) \in Nat
    BY ConfirmedPosition
  <2> QED BY <1>1, <2>1, <2>2 DEF MatchStarts
<1>3. /\ DOMAIN segs = 1 .. Len(segs) /\ Len(segs) \in Nat
      /\ drop \in SUBSET (1 .. Len(segs))
      /\ \A i \in 1 .. Len(segs) : segs[i] \in Segment /\ Fine(segs[i])
  BY DEF Chain
<1>4. Matcher(segs, input) = AddSegment(kept, seg)
  BY DEF Matcher
<1> HIDE DEF p
<1>5. /\ seg \in Segment /\ Fine(seg) /\ seg.start = p /\ seg.end = Len(input)
      /\ "raw" \notin seg.tags
  <2>1. p <= Len(input) /\ {"pattern"} \in SUBSET Tags
    BY <1>1, <1>2 DEF Tags
  <2> QED BY <1>1, <1>2, <2>1, NewSegmentFine DEF NewSegment
<1>6. PICK m \in 0 .. Len(segs) :
        /\ m \notin drop /\ \A i \in m + 1 .. Len(segs) : i \in drop
        /\ Chain(kept, Len(input)) /\ Len(kept) = m
        /\ \A i \in 1 .. m : kept[i] = segs[i]
        /\ kept = SubSeq(segs, 1, m)
  <2> HIDE DEF drop
  <2>1. Popped(segs, drop, Len(input), kept)
    BY <1>1, <1>3, PopBackWhilePops
  <2> HIDE DEF kept
  <2> QED BY <2>1 DEF Popped
<1>7. CASE p = GetCurrentStartPosition(kept)
  <2> HIDE DEF kept, seg
  <2>1. /\ Chain(AddSegment(kept, seg), Len(input))
        /\ Len(input) <= GetCurrentEndPosition(AddSegment(kept, seg))
    BY <1>1, <1>5, <1>6, <1>7, AddSegmentChain
  <2>2. GetCurrentEndPosition(AddSegment(kept, seg)) \in Nat
    BY <1>1, <2>1, Positions
  <2> QED BY <1>1, <1>4, <2>1, <2>2 DEF Advances
\* Otherwise the pattern starts behind all segments, and none is dropped.
<1>8. CASE p # GetCurrentStartPosition(kept)
  <2>1. ~ \E i \in DOMAIN segs : segs[i].start = p
    <3> SUFFICES ASSUME NEW i \in 1 .. Len(segs), segs[i].start = p PROVE FALSE
      BY <1>3
    <3>1. i \notin drop
      BY <1>2
    <3>2. i <= m /\ m \in 1 .. Len(segs)
      BY <1>3, <1>6, <3>1
    <3>3. Back(kept) = segs[m] /\ kept # << >>
      BY <1>6, <3>2 DEF Back
    <3>4. segs[m].start <= p
      <4>1. segs[m] \in Segment /\ m \in DOMAIN segs
        BY <1>3, <3>2
      <4>2. segs[m].start \in Nat
        BY <4>1 DEF Segment
      <4> QED BY <1>2, <1>6, <4>1, <4>2
    <3>5. p <= segs[m].start
      <4>1. CASE i = m
        BY <1>2, <4>1
      <4>2. CASE i < m
        <5>1. /\ m - 1 \in i .. Len(segs) /\ m - 1 \in 1 .. Len(segs)
              /\ segs[m].start = segs[m - 1].end
          <6>1. m - 1 \in i .. Len(segs) /\ m - 1 \in 1 .. Len(segs) /\ m # 1
            BY <1>3, <3>2, <4>2
          <6> QED BY <3>2, <6>1 DEF Chain
        <5>2. segs[i].end <= segs[m - 1].end
          BY <1>1, <5>1, ChainMonotone
        <5>3. /\ segs[i].start <= segs[i].end /\ segs[i].end \in Nat
              /\ segs[m - 1].end \in Nat
          BY <1>3, <5>1 DEF Fine, Loose, Segment
        <5> QED BY SMTT(20), <1>2, <5>1, <5>2, <5>3
      <4> QED BY <3>2, <4>1, <4>2
    <3>6. segs[m].start = p
      <4>1. segs[m].start \in Nat
        BY <1>3, <3>2 DEF Segment
      <4> QED BY <1>2, <3>4, <3>5, <4>1
    <3> QED BY <1>8, <3>3, <3>6 DEF GetCurrentStartPosition
  <2>2. p = GetCurrentEndPosition(segs)
    BY <1>2, <2>1
  <2>3. kept = segs
    <3>1. CASE segs = << >>
      BY <1>3, <1>6, <3>1
    <3>2. CASE segs # << >>
      <4>1. Len(segs) \in 1 .. Len(segs) /\ segs[Len(segs)] = Back(segs)
        <5>1. Len(segs) \in Nat /\ segs \in Seq(Segment)
          BY <1>3, Zenon DEF Chain
        <5> QED BY <3>2, <5>1 DEF Back
      <4>2. Back(segs).start <= p /\ Back(segs).start \in Nat
        BY <1>1, <2>2, <3>2, Positions
      <4>3. Len(segs) \notin drop
        BY <1>2, <4>1, <4>2
      <4>4. m = Len(segs)
        <5>1. \A i \in m + 1 .. Len(segs) : i \in drop
          BY <1>6, Zenon
        <5>2. Len(segs) \in Nat
          BY <1>3, Zenon
        <5> HIDE DEF drop
        <5> QED BY <4>3, <5>1, <5>2
      <4>5. segs \in Seq(Segment)
        BY DEF Chain
      <4> QED BY <1>6, <4>4, <4>5, SubSeqFull
    <3> QED BY <3>1, <3>2
  <2>4. Matcher(segs, input) = segs
    BY <1>4, <1>5, <1>8, <2>3 DEF AddSegment
  <2>5. p # GetCurrentStartPosition(segs)
    BY <1>8, <2>3
  <2> QED BY <1>1, <2>2, <2>4, <2>5 DEF Advances
<1> QED BY <1>7, <1>8

\* The run of letters that abc_segmentor looks for has an end.
LEMMA AbcEndInRange ==
  ASSUME NEW input \in Seq(Char), NEW j \in 0 .. Len(input)
  PROVE  AbcEnd(input, j) \in j .. Len(input)
<1> DEFINE Good(i) == At(input, i) \in Letters \/ (i # j /\ At(input, i) \in Delims)
           Runs == {k \in j .. Len(input) : \A i \in j .. k - 1 : Good(i)}
           P(k) == /\ \A i \in j .. k - 1 : \/ At(input, i) \in Letters
                                            \/ i # j /\ At(input, i) \in Delims
                   /\ \/ k = Len(input)
                      \/ ~ (At(input, k) \in Letters
                              \/ (k # j /\ At(input, k) \in Delims))
<1>1. Len(input) \in Nat /\ j \in Runs /\ Runs \subseteq 0 .. Len(input)
  OBVIOUS
<1>2. PICK k \in Runs : \A l \in Runs : l <= k
  <2> HIDE DEF Runs
  <2> QED BY <1>1, GreatestNat
<1>3. k = Len(input) \/ ~ Good(k)
  <2> SUFFICES ASSUME k # Len(input), Good(k) PROVE FALSE
    OBVIOUS
  <2>1. k + 1 \in j .. Len(input) /\ \A i \in j .. (k + 1) - 1 : i \in j .. k - 1 \/ i = k
    BY <1>1
  <2> HIDE DEF Good
  <2>2. k + 1 \in Runs
    BY <2>1
  <2> QED BY <1>1, <1>2, <2>2
<1>4. P(k)
  BY <1>3
<1>5. AbcEnd(input, j) = CHOOSE l \in j .. Len(input) : P(l)
  BY DEF AbcEnd
<1> HIDE DEF P
<1> QED BY <1>4, <1>5

\* AddSegment leaves the start of the current segment where it was.
LEMMA AddSegmentStart ==
  ASSUME NEW n \in Nat, NEW segs, Chain(segs, n),
         NEW seg \in Segment, Fine(seg), seg.end <= n
  PROVE  GetCurrentStartPosition(AddSegment(segs, seg)) = GetCurrentStartPosition(segs)
<1>1. CASE segs = << >>
  BY <1>1 DEF AddSegment, GetCurrentStartPosition, Back
<1>2. CASE segs # << >>
  <2> DEFINE merged == [Back(segs) EXCEPT !.tags = @ \cup seg.tags]
  <2>1. /\ Back(segs) \in Segment /\ Fine(Back(segs)) /\ Back(segs).end <= n
        /\ GetCurrentStartPosition(segs) = Back(segs).start
    BY <1>2, BackOf, Positions
  <2>2. merged \in Segment /\ merged.start = Back(segs).start
    BY <2>1 DEF Segment
  <2>3. \/ AddSegment(segs, seg) = segs
        \/ /\ AddSegment(segs, seg) = SetBack(segs, seg)
           /\ seg.start = Back(segs).start
        \/ AddSegment(segs, seg) = SetBack(segs, merged)
    BY <1>2, <2>1 DEF AddSegment
  <2> HIDE DEF merged
  <2>4. ASSUME NEW new \in Segment, new.start = Back(segs).start
        PROVE  GetCurrentStartPosition(SetBack(segs, new)) = Back(segs).start
    <3>1. SetBack(segs, new) # << >> /\ Back(SetBack(segs, new)) = new
      BY <1>2 DEF SetBack, Back, Chain
    <3> QED BY <2>4, <3>1 DEF GetCurrentStartPosition
  <2> QED BY <2>1, <2>2, <2>3, <2>4
<1> QED BY <1>1, <1>2

\* abc_segmentor may find nothing, but breaks nothing.
LEMMA AbcSegmentorChain ==
  ASSUME NEW input \in Seq(Char), NEW segs, Chain(segs, Len(input))
  PROVE  /\ Chain(AbcSegmentor(segs, input), Len(input))
         /\ GetCurrentStartPosition(AbcSegmentor(segs, input)) =
              GetCurrentStartPosition(segs)
<1> DEFINE j == GetCurrentStartPosition(segs)
           k == AbcEnd(input, j)
           seg == NewSegment(j, k, {"abc"})
<1>1. Len(input) \in Nat /\ j \in 0 .. Len(input)
  BY Positions
<1>2. k \in j .. Len(input)
  <2> HIDE DEF j
  <2> QED BY <1>1, AbcEndInRange
<1>3. AbcSegmentor(segs, input) = IF j < k THEN AddSegment(segs, seg) ELSE segs
  BY DEF AbcSegmentor
<1> HIDE DEF k
<1>4. seg \in Segment /\ Fine(seg) /\ seg.end <= Len(input) /\ "raw" \notin seg.tags
  <2>1. j \in Nat /\ k \in Nat /\ j <= k /\ k <= Len(input) /\ {"abc"} \in SUBSET Tags
    BY <1>1, <1>2 DEF Tags
  <2> QED BY <2>1, NewSegmentFine DEF NewSegment
<1> HIDE DEF seg
<1> QED BY <1>1, <1>3, <1>4, AddSegmentChain, AddSegmentStart

\* a segment for the one character at the start position
LEMMA AddOneAdvances ==
  ASSUME NEW n \in Nat, NEW segs, Chain(segs, n), GetCurrentStartPosition(segs) < n,
         NEW tag \in Tags,
         tag = "raw" => GetCurrentEndPosition(segs) = GetCurrentStartPosition(segs)
  PROVE  LET k == GetCurrentStartPosition(segs)
         IN Advances(segs, AddSegment(segs, NewSegment(k, k + 1, {tag})), n)
<1> DEFINE k == GetCurrentStartPosition(segs)
           seg == NewSegment(k, k + 1, {tag})
<1>1. k \in Nat /\ k + 1 \in Nat /\ k <= k + 1 /\ k + 1 <= n /\ {tag} \in SUBSET Tags
  BY Positions
<1>2. /\ seg \in Segment /\ Fine(seg) /\ seg.start = k /\ seg.end = k + 1
      /\ "raw" \in seg.tags => GetCurrentEndPosition(segs) < k + 1
  BY <1>1, NewSegmentFine DEF NewSegment
<1> HIDE DEF seg
<1>3. /\ Chain(AddSegment(segs, seg), n)
      /\ k + 1 <= GetCurrentEndPosition(AddSegment(segs, seg))
  BY <1>1, <1>2, AddSegmentChain
<1>4. GetCurrentEndPosition(AddSegment(segs, seg)) \in Nat
  BY <1>3, Positions
<1>5. Advances(segs, AddSegment(segs, seg), n)
  BY <1>1, <1>3, <1>4 DEF Advances
<1> QED BY <1>5 DEF seg

\* fallback_segmentor gets on where the others have not, joining raw segments.
LEMMA FallbackSegmentorAdvances ==
  ASSUME NEW input \in Seq(Char), NEW segs, Chain(segs, Len(input)),
         GetCurrentStartPosition(segs) < Len(input)
  PROVE  Advances(segs, FallbackSegmentor(segs, input), Len(input))
<1> DEFINE k == GetCurrentStartPosition(segs)
           rest == Trim(segs)
           old == Back(rest)
           joined == NewSegment(old.start, k + 1, {"raw"})
<1>1. /\ Len(input) \in Nat /\ k \in Nat /\ k + 1 <= Len(input)
      /\ GetCurrentEndPosition(segs) \in Nat /\ k <= GetCurrentEndPosition(segs)
  BY Positions
<1>2. CASE GetCurrentEndPosition(segs) > k
  <2>1. FallbackSegmentor(segs, input) = segs
    BY <1>2 DEF FallbackSegmentor
  <2> QED BY <1>1, <1>2, <2>1 DEF Advances
<1>3. CASE GetCurrentEndPosition(segs) = k
  <2>1. Chain(rest, Len(input)) /\ GetCurrentEndPosition(rest) = k
    BY <1>1, <1>3, TrimChain
  <2>2. FallbackSegmentor(segs, input) =
          IF rest # << >> /\ "raw" \in old.tags THEN SetBack(rest, joined)
          ELSE AddSegment(Forward(rest), NewSegment(k, k + 1, {"raw"}))
    BY <1>1, <1>3 DEF FallbackSegmentor
  <2> HIDE DEF rest, k
  <2>3. CASE rest # << >> /\ "raw" \in old.tags
    <3>1. old.start \in Nat /\ old.start <= k + 1 /\ k + 1 \in Nat /\ {"raw"} \in SUBSET Tags
      <4>1. old.start \in Nat /\ old.end = k /\ Fine(old)
        BY <1>1, <2>1, <2>3, BackOf, Positions
      <4> QED BY <1>1, <4>1 DEF Fine, Loose, Tags
    <3>2. /\ joined \in Segment /\ Fine(joined)
          /\ joined.start = old.start /\ joined.end = k + 1
      BY <3>1, NewSegmentFine DEF NewSegment
    <3> HIDE DEF joined, old
    <3>3. /\ Chain(SetBack(rest, joined), Len(input))
          /\ GetCurrentEndPosition(SetBack(rest, joined)) = k + 1
      BY <1>1, <2>1, <2>3, <3>2, ChainSetBack DEF GetCurrentEndPosition, old
    <3> QED BY <1>1, <2>2, <2>3, <3>3 DEF Advances, k
  <2>4. CASE ~ (rest # << >> /\ "raw" \in old.tags)
    <3>1. /\ Chain(Forward(rest), Len(input))
          /\ GetCurrentStartPosition(Forward(rest)) = k
          /\ GetCurrentEndPosition(Forward(rest)) = k
      BY <1>1, <2>1, ForwardChain
    <3>2. Advances(Forward(rest),
                   AddSegment(Forward(rest), NewSegment(k, k + 1, {"raw"})), Len(input))
      BY <1>1, <3>1, AddOneAdvances DEF Tags, k
    <3> QED BY <2>2, <2>4, <3>1, <3>2 DEF Advances, k
  <2> QED BY <2>3, <2>4
<1> QED BY <1>1, <1>2, <1>3

\* punct_segmentor gets on, alone or with fallback_segmentor behind it.
LEMMA PunctSegmentorAdvances ==
  ASSUME NEW input \in Seq(Char), NEW segs, Chain(segs, Len(input)),
         GetCurrentStartPosition(segs) < Len(input)
  PROVE  Advances(segs, PunctSegmentor(segs, input), Len(input))
<1>1. Len(input) \in Nat /\ GetCurrentStartPosition(segs) # Len(input) /\ "punct" \in Tags
  BY Positions DEF Tags
<1> QED BY <1>1, AddOneAdvances, FallbackSegmentorAdvances DEF PunctSegmentor

\* Whatever mode and segmentors, a round gets on.
LEMMA RoundAdvances ==
  ASSUME NEW input \in Seq(Char), NEW segs, Chain(segs, Len(input)),
         ~ HasFinishedSegmentation(segs, input), NEW ascii_mode \in BOOLEAN
  PROVE  Advances(segs, Round(segs, input, ascii_mode), Len(input))
<1>1. CASE ascii_mode
  BY <1>1, AsciiSegmentorAdvances DEF Round
<1>2. CASE ~ ascii_mode /\ MatchFound(input, segs)
  BY <1>2, MatcherAdvances DEF Round
<1>3. CASE ~ ascii_mode /\ ~ MatchFound(input, segs)
  <2>1. GetCurrentStartPosition(segs) < Len(input)
    BY Positions DEF HasFinishedSegmentation
  <2>2. Advances(AbcSegmentor(segs, input),
                 PunctSegmentor(AbcSegmentor(segs, input), input), Len(input))
    BY <2>1, AbcSegmentorChain, PunctSegmentorAdvances
  <2> QED BY <1>3, <2>2, AbcSegmentorChain DEF Round, Advances
<1> QED BY <1>1, <1>2, <1>3

-----------------------------------------------------------------------------
(* CalculateSegmentation                                                    *)

\* Loop counts its iterations with a recursive function: there is one.
LEMMA LoopFunction ==
  ASSUME NEW input \in Seq(Char), NEW segs, NEW ascii_mode
  PROVE  \E f : /\ f[0] = [segs |-> segs, done |-> FALSE]
                /\ \A n \in 1 .. Len(input) + 1 :
                     f[n] = Iterate(f[n - 1], input, ascii_mode)
                /\ Loop(segs, input, ascii_mode) = f[Len(input) + 1]
<1> DEFINE start == [segs |-> segs, done |-> FALSE]
           F(f, k) == [n \in 0 .. k |-> IF n = 0 THEN start
                                        ELSE Iterate(f[n - 1], input, ascii_mode)]
           Bad == {k \in Nat : ~ \E f : f = F(f, k)}
<1>1. Bad = {}
  <2>1. SUFFICES ASSUME Bad # {} PROVE FALSE
    OBVIOUS
  <2>2. PICK k \in Bad : \A l \in Bad : k <= l
    <3>1. Bad \subseteq Nat
      OBVIOUS
    <3> HIDE DEF Bad
    <3> QED BY <2>1, <3>1, LeastNat
  <2>3. CASE k = 0
    <3> DEFINE f == [n \in 0 .. 0 |-> start]
    <3>1. f = F(f, 0)
      OBVIOUS
    <3> QED BY <2>2, <2>3, <3>1
  <2>4. CASE k # 0
    <3>1. k - 1 \in Nat /\ k - 1 \notin Bad
      <4>1. k \in Nat
        OBVIOUS
      <4> HIDE DEF Bad
      <4> QED BY <2>2, <2>4, <4>1
    <3>2. PICK f : f = F(f, k - 1)
      BY <3>1
    <3> DEFINE g == [n \in 0 .. k |-> IF n = k THEN Iterate(f[k - 1], input, ascii_mode)
                                      ELSE f[n]]
    <3>3. ASSUME NEW n \in 0 .. k PROVE g[n] = F(g, k)[n]
      <4>1. CASE n = k
        BY <2>2, <2>4, <4>1
      <4>2. CASE n # k
        <5>1. n \in 0 .. k - 1 /\ g[n] = f[n]
          BY <2>2, <4>2
        <5>2. f[n] = F(f, k - 1)[n]
          <6> HIDE DEF F
          <6> QED BY <3>2
        <5>3. n # 0 => g[n - 1] = f[n - 1]
          BY <2>2, <4>2
        <5> QED BY <4>2, <5>1, <5>2, <5>3
      <4> QED BY <4>1, <4>2
    <3>4. g = F(g, k)
      BY <3>3
    <3> QED BY <2>2, <3>4
  <2> QED BY <2>3, <2>4
<1> DEFINE after == CHOOSE after : after = F(after, Len(input) + 1)
<1>2. after = F(after, Len(input) + 1)
  <2>1. Len(input) + 1 \in Nat
    OBVIOUS
  <2>2. \E f : f = F(f, Len(input) + 1)
    BY <1>1, <2>1
  <2> HIDE DEF F
  <2> QED BY <2>2
<1>3. Loop(segs, input, ascii_mode) = after[Len(input) + 1]
  BY DEF Loop
<1> HIDE DEF after
<1>4. after[0] = start
  BY <1>2
<1>5. ASSUME NEW n \in 1 .. Len(input) + 1
      PROVE  after[n] = Iterate(after[n - 1], input, ascii_mode)
  <2>1. after[n] = F(after, Len(input) + 1)[n]
    <3> HIDE DEF F
    <3> QED BY <1>2
  <2>2. n \in 0 .. Len(input) + 1 /\ n # 0
    OBVIOUS
  <2> QED BY <2>1, <2>2
<1> QED BY <1>3, <1>4, <1>5

\* The loop ends because the segmentation is finished: the other way out, no
\* advancement, is never taken, and Len(input) + 1 iterations are enough.
LEMMA LoopFinished ==
  ASSUME NEW input \in Seq(Char), NEW segs, Chain(segs, Len(input)),
         NEW ascii_mode \in BOOLEAN
  PROVE  LET found == Loop(segs, input, ascii_mode).segs
         IN Chain(found, Len(input)) /\ HasFinishedSegmentation(found, input)
<1> DEFINE N == Len(input)
<1>1. PICK f : /\ f[0] = [segs |-> segs, done |-> FALSE]
               /\ \A n \in 1 .. N + 1 : f[n] = Iterate(f[n - 1], input, ascii_mode)
               /\ Loop(segs, input, ascii_mode) = f[N + 1]
  BY LoopFunction
<1> DEFINE Holds(n) ==
             /\ Chain(f[n].segs, N)
             /\ f[n].done \in BOOLEAN
             /\ f[n].done => HasFinishedSegmentation(f[n].segs, input)
             /\ ~ f[n].done => n <= GetCurrentStartPosition(f[n].segs)
           Bad == {n \in 0 .. N + 1 : ~ Holds(n)}
<1>2. N \in Nat
  OBVIOUS
<1> HIDE DEF N
<1>3. Holds(0)
  BY <1>1, <1>2, Positions DEF N
<1>4. ASSUME NEW n \in 1 .. N + 1, Holds(n - 1) PROVE Holds(n)
  <2> DEFINE loop == f[n - 1]
             next == Round(loop.segs, input, ascii_mode)
  <2>1. f[n] = Iterate(loop, input, ascii_mode)
    BY <1>1
  <2>2. CASE loop.done \/ HasFinishedSegmentation(loop.segs, input)
    <3>1. f[n] = [segs |-> loop.segs, done |-> TRUE]
      BY <2>1, <2>2 DEF Iterate
    <3> QED BY <1>4, <2>2, <3>1
  <2>3. CASE ~ loop.done /\ ~ HasFinishedSegmentation(loop.segs, input)
    <3>1. /\ Chain(next, N)
          /\ GetCurrentStartPosition(loop.segs) < GetCurrentEndPosition(next)
      BY <1>4, <2>3, RoundAdvances DEF Advances, N
    <3>2. /\ GetCurrentStartPosition(loop.segs) \in Nat
          /\ GetCurrentEndPosition(next) \in Nat
          /\ n - 1 <= GetCurrentStartPosition(loop.segs)
      BY <1>2, <1>4, <2>3, <3>1, Positions
    <3>3. f[n] = IF HasFinishedSegmentation(next, input)
                 THEN [segs |-> next, done |-> TRUE]
                 ELSE [segs |-> Forward(next), done |-> FALSE]
      BY <2>1, <2>3, <3>1, <3>2 DEF Iterate, Advance
    <3>4. CASE HasFinishedSegmentation(next, input)
      <4>1. f[n] = [segs |-> next, done |-> TRUE]
        BY <3>3, <3>4
      <4> QED BY <3>1, <3>4, <4>1
    <3>5. CASE ~ HasFinishedSegmentation(next, input)
      <4>1. f[n] = [segs |-> Forward(next), done |-> FALSE]
        BY <3>3, <3>5
      <4>2. /\ Chain(Forward(next), N)
            /\ GetCurrentStartPosition(Forward(next)) = GetCurrentEndPosition(next)
        BY <1>2, <3>1, ForwardChain
      <4> QED BY <1>2, <3>1, <3>2, <4>1, <4>2
    <3> QED BY <3>4, <3>5
  <2> QED BY <1>4, <2>2, <2>3
<1>5. Bad = {}
  <2>1. SUFFICES ASSUME Bad # {} PROVE FALSE
    OBVIOUS
  <2>2. Bad \subseteq Nat
    BY <1>2
  <2>3. PICK n \in Bad : \A m \in Bad : n <= m
    <3> HIDE DEF Bad
    <3> QED BY <2>1, <2>2, LeastNat
  <2>4. n \in 0 .. N + 1 /\ ~ Holds(n)
    OBVIOUS
  <2> HIDE DEF Holds
  <2>5. n # 0
    BY <1>3, <2>4
  <2>6. n \in 1 .. N + 1 /\ n - 1 \in 0 .. N + 1 /\ n - 1 < n
    BY <1>2, <2>4, <2>5
  <2>7. ~ Holds(n - 1)
    BY <1>4, <2>4, <2>6
  <2> QED BY <2>3, <2>4, <2>6, <2>7
<1>6. Holds(N + 1)
  <2>1. N + 1 \in 0 .. N + 1
    BY <1>2
  <2> HIDE DEF Holds
  <2> QED BY <1>5, <2>1
<1>7. f[N + 1].done
  BY <1>2, <1>6, Positions
<1> QED BY <1>1, <1>6, <1>7 DEF N

\* What the engine keeps of the segmentation: the last segment ends with the
\* input, and is empty only if the user has selected the one before it.
Finished(segs, n) ==
  /\ Chain(segs, n)
  /\ segs = << >> <=> n = 0
  /\ GetCurrentEndPosition(segs) = n
  /\ \A i \in 1 .. Len(segs) :
       IsEmpty(segs[i]) => i > 1 /\ segs[i - 1].status >= kSelected

\* Forward, behind a segment that is selected.
LEMMA ForwardFinished ==
  ASSUME NEW n \in Nat, NEW segs, Finished(segs, n),
         segs # << >> => IsEmpty(Back(segs)) \/ Back(segs).status >= kSelected
  PROVE  Finished(Forward(segs), n)
<1>1. Chain(segs, n) /\ segs \in Seq(Segment) /\ Len(segs) \in Nat
  BY DEF Finished, Chain
<1>2. CASE segs = << >> \/ IsEmpty(Back(segs))
  BY <1>2 DEF Forward
<1>3. CASE segs # << >> /\ ~ IsEmpty(Back(segs))
  <2> DEFINE new == NewSegment(Back(segs).end, Back(segs).end, {})
  <2>1. Forward(segs) = Append(segs, new)
    BY <1>3 DEF Forward
  <2> HIDE DEF new
  <2>2. ASSUME NEW i \in 1 .. Len(segs) + 1, IsEmpty(Append(segs, new)[i])
        PROVE  i > 1 /\ Append(segs, new)[i - 1].status >= kSelected
    <3>1. CASE i = Len(segs) + 1
      <4>1. Len(segs) >= 1 /\ Append(segs, new)[i - 1] = Back(segs)
        BY <1>1, <1>3, <3>1 DEF Back
      <4> QED BY <1>1, <1>3, <3>1, <4>1
    <3>2. CASE i \in 1 .. Len(segs)
      <4>1. Append(segs, new)[i] = segs[i]
        BY <1>1, <3>2
      <4>2. i > 1 /\ segs[i - 1].status >= kSelected
        BY <2>2, <3>2, <4>1 DEF Finished
      <4>3. Append(segs, new)[i - 1] = segs[i - 1]
        BY <1>1, <3>2, <4>2
      <4> QED BY <4>2, <4>3
    <3> QED BY <1>1, <3>1, <3>2
  <2>3. Len(Append(segs, new)) = Len(segs) + 1
    BY <1>1
  <2>4. /\ Chain(Append(segs, new), n)
        /\ GetCurrentEndPosition(Append(segs, new)) = GetCurrentEndPosition(segs)
        /\ Append(segs, new) = << >> <=> segs = << >>
    <3>1. /\ Chain(Forward(segs), n)
          /\ GetCurrentEndPosition(Forward(segs)) = GetCurrentEndPosition(segs)
          /\ Forward(segs) = << >> <=> segs = << >>
      BY <1>1, ForwardChain
    <3> QED BY <2>1, <3>1, Zenon
  <2>5. Finished(Append(segs, new), n)
    BY <2>2, <2>3, <2>4 DEF Finished
  <2> QED BY <2>1, <2>5
<1> QED BY <1>2, <1>3

\* Trim leaves no empty segment.
LEMMA TrimNonEmpty ==
  ASSUME NEW n \in Nat, NEW segs, Chain(segs, n)
  PROVE  \A i \in 1 .. Len(Trim(segs)) : ~ IsEmpty(Trim(segs)[i])
<1>1. segs \in Seq(Segment) /\ Len(segs) \in Nat
  BY DEF Chain
<1>2. CASE ~ CanTrim(segs)
  BY <1>1, <1>2 DEF Trim, CanTrim, Chain, Back
<1>3. CASE CanTrim(segs)
  <2>1. Len(segs) - 1 \in 0 .. Len(segs)
    BY <1>1, <1>3 DEF CanTrim
  <2>2. /\ Len(PopBack(segs)) = Len(segs) - 1
        /\ \A i \in 1 .. Len(segs) - 1 : PopBack(segs)[i] = segs[i]
    BY <2>1, ChainFront DEF PopBack
  <2> QED BY <1>1, <1>3, <2>1, <2>2 DEF Trim, Chain
<1> QED BY <1>2, <1>3

\* The whole of CalculateSegmentation, the last Trim and Forward included.
LEMMA CalculateSegmentationFinished ==
  ASSUME NEW input \in Seq(Char), NEW segs, Chain(segs, Len(input)),
         NEW ascii_mode \in BOOLEAN
  PROVE  Finished(CalculateSegmentation(segs, input, ascii_mode), Len(input))
<1> DEFINE found == Loop(segs, input, ascii_mode).segs
           trimmed == Trim(found)
<1>1. Len(input) \in Nat /\ Chain(found, Len(input)) /\ HasFinishedSegmentation(found, input)
  BY LoopFinished
<1>2. CalculateSegmentation(segs, input, ascii_mode) =
        IF trimmed # << >> /\ Back(trimmed).status >= kSelected
        THEN Forward(trimmed) ELSE trimmed
  BY DEF CalculateSegmentation, ForwardSelected
<1> HIDE DEF found
<1>3. /\ Chain(trimmed, Len(input))
      /\ GetCurrentEndPosition(trimmed) = GetCurrentEndPosition(found)
      /\ \A i \in 1 .. Len(trimmed) : ~ IsEmpty(trimmed[i])
  BY <1>1, TrimChain, TrimNonEmpty
<1>4. GetCurrentEndPosition(found) = Len(input)
  BY <1>1, Positions DEF HasFinishedSegmentation
<1> HIDE DEF trimmed
<1>5. trimmed = << >> <=> Len(input) = 0
  <2>1. trimmed = << >> => Len(input) = 0
    BY <1>3, <1>4 DEF GetCurrentEndPosition
  <2>2. ASSUME trimmed # << >> PROVE Len(input) # 0
    <3>1. Len(trimmed) \in 1 .. Len(trimmed)
      BY <1>3, <2>2 DEF Chain
    <3>2. ~ IsEmpty(Back(trimmed)) /\ Fine(Back(trimmed)) /\ Back(trimmed).end <= Len(input)
          /\ Back(trimmed).start \in Nat /\ Back(trimmed).end \in Nat
      BY <1>1, <1>3, <2>2, <3>1, BackOf DEF Back
    <3> QED BY <1>1, <3>2 DEF IsEmpty, Fine, Loose
  <2> QED BY <2>1, <2>2
<1>6. Finished(trimmed, Len(input))
  BY <1>3, <1>4, <1>5 DEF Finished
<1> QED BY <1>1, <1>2, <1>6, ForwardFinished

-----------------------------------------------------------------------------
(* TranslateSegments                                                        *)

\* A translator's candidates end behind the start of the segment, and in it.
LEMMA TranslateType ==
  ASSUME NEW input \in Seq(Char), Len(input) <= MaxInput,
         NEW seg \in Segment, seg.start < seg.end, seg.end <= Len(input)
  PROVE  /\ Translate(seg, input) \in Seq(Nat)
         /\ \A k \in DOMAIN Translate(seg, input) :
              /\ seg.start < Translate(seg, input)[k]
              /\ Translate(seg, input)[k] <= seg.end
              /\ "raw" \in seg.tags => Translate(seg, input)[k] = seg.end
<1> DEFINE len == seg.end - seg.start
           echo == IF Echo THEN << seg.end >> ELSE << >>
           words == [i \in DOMAIN MenuOf[len] |-> seg.start + MenuOf[len][i]]
           Inside(menu) == \A k \in DOMAIN menu : seg.start < menu[k] /\ menu[k] <= seg.end
           Whole(menu) == \A k \in DOMAIN menu : menu[k] = seg.end
<1>1. seg.start \in Nat /\ seg.end \in Nat
  BY DEF Segment
<1>2. len \in 1 .. MaxInput
  BY <1>1, BoundAssumption
<1>3. echo \in Seq(Nat) /\ Inside(echo) /\ Whole(echo)
  <2>1. CASE Echo
    BY <1>1, <2>1
  <2>2. CASE ~ Echo
    BY <2>2
  <2> QED BY <2>1, <2>2
<1>4. /\ << seg.end >> \in Seq(Nat) /\ << seg.end, seg.end >> \in Seq(Nat)
      /\ Inside(<< seg.end >>) /\ Inside(<< seg.end, seg.end >>)
      /\ Whole(<< seg.end >>) /\ Whole(<< seg.end, seg.end >>)
  BY <1>1
<1>5. words \in Seq(Nat) /\ Inside(words)
  <2>1. MenuOf[len] \in Seq(1 .. len) /\ len \in Nat /\ seg.start + len = seg.end
    BY <1>1, <1>2, TranslatorAssumption
  <2> HIDE DEF len
  <2>2. DOMAIN MenuOf[len] = 1 .. Len(MenuOf[len]) /\ Len(MenuOf[len]) \in Nat
    BY <2>1
  <2>3. ASSUME NEW k \in 1 .. Len(MenuOf[len])
        PROVE  MenuOf[len][k] \in Nat /\ MenuOf[len][k] >= 1 /\ MenuOf[len][k] <= len
    BY <2>1, <2>2
  <2>4. words \in Seq(Nat) /\ DOMAIN words = 1 .. Len(MenuOf[len])
    BY <1>1, <2>1, <2>2, <2>3
  <2>5. ASSUME NEW k \in DOMAIN words
        PROVE  seg.start < words[k] /\ words[k] <= seg.end
    BY SMTT(20), <1>1, <2>1, <2>2, <2>3, <2>4
  <2> QED BY <2>4, <2>5
<1> HIDE DEF len, echo, words
<1> QED BY <1>3, <1>4, <1>5 DEF Translate, len, echo, words

\* Translating a segment keeps its place, and its status once selected; a
\* segment that has not been translated gets a menu to choose from.
LEMMA TranslatedType ==
  ASSUME NEW input \in Seq(Char), Len(input) <= MaxInput,
         NEW seg \in Segment, Fine(seg), seg.end <= Len(input)
  PROVE  /\ Translated(seg, input) \in Segment /\ Fine(Translated(seg, input))
         /\ Translated(seg, input).start = seg.start
         /\ Translated(seg, input).end = seg.end
         /\ seg.status >= kSelected => Translated(seg, input).status >= kSelected
         /\ seg.status < kSelected /\ ~ IsEmpty(seg) =>
              Translated(seg, input).status = kGuess
<1>0. seg.status \in Status
  BY DEF Segment
<1>1. CASE seg.status >= kGuess \/ IsEmpty(seg)
  BY <1>0, <1>1 DEF Translated, Status, kVoid, kGuess, kSelected, kConfirmed
<1>2. CASE ~ (seg.status >= kGuess \/ IsEmpty(seg))
  <2> DEFINE menu == Translate(seg, input)
  <2>1. Translated(seg, input) = [seg EXCEPT !.status = kGuess, !.selected = 0, !.cands = menu]
    BY <1>2 DEF Translated
  <2>2. seg.start < seg.end /\ seg.start \in Nat /\ seg.end \in Nat
    BY <1>2 DEF Fine, Loose, IsEmpty, Segment
  <2>3. /\ menu \in Seq(Nat)
        /\ \A k \in DOMAIN menu : seg.start < menu[k] /\ menu[k] <= seg.end
        /\ "raw" \in seg.tags => \A k \in DOMAIN menu : menu[k] = seg.end
    BY <2>2, TranslateType
  <2> HIDE DEF menu
  <2>4. kGuess \in Status
    BY DEF kGuess, Status, kVoid, kConfirmed
  <2>5. ~ (seg.status >= kSelected)
    BY <1>2 DEF kGuess, kSelected, Segment, Status, kVoid, kConfirmed
  <2> DEFINE new == Translated(seg, input)
  <2>6. /\ new \in Segment /\ new.status = kGuess /\ new.selected = 0
        /\ new.start = seg.start /\ new.end = seg.end /\ new.cands = menu
        /\ new.tags = seg.tags
    <3> DEFINE s1 == [seg EXCEPT !.status = kGuess]
               s2 == [s1 EXCEPT !.selected = 0]
               s3 == [s2 EXCEPT !.cands = menu]
    <3>1. /\ s1 \in Segment /\ s1.start = seg.start /\ s1.end = seg.end
          /\ s1.status = kGuess /\ s1.tags = seg.tags
      BY <2>4 DEF Segment
    <3> HIDE DEF s1
    <3>2. /\ s2 \in Segment /\ s2.start = seg.start /\ s2.end = seg.end
          /\ s2.status = kGuess /\ s2.selected = 0 /\ s2.tags = seg.tags
      BY <3>1 DEF Segment
    <3> HIDE DEF s2
    <3>3. /\ s3 \in Segment /\ s3.start = seg.start /\ s3.end = seg.end
          /\ s3.status = kGuess /\ s3.selected = 0 /\ s3.cands = menu
          /\ s3.tags = seg.tags
      BY <2>3, <3>2 DEF Segment
    <3>4. new = s3
      BY <2>1 DEF s1, s2
    <3> HIDE DEF s3
    <3> QED BY <3>3, <3>4
  <2> HIDE DEF new
  <2>7. new.cands # << >> => HasSelectedCandidate(new) /\ SelectedEnd(new) <= new.end
    <3>1. menu # << >> => 1 \in DOMAIN menu /\ 0 < Len(menu)
      BY <2>3
    <3> QED BY <2>3, <2>6, <3>1
        DEF HasSelectedCandidate, HasCandidateAt, SelectedEnd, CandidateEnd
  <2>8. Fine(new)
    <3>1. Loose(new)
      BY <2>2, <2>3, <2>6, <2>7 DEF Loose
    <3> QED BY <2>3, <2>6, <3>1 DEF Fine, kGuess, kSelected
  <2> QED BY <2>5, <2>6, <2>8 DEF new
<1> QED BY <1>1, <1>2

\* The second pass of the engine keeps what the first has established.
LEMMA TranslateSegmentsFinished ==
  ASSUME NEW input \in Seq(Char), Len(input) <= MaxInput,
         NEW segs, Finished(segs, Len(input))
  PROVE  Finished(TranslateSegments(segs, input), Len(input))
<1> DEFINE new == TranslateSegments(segs, input)
<1>1. /\ segs \in Seq(Segment) /\ Len(segs) \in Nat /\ DOMAIN segs = 1 .. Len(segs)
      /\ Chain(segs, Len(input))
  BY DEF Finished, Chain
<1>2. \A i \in 1 .. Len(segs) : /\ segs[i] \in Segment /\ Fine(segs[i])
                                /\ segs[i].end <= Len(input)
  <2>1. \A i \in 1 .. Len(segs) : segs[i] \in Segment
    BY <1>1
  <2> QED BY <1>1, <2>1, Zenon DEF Chain
<1>3. ASSUME NEW i \in 1 .. Len(segs)
      PROVE  /\ new[i] \in Segment /\ Fine(new[i])
             /\ new[i].start = segs[i].start /\ new[i].end = segs[i].end
             /\ segs[i].status >= kSelected => new[i].status >= kSelected
  <2>1. new[i] = Translated(segs[i], input)
    BY <1>1 DEF TranslateSegments
  <2> QED BY <1>2, <2>1, TranslatedType
<1>4. new \in Seq(Segment) /\ Len(new) = Len(segs)
  BY <1>1, <1>3 DEF TranslateSegments
<1> HIDE DEF new
<1>5. \A i \in 1 .. Len(segs) : i # 1 => i - 1 \in 1 .. Len(segs)
  BY <1>1
<1>6. Chain(new, Len(input))
  <2> SUFFICES ASSUME NEW i \in 1 .. Len(segs)
               PROVE  /\ Fine(new[i]) /\ new[i].end <= Len(input)
                      /\ new[i].start = IF i = 1 THEN 0 ELSE new[i - 1].end
                      /\ i # Len(segs) => ~ IsEmpty(new[i])
    BY <1>4 DEF Chain
  <2> QED BY <1>1, <1>3, <1>5 DEF Chain, IsEmpty
<1>7. /\ new = << >> <=> segs = << >>
      /\ GetCurrentEndPosition(new) = GetCurrentEndPosition(segs)
  <2>1. new = << >> <=> segs = << >>
    BY <1>1, <1>4
  <2>2. segs # << >> => Len(segs) \in 1 .. Len(segs)
    BY <1>1
  <2> QED BY <1>3, <1>4, <2>1, <2>2 DEF GetCurrentEndPosition, Back
<1>8. ASSUME NEW i \in 1 .. Len(segs), IsEmpty(new[i])
      PROVE  i > 1 /\ new[i - 1].status >= kSelected
  <2>1. IsEmpty(segs[i])
    BY <1>3, <1>8 DEF IsEmpty
  <2>2. i > 1 /\ segs[i - 1].status >= kSelected
    BY <2>1 DEF Finished
  <2> QED BY <1>3, <1>5, <2>2
<1>9. Finished(new, Len(input))
  BY <1>4, <1>6, <1>7, <1>8 DEF Finished
<1> QED BY <1>9 DEF new

\* There is something to choose at the end, or nothing yet.
Settled(segs) == segs # << >> /\ ~ IsEmpty(Back(segs)) => Back(segs).status = kGuess

\* Forward leaves an empty segment at the end, where nothing is chosen yet.
LEMMA ForwardSettled ==
  ASSUME NEW segs \in Seq(Segment)
  PROVE  Settled(Forward(segs))
<1> DEFINE new == NewSegment(Back(segs).end, Back(segs).end, {})
<1>1. CASE segs = << >> \/ IsEmpty(Back(segs))
  BY <1>1 DEF Forward, Settled
<1>2. CASE segs # << >> /\ ~ IsEmpty(Back(segs))
  <2>1. Forward(segs) = Append(segs, new) /\ IsEmpty(new)
    BY <1>2 DEF Forward, NewSegment, IsEmpty
  <2> HIDE DEF new
  <2>2. Back(Append(segs, new)) = new
    BY DEF Back
  <2> QED BY <2>1, <2>2 DEF Settled
<1> QED BY <1>1, <1>2

\* The engine does not stop at a segment the user has selected.
LEMMA CalculateSegmentationUnselected ==
  ASSUME NEW input \in Seq(Char), NEW segs, Chain(segs, Len(input)),
         NEW ascii_mode \in BOOLEAN,
         NEW found, found = CalculateSegmentation(segs, input, ascii_mode),
         found # << >>, ~ IsEmpty(Back(found))
  PROVE  Back(found).status < kSelected
<1> DEFINE looped == Loop(segs, input, ascii_mode).segs
           trimmed == Trim(looped)
           new == NewSegment(Back(trimmed).end, Back(trimmed).end, {})
<1>0. Chain(looped, Len(input)) /\ Len(input) \in Nat
  BY LoopFinished
<1>1. Chain(trimmed, Len(input)) /\ \A i \in 1 .. Len(trimmed) : ~ IsEmpty(trimmed[i])
  <2> HIDE DEF looped
  <2> QED BY <1>0, TrimChain, TrimNonEmpty
<1>2. found = IF trimmed # << >> /\ Back(trimmed).status >= kSelected
              THEN Forward(trimmed) ELSE trimmed
  BY DEF CalculateSegmentation, ForwardSelected
<1> HIDE DEF trimmed
<1>3. trimmed # << >> => ~ IsEmpty(Back(trimmed)) /\ Back(trimmed).status \in Int
  <2>1. trimmed # << >> => Len(trimmed) \in 1 .. Len(trimmed)
    BY <1>1 DEF Chain
  <2>2. trimmed # << >> => Back(trimmed) \in Segment
    BY <1>0, <1>1, BackOf
  <2> QED BY <1>1, <2>1, <2>2 DEF Back, Segment, Status, kVoid, kConfirmed
<1>4. CASE trimmed # << >> /\ Back(trimmed).status >= kSelected
  <2>1. found = Append(trimmed, new)
    BY <1>2, <1>3, <1>4 DEF Forward
  <2>2. Back(found) = new
    <3>1. trimmed \in Seq(Segment)
      BY <1>1 DEF Chain
    <3> HIDE DEF new
    <3> QED BY <2>1, <3>1 DEF Back
  <2>3. IsEmpty(new)
    BY DEF IsEmpty, NewSegment
  <2> QED BY <2>2, <2>3
<1>5. CASE ~ (trimmed # << >> /\ Back(trimmed).status >= kSelected)
  BY <1>2, <1>3, <1>5 DEF kSelected
<1> QED BY <1>4, <1>5

\* After both passes of the engine the user can choose at the end.
LEMMA ComposedSettled ==
  ASSUME NEW input \in Seq(Char), Len(input) <= MaxInput,
         NEW segs, Chain(segs, Len(input)), NEW ascii_mode \in BOOLEAN
  PROVE  Settled(TranslateSegments(CalculateSegmentation(segs, input, ascii_mode), input))
<1> DEFINE found == CalculateSegmentation(segs, input, ascii_mode)
           new == TranslateSegments(found, input)
<1>1. Finished(found, Len(input))
  BY CalculateSegmentationFinished
<1>2. found # << >> /\ ~ IsEmpty(Back(found)) => Back(found).status < kSelected
  BY CalculateSegmentationUnselected
<1> HIDE DEF found
<1>3. /\ found \in Seq(Segment) /\ Len(found) \in Nat /\ DOMAIN found = 1 .. Len(found)
      /\ Chain(found, Len(input))
  BY <1>1 DEF Finished, Chain
<1>4. SUFFICES ASSUME new # << >>, ~ IsEmpty(Back(new))
               PROVE  Back(new).status = kGuess
  BY DEF Settled, found
<1>5. DOMAIN new = DOMAIN found /\ \A i \in DOMAIN found : new[i] = Translated(found[i], input)
  BY DEF TranslateSegments
<1>6. new \in Seq(Segment) /\ Len(new) = Len(found)
  <2>1. Finished(new, Len(input))
    BY <1>1, TranslateSegmentsFinished
  <2>2. new \in Seq(Segment)
    BY <2>1 DEF Finished, Chain
  <2> HIDE DEF new
  <2> QED BY <1>3, <1>5, <2>2
<1> HIDE DEF new
<1>7. /\ found # << >> /\ Back(new) = Translated(Back(found), input)
      /\ Back(found) \in Segment /\ Fine(Back(found)) /\ Back(found).end <= Len(input)
  <2>1. found # << >> /\ Len(found) \in DOMAIN found
    BY <1>3, <1>4, <1>6
  <2>2. Back(new) = Translated(Back(found), input)
    BY <1>3, <1>5, <1>6, <2>1 DEF Back
  <2>3. Len(input) \in Nat
    OBVIOUS
  <2> QED BY <1>3, <2>1, <2>2, <2>3, BackOf
<1>8. ~ IsEmpty(Back(found))
  BY <1>4, <1>7, TranslatedType DEF IsEmpty
<1> QED BY <1>2, <1>7, <1>8, TranslatedType

-----------------------------------------------------------------------------
(* What the user has selected                                               *)

\* A segment is in both compositions, in the same place.
Stays(segs, next, i) == i \in 1 .. Len(next) /\ next[i] = segs[i]

\* Forward leaves all segments, and begins one behind a segment that is not
\* empty.
LEMMA ForwardStays ==
  ASSUME NEW segs \in Seq(Segment), NEW i \in 1 .. Len(segs)
  PROVE  /\ Stays(segs, Forward(segs), i)
         /\ ~ IsEmpty(segs[i]) => i < Len(Forward(segs))
<1> DEFINE new == NewSegment(Back(segs).end, Back(segs).end, {})
<1>1. segs # << >> /\ Len(segs) \in Nat
  OBVIOUS
<1>2. CASE IsEmpty(Back(segs))
  <2>1. Forward(segs) = segs
    BY <1>2 DEF Forward
  <2>2. ~ IsEmpty(segs[i]) => i # Len(segs)
    BY <1>2 DEF Back
  <2> QED BY <1>1, <2>1, <2>2 DEF Stays
<1>3. CASE ~ IsEmpty(Back(segs))
  <2>1. Forward(segs) = Append(segs, new)
    BY <1>1, <1>3 DEF Forward
  <2> HIDE DEF new
  <2>2. Len(Append(segs, new)) = Len(segs) + 1 /\ Append(segs, new)[i] = segs[i]
    BY <1>1
  <2> QED BY <1>1, <2>1, <2>2 DEF Stays
<1> QED BY <1>2, <1>3

\* What replaces the last segment leaves the others.
LEMMA SetBackStays ==
  ASSUME NEW segs \in Seq(Segment), NEW i \in 1 .. Len(segs), i < Len(segs),
         NEW seg \in Segment
  PROVE  Stays(segs, SetBack(segs, seg), i) /\ Len(SetBack(segs, seg)) = Len(segs)
<1>1. Len(segs) \in Nat /\ DOMAIN segs = 1 .. Len(segs)
  OBVIOUS
<1>2. SetBack(segs, seg) \in Seq(Segment) /\ Len(SetBack(segs, seg)) = Len(segs)
  BY <1>1 DEF SetBack
<1>3. \A j \in 1 .. Len(segs) :
        SetBack(segs, seg)[j] = IF j = Len(segs) THEN seg ELSE segs[j]
  BY <1>1 DEF SetBack
<1>4. i # Len(segs)
  <2>1. i \in Nat /\ Len(segs) \in Nat
    OBVIOUS
  <2> QED BY <2>1
<1>5. SetBack(segs, seg)[i] = segs[i]
  BY <1>3, <1>4
<1> QED BY <1>1, <1>2, <1>5 DEF Stays

\* Trim takes an empty segment only.
LEMMA TrimStays ==
  ASSUME NEW segs \in Seq(Segment), NEW i \in 1 .. Len(segs), ~ IsEmpty(segs[i])
  PROVE  Stays(segs, Trim(segs), i)
<1>1. Len(segs) \in Nat
  OBVIOUS
<1>2. CASE ~ CanTrim(segs)
  BY <1>2 DEF Trim, Stays
<1>3. CASE CanTrim(segs)
  <2>1. i \in 1 .. Len(segs) - 1 /\ Len(segs) - 1 \in 0 .. Len(segs)
    BY <1>1, <1>3 DEF CanTrim, Back
  <2>2. /\ Len(SubSeq(segs, 1, Len(segs) - 1)) = Len(segs) - 1
        /\ SubSeq(segs, 1, Len(segs) - 1)[i] = segs[i]
    BY <2>1, SubSeqProperties
  <2> QED BY <1>3, <2>1, <2>2 DEF Trim, PopBack, Stays
<1> QED BY <1>2, <1>3

\* AddSegment changes the last segment, if any.
LEMMA AddSegmentStays ==
  ASSUME NEW segs \in Seq(Segment), NEW i \in 1 .. Len(segs), NEW seg \in Segment,
         i < Len(segs) \/ seg.start # Back(segs).start
  PROVE  /\ Stays(segs, AddSegment(segs, seg), i)
         /\ Len(AddSegment(segs, seg)) = Len(segs)
<1>1. segs # << >> /\ Len(segs) \in Nat
  OBVIOUS
<1>2. CASE seg.start # Back(segs).start
  BY <1>1, <1>2 DEF AddSegment, GetCurrentStartPosition, Stays
<1>3. CASE seg.start = Back(segs).start /\ i < Len(segs)
  <2> DEFINE merged == [Back(segs) EXCEPT !.tags = @ \cup seg.tags]
  <2>1. \/ AddSegment(segs, seg) = segs
        \/ AddSegment(segs, seg) = SetBack(segs, seg)
        \/ AddSegment(segs, seg) = SetBack(segs, merged)
    BY <1>1 DEF AddSegment
  <2>2. merged \in Segment
    <3>1. Back(segs) \in Segment
      BY <1>1 DEF Back
    <3> QED BY <3>1 DEF Segment
  <2> HIDE DEF merged
  <2> QED BY <1>1, <1>3, <2>1, <2>2, SetBackStays DEF Stays
<1> QED BY <1>2, <1>3

\* What is selected lies in front of the confirmed position.
LEMMA ConfirmedBound ==
  ASSUME NEW n \in Nat, NEW segs, Chain(segs, n),
         NEW i \in 1 .. Len(segs), segs[i].status >= kSelected
  PROVE  segs[i].end <= GetConfirmedPosition(segs)
<1> DEFINE Chosen == {j \in 1 .. Len(segs) : segs[j].status >= kSelected}
<1>1. /\ Len(segs) \in Nat /\ DOMAIN segs = 1 .. Len(segs)
      /\ Chosen \subseteq 0 .. Len(segs) /\ i \in Chosen
  BY DEF Chain
<1>2. PICK k \in Chosen : \A j \in Chosen : j <= k
  <2> HIDE DEF Chosen
  <2> QED BY <1>1, GreatestNat
<1>3. LastSelected(segs) # {}
  BY <1>1, <1>2 DEF LastSelected
<1>4. PICK last : last = CHOOSE j \in LastSelected(segs) : TRUE
  OBVIOUS
<1>5. last \in LastSelected(segs)
  BY <1>3, <1>4
<1>6. last \in i .. Len(segs)
  BY <1>1, <1>5 DEF LastSelected
<1>7. GetConfirmedPosition(segs) = segs[last].end
  BY <1>3, <1>4 DEF GetConfirmedPosition
<1> QED BY <1>6, <1>7, ChainMonotone

\* matcher only looks behind it,
LEMMA MatcherStays ==
  ASSUME NEW input \in Seq(Char), NEW segs, Chain(segs, Len(input)),
         MatchFound(input, segs),
         NEW i \in 1 .. Len(segs), segs[i].status >= kSelected, ~ IsEmpty(segs[i])
  PROVE  Stays(segs, Matcher(segs, input), i)
<1> DEFINE p == MatchStart(input, segs)
           drop == {j \in DOMAIN segs : segs[j].start > p}
           kept == PopBackWhile(segs, drop)
           seg == NewSegment(p, Len(input), {"pattern"})
<1>1. /\ Len(input) \in Nat /\ Len(segs) \in Nat /\ DOMAIN segs = 1 .. Len(segs)
      /\ segs[i] \in Segment /\ Fine(segs[i])
  BY DEF Chain
<1>2. p \in Nat /\ p < Len(input) /\ GetConfirmedPosition(segs) <= p
  <2>1. p \in MatchStarts(input, segs)
    BY DEF MatchFound, MatchStart
  <2>2. GetConfirmedPosition(segs) \in Nat
    BY ConfirmedPosition
  <2> QED BY <1>1, <2>1, <2>2 DEF MatchStarts
<1>3. segs[i].start < p
  <2>1. segs[i].end <= GetConfirmedPosition(segs) /\ GetConfirmedPosition(segs) \in Nat
    BY <1>1, ConfirmedBound, ConfirmedPosition
  <2>2. /\ segs[i].start \in Nat /\ segs[i].end \in Nat
        /\ segs[i].start <= segs[i].end /\ segs[i].start # segs[i].end
    BY <1>1 DEF Segment, Fine, Loose, IsEmpty
  <2> QED BY <1>2, <2>1, <2>2
<1>4. Matcher(segs, input) = AddSegment(kept, seg)
  BY DEF Matcher
<1> HIDE DEF p
<1>5. seg \in Segment /\ seg.start = p
  <2>1. p <= Len(input) /\ {"pattern"} \in SUBSET Tags
    BY <1>1, <1>2 DEF Tags
  <2> QED BY <1>1, <1>2, <2>1, NewSegmentFine DEF NewSegment
<1>6. PICK m \in 0 .. Len(segs) :
        /\ kept = SubSeq(segs, 1, m)
        /\ m \notin drop /\ \A j \in m + 1 .. Len(segs) : j \in drop
        /\ Chain(kept, Len(input)) /\ Len(kept) = m
        /\ \A j \in 1 .. m : kept[j] = segs[j]
  <2>1. drop \in SUBSET (1 .. Len(segs))
    BY <1>1
  <2> HIDE DEF drop
  <2>2. Popped(segs, drop, Len(input), kept)
    BY <1>1, <2>1, PopBackWhilePops
  <2> HIDE DEF kept
  <2> QED BY <2>2 DEF Popped
<1>7. i \in 1 .. m
  <2>1. i \notin drop
    <3>1. segs[i].start \in Nat
      BY <1>1 DEF Segment
    <3> QED BY <1>2, <1>3, <3>1
  <2> HIDE DEF drop
  <2> QED BY <1>1, <1>6, <2>1
<1> HIDE DEF drop, kept, seg
<1>8. kept \in Seq(Segment) /\ i \in 1 .. Len(kept) /\ kept[i] = segs[i]
  BY <1>6, <1>7 DEF Chain
<1>9. i < Len(kept) \/ seg.start # Back(kept).start
  BY <1>1, <1>2, <1>3, <1>5, <1>6, <1>7, <1>8 DEF Back
<1>10. Stays(kept, AddSegment(kept, seg), i)
  BY <1>5, <1>8, <1>9, AddSegmentStays
<1> QED BY <1>4, <1>8, <1>10 DEF Stays

\* abc_segmentor only at the last segment,
LEMMA AbcSegmentorStays ==
  ASSUME NEW input \in Seq(Char), NEW segs, Chain(segs, Len(input)),
         NEW i \in 1 .. Len(segs), i < Len(segs)
  PROVE  /\ Stays(segs, AbcSegmentor(segs, input), i)
         /\ Len(AbcSegmentor(segs, input)) = Len(segs)
<1> DEFINE j == GetCurrentStartPosition(segs)
           k == AbcEnd(input, j)
           seg == NewSegment(j, k, {"abc"})
<1>1. Len(input) \in Nat /\ j \in 0 .. Len(input) /\ segs \in Seq(Segment)
  BY Positions DEF Chain
<1>2. k \in j .. Len(input)
  <2> HIDE DEF j
  <2> QED BY <1>1, AbcEndInRange
<1>3. AbcSegmentor(segs, input) = IF j < k THEN AddSegment(segs, seg) ELSE segs
  BY DEF AbcSegmentor
<1> HIDE DEF k
<1>4. seg \in Segment
  <2>1. j \in Nat /\ k \in Nat /\ j <= k /\ {"abc"} \in SUBSET Tags
    BY <1>1, <1>2 DEF Tags
  <2> QED BY <2>1, NewSegmentFine
<1> HIDE DEF seg
<1> QED BY <1>1, <1>3, <1>4, AddSegmentStays DEF Stays

\* and fallback_segmentor there or at a raw one in front of it.
LEMMA FallbackSegmentorStays ==
  ASSUME NEW input \in Seq(Char), NEW segs, Chain(segs, Len(input)),
         NEW i \in 1 .. Len(segs), i < Len(segs), "raw" \notin segs[i].tags
  PROVE  Stays(segs, FallbackSegmentor(segs, input), i)
<1> DEFINE k == GetCurrentStartPosition(segs)
           rest == Trim(segs)
           joined == NewSegment(Back(rest).start, k + 1, {"raw"})
           seg == NewSegment(k, k + 1, {"raw"})
<1>1. /\ segs \in Seq(Segment) /\ Len(input) \in Nat /\ Len(segs) \in Nat
      /\ k \in Nat /\ Chain(rest, Len(input)) /\ rest \in Seq(Segment)
      /\ ~ IsEmpty(segs[i])
  BY Positions, TrimChain DEF Chain
<1>2. Stays(segs, rest, i)
  BY <1>1, TrimStays
<1>3. seg \in Segment
  <2>1. k + 1 \in Nat /\ k <= k + 1 /\ {"raw"} \in SUBSET Tags
    BY <1>1 DEF Tags
  <2> QED BY <1>1, <2>1, NewSegmentFine
<1>0. rest # << >> => joined \in Segment
  <2>1. k + 1 \in Nat /\ {"raw"} \in SUBSET Tags
    BY <1>1 DEF Tags
  <2>2. rest # << >> => Back(rest).start \in Nat
    BY <1>1, BackOf
  <2> QED BY <2>1, <2>2 DEF NewSegment, Segment, Status, kVoid, kConfirmed
<1>4. \/ FallbackSegmentor(segs, input) = segs
      \/ /\ rest # << >> /\ "raw" \in Back(rest).tags
         /\ FallbackSegmentor(segs, input) = SetBack(rest, joined)
      \/ FallbackSegmentor(segs, input) = AddSegment(Forward(rest), seg)
  BY DEF FallbackSegmentor
<1> HIDE DEF rest, joined, seg, k
<1>5. CASE FallbackSegmentor(segs, input) = segs
  BY <1>5 DEF Stays
<1>6. CASE /\ "raw" \in Back(rest).tags
           /\ FallbackSegmentor(segs, input) = SetBack(rest, joined)
  <2>1. i \in 1 .. Len(rest) /\ rest[i] = segs[i] /\ i < Len(rest)
    BY <1>1, <1>2, <1>6 DEF Stays, Back
  <2>2. Stays(rest, SetBack(rest, joined), i)
    BY <1>0, <1>1, <2>1, SetBackStays
  <2> QED BY <1>6, <2>1, <2>2 DEF Stays
<1>7. CASE FallbackSegmentor(segs, input) = AddSegment(Forward(rest), seg)
  <2>1. i \in 1 .. Len(rest) /\ rest[i] = segs[i]
    BY <1>2 DEF Stays
  <2>2. Stays(rest, Forward(rest), i) /\ i < Len(Forward(rest))
    BY <1>1, <2>1, ForwardStays
  <2>3. Forward(rest) \in Seq(Segment) /\ i \in 1 .. Len(Forward(rest))
    BY <1>1, <2>2, ForwardChain DEF Chain, Stays
  <2>4. Stays(Forward(rest), AddSegment(Forward(rest), seg), i)
    BY <1>3, <2>2, <2>3, AddSegmentStays
  <2> QED BY <1>7, <2>1, <2>2, <2>4 DEF Stays
<1> QED BY <1>4, <1>5, <1>6, <1>7

\* punct_segmentor comes before it.
LEMMA PunctSegmentorStays ==
  ASSUME NEW input \in Seq(Char), NEW segs, Chain(segs, Len(input)),
         NEW i \in 1 .. Len(segs), i < Len(segs), "raw" \notin segs[i].tags
  PROVE  Stays(segs, PunctSegmentor(segs, input), i)
<1> DEFINE k == GetCurrentStartPosition(segs)
           seg == NewSegment(k, k + 1, {"punct"})
<1>1. k \in Nat /\ segs \in Seq(Segment)
  <2>1. Len(input) \in Nat
    OBVIOUS
  <2> QED BY <2>1, Positions DEF Chain
<1>2. seg \in Segment
  <2>1. k + 1 \in Nat /\ k <= k + 1 /\ {"punct"} \in SUBSET Tags
    BY <1>1 DEF Tags
  <2> QED BY <1>1, <2>1, NewSegmentFine
<1>3. \/ PunctSegmentor(segs, input) = segs
      \/ PunctSegmentor(segs, input) = AddSegment(segs, seg)
      \/ PunctSegmentor(segs, input) = FallbackSegmentor(segs, input)
  BY DEF PunctSegmentor
<1> HIDE DEF seg
<1>4. Stays(segs, AddSegment(segs, seg), i) /\ Stays(segs, FallbackSegmentor(segs, input), i)
  BY <1>1, <1>2, AddSegmentStays, FallbackSegmentorStays
<1>5. Stays(segs, segs, i)
  BY DEF Stays
<1> QED BY <1>3, <1>4, <1>5

\* No round changes what is selected in front of its last segment.
LEMMA RoundStays ==
  ASSUME NEW input \in Seq(Char), NEW segs, Chain(segs, Len(input)),
         NEW ascii_mode \in BOOLEAN, NEW i \in 1 .. Len(segs), i < Len(segs),
         segs[i].status >= kSelected, "raw" \notin segs[i].tags
  PROVE  Stays(segs, Round(segs, input, ascii_mode), i)
<1>1. segs \in Seq(Segment) /\ Len(input) \in Nat
  BY DEF Chain
<1>2. CASE ascii_mode
  <2> DEFINE j == GetCurrentStartPosition(segs)
             seg == NewSegment(j, Len(input), {"raw"})
  <2>1. j \in Nat
    BY <1>1, Positions
  <2>2. j < Len(input) => seg \in Segment
    <3>1. {"raw"} \in SUBSET Tags
      BY DEF Tags
    <3> QED BY <1>1, <2>1, <3>1, NewSegmentFine
  <2>3. Round(segs, input, ascii_mode) = IF j < Len(input) THEN AddSegment(segs, seg)
                                         ELSE segs
    BY <1>2 DEF Round, AsciiSegmentor
  <2> HIDE DEF seg, j
  <2> QED BY <1>1, <2>2, <2>3, AddSegmentStays DEF Stays
<1>3. CASE ~ ascii_mode /\ MatchFound(input, segs)
  <2>1. ~ IsEmpty(segs[i])
    BY <1>1 DEF Chain
  <2> QED BY <1>3, <2>1, MatcherStays DEF Round
<1>4. CASE ~ ascii_mode /\ ~ MatchFound(input, segs)
  <2> DEFINE abc == AbcSegmentor(segs, input)
  <2>1. Chain(abc, Len(input)) /\ Stays(segs, abc, i) /\ Len(abc) = Len(segs)
    BY AbcSegmentorChain, AbcSegmentorStays
  <2>2. Round(segs, input, ascii_mode) = PunctSegmentor(abc, input)
    BY <1>4 DEF Round
  <2> HIDE DEF abc
  <2>3. i \in 1 .. Len(abc) /\ i < Len(abc) /\ abc[i] = segs[i]
    BY <2>1 DEF Stays
  <2>4. Stays(abc, PunctSegmentor(abc, input), i)
    BY <2>1, <2>3, PunctSegmentorStays
  <2> QED BY <2>2, <2>3, <2>4 DEF Stays
<1> QED BY <1>2, <1>3, <1>4

\* no segmentor extends seg in an input of length n
Unextended(seg, n) == "raw" \notin seg.tags \/ seg.end = n

\* Nor does the loop of rounds, which does nothing behind the end of the input.
LEMMA LoopStays ==
  ASSUME NEW input \in Seq(Char), NEW segs, Chain(segs, Len(input)),
         NEW ascii_mode \in BOOLEAN, NEW i \in 1 .. Len(segs), i < Len(segs),
         segs[i].status >= kSelected,
         Unextended(segs[i], Len(input))
  PROVE  Stays(segs, Loop(segs, input, ascii_mode).segs, i)
<1> DEFINE N == Len(input)
<1>1. PICK f : /\ f[0] = [segs |-> segs, done |-> FALSE]
               /\ \A n \in 1 .. N + 1 : f[n] = Iterate(f[n - 1], input, ascii_mode)
               /\ Loop(segs, input, ascii_mode) = f[N + 1]
  BY LoopFunction
<1> DEFINE Holds(n) ==
             /\ Chain(f[n].segs, N) /\ f[n].done \in BOOLEAN
             /\ Stays(segs, f[n].segs, i)
             /\ ~ f[n].done => i < Len(f[n].segs)
           Bad == {n \in 0 .. N + 1 : ~ Holds(n)}
<1>2. N \in Nat /\ ~ IsEmpty(segs[i])
  BY DEF Chain
<1> HIDE DEF N
<1>3. Holds(0)
  BY <1>1 DEF N, Stays
<1>4. ASSUME NEW n \in 1 .. N + 1, Holds(n - 1) PROVE Holds(n)
  <2> DEFINE loop == f[n - 1]
             next == Round(loop.segs, input, ascii_mode)
  <2>1. f[n] = Iterate(loop, input, ascii_mode)
    BY <1>1
  <2>2. CASE loop.done \/ HasFinishedSegmentation(loop.segs, input)
    <3>1. f[n] = [segs |-> loop.segs, done |-> TRUE]
      BY <2>1, <2>2 DEF Iterate
    <3> QED BY <1>4, <3>1
  <2>3. CASE ~ loop.done /\ ~ HasFinishedSegmentation(loop.segs, input)
    <3>1. /\ Chain(loop.segs, N) /\ i \in 1 .. Len(loop.segs) /\ i < Len(loop.segs)
          /\ loop.segs[i] = segs[i]
      BY <1>4, <2>3 DEF Stays
    <3>2. Chain(next, N)
      BY <2>3, <3>1, RoundAdvances DEF Advances, N
    <3>0. "raw" \notin segs[i].tags
      <4>1. loop.segs[i].end <= Back(loop.segs).end
        BY <1>2, <3>1, ChainMonotone DEF Back
      <4>2. loop.segs # << >>
        BY <3>1
      <4>3. HasFinishedSegmentation(loop.segs, input) <=> Back(loop.segs).end >= N
        BY <4>2 DEF HasFinishedSegmentation, GetCurrentEndPosition, N
      <4>4. Back(loop.segs).end \in Nat
        BY <1>2, <3>1, <4>2, BackOf
      <4> QED BY <1>2, <2>3, <3>1, <4>1, <4>3, <4>4 DEF N, Unextended
    <3>3. Stays(loop.segs, next, i)
      BY <3>0, <3>1, RoundStays DEF N
    <3>4. f[n] = [segs |-> next, done |-> TRUE] \/ f[n] = [segs |-> Forward(next), done |-> FALSE]
      BY <2>1, <2>3 DEF Iterate, Advance
    <3> HIDE DEF loop, next
    <3>5. /\ next \in Seq(Segment) /\ i \in 1 .. Len(next) /\ next[i] = segs[i]
      BY <3>1, <3>2, <3>3 DEF Stays, Chain
    <3>6. CASE f[n] = [segs |-> next, done |-> TRUE]
      BY <3>2, <3>5, <3>6 DEF Stays
    <3>7. CASE f[n] = [segs |-> Forward(next), done |-> FALSE]
      <4>1. Chain(Forward(next), N)
        BY <1>2, <3>2, ForwardChain
      <4>2. Stays(next, Forward(next), i) /\ i < Len(Forward(next))
        BY <1>2, <3>5, ForwardStays
      <4> QED BY <3>5, <3>7, <4>1, <4>2 DEF Stays
    <3> QED BY <3>4, <3>6, <3>7
  <2> QED BY <1>4, <2>2, <2>3
<1>5. Bad = {}
  <2>1. SUFFICES ASSUME Bad # {} PROVE FALSE
    OBVIOUS
  <2>2. Bad \subseteq Nat
    BY <1>2
  <2>3. PICK n \in Bad : \A m \in Bad : n <= m
    <3> HIDE DEF Bad
    <3> QED BY <2>1, <2>2, LeastNat
  <2>4. n \in 0 .. N + 1 /\ ~ Holds(n)
    OBVIOUS
  <2> HIDE DEF Holds
  <2>5. n # 0
    BY <1>3, <2>4
  <2>6. n \in 1 .. N + 1 /\ n - 1 \in 0 .. N + 1 /\ n - 1 < n
    BY <1>2, <2>4, <2>5
  <2>7. ~ Holds(n - 1)
    BY <1>4, <2>4, <2>6
  <2> QED BY <2>3, <2>4, <2>6, <2>7
<1>6. Holds(N + 1)
  <2>1. N + 1 \in 0 .. N + 1
    BY <1>2
  <2> HIDE DEF Holds
  <2> QED BY <1>5, <2>1
<1> QED BY <1>1, <1>6

\* Reset leaves what is about the part of the input that stays.
LEMMA ResetStays ==
  ASSUME NEW n \in Nat, NEW segs, Chain(segs, n),
         NEW old \in Seq(Char), NEW new \in Seq(Char),
         NEW i \in 1 .. Len(segs), i < Len(segs), segs[i].end <= DiffPos(old, new)
  PROVE  Stays(segs, Reset(segs, old, new), i) /\ i < Len(Reset(segs, old, new))
<1> DEFINE d == DiffPos(old, new)
           drop == {j \in DOMAIN segs : segs[j].end > d}
           kept == PopBackWhile(segs, drop)
<1>1. /\ d \in Nat /\ Len(segs) \in Nat /\ DOMAIN segs = 1 .. Len(segs)
      /\ segs[i].end \in Nat /\ ~ IsEmpty(segs[i])
  <2>1. d \in Nat
    BY DiffPosInRange
  <2>2. segs[i] \in Segment /\ ~ IsEmpty(segs[i]) /\ Len(segs) \in Nat
        /\ DOMAIN segs = 1 .. Len(segs)
    BY DEF Chain
  <2> QED BY <2>1, <2>2 DEF Segment
<1>2. Reset(segs, old, new) = IF Len(kept) < Len(segs) THEN Forward(kept) ELSE segs
  BY DEF Reset
<1>3. i \notin drop
  BY <1>1
<1>4. drop \in SUBSET (1 .. Len(segs))
  BY <1>1
<1> HIDE DEF d, drop
<1>5. PICK m \in 0 .. Len(segs) :
        /\ kept = SubSeq(segs, 1, m)
        /\ m \notin drop /\ \A j \in m + 1 .. Len(segs) : j \in drop
        /\ Chain(kept, n) /\ Len(kept) = m
        /\ \A j \in 1 .. m : kept[j] = segs[j]
  <2>1. Popped(segs, drop, n, kept)
    BY <1>4, PopBackWhilePops
  <2> HIDE DEF kept
  <2> QED BY <2>1 DEF Popped
<1>6. i \in 1 .. m
  BY <1>1, <1>3, <1>5
<1> HIDE DEF kept
<1>7. kept \in Seq(Segment) /\ i \in 1 .. Len(kept) /\ kept[i] = segs[i]
  BY <1>5, <1>6 DEF Chain
<1>8. CASE Len(kept) < Len(segs)
  <2>1. Stays(kept, Forward(kept), i) /\ i < Len(Forward(kept))
    BY <1>1, <1>7, ForwardStays
  <2> QED BY <1>2, <1>7, <1>8, <2>1 DEF Stays
<1>9. CASE ~ (Len(kept) < Len(segs))
  BY <1>2, <1>9 DEF Stays
<1> QED BY <1>8, <1>9

\* Two strings differ behind every common prefix.
LEMMA DiffPosBehind ==
  ASSUME NEW a \in Seq(Char), NEW b \in Seq(Char), NEW k \in Nat,
         k <= Len(a), k <= Len(b), \A i \in 1 .. k : a[i] = b[i]
  PROVE  k <= DiffPos(a, b)
<1>1. PICK d \in 0 .. Len(a) : /\ d = DiffPos(a, b) /\ d <= Len(b)
                               /\ d = Len(a) \/ d = Len(b) \/ a[d + 1] # b[d + 1]
  BY DiffPosInRange
<1>2. Len(a) \in Nat /\ Len(b) \in Nat
  OBVIOUS
<1>3. SUFFICES ASSUME d < k PROVE FALSE
  BY <1>1, <1>2
<1>4. d + 1 \in 1 .. k
  BY <1>1, <1>2, <1>3
<1> QED BY <1>1, <1>2, <1>3, <1>4

\* Both passes of the engine leave alone what the loop does.
LEMMA ComputedStays ==
  ASSUME NEW input \in Seq(Char), NEW segs, Chain(segs, Len(input)),
         NEW ascii_mode \in BOOLEAN, NEW i \in 1 .. Len(segs), i < Len(segs),
         segs[i].status >= kSelected,
         Stays(segs, Loop(segs, input, ascii_mode).segs, i)
  PROVE  Stays(segs, TranslateSegments(CalculateSegmentation(segs, input, ascii_mode),
                                       input), i)
<1> DEFINE looped == Loop(segs, input, ascii_mode).segs
           trimmed == Trim(looped)
           found == CalculateSegmentation(segs, input, ascii_mode)
           new == TranslateSegments(found, input)
<1>1. Len(input) \in Nat /\ ~ IsEmpty(segs[i])
  BY DEF Chain
<1>2. Chain(looped, Len(input)) /\ Stays(segs, looped, i)
  BY LoopFinished
<1>3. found = IF trimmed # << >> /\ Back(trimmed).status >= kSelected
              THEN Forward(trimmed) ELSE trimmed
  BY DEF CalculateSegmentation, ForwardSelected
<1> HIDE DEF looped, found
<1>4. looped \in Seq(Segment) /\ i \in 1 .. Len(looped) /\ looped[i] = segs[i]
  BY <1>2 DEF Stays, Chain
<1>5. Stays(looped, trimmed, i) /\ trimmed \in Seq(Segment)
  BY <1>1, <1>2, <1>4, TrimStays, TrimChain DEF Chain
<1> HIDE DEF trimmed
<1>6. i \in 1 .. Len(trimmed) /\ trimmed[i] = segs[i]
  BY <1>4, <1>5 DEF Stays
<1>7. i \in 1 .. Len(found) /\ found[i] = segs[i]
  BY <1>3, <1>5, <1>6, ForwardStays DEF Stays
<1>8. Len(found) \in Nat /\ DOMAIN found = 1 .. Len(found)
  BY CalculateSegmentationFinished DEF Finished, Chain, found
<1>9. Translated(segs[i], input) = segs[i]
  <2>1. segs[i].status \in Nat
    <3>1. segs[i] \in Segment
      BY DEF Chain
    <3> QED BY <3>1 DEF Segment, Status, kVoid, kConfirmed
  <2>2. segs[i].status >= kGuess
    BY <2>1 DEF kGuess, kSelected
  <2> QED BY <2>2 DEF Translated
<1>10. DOMAIN new = 1 .. Len(found) /\ new[i] = segs[i]
  BY <1>7, <1>8, <1>9 DEF TranslateSegments
<1>11. Len(new) = Len(found)
  BY <1>8 DEF TranslateSegments
<1> HIDE DEF new
<1>12. Stays(segs, new, i)
  BY <1>7, <1>10, <1>11 DEF Stays
<1> QED BY <1>12 DEF new, found

\* So do the Reset before them and both passes, for a segment that no segmentor
\* extends.
LEMMA SelectedStays ==
  ASSUME NEW n \in Nat, NEW segs, Chain(segs, n),
         NEW old \in Seq(Char), NEW input \in Seq(Char), NEW ascii_mode \in BOOLEAN,
         NEW i \in 1 .. Len(segs), i < Len(segs),
         segs[i].status >= kSelected,
         Unextended(segs[i], Len(input)),
         segs[i].end <= DiffPos(old, input)
  PROVE  Stays(segs, TranslateSegments(CalculateSegmentation(
                       Reset(segs, old, input), input, ascii_mode), input), i)
<1> DEFINE kept == Reset(segs, old, input)
<1>1. Chain(kept, Len(input)) /\ Stays(segs, kept, i) /\ i < Len(kept)
  BY ResetChain, ResetStays
<1> HIDE DEF kept
<1>2. i \in 1 .. Len(kept) /\ kept[i] = segs[i]
  BY <1>1 DEF Stays
<1>3. Stays(kept, Loop(kept, input, ascii_mode).segs, i)
  BY <1>1, <1>2, LoopStays
<1>4. Stays(kept, TranslateSegments(CalculateSegmentation(kept, input, ascii_mode),
                                    input), i)
  BY <1>1, <1>2, <1>3, ComputedStays
<1> QED BY <1>2, <1>4 DEF Stays, kept

-----------------------------------------------------------------------------
(* What has just been typed                                                 *)

\* Nothing behind the first n characters has been selected yet.
SelectedBefore(segs, n) ==
  \A i \in 1 .. Len(segs) : segs[i].status < kSelected \/ segs[i].end <= n

\* A new segment is not selected,
LEMMA NewIsUnselected ==
  ASSUME NEW s, NEW e, NEW tags
  PROVE  NewSegment(s, e, tags).status < kSelected
BY DEF NewSegment, kVoid, kSelected

\* so Forward,
LEMMA ForwardUnselected ==
  ASSUME NEW n \in Nat, NEW segs \in Seq(Segment), SelectedBefore(segs, n)
  PROVE  SelectedBefore(Forward(segs), n)
<1> DEFINE new == NewSegment(Back(segs).end, Back(segs).end, {})
<1>1. new.status < kSelected
  BY NewIsUnselected
<1>2. Forward(segs) = segs \/ Forward(segs) = Append(segs, new)
  BY DEF Forward
<1> HIDE DEF new
<1>3. SelectedBefore(Append(segs, new), n)
  <2> SUFFICES ASSUME NEW i \in 1 .. Len(Append(segs, new))
               PROVE  \/ Append(segs, new)[i].status < kSelected
                      \/ Append(segs, new)[i].end <= n
    BY DEF SelectedBefore
  <2>1. CASE i \in 1 .. Len(segs)
    <3>1. Append(segs, new)[i] = segs[i]
      BY <2>1
    <3> QED BY <2>1, <3>1 DEF SelectedBefore
  <2>2. CASE i = Len(segs) + 1
    <3>1. Append(segs, new)[i] = new
      BY <2>2
    <3> QED BY <1>1, <3>1
  <2> QED BY <2>1, <2>2
<1> QED BY <1>2, <1>3

\* what replaces the last segment,
LEMMA SetBackUnselected ==
  ASSUME NEW n \in Nat, NEW segs \in Seq(Segment), segs # << >>, SelectedBefore(segs, n),
         NEW seg, seg.status < kSelected \/ seg.end <= n
  PROVE  SelectedBefore(SetBack(segs, seg), n)
<1>1. /\ Len(segs) \in Nat /\ DOMAIN segs = 1 .. Len(segs)
      /\ Len(SetBack(segs, seg)) = Len(segs)
      /\ \A i \in 1 .. Len(segs) :
           SetBack(segs, seg)[i] = IF i = Len(segs) THEN seg ELSE segs[i]
  BY DEF SetBack
<1> QED BY <1>1 DEF SelectedBefore

\* and what is left in front,
LEMMA FrontUnselected ==
  ASSUME NEW n \in Nat, NEW segs \in Seq(Segment), SelectedBefore(segs, n),
         NEW m \in 0 .. Len(segs)
  PROVE  SelectedBefore(SubSeq(segs, 1, m), n)
<1>1. /\ Len(SubSeq(segs, 1, m)) = m
      /\ \A i \in 1 .. m : SubSeq(segs, 1, m)[i] = segs[i] /\ i \in 1 .. Len(segs)
  BY SubSeqProperties
<1> QED BY <1>1 DEF SelectedBefore

LEMMA TrimUnselected ==
  ASSUME NEW n \in Nat, NEW k \in Nat, NEW segs, Chain(segs, k), SelectedBefore(segs, n)
  PROVE  SelectedBefore(Trim(segs), n)
<1>1. segs \in Seq(Segment) /\ Len(segs) \in Nat
  BY DEF Chain
<1>2. CASE CanTrim(segs)
  <2>1. Len(segs) - 1 \in 0 .. Len(segs)
    BY <1>1, <1>2 DEF CanTrim
  <2>2. SelectedBefore(PopBack(segs), n)
    BY <1>1, <2>1, FrontUnselected DEF PopBack
  <2> QED BY <1>2, <2>2 DEF Trim
<1> QED BY <1>2 DEF Trim

\* AddSegment,
LEMMA AddUnselected ==
  ASSUME NEW n \in Nat, NEW k \in Nat, NEW segs, Chain(segs, k), SelectedBefore(segs, n),
         NEW seg \in Segment, seg.status < kSelected
  PROVE  SelectedBefore(AddSegment(segs, seg), n)
<1> DEFINE merged == [Back(segs) EXCEPT !.tags = @ \cup seg.tags]
<1>1. \/ AddSegment(segs, seg) = segs
      \/ segs = << >> /\ AddSegment(segs, seg) = << seg >>
      \/ segs # << >> /\ AddSegment(segs, seg) = SetBack(segs, seg)
      \/ segs # << >> /\ AddSegment(segs, seg) = SetBack(segs, merged)
  BY DEF AddSegment
<1>2. segs # << >> => merged.status < kSelected \/ merged.end <= n
  <2> SUFFICES ASSUME segs # << >> PROVE merged.status < kSelected \/ merged.end <= n
    OBVIOUS
  <2>1. Back(segs) \in Segment /\ Back(segs) = segs[Len(segs)] /\ Len(segs) \in 1 .. Len(segs)
    BY BackOf
  <2>2. merged.status = Back(segs).status /\ merged.end = Back(segs).end
    BY <2>1 DEF Segment
  <2> QED BY <2>1, <2>2 DEF SelectedBefore
<1>3. SelectedBefore(<< seg >>, n)
  BY DEF SelectedBefore
<1> HIDE DEF merged
<1>4. segs \in Seq(Segment)
  BY DEF Chain
<1> QED BY <1>1, <1>2, <1>3, <1>4, SetBackUnselected

\* the segmentors,
LEMMA AbcUnselected ==
  ASSUME NEW n \in Nat, NEW input \in Seq(Char), NEW segs, Chain(segs, Len(input)),
         SelectedBefore(segs, n)
  PROVE  SelectedBefore(AbcSegmentor(segs, input), n)
<1> DEFINE j == GetCurrentStartPosition(segs)
           k == AbcEnd(input, j)
           seg == NewSegment(j, k, {"abc"})
<1>1. Len(input) \in Nat /\ j \in 0 .. Len(input)
  BY Positions
<1>2. k \in j .. Len(input)
  <2> HIDE DEF j
  <2> QED BY <1>1, AbcEndInRange
<1>3. AbcSegmentor(segs, input) = IF j < k THEN AddSegment(segs, seg) ELSE segs
  BY DEF AbcSegmentor
<1> HIDE DEF k
<1>4. seg \in Segment
  <2>1. j \in Nat /\ k \in Nat /\ j <= k /\ {"abc"} \in SUBSET Tags
    BY <1>1, <1>2 DEF Tags
  <2> QED BY <2>1, NewSegmentFine
<1>5. seg.status < kSelected
  BY NewIsUnselected
<1> HIDE DEF seg
<1> QED BY <1>1, <1>3, <1>4, <1>5, AddUnselected

LEMMA MatcherUnselected ==
  ASSUME NEW n \in Nat, NEW input \in Seq(Char), NEW segs, Chain(segs, Len(input)),
         MatchFound(input, segs), SelectedBefore(segs, n)
  PROVE  SelectedBefore(Matcher(segs, input), n)
<1> DEFINE p == MatchStart(input, segs)
           drop == {j \in DOMAIN segs : segs[j].start > p}
           kept == PopBackWhile(segs, drop)
           seg == NewSegment(p, Len(input), {"pattern"})
<1>0. segs \in Seq(Segment)
  BY DEF Chain
<1>1. Len(input) \in Nat /\ Len(segs) \in Nat /\ DOMAIN segs = 1 .. Len(segs)
  BY <1>0
<1>2. p \in Nat /\ p < Len(input)
  <2>1. p \in MatchStarts(input, segs)
    BY DEF MatchFound, MatchStart
  <2>2. GetConfirmedPosition(segs) \in Nat
    BY ConfirmedPosition
  <2> QED BY <1>1, <2>1, <2>2 DEF MatchStarts
<1>3. Matcher(segs, input) = AddSegment(kept, seg)
  BY DEF Matcher
<1> HIDE DEF p
<1>4. seg \in Segment /\ seg.status < kSelected
  <2>1. p <= Len(input) /\ {"pattern"} \in SUBSET Tags
    BY <1>1, <1>2 DEF Tags
  <2> QED BY <1>1, <1>2, <2>1, NewSegmentFine, NewIsUnselected
<1>5. PICK m \in 0 .. Len(segs) :
        /\ kept = SubSeq(segs, 1, m)
        /\ m \notin drop /\ \A j \in m + 1 .. Len(segs) : j \in drop
        /\ Chain(kept, Len(input)) /\ Len(kept) = m
        /\ \A j \in 1 .. m : kept[j] = segs[j]
  <2>1. drop \in SUBSET (1 .. Len(segs))
    BY <1>1
  <2> HIDE DEF drop
  <2> QED BY <1>1, <2>1, PopBackWhileChain
<1> HIDE DEF drop, kept, seg
<1>6. SelectedBefore(kept, n)
  BY <1>0, <1>5, FrontUnselected
<1> QED BY <1>1, <1>3, <1>4, <1>5, <1>6, AddUnselected

LEMMA FallbackUnselected ==
  ASSUME NEW n \in Nat, NEW input \in Seq(Char), NEW segs, Chain(segs, Len(input)),
         SelectedBefore(segs, n)
  PROVE  SelectedBefore(FallbackSegmentor(segs, input), n)
<1> DEFINE k == GetCurrentStartPosition(segs)
           rest == Trim(segs)
           joined == NewSegment(Back(rest).start, k + 1, {"raw"})
           seg == NewSegment(k, k + 1, {"raw"})
<1>1. /\ Len(input) \in Nat /\ k \in Nat
      /\ Chain(rest, Len(input)) /\ rest \in Seq(Segment)
  BY Positions, TrimChain DEF Chain
<1>2. SelectedBefore(rest, n)
  BY <1>1, TrimUnselected
<1>3. seg \in Segment
  <2>1. k + 1 \in Nat /\ k <= k + 1 /\ {"raw"} \in SUBSET Tags
    BY <1>1 DEF Tags
  <2> QED BY <1>1, <2>1, NewSegmentFine
<1>4. seg.status < kSelected /\ joined.status < kSelected
  BY NewIsUnselected
<1>5. \/ FallbackSegmentor(segs, input) = segs
      \/ rest # << >> /\ FallbackSegmentor(segs, input) = SetBack(rest, joined)
      \/ FallbackSegmentor(segs, input) = AddSegment(Forward(rest), seg)
  BY DEF FallbackSegmentor
<1> HIDE DEF rest, joined, seg, k
<1>6. rest # << >> => SelectedBefore(SetBack(rest, joined), n)
  BY <1>1, <1>2, <1>4, SetBackUnselected
<1>7. SelectedBefore(AddSegment(Forward(rest), seg), n)
  <2>1. Chain(Forward(rest), Len(input)) /\ SelectedBefore(Forward(rest), n)
    BY <1>1, <1>2, ForwardChain, ForwardUnselected
  <2> QED BY <1>1, <1>3, <1>4, <2>1, AddUnselected
<1> QED BY <1>5, <1>6, <1>7

LEMMA PunctUnselected ==
  ASSUME NEW n \in Nat, NEW input \in Seq(Char), NEW segs, Chain(segs, Len(input)),
         SelectedBefore(segs, n)
  PROVE  SelectedBefore(PunctSegmentor(segs, input), n)
<1> DEFINE k == GetCurrentStartPosition(segs)
           seg == NewSegment(k, k + 1, {"punct"})
<1>1. Len(input) \in Nat /\ k \in Nat
  BY Positions
<1>2. seg \in Segment
  <2>1. k + 1 \in Nat /\ k <= k + 1 /\ {"punct"} \in SUBSET Tags
    BY <1>1 DEF Tags
  <2> QED BY <1>1, <2>1, NewSegmentFine
<1>3. seg.status < kSelected
  BY NewIsUnselected
<1>4. \/ PunctSegmentor(segs, input) = segs
      \/ PunctSegmentor(segs, input) = AddSegment(segs, seg)
      \/ PunctSegmentor(segs, input) = FallbackSegmentor(segs, input)
  BY DEF PunctSegmentor
<1> HIDE DEF seg
<1> QED BY <1>1, <1>2, <1>3, <1>4, AddUnselected, FallbackUnselected

\* a round,
LEMMA RoundUnselected ==
  ASSUME NEW n \in Nat, NEW input \in Seq(Char), NEW segs, Chain(segs, Len(input)),
         NEW ascii_mode \in BOOLEAN, SelectedBefore(segs, n)
  PROVE  SelectedBefore(Round(segs, input, ascii_mode), n)
<1>1. Len(input) \in Nat
  OBVIOUS
<1>2. CASE ascii_mode
  <2> DEFINE j == GetCurrentStartPosition(segs)
             seg == NewSegment(j, Len(input), {"raw"})
  <2>1. j \in Nat
    BY <1>1, Positions
  <2>2. j < Len(input) => seg \in Segment
    <3>1. {"raw"} \in SUBSET Tags
      BY DEF Tags
    <3> QED BY <1>1, <2>1, <3>1, NewSegmentFine
  <2>3. seg.status < kSelected
    BY NewIsUnselected
  <2>4. Round(segs, input, ascii_mode) = IF j < Len(input) THEN AddSegment(segs, seg)
                                         ELSE segs
    BY <1>2 DEF Round, AsciiSegmentor
  <2> HIDE DEF seg, j
  <2> QED BY <1>1, <2>2, <2>3, <2>4, AddUnselected
<1>3. CASE ~ ascii_mode /\ MatchFound(input, segs)
  BY <1>3, MatcherUnselected DEF Round
<1>4. CASE ~ ascii_mode /\ ~ MatchFound(input, segs)
  <2>1. Chain(AbcSegmentor(segs, input), Len(input))
    BY AbcSegmentorChain
  <2>2. SelectedBefore(AbcSegmentor(segs, input), n)
    BY AbcUnselected
  <2> QED BY <1>4, <2>1, <2>2, PunctUnselected DEF Round
<1> QED BY <1>2, <1>3, <1>4

\* and the loop select nothing.
LEMMA LoopUnselected ==
  ASSUME NEW m \in Nat, NEW input \in Seq(Char), NEW segs, Chain(segs, Len(input)),
         NEW ascii_mode \in BOOLEAN, SelectedBefore(segs, m)
  PROVE  SelectedBefore(Loop(segs, input, ascii_mode).segs, m)
<1> DEFINE N == Len(input)
<1>1. PICK f : /\ f[0] = [segs |-> segs, done |-> FALSE]
               /\ \A n \in 1 .. N + 1 : f[n] = Iterate(f[n - 1], input, ascii_mode)
               /\ Loop(segs, input, ascii_mode) = f[N + 1]
  BY LoopFunction
<1> DEFINE Holds(n) == Chain(f[n].segs, N) /\ SelectedBefore(f[n].segs, m)
           Bad == {n \in 0 .. N + 1 : ~ Holds(n)}
<1>2. N \in Nat
  OBVIOUS
<1> HIDE DEF N
<1>3. Holds(0)
  BY <1>1 DEF N
<1>4. ASSUME NEW n \in 1 .. N + 1, Holds(n - 1) PROVE Holds(n)
  <2> DEFINE loop == f[n - 1]
             next == Round(loop.segs, input, ascii_mode)
  <2>1. f[n] = Iterate(loop, input, ascii_mode)
    BY <1>1
  <2>2. CASE loop.done \/ HasFinishedSegmentation(loop.segs, input)
    <3>1. f[n] = [segs |-> loop.segs, done |-> TRUE]
      BY <2>1, <2>2 DEF Iterate
    <3> QED BY <1>4, <3>1
  <2>3. CASE ~ loop.done /\ ~ HasFinishedSegmentation(loop.segs, input)
    <3>1. Chain(loop.segs, N) /\ SelectedBefore(loop.segs, m)
      BY <1>4
    <3>2. Chain(next, N)
      BY <2>3, <3>1, RoundAdvances DEF Advances, N
    <3>3. SelectedBefore(next, m)
      BY <3>1, RoundUnselected DEF N
    <3>4. f[n] = [segs |-> next, done |-> TRUE] \/ f[n] = [segs |-> Forward(next), done |-> FALSE]
      BY <2>1, <2>3 DEF Iterate, Advance
    <3> HIDE DEF loop, next
    <3>5. Chain(Forward(next), N) /\ SelectedBefore(Forward(next), m)
      <4>1. next \in Seq(Segment)
        BY <3>2 DEF Chain
      <4> QED BY <1>2, <3>2, <3>3, <4>1, ForwardChain, ForwardUnselected
    <3> QED BY <3>2, <3>3, <3>4, <3>5
  <2> QED BY <1>4, <2>2, <2>3
<1>5. Bad = {}
  <2>1. SUFFICES ASSUME Bad # {} PROVE FALSE
    OBVIOUS
  <2>2. Bad \subseteq Nat
    BY <1>2
  <2>3. PICK n \in Bad : \A k \in Bad : n <= k
    <3> HIDE DEF Bad
    <3> QED BY <2>1, <2>2, LeastNat
  <2>4. n \in 0 .. N + 1 /\ ~ Holds(n)
    OBVIOUS
  <2> HIDE DEF Holds
  <2>5. n # 0
    BY <1>3, <2>4
  <2>6. n \in 1 .. N + 1 /\ n - 1 \in 0 .. N + 1 /\ n - 1 < n
    BY <1>2, <2>4, <2>5
  <2>7. ~ Holds(n - 1)
    BY <1>4, <2>4, <2>6
  <2> QED BY <2>3, <2>4, <2>6, <2>7
<1>6. Holds(N + 1)
  <2>1. N + 1 \in 0 .. N + 1
    BY <1>2
  <2> HIDE DEF Holds
  <2> QED BY <1>5, <2>1
<1> QED BY <1>1, <1>6

\* Reset only takes away.
LEMMA ResetUnselected ==
  ASSUME NEW n \in Nat, NEW segs, Chain(segs, n), NEW old, NEW new
  PROVE  SelectedBefore(Reset(segs, old, new), n)
<1> DEFINE d == DiffPos(old, new)
           drop == {j \in DOMAIN segs : segs[j].end > d}
           kept == PopBackWhile(segs, drop)
<1>1. /\ segs \in Seq(Segment) /\ Len(segs) \in Nat
      /\ DOMAIN segs = 1 .. Len(segs) /\ drop \in SUBSET (1 .. Len(segs))
  BY DEF Chain
<1>2. Reset(segs, old, new) = IF Len(kept) < Len(segs) THEN Forward(kept) ELSE segs
  BY DEF Reset
<1>3. SelectedBefore(segs, n)
  BY DEF SelectedBefore, Chain
<1> HIDE DEF d, drop
<1>4. PICK m \in 0 .. Len(segs) :
        /\ kept = SubSeq(segs, 1, m)
        /\ m \notin drop /\ \A j \in m + 1 .. Len(segs) : j \in drop
        /\ Chain(kept, n) /\ Len(kept) = m
        /\ \A j \in 1 .. m : kept[j] = segs[j]
  BY <1>1, PopBackWhileChain
<1> HIDE DEF kept
<1>5. SelectedBefore(kept, n) /\ kept \in Seq(Segment)
  BY <1>1, <1>3, <1>4, FrontUnselected DEF Chain
<1> QED BY <1>2, <1>3, <1>5, ForwardUnselected

\* The last segment of a composition that has become longer ends with the new
\* characters: it is not selected, and none is begun behind it.
LEMMA TypedIsLast ==
  ASSUME NEW n \in Nat, NEW segs, Chain(segs, n),
         NEW old \in Seq(Char), NEW input \in Seq(Char), n < Len(input),
         NEW ascii_mode \in BOOLEAN,
         NEW new, new = CalculateSegmentation(Reset(segs, old, input), input, ascii_mode)
  PROVE  new # << >> /\ ~ IsEmpty(Back(new))
<1> DEFINE kept == Reset(segs, old, input)
           looped == Loop(kept, input, ascii_mode).segs
           trimmed == Trim(looped)
<1>1. Chain(kept, Len(input)) /\ SelectedBefore(kept, n) /\ Len(input) \in Nat
  BY ResetChain, ResetUnselected
<1> HIDE DEF kept
<1>2. /\ Chain(looped, Len(input)) /\ HasFinishedSegmentation(looped, input)
      /\ SelectedBefore(looped, n)
  BY <1>1, LoopFinished, LoopUnselected
<1>3. new = IF trimmed # << >> /\ Back(trimmed).status >= kSelected
            THEN Forward(trimmed) ELSE trimmed
  BY DEF CalculateSegmentation, ForwardSelected, kept
<1> HIDE DEF looped
<1>4. /\ Chain(trimmed, Len(input)) /\ SelectedBefore(trimmed, n)
      /\ GetCurrentEndPosition(trimmed) = GetCurrentEndPosition(looped)
      /\ \A i \in 1 .. Len(trimmed) : ~ IsEmpty(trimmed[i])
  BY <1>1, <1>2, TrimChain, TrimNonEmpty, TrimUnselected
<1>5. GetCurrentEndPosition(looped) = Len(input)
  BY <1>1, <1>2, Positions DEF HasFinishedSegmentation
<1> HIDE DEF trimmed
<1>6. trimmed # << >>
  BY <1>1, <1>4, <1>5 DEF GetCurrentEndPosition
<1>7. /\ Back(trimmed) = trimmed[Len(trimmed)] /\ Len(trimmed) \in 1 .. Len(trimmed)
      /\ Back(trimmed).end = Len(input) /\ Back(trimmed) \in Segment
  BY <1>1, <1>4, <1>5, <1>6, BackOf DEF GetCurrentEndPosition
<1>8. Back(trimmed).status < kSelected
  BY <1>1, <1>4, <1>7 DEF SelectedBefore
<1>9. ~ (Back(trimmed).status >= kSelected)
  <2>1. Back(trimmed).status \in Int
    BY <1>7 DEF Segment, Status, kVoid, kConfirmed
  <2> QED BY <1>8, <2>1 DEF kSelected
<1> QED BY <1>3, <1>4, <1>6, <1>7, <1>9

-----------------------------------------------------------------------------
(* What a segment begins with                                               *)

\* What abc_segmentor begins a segment with, or matcher one that goes on to the
\* end of the input.
Opens(input, k) ==
  \/ At(input, k) \in Letters
  \/ /\ At(input, k) \in Leads
     /\ \A j \in k + 1 .. Len(input) - 1 : At(input, j) \in Letters

\* abc_segmentor finds something where there is a letter.
LEMMA AbcEndRun ==
  ASSUME NEW input \in Seq(Char), NEW j \in 0 .. Len(input) - 1
  PROVE  j < AbcEnd(input, j) <=> At(input, j) \in Letters
<1> DEFINE P(k) == /\ \A i \in j .. k - 1 : \/ At(input, i) \in Letters
                                            \/ i # j /\ At(input, i) \in Delims
                   /\ \/ k = Len(input)
                      \/ ~ (At(input, k) \in Letters
                              \/ (k # j /\ At(input, k) \in Delims))
           k == AbcEnd(input, j)
<1>1. Len(input) \in Nat /\ j \in 0 .. Len(input)
  OBVIOUS
<1>2. \E l \in j .. Len(input) : P(l)
  <2> DEFINE Good(i) == At(input, i) \in Letters \/ (i # j /\ At(input, i) \in Delims)
             Runs == {l \in j .. Len(input) : \A i \in j .. l - 1 : Good(i)}
  <2>1. j \in Runs /\ Runs \subseteq 0 .. Len(input)
    BY <1>1
  <2>2. PICK l \in Runs : \A o \in Runs : o <= l
    <3> HIDE DEF Runs
    <3> QED BY <1>1, <2>1, GreatestNat
  <2>3. l = Len(input) \/ ~ Good(l)
    <3> SUFFICES ASSUME l # Len(input), Good(l) PROVE FALSE
      OBVIOUS
    <3>1. l + 1 \in j .. Len(input) /\ \A i \in j .. (l + 1) - 1 : i \in j .. l - 1 \/ i = l
      BY <1>1
    <3> HIDE DEF Good
    <3>2. l + 1 \in Runs
      BY <3>1
    <3> QED BY <1>1, <2>2, <3>2
  <2>4. P(l)
    BY <2>3
  <2> HIDE DEF P
  <2> QED BY <2>4
<1>3. k \in j .. Len(input) /\ P(k)
  <2>1. k = CHOOSE l \in j .. Len(input) : P(l)
    BY DEF AbcEnd
  <2> HIDE DEF P, k
  <2> QED BY <1>2, <2>1
<1> HIDE DEF k
<1>4. j < k => At(input, j) \in Letters
  <2> SUFFICES ASSUME j < k PROVE At(input, j) \in Letters
    OBVIOUS
  <2>1. j \in j .. k - 1
    BY <1>1, <1>3
  <2> QED BY <1>3, <2>1
<1>5. At(input, j) \in Letters => j < k
  BY <1>1, <1>3
<1> QED BY <1>4, <1>5 DEF k

\* What AddSegment leaves ends where the segmentation or the new segment did.
LEMMA AddSegmentEnd ==
  ASSUME NEW n \in Nat, NEW segs, Chain(segs, n), NEW seg \in Segment
  PROVE  GetCurrentEndPosition(AddSegment(segs, seg))
           \in {GetCurrentEndPosition(segs), seg.end}
<1>1. CASE segs = << >>
  BY <1>1 DEF AddSegment, GetCurrentEndPosition, Back
<1>2. CASE segs # << >>
  <2> DEFINE merged == [Back(segs) EXCEPT !.tags = @ \cup seg.tags]
  <2>1. /\ Back(segs) \in Segment /\ segs \in Seq(Segment)
        /\ GetCurrentEndPosition(segs) = Back(segs).end
    BY <1>2, BackOf, Positions DEF Chain
  <2>2. merged \in Segment /\ merged.end = Back(segs).end
    BY <2>1 DEF Segment
  <2>3. \/ AddSegment(segs, seg) = segs
        \/ AddSegment(segs, seg) = SetBack(segs, seg)
        \/ AddSegment(segs, seg) = SetBack(segs, merged)
    BY <1>2 DEF AddSegment
  <2> HIDE DEF merged
  <2>4. ASSUME NEW new \in Segment
        PROVE  GetCurrentEndPosition(SetBack(segs, new)) = new.end
    <3>1. SetBack(segs, new) # << >> /\ Back(SetBack(segs, new)) = new
      BY <1>2, <2>1 DEF SetBack, Back
    <3> QED BY <3>1 DEF GetCurrentEndPosition
  <2> QED BY <2>1, <2>2, <2>3, <2>4
<1> QED BY <1>1, <1>2

\* A pattern that matcher finds takes the rest of the input, or nothing.
LEMMA MatcherOpens ==
  ASSUME NEW input \in Seq(Char), NEW segs, Chain(segs, Len(input)),
         ~ HasFinishedSegmentation(segs, input), MatchFound(input, segs),
         NEW next, next = Matcher(segs, input),
         HasFinishedSegmentation(next, input)
  PROVE  /\ GetCurrentStartPosition(next) < Len(input)
         /\ Opens(input, GetCurrentStartPosition(next))
<1> DEFINE p == MatchStart(input, segs)
           drop == {i \in DOMAIN segs : segs[i].start > p}
           kept == PopBackWhile(segs, drop)
           seg == NewSegment(p, Len(input), {"pattern"})
<1>1. /\ Len(input) \in Nat /\ GetCurrentEndPosition(segs) \in Nat
      /\ GetCurrentEndPosition(segs) < Len(input)
      /\ DOMAIN segs = 1 .. Len(segs) /\ Len(segs) \in Nat
  BY Positions DEF HasFinishedSegmentation, Chain
<1>2. /\ p \in Nat /\ p < Len(input) /\ Opens(input, p)
  <2>1. p \in MatchStarts(input, segs)
    BY DEF MatchFound, MatchStart
  <2>2. GetConfirmedPosition(segs) \in Nat
    BY ConfirmedPosition
  <2> QED BY <1>1, <2>1, <2>2 DEF MatchStarts, Opens
<1>3. next = AddSegment(kept, seg)
  BY DEF Matcher
<1> HIDE DEF p
<1>4. seg \in Segment /\ Fine(seg) /\ seg.start = p /\ seg.end = Len(input)
  <2>1. p <= Len(input) /\ {"pattern"} \in SUBSET Tags
    BY <1>1, <1>2 DEF Tags
  <2> QED BY <1>1, <1>2, <2>1, NewSegmentFine DEF NewSegment
<1>5. PICK m \in 0 .. Len(segs) :
        /\ Chain(kept, Len(input)) /\ Len(kept) = m
        /\ \A i \in 1 .. m : kept[i] = segs[i]
  <2>1. drop \in SUBSET (1 .. Len(segs))
    BY <1>1
  <2> HIDE DEF drop
  <2> QED BY <1>1, <2>1, PopBackWhileChain
<1> HIDE DEF drop, kept, seg
<1>6. CASE p = GetCurrentStartPosition(kept)
  <2>1. GetCurrentStartPosition(next) = p
    BY <1>1, <1>3, <1>4, <1>5, <1>6, AddSegmentStart
  <2> QED BY <1>2, <2>1
<1>7. CASE p # GetCurrentStartPosition(kept)
  <2>1. next = kept
    BY <1>3, <1>4, <1>7 DEF AddSegment
  <2>2. GetCurrentEndPosition(kept) <= GetCurrentEndPosition(segs)
    <3>1. CASE m = 0
      <4>1. kept = << >>
        BY <1>5, <3>1, EmptySeq DEF Chain
      <4> QED BY <1>1, <4>1 DEF GetCurrentEndPosition
    <3>2. CASE m # 0
      <4>1. /\ m \in 1 .. Len(segs) /\ Len(segs) \in m .. Len(segs)
            /\ kept # << >> /\ segs # << >>
        BY <1>1, <1>5, <3>2
      <4>2. segs[m].end <= segs[Len(segs)].end
        BY <1>1, <4>1, ChainMonotone
      <4>3. /\ GetCurrentEndPosition(kept) = segs[m].end
            /\ GetCurrentEndPosition(segs) = segs[Len(segs)].end
        BY <1>5, <4>1 DEF GetCurrentEndPosition, Back
      <4> QED BY <4>2, <4>3
    <3> QED BY <3>1, <3>2
  <2>3. GetCurrentEndPosition(kept) \in Nat
    BY <1>1, <1>5, Positions
  <2> QED BY <1>1, <2>1, <2>2, <2>3 DEF HasFinishedSegmentation
<1> QED BY <1>6, <1>7

\* fallback_segmentor goes on by one character or not at all.
LEMMA FallbackEnd ==
  ASSUME NEW input \in Seq(Char), NEW segs, Chain(segs, Len(input))
  PROVE  GetCurrentEndPosition(FallbackSegmentor(segs, input))
           \in {GetCurrentEndPosition(segs), GetCurrentStartPosition(segs) + 1}
<1> DEFINE k == GetCurrentStartPosition(segs)
           rest == Trim(segs)
           joined == NewSegment(Back(rest).start, k + 1, {"raw"})
           seg == NewSegment(k, k + 1, {"raw"})
<1>1. /\ Len(input) \in Nat /\ k \in Nat /\ Chain(rest, Len(input))
      /\ rest \in Seq(Segment)
      /\ GetCurrentEndPosition(rest) = GetCurrentEndPosition(segs)
  BY Positions, TrimChain DEF Chain
<1>2. \/ FallbackSegmentor(segs, input) = segs
      \/ /\ rest # << >>
         /\ FallbackSegmentor(segs, input) = SetBack(rest, joined)
      \/ FallbackSegmentor(segs, input) = AddSegment(Forward(rest), seg)
  BY DEF FallbackSegmentor
<1>3. joined.end = k + 1 /\ seg.end = k + 1
  BY DEF NewSegment
<1>4. seg \in Segment
  <2>1. k + 1 \in Nat /\ k <= k + 1 /\ {"raw"} \in SUBSET Tags
    BY <1>1 DEF Tags
  <2> QED BY <1>1, <2>1, NewSegmentFine
<1> HIDE DEF rest, joined, seg, k
<1>5. rest # << >> => GetCurrentEndPosition(SetBack(rest, joined)) = joined.end
  BY <1>1 DEF SetBack, Back, GetCurrentEndPosition
<1>6. GetCurrentEndPosition(AddSegment(Forward(rest), seg))
        \in {GetCurrentEndPosition(segs), seg.end}
  <2>1. /\ Chain(Forward(rest), Len(input))
        /\ GetCurrentEndPosition(Forward(rest)) = GetCurrentEndPosition(segs)
    BY <1>1, ForwardChain
  <2> QED BY <1>1, <1>4, <2>1, AddSegmentEnd
<1> QED BY <1>2, <1>3, <1>5, <1>6 DEF k

\* When a round gets to the end of an input that ends in a letter, the segment
\* it ends with begins with a letter or with a pattern.
LEMMA RoundOpens ==
  ASSUME NEW input \in Seq(Char), NEW segs, Chain(segs, Len(input)),
         ~ HasFinishedSegmentation(segs, input),
         At(input, Len(input) - 1) \in Letters, NEW ascii_mode, ~ ascii_mode,
         NEW next, next = Round(segs, input, ascii_mode),
         HasFinishedSegmentation(next, input)
  PROVE  /\ GetCurrentStartPosition(next) < Len(input)
         /\ Opens(input, GetCurrentStartPosition(next))
<1> DEFINE k == GetCurrentStartPosition(segs)
           abc == AbcSegmentor(segs, input)
           one == NewSegment(k, k + 1, {"punct"})
<1>1. /\ Len(input) \in Nat /\ k \in Nat /\ k < Len(input)
      /\ GetCurrentEndPosition(segs) \in Nat
      /\ GetCurrentEndPosition(segs) < Len(input)
  BY Positions DEF HasFinishedSegmentation
<1>2. CASE MatchFound(input, segs)
  BY <1>2, MatcherOpens DEF Round
<1>3. CASE ~ MatchFound(input, segs)
  <2>1. next = PunctSegmentor(abc, input)
    BY <1>3 DEF Round
  <2>2. Chain(abc, Len(input)) /\ GetCurrentStartPosition(abc) = k
    BY AbcSegmentorChain
  <2>3. one \in Segment /\ Fine(one) /\ one.end = k + 1 /\ k + 1 <= Len(input)
    <3>1. k + 1 \in Nat /\ k <= k + 1 /\ {"punct"} \in SUBSET Tags /\ k + 1 <= Len(input)
      BY <1>1 DEF Tags
    <3> QED BY <1>1, <3>1, NewSegmentFine DEF NewSegment
  <2>4. \/ next = AddSegment(abc, one) \/ next = FallbackSegmentor(abc, input)
        \/ next = abc
    BY <2>1, <2>2 DEF PunctSegmentor
  <2>5. CASE At(input, k) \in Letters
    <3>1. k < AbcEnd(input, k) /\ AbcEnd(input, k) \in Nat
          /\ AbcEnd(input, k) <= Len(input)
      <4>1. k \in 0 .. Len(input) - 1 /\ k \in 0 .. Len(input)
        BY <1>1
      <4> HIDE DEF k
      <4> QED BY <1>1, <2>5, <4>1, AbcEndRun, AbcEndInRange
    <3>2. k < GetCurrentEndPosition(abc)
      <4> DEFINE seg == NewSegment(k, AbcEnd(input, k), {"abc"})
      <4>1. abc = AddSegment(segs, seg)
        BY <3>1 DEF AbcSegmentor
      <4>2. /\ seg \in Segment /\ Fine(seg) /\ seg.end = AbcEnd(input, k)
            /\ seg.start = k /\ "raw" \notin seg.tags
        <5>1. k <= AbcEnd(input, k) /\ {"abc"} \in SUBSET Tags
          BY <1>1, <3>1 DEF Tags
        <5> QED BY <1>1, <3>1, <5>1, NewSegmentFine DEF NewSegment
      <4> HIDE DEF seg
      <4>3. seg.end <= GetCurrentEndPosition(abc)
        BY <1>1, <3>1, <4>1, <4>2, AddSegmentChain
      <4>4. GetCurrentEndPosition(abc) \in Nat
        BY <1>1, <2>2, Positions
      <4> QED BY <1>1, <3>1, <4>2, <4>3, <4>4
    <3>3. FallbackSegmentor(abc, input) = abc
      BY <2>2, <3>2 DEF FallbackSegmentor
    <3> HIDE DEF abc, one, k
    <3>4. GetCurrentStartPosition(AddSegment(abc, one)) = k
      BY <1>1, <2>2, <2>3, AddSegmentStart
    <3>5. GetCurrentStartPosition(next) = k
      BY <2>2, <2>4, <3>3, <3>4
    <3> QED BY <1>1, <2>5, <3>5 DEF Opens
  <2>6. CASE At(input, k) \notin Letters
    <3>1. k + 1 < Len(input)
      <4>1. k # Len(input) - 1
        BY <2>6
      <4> HIDE DEF k
      <4> QED BY <1>1, <4>1
    <3>2. abc = segs
      <4>1. k \in 0 .. Len(input) - 1
        BY <1>1
      <4>2. ~ (k < AbcEnd(input, k))
        BY <2>6, <4>1, AbcEndRun
      <4> QED BY <4>2 DEF AbcSegmentor
    <3> HIDE DEF abc, one
    <3>3. GetCurrentEndPosition(next) \in {GetCurrentEndPosition(segs), k + 1}
      <4>1. GetCurrentEndPosition(AddSegment(abc, one)) \in {GetCurrentEndPosition(segs), k + 1}
        BY <1>1, <2>2, <2>3, <3>2, AddSegmentEnd
      <4>2. GetCurrentEndPosition(FallbackSegmentor(abc, input))
              \in {GetCurrentEndPosition(segs), k + 1}
        BY <3>2, FallbackEnd
      <4> QED BY <2>4, <3>2, <4>1, <4>2
    <3> HIDE DEF k
    <3> QED BY <1>1, <3>1, <3>3 DEF HasFinishedSegmentation
  <2> QED BY <2>5, <2>6
<1> QED BY <1>2, <1>3

\* So does the last segment that the loop of rounds leaves.
LEMMA LoopOpens ==
  ASSUME NEW input \in Seq(Char), NEW segs, Chain(segs, Len(input)),
         ~ HasFinishedSegmentation(segs, input),
         At(input, Len(input) - 1) \in Letters, NEW ascii_mode \in BOOLEAN, ~ ascii_mode,
         NEW found, found = Loop(segs, input, ascii_mode).segs
  PROVE  /\ GetCurrentStartPosition(found) < Len(input)
         /\ Opens(input, GetCurrentStartPosition(found))
<1> DEFINE N == Len(input)
<1>1. PICK f : /\ f[0] = [segs |-> segs, done |-> FALSE]
               /\ \A n \in 1 .. N + 1 : f[n] = Iterate(f[n - 1], input, ascii_mode)
               /\ Loop(segs, input, ascii_mode) = f[N + 1]
  BY LoopFunction
<1> DEFINE Letter(s) == /\ GetCurrentStartPosition(s) < N
                        /\ Opens(input, GetCurrentStartPosition(s))
           Holds(n) == /\ Chain(f[n].segs, N)
                       /\ HasFinishedSegmentation(f[n].segs, input) => Letter(f[n].segs)
           Bad == {n \in 0 .. N + 1 : ~ Holds(n)}
<1>2. N \in Nat
  OBVIOUS
<1>3. Holds(0)
  BY <1>1
<1>4. ASSUME NEW n \in 1 .. N + 1, Holds(n - 1) PROVE Holds(n)
  <2> DEFINE loop == f[n - 1]
             next == Round(loop.segs, input, ascii_mode)
  <2>1. f[n] = Iterate(loop, input, ascii_mode)
    BY <1>1
  <2>2. CASE loop.done \/ HasFinishedSegmentation(loop.segs, input)
    <3>1. f[n] = [segs |-> loop.segs, done |-> TRUE]
      BY <2>1, <2>2 DEF Iterate
    <3> QED BY <1>4, <3>1
  <2>3. CASE ~ loop.done /\ ~ HasFinishedSegmentation(loop.segs, input)
    <3>1. Chain(loop.segs, N)
      BY <1>4
    <3>2. Chain(next, N)
      BY <2>3, <3>1, RoundAdvances DEF Advances
    <3>3. HasFinishedSegmentation(next, input) => Letter(next)
      BY <2>3, <3>1, RoundOpens
    <3>4. \/ f[n] = [segs |-> next, done |-> TRUE]
          \/ f[n] = [segs |-> Forward(next), done |-> FALSE]
             /\ ~ HasFinishedSegmentation(next, input)
      BY <2>1, <2>3 DEF Iterate, Advance
    <3> HIDE DEF loop, next, Letter
    <3>5. /\ Chain(Forward(next), N)
          /\ HasFinishedSegmentation(Forward(next), input)
               <=> HasFinishedSegmentation(next, input)
      BY <1>2, <3>2, ForwardChain DEF HasFinishedSegmentation
    <3> QED BY <3>2, <3>3, <3>4, <3>5
  <2> QED BY <2>2, <2>3
<1>5. Bad = {}
  <2>1. SUFFICES ASSUME Bad # {} PROVE FALSE
    OBVIOUS
  <2>2. Bad \subseteq Nat
    BY <1>2
  <2>3. PICK n \in Bad : \A m \in Bad : n <= m
    <3> HIDE DEF Bad
    <3> QED BY <2>1, <2>2, LeastNat
  <2>4. n \in 0 .. N + 1 /\ ~ Holds(n)
    OBVIOUS
  <2> HIDE DEF Holds
  <2>5. n # 0
    BY <1>3, <2>4
  <2>6. n \in 1 .. N + 1 /\ n - 1 \in 0 .. N + 1 /\ n - 1 < n
    BY <1>2, <2>4, <2>5
  <2>7. ~ Holds(n - 1)
    BY <1>4, <2>4, <2>6
  <2> QED BY <2>3, <2>4, <2>6, <2>7
<1>6. Holds(N + 1)
  <2>1. N + 1 \in 0 .. N + 1
    BY <1>2
  <2> HIDE DEF Holds
  <2> QED BY <1>5, <2>1
<1>7. found = f[N + 1].segs /\ HasFinishedSegmentation(found, input)
  BY <1>1, LoopFinished
<1> QED BY <1>6, <1>7

\* Reset leaves no segment behind those that were there.
LEMMA ResetEnd ==
  ASSUME NEW n \in Nat, NEW segs, Chain(segs, n), NEW old, NEW new
  PROVE  GetCurrentEndPosition(Reset(segs, old, new)) <= n
<1> DEFINE drop == {i \in DOMAIN segs : segs[i].end > DiffPos(old, new)}
           kept == PopBackWhile(segs, drop)
<1>1. Chain(kept, n)
  <2>1. drop \in SUBSET (1 .. Len(segs))
    BY DEF Chain
  <2> HIDE DEF drop
  <2> QED BY <2>1, PopBackWhileChain
<1>2. Reset(segs, old, new) \in {segs, Forward(kept)}
  BY DEF Reset
<1> HIDE DEF kept
<1>3. Chain(Forward(kept), n)
  BY <1>1, ForwardChain
<1>4. Chain(Reset(segs, old, new), n)
  BY <1>2, <1>3
<1> QED BY <1>4, Positions

\* The segment that a letter goes into, once it has been typed.
LEMMA TypedOpens ==
  ASSUME NEW n \in Nat, NEW segs, Chain(segs, n),
         NEW old \in Seq(Char), NEW input \in Seq(Char), n < Len(input),
         At(input, Len(input) - 1) \in Letters,
         NEW ascii_mode \in BOOLEAN, ~ ascii_mode,
         NEW new, new = CalculateSegmentation(Reset(segs, old, input), input, ascii_mode)
  PROVE  Opens(input, Back(new).start)
<1> DEFINE kept == Reset(segs, old, input)
           found == Loop(kept, input, ascii_mode).segs
<1>1. /\ Len(input) \in Nat /\ Chain(kept, Len(input))
      /\ GetCurrentEndPosition(kept) \in Nat /\ GetCurrentEndPosition(kept) <= n
  <2>1. Chain(kept, Len(input))
    BY ResetChain
  <2>2. GetCurrentEndPosition(kept) <= n
    BY ResetEnd
  <2> HIDE DEF kept
  <2> QED BY <2>1, <2>2, Positions
<1>2. ~ HasFinishedSegmentation(kept, input)
  BY <1>1 DEF HasFinishedSegmentation
<1> HIDE DEF kept
<1>3. /\ Chain(found, Len(input)) /\ HasFinishedSegmentation(found, input)
      /\ GetCurrentStartPosition(found) < Len(input)
      /\ Opens(input, GetCurrentStartPosition(found))
  BY <1>1, <1>2, LoopFinished, LoopOpens
<1>4. new = ForwardSelected(Trim(found))
  BY DEF CalculateSegmentation, kept
<1> HIDE DEF found
<1>5. found # << >>
  BY <1>1, <1>3 DEF HasFinishedSegmentation, GetCurrentEndPosition, GetCurrentStartPosition
<1>6. /\ GetCurrentStartPosition(found) = Back(found).start
      /\ GetCurrentStartPosition(found) \in Nat
      /\ Back(found).end >= Len(input) /\ Back(found).end \in Nat
  BY <1>1, <1>3, <1>5, Positions DEF HasFinishedSegmentation
<1>7. Trim(found) = found
  BY <1>1, <1>3, <1>6 DEF Trim, CanTrim, IsEmpty
<1>8. new # << >> /\ ~ IsEmpty(Back(new))
  BY TypedIsLast
<1>9. new # Forward(found) \/ Forward(found) = found
  <2> SUFFICES ASSUME new = Forward(found), Forward(found) # found PROVE FALSE
    OBVIOUS
  <2> DEFINE s == NewSegment(Back(found).end, Back(found).end, {})
  <2>1. new = Append(found, s)
    BY <1>5 DEF Forward
  <2>2. IsEmpty(s)
    BY DEF NewSegment, IsEmpty
  <2> HIDE DEF s
  <2>3. found \in Seq(Segment)
    BY <1>3 DEF Chain
  <2>4. Back(Append(found, s)) = s
    BY <2>3 DEF Back
  <2> QED BY <1>8, <2>1, <2>2, <2>4
<1>10. new = found
  BY <1>4, <1>7, <1>9 DEF ForwardSelected
<1> QED BY <1>3, <1>6, <1>10

-----------------------------------------------------------------------------
(* What comes right behind a selected segment                               *)

\* Segment i is not the last one, and the one behind it has something in it, or
\* begins where abc_segmentor or matcher will find something.
Followed(segs, i, input) ==
  /\ i < Len(segs)
  /\ IsEmpty(segs[i + 1]) => Opens(input, segs[i].end)

\* what has been selected ends where the segmentation does, or before
LEMMA ConfirmedInside ==
  ASSUME NEW n \in Nat, NEW segs, Chain(segs, n)
  PROVE  GetConfirmedPosition(segs) <= GetCurrentEndPosition(segs)
<1>1. GetCurrentEndPosition(segs) \in Nat
  BY Positions
<1>2. CASE LastSelected(segs) = {}
  BY <1>1, <1>2 DEF GetConfirmedPosition
<1>3. CASE LastSelected(segs) # {}
  <2>1. PICK i \in LastSelected(segs) : GetConfirmedPosition(segs) = segs[i].end
    BY <1>3 DEF GetConfirmedPosition
  <2>2. i \in 1 .. Len(segs) /\ Len(segs) \in Nat
    BY DEF LastSelected, Chain
  <2>3. Len(segs) \in i .. Len(segs) /\ segs # << >>
    BY <2>2
  <2> QED BY <2>1, <2>2, <2>3, ChainMonotone DEF GetCurrentEndPosition, Back
<1> QED BY <1>2, <1>3

\* A segment that is added puts something into the last one, if it is for where
\* that begins; what is there stays.
LEMMA AddSegmentFollows ==
  ASSUME NEW n \in Nat, NEW segs, Chain(segs, n),
         NEW seg \in Segment, Fine(seg), seg.end <= n,
         "raw" \in seg.tags => GetCurrentEndPosition(segs) < seg.end,
         NEW i \in 1 .. Len(segs), i < Len(segs),
         \/ ~ IsEmpty(segs[i + 1])
         \/ seg.start = GetCurrentStartPosition(segs) /\ ~ IsEmpty(seg)
  PROVE  LET next == AddSegment(segs, seg)
         IN Stays(segs, next, i) /\ i < Len(next) /\ ~ IsEmpty(next[i + 1])
<1> DEFINE next == AddSegment(segs, seg)
<1>1. segs \in Seq(Segment) /\ Len(segs) \in Nat /\ segs # << >>
  BY DEF Chain
<1>2. Stays(segs, next, i) /\ Len(next) = Len(segs)
  BY <1>1, AddSegmentStays
<1>3. CASE i + 1 < Len(segs)
  <2>1. i + 1 \in 1 .. Len(segs) /\ i + 1 # Len(segs)
    BY <1>1, <1>3
  <2>2. ~ IsEmpty(segs[i + 1])
    BY <2>1 DEF Chain
  <2>3. Stays(segs, next, i + 1)
    BY <1>1, <1>3, <2>1, AddSegmentStays
  <2> QED BY <1>2, <2>2, <2>3 DEF Stays
<1>4. CASE i + 1 = Len(segs)
  <2>1. /\ Chain(next, n) /\ next # << >>
        /\ GetCurrentStartPosition(next) = GetCurrentStartPosition(segs)
        /\ GetCurrentEndPosition(segs) <= GetCurrentEndPosition(next)
        /\ seg.start = GetCurrentStartPosition(segs) =>
             seg.end <= GetCurrentEndPosition(next)
    <3>1. next # << >>
      BY <1>1, <1>2
    <3> QED BY <3>1, AddSegmentChain, AddSegmentStart
  <2> HIDE DEF next
  <2>2. /\ segs[i + 1] = Back(segs) /\ next[i + 1] = Back(next)
    BY <1>2, <1>4 DEF Back
  <2>3. /\ Back(segs).start = GetCurrentStartPosition(segs)
        /\ Back(segs).end = GetCurrentEndPosition(segs)
        /\ Back(next).start = GetCurrentStartPosition(next)
        /\ Back(next).end = GetCurrentEndPosition(next)
        /\ Back(segs).start \in Nat /\ Back(segs).end \in Nat
        /\ Back(next).end \in Nat /\ Back(segs).start <= Back(segs).end
    BY <1>1, <2>1, Positions
  <2>4. seg.start \in Nat /\ seg.end \in Nat /\ seg.start <= seg.end
    BY DEF Segment, Fine, Loose
  <2>5. Back(next).start < Back(next).end
    <3>1. CASE ~ IsEmpty(segs[i + 1])
      BY <2>1, <2>2, <2>3, <3>1 DEF IsEmpty
    <3>2. CASE seg.start = GetCurrentStartPosition(segs) /\ ~ IsEmpty(seg)
      BY <2>1, <2>2, <2>3, <2>4, <3>2 DEF IsEmpty
    <3> QED BY <3>1, <3>2
  <2> QED BY <1>2, <1>4, <2>2, <2>3, <2>5 DEF IsEmpty, next
<1> QED BY <1>1, <1>3, <1>4

LEMMA MatcherFollows ==
  ASSUME NEW input \in Seq(Char), NEW segs, Chain(segs, Len(input)),
         MatchFound(input, segs), NEW i \in 1 .. Len(segs),
         segs[i].status >= kSelected, Followed(segs, i, input),
         NEW next, next = Matcher(segs, input)
  PROVE  Stays(segs, next, i) /\ Followed(next, i, input)
<1> DEFINE p == MatchStart(input, segs)
           drop == {j \in DOMAIN segs : segs[j].start > p}
           kept == PopBackWhile(segs, drop)
           seg == NewSegment(p, Len(input), {"pattern"})
<1>1. /\ Len(input) \in Nat /\ Len(segs) \in Nat /\ DOMAIN segs = 1 .. Len(segs)
      /\ segs[i] \in Segment /\ i < Len(segs) /\ i + 1 \in 1 .. Len(segs)
      /\ ~ IsEmpty(segs[i]) /\ segs[i + 1].start = segs[i].end
      /\ segs[i].end \in Nat
  <2>1. /\ Len(segs) \in Nat /\ DOMAIN segs = 1 .. Len(segs) /\ i < Len(segs)
        /\ segs[i] \in Segment
    BY DEF Chain, Followed
  <2>2. i + 1 \in 1 .. Len(segs) /\ i + 1 # 1 /\ i + 1 - 1 = i /\ i # Len(segs)
    <3>1. PICK n \in Nat : n = Len(segs)
      BY <2>1
    <3>2. i \in Nat \ {0} /\ i < n
      BY <2>1, <3>1
    <3>3. i + 1 \in 1 .. n /\ i + 1 # 1 /\ i + 1 - 1 = i /\ i # n
      BY <3>2
    <3> QED BY <3>1, <3>3
  <2>3. segs[i + 1].start = segs[i].end
    BY <2>2 DEF Chain
  <2>4. ~ IsEmpty(segs[i])
    BY <2>2 DEF Chain
  <2>5. Len(input) \in Nat
    OBVIOUS
  <2>6. segs[i].end \in Nat
    BY <2>1 DEF Segment
  <2> QED BY <2>1, <2>2, <2>3, <2>4, <2>5, <2>6
<1>2. p \in Nat /\ p < Len(input) /\ segs[i].end <= p
  <2>1. p \in MatchStarts(input, segs)
    BY DEF MatchFound, MatchStart
  <2>2. GetConfirmedPosition(segs) \in Nat /\ segs[i].end <= GetConfirmedPosition(segs)
    BY <1>1, ConfirmedPosition, ConfirmedBound
  <2> QED BY <1>1, <2>1, <2>2 DEF MatchStarts
<1>3. next = AddSegment(kept, seg)
  BY DEF Matcher
<1>4. i + 1 \notin drop
  <2> HIDE DEF p
  <2> QED BY <1>1, <1>2
<1>5. Stays(segs, next, i)
  BY <1>1, MatcherStays
<1> HIDE DEF p
<1>6. /\ seg \in Segment /\ Fine(seg) /\ seg.end = Len(input) /\ "raw" \notin seg.tags
      /\ ~ IsEmpty(seg)
  <2>1. p <= Len(input) /\ {"pattern"} \in SUBSET Tags
    BY <1>1, <1>2 DEF Tags
  <2> QED BY <1>1, <1>2, <2>1, NewSegmentFine DEF NewSegment, IsEmpty
<1>7. PICK m \in 0 .. Len(segs) :
        /\ kept = SubSeq(segs, 1, m)
        /\ m \notin drop /\ \A j \in m + 1 .. Len(segs) : j \in drop
        /\ Chain(kept, Len(input)) /\ Len(kept) = m
        /\ \A j \in 1 .. m : kept[j] = segs[j]
  <2>1. drop \in SUBSET (1 .. Len(segs))
    BY <1>1
  <2>2. Len(input) \in Nat
    BY <1>1
  <2> HIDE DEF drop, seg
  <2>3. Chain(segs, Len(input))
    OBVIOUS
  <2>4. Popped(segs, drop, Len(input), kept)
    BY <2>1, <2>2, <2>3, PopBackWhilePops
  <2> HIDE DEF kept
  <2> QED BY <2>4 DEF Popped
<1> HIDE DEF drop
<1>8. i + 1 \in 1 .. m
  BY <1>1, <1>4, <1>7
<1> HIDE DEF kept, seg
<1>9. /\ i \in 1 .. Len(kept) /\ i < Len(kept) /\ kept[i] = segs[i]
      /\ kept[i + 1] = segs[i + 1] /\ kept \in Seq(Segment)
  <2>1. i \in 1 .. m /\ i < m
    BY <1>1, <1>8
  <2> QED BY <1>7, <1>8, <2>1 DEF Chain
<1>10. i < Len(next)
  <2>1. Len(next) = Len(kept)
    BY <1>3, <1>6, <1>9, AddSegmentStays
  <2> QED BY <1>9, <2>1
<1>11. CASE ~ IsEmpty(segs[i + 1])
  <2>1. ~ IsEmpty(next[i + 1])
    <3>1. seg.end <= Len(input) /\ "raw" \notin seg.tags
      BY <1>1, <1>6
    <3>2. ~ IsEmpty(kept[i + 1])
      BY <1>9, <1>11
    <3> QED BY <1>1, <1>3, <1>6, <1>7, <1>9, <3>1, <3>2, AddSegmentFollows
  <2> QED BY <1>5, <1>10, <2>1 DEF Followed
<1>12. CASE IsEmpty(segs[i + 1])
  <2>1. Opens(input, segs[i].end) /\ next[i] = segs[i]
    BY <1>5, <1>12 DEF Followed, Stays
  <2> QED BY <1>5, <1>10, <2>1 DEF Followed
<1> QED BY <1>11, <1>12

\* Without a pattern, abc_segmentor leaves nothing empty behind it,
LEMMA AbcFollows ==
  ASSUME NEW input \in Seq(Char), NEW segs, Chain(segs, Len(input)),
         ~ HasFinishedSegmentation(segs, input), ~ MatchFound(input, segs),
         NEW i \in 1 .. Len(segs), Followed(segs, i, input),
         NEW abc, abc = AbcSegmentor(segs, input)
  PROVE  Stays(segs, abc, i) /\ i < Len(abc) /\ ~ IsEmpty(abc[i + 1])
<1> DEFINE j == GetCurrentStartPosition(segs)
           k == AbcEnd(input, j)
           seg == NewSegment(j, k, {"abc"})
<1>1. /\ Len(input) \in Nat /\ j \in 0 .. Len(input) /\ j < Len(input)
      /\ GetCurrentEndPosition(segs) \in Nat
      /\ GetCurrentEndPosition(segs) < Len(input)
  BY Positions DEF HasFinishedSegmentation
<1>2. k \in j .. Len(input)
  <2> HIDE DEF j
  <2> QED BY <1>1, AbcEndInRange
<1>3. abc = IF j < k THEN AddSegment(segs, seg) ELSE segs
  BY DEF AbcSegmentor
<1>4. PICK n \in Nat : n = Len(segs) /\ i \in 1 .. n /\ i < n /\ segs # << >>
  BY DEF Chain, Followed
<1>5. CASE ~ IsEmpty(segs[i + 1]) \/ j < k
  <2> HIDE DEF k, j
  <2>1. CASE j < k
    <3>1. /\ seg \in Segment /\ Fine(seg) /\ seg.end <= Len(input)
          /\ seg.start = j /\ ~ IsEmpty(seg) /\ "raw" \notin seg.tags
      <4>1. j \in Nat /\ k \in Nat /\ j <= k /\ k <= Len(input) /\ {"abc"} \in SUBSET Tags
        BY <1>1, <1>2 DEF Tags
      <4> QED BY <2>1, <4>1, NewSegmentFine DEF NewSegment, IsEmpty
    <3> HIDE DEF seg
    <3>2. abc = AddSegment(segs, seg) /\ seg.start = GetCurrentStartPosition(segs)
      BY <1>3, <2>1, <3>1 DEF j
    <3> QED BY <1>1, <1>4, <3>1, <3>2, AddSegmentFollows
  <2>2. CASE ~ (j < k)
    <3>1. abc = segs
      BY <1>3, <2>2
    <3> QED BY <1>4, <1>5, <2>2, <3>1 DEF Stays
  <2> QED BY <2>1, <2>2
<1>6. CASE IsEmpty(segs[i + 1]) /\ ~ (j < k)
  <2>1. i + 1 \in 1 .. n /\ i + 1 # 1 /\ i + 1 - 1 = i
    BY <1>4
  <2>2. i + 1 = n /\ segs[i + 1].start = segs[i].end
    BY <1>4, <1>6, <2>1 DEF Chain
  <2>3. /\ j = segs[i].end /\ GetCurrentEndPosition(segs) = j
        /\ GetConfirmedPosition(segs) <= j /\ GetConfirmedPosition(segs) \in Nat
    <3>1. Back(segs) = segs[i + 1]
      BY <1>4, <2>2 DEF Back
    <3>2. j = segs[i].end /\ GetCurrentEndPosition(segs) = j
      BY <1>4, <1>6, <2>2, <3>1
         DEF GetCurrentStartPosition, GetCurrentEndPosition, IsEmpty
    <3> QED BY <1>1, <3>2, ConfirmedInside, ConfirmedPosition
  <2>4. At(input, j) \notin Letters
    <3>1. j \in 0 .. Len(input) - 1
      BY <1>1
    <3> HIDE DEF j
    <3> QED BY <1>6, <3>1, AbcEndRun DEF k
  <2>5. Opens(input, j)
    BY <1>6, <2>3 DEF Followed
  <2>6. j \in MatchStarts(input, segs)
    <3> HIDE DEF j
    <3> QED BY <1>1, <2>3, <2>4, <2>5 DEF Opens, MatchStarts
  <2> QED BY <2>6 DEF MatchFound
<1> QED BY <1>5, <1>6

\* and fallback_segmentor joins nothing with the segment in front of it.
LEMMA FallbackFollows ==
  ASSUME NEW input \in Seq(Char), NEW segs, Chain(segs, Len(input)),
         NEW i \in 1 .. Len(segs), i < Len(segs), ~ IsEmpty(segs[i + 1]),
         NEW next, next = FallbackSegmentor(segs, input)
  PROVE  Stays(segs, next, i) /\ i < Len(next) /\ ~ IsEmpty(next[i + 1])
<1> DEFINE k == GetCurrentStartPosition(segs)
           rest == Trim(segs)
           joined == NewSegment(Back(rest).start, k + 1, {"raw"})
           seg == NewSegment(k, k + 1, {"raw"})
<1>1. PICK n \in Nat : n = Len(segs) /\ i \in 1 .. n /\ i < n /\ segs # << >>
  BY DEF Chain
<1>2. /\ Len(input) \in Nat /\ segs \in Seq(Segment) /\ k \in Nat
      /\ Chain(rest, Len(input)) /\ rest \in Seq(Segment)
      /\ i \in Nat \ {0} /\ i + 1 \in 1 .. n /\ ~ IsEmpty(segs[i])
  <2>1. Len(input) \in Nat /\ segs \in Seq(Segment)
    BY DEF Chain
  <2>2. Chain(rest, Len(input)) /\ k \in Nat
    BY <2>1, TrimChain, Positions
  <2>3. i \in Nat \ {0} /\ i + 1 \in 1 .. n /\ i # n
    BY <1>1
  <2>4. ~ IsEmpty(segs[i])
    BY <1>1, <2>3 DEF Chain
  <2>5. rest \in Seq(Segment)
    BY <2>2 DEF Chain
  <2> QED BY <2>1, <2>2, <2>3, <2>4, <2>5
<1>3. /\ i \in 1 .. Len(rest) /\ rest[i] = segs[i]
      /\ i + 1 \in 1 .. Len(rest) /\ rest[i + 1] = segs[i + 1]
  BY <1>1, <1>2, TrimStays DEF Stays
<1>4. PICK r \in Nat : r = Len(rest) /\ i + 1 \in 1 .. r /\ rest # << >>
  BY <1>2, <1>3
<1>5. seg \in Segment
  <2>1. k + 1 \in Nat /\ k <= k + 1 /\ {"raw"} \in SUBSET Tags
    BY <1>2 DEF Tags
  <2> QED BY <1>2, <2>1, NewSegmentFine
<1>6. joined \in Segment /\ joined.start = Back(rest).start /\ joined.end = k + 1
  <2>1. k + 1 \in Nat /\ {"raw"} \in SUBSET Tags
    BY <1>2 DEF Tags
  <2>2. Back(rest).start \in Nat
    BY <1>2, <1>4, BackOf
  <2> QED BY <2>1, <2>2 DEF NewSegment, Segment, Status, kVoid, kConfirmed
<1>7. \/ next = segs
      \/ ~ (GetCurrentEndPosition(segs) > k) /\ next = SetBack(rest, joined)
      \/ next = AddSegment(Forward(rest), seg)
  BY DEF FallbackSegmentor
<1> HIDE DEF rest, joined, seg
<1>8. CASE next = segs
  BY <1>1, <1>8 DEF Stays
<1>9. CASE ~ (GetCurrentEndPosition(segs) > k) /\ next = SetBack(rest, joined)
  <2>1. i < Len(rest)
    BY <1>2, <1>4
  <2>2. Stays(rest, next, i) /\ Len(next) = Len(rest)
    BY <1>2, <1>3, <1>6, <1>9, <2>1, SetBackStays
  <2>3. CASE i + 1 < Len(rest)
    <3>1. Stays(rest, next, i + 1)
      BY <1>2, <1>3, <1>6, <1>9, <2>3, SetBackStays
    <3> QED BY <1>3, <2>1, <2>2, <3>1 DEF Stays
  <2>4. CASE i + 1 = Len(rest)
    <3>1. next[i + 1] = joined
      BY <1>2, <1>4, <1>6, <1>9, <2>4 DEF SetBack
    <3>2. joined.start <= k
      <4>1. /\ GetCurrentEndPosition(rest) = GetCurrentEndPosition(segs)
            /\ GetCurrentEndPosition(segs) \in Nat
        BY <1>2, TrimChain, Positions DEF rest
      <4>2. /\ Back(rest).start = GetCurrentStartPosition(rest)
            /\ GetCurrentStartPosition(rest) <= GetCurrentEndPosition(rest)
            /\ GetCurrentStartPosition(rest) \in Nat
        BY <1>2, <1>4, Positions
      <4> HIDE DEF k
      <4> QED BY <1>2, <1>6, <1>9, <4>1, <4>2
    <3>3. joined.start \in Nat
      BY <1>6 DEF Segment
    <3>4. ~ IsEmpty(joined)
      <4> HIDE DEF k
      <4> QED BY <1>2, <1>6, <3>2, <3>3 DEF IsEmpty
    <3> QED BY <1>3, <2>1, <2>2, <3>1, <3>4 DEF Stays
  <2> QED BY <1>2, <1>4, <2>3, <2>4
<1>10. CASE next = AddSegment(Forward(rest), seg)
  <2> DEFINE more == Forward(rest)
  <2>1. /\ more \in Seq(Segment)
        /\ i \in 1 .. Len(more) /\ more[i] = segs[i] /\ i < Len(more)
        /\ i + 1 \in 1 .. Len(more) /\ more[i + 1] = segs[i + 1] /\ i + 1 < Len(more)
    <3>1. /\ Stays(rest, more, i) /\ i < Len(more)
          /\ Stays(rest, more, i + 1) /\ i + 1 < Len(more)
      BY <1>2, <1>3, ForwardStays
    <3>2. more \in Seq(Segment)
      BY <1>2, ForwardChain DEF Chain
    <3> HIDE DEF more
    <3> QED BY <1>3, <3>1, <3>2 DEF Stays
  <2> HIDE DEF more
  <2>2. next = AddSegment(more, seg)
    BY <1>10 DEF more
  <2>3. Stays(more, next, i) /\ Stays(more, next, i + 1) /\ Len(next) = Len(more)
    BY <1>5, <2>1, <2>2, AddSegmentStays
  <2> QED BY <2>1, <2>3 DEF Stays
<1> QED BY <1>7, <1>8, <1>9, <1>10

\* A round outside ascii mode leaves a selected segment alone, raw or not, that
\* is followed by something.
LEMMA RoundFollows ==
  ASSUME NEW input \in Seq(Char), NEW segs, Chain(segs, Len(input)),
         ~ HasFinishedSegmentation(segs, input), NEW ascii_mode, ~ ascii_mode,
         NEW i \in 1 .. Len(segs),
         segs[i].status >= kSelected, Followed(segs, i, input),
         NEW next, next = Round(segs, input, ascii_mode)
  PROVE  Stays(segs, next, i) /\ Followed(next, i, input)
<1>1. CASE MatchFound(input, segs)
  BY <1>1, MatcherFollows DEF Round
<1>2. CASE ~ MatchFound(input, segs)
  <2> DEFINE abc == AbcSegmentor(segs, input)
             k == GetCurrentStartPosition(segs)
             seg == NewSegment(k, k + 1, {"punct"})
  <2>1. next = PunctSegmentor(abc, input)
    BY <1>2 DEF Round
  <2>2. Stays(segs, abc, i) /\ i < Len(abc) /\ ~ IsEmpty(abc[i + 1])
    BY <1>2, AbcFollows
  <2>3. Chain(abc, Len(input)) /\ GetCurrentStartPosition(abc) = k
    BY AbcSegmentorChain
  <2>4. \/ next = abc
        \/ next = AddSegment(abc, seg) /\ k # Len(input)
        \/ next = FallbackSegmentor(abc, input)
    BY <2>1, <2>3 DEF PunctSegmentor
  <2> HIDE DEF abc
  <2>5. i \in 1 .. Len(abc) /\ abc[i] = segs[i]
    BY <2>2 DEF Stays
  <2>6. CASE next = abc
    BY <2>2, <2>6 DEF Followed
  <2>7. CASE next = AddSegment(abc, seg) /\ k # Len(input)
    <3>1. Len(input) \in Nat /\ k \in 0 .. Len(input)
      BY Positions
    <3>2. seg \in Segment /\ Fine(seg) /\ seg.end <= Len(input) /\ "raw" \notin seg.tags
      <4>1. /\ k \in Nat /\ k + 1 \in Nat /\ k <= k + 1 /\ k + 1 <= Len(input)
            /\ {"punct"} \in SUBSET Tags
        <5> HIDE DEF k
        <5> QED BY <2>7, <3>1 DEF Tags
      <4> QED BY <4>1, NewSegmentFine DEF NewSegment
    <3> HIDE DEF seg, k
    <3>3. Stays(abc, next, i) /\ i < Len(next) /\ ~ IsEmpty(next[i + 1])
      BY <2>2, <2>3, <2>5, <2>7, <3>1, <3>2, AddSegmentFollows
    <3> QED BY <2>5, <3>3 DEF Stays, Followed
  <2>8. CASE next = FallbackSegmentor(abc, input)
    <3>1. Stays(abc, next, i) /\ i < Len(next) /\ ~ IsEmpty(next[i + 1])
      BY <2>2, <2>3, <2>5, <2>8, FallbackFollows
    <3> QED BY <2>5, <3>1 DEF Stays, Followed
  <2> QED BY <2>4, <2>6, <2>7, <2>8
<1> QED BY <1>1, <1>2

\* So does the loop of rounds.
LEMMA LoopFollows ==
  ASSUME NEW input \in Seq(Char), NEW segs, Chain(segs, Len(input)),
         NEW ascii_mode \in BOOLEAN, ~ ascii_mode,
         NEW i \in 1 .. Len(segs), segs[i].status >= kSelected,
         Followed(segs, i, input)
  PROVE  Stays(segs, Loop(segs, input, ascii_mode).segs, i)
<1> DEFINE N == Len(input)
<1>1. PICK f : /\ f[0] = [segs |-> segs, done |-> FALSE]
               /\ \A n \in 1 .. N + 1 : f[n] = Iterate(f[n - 1], input, ascii_mode)
               /\ Loop(segs, input, ascii_mode) = f[N + 1]
  BY LoopFunction
<1> DEFINE Holds(n) ==
             /\ Chain(f[n].segs, N) /\ Stays(segs, f[n].segs, i)
             /\ Followed(f[n].segs, i, input)
           Bad == {n \in 0 .. N + 1 : ~ Holds(n)}
<1>2. N \in Nat
  OBVIOUS
<1>3. Holds(0)
  BY <1>1 DEF Stays
<1>4. ASSUME NEW n \in 1 .. N + 1, Holds(n - 1) PROVE Holds(n)
  <2> DEFINE loop == f[n - 1]
             next == Round(loop.segs, input, ascii_mode)
  <2>1. f[n] = Iterate(loop, input, ascii_mode)
    BY <1>1
  <2>2. CASE loop.done \/ HasFinishedSegmentation(loop.segs, input)
    <3>1. f[n] = [segs |-> loop.segs, done |-> TRUE]
      BY <2>1, <2>2 DEF Iterate
    <3> QED BY <1>4, <3>1
  <2>3. CASE ~ loop.done /\ ~ HasFinishedSegmentation(loop.segs, input)
    <3>1. /\ Chain(loop.segs, N) /\ i \in 1 .. Len(loop.segs)
          /\ loop.segs[i] = segs[i] /\ Followed(loop.segs, i, input)
      BY <1>4 DEF Stays
    <3>2. Chain(next, N)
      BY <2>3, <3>1, RoundAdvances DEF Advances
    <3>3. Stays(loop.segs, next, i) /\ Followed(next, i, input)
      BY <2>3, <3>1, RoundFollows
    <3>4. f[n].segs = next \/ f[n].segs = Forward(next)
      BY <2>1, <2>3 DEF Iterate, Advance
    <3> HIDE DEF loop, next
    <3>5. /\ next \in Seq(Segment) /\ i \in 1 .. Len(next) /\ next[i] = segs[i]
          /\ i < Len(next)
      BY <3>1, <3>2, <3>3 DEF Stays, Chain, Followed
    <3>6. i + 1 \in 1 .. Len(next)
      BY <3>5
    <3>7. /\ Chain(Forward(next), N)
          /\ Stays(next, Forward(next), i) /\ Stays(next, Forward(next), i + 1)
      BY <1>2, <3>2, <3>5, <3>6, ForwardChain, ForwardStays
    <3>8. Stays(segs, Forward(next), i) /\ Followed(Forward(next), i, input)
      <4>1. i < Len(Forward(next))
        <5>1. i \in Nat /\ Len(Forward(next)) \in Nat /\ i + 1 \in 1 .. Len(Forward(next))
          BY <3>5, <3>7 DEF Stays, Chain
        <5> QED BY <5>1
      <4> QED BY <3>3, <3>5, <3>7, <4>1 DEF Stays, Followed
    <3>9. Stays(segs, next, i)
      BY <3>5 DEF Stays
    <3> QED BY <3>2, <3>3, <3>4, <3>7, <3>8, <3>9
  <2> QED BY <2>2, <2>3
<1>5. Bad = {}
  <2>1. SUFFICES ASSUME Bad # {} PROVE FALSE
    OBVIOUS
  <2>2. Bad \subseteq Nat
    BY <1>2
  <2>3. PICK n \in Bad : \A m \in Bad : n <= m
    <3> HIDE DEF Bad
    <3> QED BY <2>1, <2>2, LeastNat
  <2>4. n \in 0 .. N + 1 /\ ~ Holds(n)
    OBVIOUS
  <2> HIDE DEF Holds
  <2>5. n # 0
    BY <1>3, <2>4
  <2>6. n \in 1 .. N + 1 /\ n - 1 \in 0 .. N + 1 /\ n - 1 < n
    BY <1>2, <2>4, <2>5
  <2>7. ~ Holds(n - 1)
    BY <1>4, <2>4, <2>6
  <2> QED BY <2>3, <2>4, <2>6, <2>7
<1>6. Holds(N + 1)
  <2>1. N + 1 \in 0 .. N + 1
    BY <1>2
  <2> HIDE DEF Holds
  <2> QED BY <1>5, <2>1
<1> QED BY <1>1, <1>6

-----------------------------------------------------------------------------
(* What is left once the last character has been taken out again            *)

\* Reset then drops the last segment alone, and begins one in its place.
LEMMA ResetDropsLast ==
  ASSUME NEW n \in Nat, NEW segs, Chain(segs, n), segs # << >>,
         NEW old \in Seq(Char), NEW new \in Seq(Char),
         Back(segs).start <= DiffPos(old, new), Back(segs).end > DiffPos(old, new)
  PROVE  /\ Reset(segs, old, new) = Forward(PopBack(segs))
         /\ Chain(PopBack(segs), n) /\ Len(PopBack(segs)) = Len(segs) - 1
         /\ \A j \in 1 .. Len(segs) - 1 : PopBack(segs)[j] = segs[j]
<1> DEFINE d == DiffPos(old, new)
           drop == {j \in DOMAIN segs : segs[j].end > d}
           kept == PopBackWhile(segs, drop)
<1>1. PICK N \in Nat \ {0} : /\ N = Len(segs) /\ Back(segs) = segs[N]
                             /\ DOMAIN segs = 1 .. N
  <2>1. Len(segs) \in Nat \ {0} /\ Back(segs) = segs[Len(segs)]
    BY BackOf
  <2> QED BY <2>1 DEF Chain
<1>2. Reset(segs, old, new) = IF Len(kept) < N THEN Forward(kept) ELSE segs
  BY <1>1 DEF Reset
<1>3. d \in Nat
  BY DiffPosInRange
<1>4. N \in drop
  BY <1>1
<1>5. N - 1 \notin drop
  <2> SUFFICES ASSUME N - 1 \in 1 .. N PROVE segs[N - 1].end <= d /\ segs[N - 1].end \in Nat
    BY <1>1, <1>3
  <2>1. segs[N].start = segs[N - 1].end /\ segs[N - 1] \in Segment
    <3>1. N \in 1 .. Len(segs) /\ N # 1 /\ N - 1 \in 1 .. Len(segs)
      BY <1>1
    <3> QED BY <3>1 DEF Chain
  <2> QED BY <1>1, <2>1 DEF Segment
<1>6. drop \in SUBSET (1 .. Len(segs))
  BY <1>1
<1> HIDE DEF d, drop
<1>7. PICK m \in 0 .. Len(segs) :
        /\ kept = SubSeq(segs, 1, m)
        /\ m \notin drop /\ \A j \in m + 1 .. Len(segs) : j \in drop
        /\ Chain(kept, n) /\ Len(kept) = m
        /\ \A j \in 1 .. m : kept[j] = segs[j]
  BY <1>6, PopBackWhileChain
<1>8. m = N - 1
  <2>1. m # N
    BY <1>4, <1>7
  <2>2. ~ (m < N - 1)
    <3>1. m < N - 1 => N - 1 \in m + 1 .. Len(segs)
      BY <1>1, <1>7
    <3> QED BY <1>5, <1>7, <3>1
  <2> QED BY <1>1, <1>7, <2>1, <2>2
<1>9. kept = PopBack(segs)
  BY <1>1, <1>7, <1>8 DEF PopBack
<1>10. Len(kept) < N
  BY <1>1, <1>7, <1>8
<1> QED BY <1>1, <1>2, <1>7, <1>8, <1>9, <1>10

\* Where a letter has been typed, all that was selected before it stays
\* selected: if the segmentors reach the last selected segment again, there is
\* the beginning of the letter's segment behind it, which keeps
\* fallback_segmentor from extending it.
LEMMA UntypedKeeps ==
  ASSUME NEW old \in Seq(Char), NEW typed \in Seq(Char), NEW k \in Nat,
         Len(old) = k, Len(typed) = k + 1, k <= MaxInput, \A j \in 1 .. k : typed[j] = old[j],
         NEW segs, Chain(segs, Len(typed)), segs # << >>, ~ IsEmpty(Back(segs)),
         Back(segs).end = Len(typed), Back(segs).status < kSelected,
         Opens(typed, Back(segs).start), NEW ascii_mode \in BOOLEAN, ~ ascii_mode,
         NEW new, new = TranslateSegments(CalculateSegmentation(
                          Reset(segs, typed, old), old, ascii_mode), old)
  PROVE  GetConfirmedPosition(new) >= GetConfirmedPosition(segs)
<1> DEFINE front == PopBack(segs)
           kept == Forward(front)
<1>1. DiffPos(typed, old) = k
  <2>1. PICK d \in 0 .. Len(typed) : d = DiffPos(typed, old) /\ d <= Len(old)
    BY DiffPosInRange
  <2>2. k <= d
    BY <2>1, DiffPosBehind
  <2> QED BY <2>1, <2>2
<1>2. PICK N \in Nat \ {0} : /\ N = Len(segs) /\ Back(segs) = segs[N]
                             /\ Back(segs).start \in Nat /\ Back(segs).start <= k
  <2>1. /\ Len(segs) \in Nat \ {0} /\ Back(segs) = segs[Len(segs)]
        /\ Back(segs) \in Segment /\ Fine(Back(segs))
    BY BackOf
  <2>2. Back(segs).start \in Nat /\ Back(segs).start <= k
    BY <2>1 DEF Fine, Loose, IsEmpty, Segment
  <2> QED BY <2>1, <2>2
<1>3. /\ Reset(segs, typed, old) = kept
      /\ Chain(front, k + 1) /\ Len(front) = N - 1
      /\ \A j \in 1 .. N - 1 : front[j] = segs[j]
  BY <1>1, <1>2, ResetDropsLast
<1>4. Chain(kept, Len(old))
  BY <1>3, ResetChain
<1>5. Chain(new, Len(old)) /\ GetConfirmedPosition(new) \in Nat
  <2> DEFINE found == CalculateSegmentation(kept, old, ascii_mode)
  <2>1. Finished(found, Len(old)) /\ new = TranslateSegments(found, old)
    BY <1>3, <1>4, CalculateSegmentationFinished
  <2> HIDE DEF found
  <2>2. Chain(new, Len(old))
    BY <2>1, TranslateSegmentsFinished DEF Finished
  <2> QED BY <2>2, ConfirmedPosition
<1> HIDE DEF front, kept
<1>6. CASE LastSelected(segs) = {}
  BY <1>5, <1>6 DEF GetConfirmedPosition
<1>7. CASE LastSelected(segs) # {}
  <2>1. PICK i : i = CHOOSE j \in LastSelected(segs) : TRUE
    OBVIOUS
  <2>2. /\ i \in 1 .. N /\ segs[i].status >= kSelected
        /\ GetConfirmedPosition(segs) = segs[i].end
    <3>1. i \in LastSelected(segs) /\ DOMAIN segs = 1 .. N
      BY <1>2, <1>7, <2>1 DEF Chain
    <3> QED BY <1>7, <2>1, <3>1 DEF LastSelected, GetConfirmedPosition
  <2>3. i \in 1 .. N - 1
    <3>1. i # N
      <4>1. segs[N].status \in Nat
        <5>1. segs[N] \in Segment
          BY <1>2, BackOf
        <5> QED BY <5>1 DEF Segment, Status, kVoid, kConfirmed
      <4> QED BY <1>2, <2>2, <4>1 DEF kSelected
    <3> QED BY <2>2, <3>1
  <2>4. front[i] = segs[i] /\ front \in Seq(Segment) /\ i \in 1 .. Len(front)
    BY <1>2, <1>3, <2>3 DEF Chain
  <2>5. ~ IsEmpty(segs[i]) /\ segs[i] \in Segment
    BY <1>2, <2>2, <2>3 DEF Chain
  <2>6. Stays(front, kept, i) /\ i < Len(kept)
    BY <2>4, <2>5, ForwardStays DEF kept
  <2>7. i \in 1 .. Len(kept) /\ kept[i] = segs[i]
    BY <2>4, <2>6 DEF Stays
  <2>8. Unextended(segs[i], k) \/ Followed(kept, i, old)
    <3>1. CASE i = N - 1
      <4>1. segs[N].start = segs[i].end
        <5>1. N \in 1 .. Len(segs) /\ N # 1
          BY <1>2, <2>3
        <5> QED BY <3>1, <5>1 DEF Chain
      <4>2. CASE segs[i].end = k
        BY <4>2 DEF Unextended
      <4>3. CASE segs[i].end # k
        <5>1. PICK s \in Nat : s = segs[i].end /\ s < k /\ Opens(typed, s)
          BY <1>2, <4>1, <4>3
        <5>2. \A j \in s .. k - 1 : At(typed, j) = At(old, j)
          BY <5>1 DEF At
        <5>3. s \in s .. k - 1 /\ s + 1 .. k - 1 \subseteq s .. k - 1
              /\ s + 1 .. k - 1 \subseteq s + 1 .. Len(typed) - 1
          BY <5>1
        <5>4. Opens(old, s)
          BY <5>1, <5>2, <5>3 DEF Opens
        <5> QED BY <2>6, <2>7, <5>1, <5>4 DEF Followed, Stays
      <4> QED BY <4>2, <4>3
    <3>2. CASE i # N - 1
      <4>1. /\ i + 1 \in 1 .. N - 1 /\ i + 1 \in 1 .. Len(front)
            /\ i + 1 \in 1 .. Len(segs) /\ i + 1 # Len(segs)
        BY <1>2, <1>3, <2>3, <3>2
      <4>2. front[i + 1] = segs[i + 1] /\ ~ IsEmpty(segs[i + 1])
        <5>1. front[i + 1] = segs[i + 1]
          BY <1>3, <4>1
        <5>2. ~ IsEmpty(segs[i + 1])
          BY <4>1 DEF Chain
        <5> QED BY <5>1, <5>2
      <4>3. Stays(front, kept, i + 1)
        BY <2>4, <4>1, <4>2, ForwardStays DEF kept
      <4> QED BY <2>6, <4>2, <4>3 DEF Followed, Stays
    <3> QED BY <3>1, <3>2
  <2>9. Stays(kept, Loop(kept, old, ascii_mode).segs, i)
    <3>1. CASE Unextended(segs[i], k)
      BY <1>4, <2>2, <2>6, <2>7, <3>1, LoopStays
    <3>2. CASE Followed(kept, i, old)
      BY <1>4, <2>2, <2>7, <3>2, LoopFollows
    <3> QED BY <2>8, <3>1, <3>2
  <2>10. Stays(kept, new, i)
    BY <1>3, <1>4, <2>2, <2>6, <2>7, <2>9, ComputedStays
  <2>11. i \in 1 .. Len(new) /\ new[i] = segs[i]
    BY <2>7, <2>10 DEF Stays
  <2>12. segs[i].end <= GetConfirmedPosition(new)
    BY <1>5, <2>2, <2>11, ConfirmedBound
  <2> QED BY <1>5, <2>2, <2>5, <2>12 DEF Segment
<1> QED BY <1>6, <1>7
=============================================================================

--------------------------- MODULE Segmentation ---------------------------
(***************************************************************************)
(* The segmentation of an input string: librime's Segment and              *)
(* Segmentation (a vector of segments plus the input they were computed    *)
(* for), the segmentors a schema lists, and the two passes of the engine   *)
(* over it, CalculateSegmentation and TranslateSegments.                   *)
(*                                                                         *)
(* Positions are 0-based offsets into the input, as in the code; TLA+      *)
(* sequences are 1-based, so the character at offset k is input[k + 1].    *)
(* A Menu is abstracted to the sequence of the end positions of its        *)
(* candidates: nothing else of a candidate decides control.                *)
(***************************************************************************)
EXTENDS Integers, Sequences

CONSTANTS
  Letters,    \* speller/alphabet (speller/initials is left to its default)
  Delims,     \* speller/delimiter
  Leads,      \* characters c for which recognizer/patterns has "c[a-z]*$"
  PunctDef,   \* punctuator/half_shape: a function from punctuation to its kind
  Others,     \* printable characters no component but the editor knows
  MaxInput,   \* bound: the longest input that is explored
  MenuOf,     \* MenuOf[n]: what each candidate for n letters consumes, in order
  Echo        \* whether the schema lists echo_translator

Puncts == DOMAIN PunctDef
PunctKinds == {"unique", "list", "commit", "pair"}
Char == Letters \cup Delims \cup Leads \cup Puncts \cup Others

ASSUME BoundAssumption == MaxInput \in Nat
ASSUME PunctAssumption == PunctDef \in [Puncts -> PunctKinds]
ASSUME EchoAssumption == Echo \in BOOLEAN
\* so that an input ends with at most one pattern
ASSUME LeadAssumption == Leads \cap Letters = {}
\* A translator answers Query with candidates that consume a nonempty prefix
\* of the segment.
ASSUME TranslatorAssumption ==
  /\ DOMAIN MenuOf = 1 .. MaxInput
  /\ \A n \in 1 .. MaxInput : MenuOf[n] \in Seq(1 .. n)

-----------------------------------------------------------------------------
(* Segment                                                                  *)

kVoid == 0
kGuess == 1
kSelected == 2
kConfirmed == 3
Status == kVoid .. kConfirmed

Tags == {"abc", "raw", "pattern", "punct"}

Segment == [status : Status, start : Nat, end : Nat, tags : SUBSET Tags,
            cands : Seq(Nat), selected : Nat]

NewSegment(s, e, tags) ==
  [status |-> kVoid, start |-> s, end |-> e, tags |-> tags,
   cands |-> << >>, selected |-> 0]

\* GetCandidateAt answers a candidate, and where that candidate ends
HasCandidateAt(seg, i) == i < Len(seg.cands)
CandidateEnd(seg, i) == seg.cands[i + 1]
HasSelectedCandidate(seg) == HasCandidateAt(seg, seg.selected)
SelectedEnd(seg) == CandidateEnd(seg, seg.selected)

IsEmpty(seg) == seg.start = seg.end

-----------------------------------------------------------------------------
(* Segmentation                                                             *)

Back(segs) == segs[Len(segs)]
PopBack(segs) == SubSeq(segs, 1, Len(segs) - 1)
SetBack(segs, seg) == [segs EXCEPT ![Len(segs)] = seg]

GetCurrentStartPosition(segs) == IF segs = << >> THEN 0 ELSE Back(segs).start
GetCurrentEndPosition(segs) == IF segs = << >> THEN 0 ELSE Back(segs).end
HasFinishedSegmentation(segs, input) ==
  GetCurrentEndPosition(segs) >= Len(input)

\* the end of the last segment the user has selected
LastSelected(segs) ==
  {i \in DOMAIN segs : /\ segs[i].status >= kSelected
                       /\ \A j \in DOMAIN segs :
                            segs[j].status >= kSelected => j <= i}
GetConfirmedPosition(segs) ==
  IF LastSelected(segs) = {} THEN 0
  ELSE segs[CHOOSE i \in LastSelected(segs) : TRUE].end

Forward(segs) ==
  IF segs = << >> THEN segs
  ELSE IF IsEmpty(Back(segs)) THEN segs
  ELSE Append(segs, NewSegment(Back(segs).end, Back(segs).end, {}))

CanTrim(segs) == segs # << >> /\ IsEmpty(Back(segs))
Trim(segs) == IF CanTrim(segs) THEN PopBack(segs) ELSE segs

\* the length of the longest common prefix
DiffPos(a, b) ==
  CHOOSE d \in 0 .. Len(a) :
    /\ d <= Len(b)
    /\ \A i \in 1 .. d : a[i] = b[i]
    /\ d = Len(a) \/ d = Len(b) \/ a[d + 1] # b[d + 1]

\* pop_back() while the last segment is among those to drop
PopBackWhile(segs, drop) ==
  SubSeq(segs, 1, CHOOSE m \in 0 .. Len(segs) :
                    /\ m + 1 .. Len(segs) \subseteq drop
                    /\ m \notin drop)

\* Mutants: nothing is disposed; no segment is begun for what was disposed.
ResetNothing(segs, old_input, new_input) == segs

ResetWithoutForward(segs, old_input, new_input) ==
  LET diff_pos == DiffPos(old_input, new_input)
  IN PopBackWhile(segs, {i \in DOMAIN segs : segs[i].end > diff_pos})

Reset(segs, old_input, new_input) ==
  LET diff_pos == DiffPos(old_input, new_input)
      kept == PopBackWhile(segs, {i \in DOMAIN segs : segs[i].end > diff_pos})
  IN IF Len(kept) < Len(segs) THEN Forward(kept) ELSE segs

AddSegment(segs, seg) ==
  IF seg.start # GetCurrentStartPosition(segs) THEN segs
  ELSE IF segs = << >> THEN << seg >>
  ELSE IF Back(segs).end > seg.end THEN segs
  ELSE IF Back(segs).end < seg.end THEN SetBack(segs, seg)
  ELSE SetBack(segs, [Back(segs) EXCEPT !.tags = @ \cup seg.tags])

-----------------------------------------------------------------------------
(* The segmentors, in the order of the preset schemas: ascii_segmentor,     *)
(* matcher, abc_segmentor, punct_segmentor, fallback_segmentor.             *)

At(input, k) == input[k + 1]

\* GetMatch: the input ends with a pattern that starts at the end of the
\* segmentation or at the start of one of its unconfirmed segments
MatchStarts(input, segs) ==
  {p \in GetConfirmedPosition(segs) .. Len(input) - 1 :
     /\ At(input, p) \in Leads
     /\ \A k \in p + 1 .. Len(input) - 1 : At(input, k) \in Letters
     /\ \/ p = GetCurrentEndPosition(segs)
        \/ \E i \in DOMAIN segs : segs[i].start = p}
MatchFound(input, segs) == MatchStarts(input, segs) # {}
MatchStart(input, segs) == CHOOSE p \in MatchStarts(input, segs) : TRUE

Matcher(segs, input) ==
  LET p == MatchStart(input, segs)
      kept == PopBackWhile(segs, {i \in DOMAIN segs : segs[i].start > p})
  IN AddSegment(kept, NewSegment(p, Len(input), {"pattern"}))

AsciiSegmentor(segs, input) ==
  LET j == GetCurrentStartPosition(segs)
  IN IF j < Len(input) THEN AddSegment(segs, NewSegment(j, Len(input), {"raw"}))
     ELSE segs

\* the end of the longest run of letters, and delimiters not in front, from j
AbcEnd(input, j) ==
  CHOOSE k \in j .. Len(input) :
    /\ \A i \in j .. k - 1 : \/ At(input, i) \in Letters
                             \/ i # j /\ At(input, i) \in Delims
    /\ \/ k = Len(input)
       \/ ~ (At(input, k) \in Letters \/ (k # j /\ At(input, k) \in Delims))

AbcSegmentor(segs, input) ==
  LET j == GetCurrentStartPosition(segs)
      k == AbcEnd(input, j)
  IN IF j < k THEN AddSegment(segs, NewSegment(j, k, {"abc"})) ELSE segs

FallbackSegmentor(segs, input) ==
  LET k == GetCurrentStartPosition(segs)
      rest == Trim(segs)
  IN IF GetCurrentEndPosition(segs) > k \/ k = Len(input) THEN segs
     ELSE IF rest # << >> /\ "raw" \in Back(rest).tags
     THEN \* extend the previous raw segment and mark it for redo
          SetBack(rest, NewSegment(Back(rest).start, k + 1, {"raw"}))
     ELSE AddSegment(Forward(rest), NewSegment(k, k + 1, {"raw"}))

\* punct_segmentor is exclusive: fallback_segmentor runs only if it passes
PunctSegmentor(segs, input) ==
  LET k == GetCurrentStartPosition(segs)
  IN IF k = Len(input) THEN segs
     ELSE IF At(input, k) \in Puncts
     THEN AddSegment(segs, NewSegment(k, k + 1, {"punct"}))
     ELSE FallbackSegmentor(segs, input)

\* One round: the segmentors in turn, until one of them ends the round.
Round(segs, input, ascii_mode) ==
  IF ascii_mode THEN AsciiSegmentor(segs, input)
  ELSE IF MatchFound(input, segs) THEN Matcher(segs, input)
  ELSE PunctSegmentor(AbcSegmentor(segs, input), input)

-----------------------------------------------------------------------------
(* ConcreteEngine::CalculateSegmentation and TranslateSegments              *)

\* A round led from segs to next: the loop ends for lack of advancement, or
\* at the end of the input, or it goes on with a new segment.
Advance(segs, next, input) ==
  IF \/ GetCurrentStartPosition(segs) = GetCurrentEndPosition(next)
     \/ HasFinishedSegmentation(next, input)
  THEN [segs |-> next, done |-> TRUE]
  ELSE [segs |-> Forward(next), done |-> FALSE]

\* The loop after one more iteration: what it leaves, and whether it ended.
Iterate(loop, input, ascii_mode) ==
  IF loop.done \/ HasFinishedSegmentation(loop.segs, input)
  THEN [segs |-> loop.segs, done |-> TRUE]
  ELSE Advance(loop.segs, Round(loop.segs, input, ascii_mode), input)

\* The loop after n iterations. Each one that does not end the loop starts
\* further to the right, so Len(input) + 1 iterations exhaust it.
Loop(segs, input, ascii_mode) ==
  LET after[n \in 0 .. Len(input) + 1] ==
        IF n = 0 THEN [segs |-> segs, done |-> FALSE]
        ELSE Iterate(after[n - 1], input, ascii_mode)
  IN after[Len(input) + 1]

\* The engine does not stop at a segment the user has selected.
ForwardSelected(segs) ==
  IF segs # << >> /\ Back(segs).status >= kSelected THEN Forward(segs) ELSE segs

\* Mutant: an empty segment may stay at the end.
CalculateSegmentationUntrimmed(segs, input, ascii_mode) ==
  ForwardSelected(Loop(segs, input, ascii_mode).segs)

CalculateSegmentation(segs, input, ascii_mode) ==
  ForwardSelected(Trim(Loop(segs, input, ascii_mode).segs))

\* What the translators answer for a segment: the ends of the candidates.
\* A raw segment gets none, unless echo_translator repeats the input.
Translate(seg, input) ==
  LET len == seg.end - seg.start
      echo == IF Echo THEN << seg.end >> ELSE << >>
  IN IF "punct" \in seg.tags
     THEN IF PunctDef[At(input, seg.start)] \in {"unique", "commit"}
          THEN << seg.end >> ELSE << seg.end, seg.end >>
     ELSE IF "raw" \in seg.tags \/ MenuOf[len] = << >> THEN echo
     ELSE [i \in DOMAIN MenuOf[len] |-> seg.start + MenuOf[len][i]]

Translated(seg, input) ==
  IF seg.status >= kGuess \/ IsEmpty(seg) THEN seg
  ELSE [seg EXCEPT !.status = kGuess, !.selected = 0,
                   !.cands = Translate(seg, input)]

TranslateSegments(segs, input) ==
  [i \in DOMAIN segs |-> Translated(segs[i], input)]
=============================================================================

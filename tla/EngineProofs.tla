--------------------------- MODULE EngineProofs ---------------------------
(***************************************************************************)
(* Theorems about Engine, for every schema, menu and length of the input.   *)
(* The methods of Context take contexts that are complete, as Compose       *)
(* leaves them, to complete contexts, through contexts that are only sound: *)
(* their segments are a chain about a string that need not be the input any *)
(* more.                                                                    *)
(***************************************************************************)
EXTENDS Engine, SegmentationProofs

\* a context of its type, with the caret in the input; the temporary ascii mode
\* is one; and what has been committed is in order
Bounded(c) ==
  /\ c \in ContextType /\ c.caret <= Len(c.input) /\ Len(c.input) <= MaxInput
  /\ c.inline => c.ascii
  /\ \A n \in DOMAIN c.out : InOrder(c.out[n])

\* its segments are a chain about the string that was last composed
Sound(c) == Bounded(c) /\ Chain(c.segs, Len(c.active))

\* that string is the input before the caret, and the chain goes to its end,
\* where the user can choose
Composed(c) ==
  /\ Bounded(c)
  /\ c.active = Prefix(c.input, c.caret)
  /\ Finished(c.segs, Len(c.active)) /\ Settled(c.segs)

\* and AsciiComposer has been told of it
Complete(c) == Composed(c) /\ (c.inline => IsComposing(c))

-----------------------------------------------------------------------------
(* Records and strings                                                      *)

\* The members of a context, one by one.
LEMMA Members ==
  ASSUME NEW c \in ContextType
  PROVE  /\ c.input \in Seq(Char) /\ c.caret \in Nat /\ c.active \in Seq(Char)
         /\ c.segs \in Seq(Segment) /\ c.ascii \in BOOLEAN /\ c.inline \in BOOLEAN
         /\ c.oddness \in {0, 1} /\ c.out \in Seq(Output)
         /\ Len(c.input) \in Nat /\ Len(c.active) \in Nat
BY DEF ContextType

\* substr(0, n), for a position n,
LEMMA PrefixType ==
  ASSUME NEW s \in Seq(Char), NEW n \in Nat, n <= Len(s)
  PROVE  Prefix(s, n) \in Seq(Char) /\ Len(Prefix(s, n)) = n
BY DEF Prefix

\* and substr(n).
LEMMA SuffixType ==
  ASSUME NEW s \in Seq(Char), NEW n \in Nat, n <= Len(s)
  PROVE  Suffix(s, n) \in Seq(Char) /\ Len(Suffix(s, n)) = Len(s) - n
BY DEF Suffix

-----------------------------------------------------------------------------
(* Composing                                                                *)

\* A complete context is sound: its segments are about its own input.
LEMMA CompleteIsSound ==
  ASSUME NEW c, Complete(c) PROVE Sound(c)
BY DEF Complete, Composed, Sound, Finished

\* What a method may leave of the context it has been given.
Keeps(c, d) ==
  /\ d.input = c.input /\ d.caret = c.caret /\ d.ascii = c.ascii
  /\ d.inline = c.inline /\ d.oddness = c.oddness /\ d.out = c.out

\* Compose brings the segments of a sound context up to date.
LEMMA ComposeComposed ==
  ASSUME NEW c, Sound(c)
  PROVE  Composed(Compose(c)) /\ Keeps(c, Compose(c))
<1> DEFINE active_input == Prefix(c.input, c.caret)
           kept == Reset(c.segs, c.active, active_input)
           segs == CalculateSegmentation(kept, active_input, c.ascii)
           translated == TranslateSegments(segs, active_input)
           d == [c EXCEPT !.active = active_input]
           e == [d EXCEPT !.segs = translated]
<1>1. /\ c \in ContextType /\ c.input \in Seq(Char) /\ c.caret \in Nat
      /\ c.active \in Seq(Char) /\ c.ascii \in BOOLEAN
      /\ Len(c.active) \in Nat /\ Len(c.input) \in Nat
      /\ Chain(c.segs, Len(c.active))
      /\ c.caret <= Len(c.input) /\ Len(c.input) <= MaxInput
      /\ c.inline => c.ascii
      /\ \A n \in DOMAIN c.out : InOrder(c.out[n])
  BY Members DEF Sound, Bounded
<1>2. Compose(c) = e
  BY DEF Compose
<1>3. /\ active_input \in Seq(Char) /\ Len(active_input) <= MaxInput
      /\ Len(active_input) \in Nat
  BY <1>1, PrefixType, BoundAssumption
<1> HIDE DEF active_input
<1>4. Chain(kept, Len(active_input))
  BY <1>1, <1>3, ResetChain
<1> HIDE DEF kept
<1>5. Finished(segs, Len(active_input)) /\ Settled(translated)
  BY <1>1, <1>3, <1>4, CalculateSegmentationFinished, ComposedSettled
<1> HIDE DEF segs
<1>6. Finished(translated, Len(active_input)) /\ Settled(translated)
  BY <1>3, <1>5, TranslateSegmentsFinished
<1> HIDE DEF translated
<1>7. translated \in Seq(Segment)
  BY <1>6 DEF Finished, Chain
<1>8. /\ d \in ContextType /\ d.input = c.input /\ d.caret = c.caret
      /\ d.active = active_input /\ d.ascii = c.ascii /\ d.inline = c.inline
      /\ d.oddness = c.oddness /\ d.out = c.out
  BY <1>1, <1>3 DEF ContextType
<1> HIDE DEF d
<1>9. /\ e \in ContextType /\ e.input = c.input /\ e.caret = c.caret
      /\ e.active = active_input /\ e.segs = translated
      /\ e.ascii = c.ascii /\ e.inline = c.inline
      /\ e.oddness = c.oddness /\ e.out = c.out
  BY <1>7, <1>8 DEF ContextType
<1> HIDE DEF e
<1>10. e.active = Prefix(e.input, e.caret)
  BY <1>9 DEF active_input
<1>11. Composed(e) /\ Keeps(c, e)
  BY <1>1, <1>6, <1>9, <1>10 DEF Composed, Bounded, Keeps
<1> QED BY <1>2, <1>11

\* So does every notification; AsciiComposer only clears its two flags.
LEMMA UpdateComplete ==
  ASSUME NEW c, Sound(c)
  PROVE  /\ Complete(Update(c))
         /\ Update(c).input = c.input /\ Update(c).caret = c.caret
         /\ Update(c).out = c.out
         /\ Update(c).inline => c.inline
<1> DEFINE d == Compose(c)
           e == [d EXCEPT !.inline = FALSE]
           f == [e EXCEPT !.ascii = FALSE]
<1>1. Composed(d) /\ Keeps(c, d) /\ d \in ContextType
  BY ComposeComposed DEF Composed, Bounded
<1>2. Update(c) = IF d.inline /\ ~ IsComposing(d) THEN f ELSE d
  BY DEF Update, OnContextUpdate
<1> HIDE DEF d
<1>3. /\ e \in ContextType /\ e.input = d.input /\ e.caret = d.caret
      /\ e.active = d.active /\ e.segs = d.segs /\ e.out = d.out
      /\ e.inline = FALSE
  BY <1>1 DEF ContextType
<1> HIDE DEF e
<1>4. /\ f \in ContextType /\ f.input = d.input /\ f.caret = d.caret
      /\ f.active = d.active /\ f.segs = d.segs /\ f.out = d.out
      /\ f.inline = FALSE
  BY <1>3 DEF ContextType
<1> HIDE DEF f
<1>5. Complete(f)
  BY <1>1, <1>4 DEF Complete, Composed, Bounded
<1>6. CASE d.inline /\ ~ IsComposing(d)
  BY <1>1, <1>2, <1>4, <1>5, <1>6 DEF Keeps
<1>7. CASE ~ (d.inline /\ ~ IsComposing(d))
  BY <1>1, <1>2, <1>7 DEF Keeps, Complete
<1> QED BY <1>6, <1>7

\* Editing the string or the caret keeps a context sound: its segments are
\* still about the string that was composed last.
LEMMA SoundSegs ==
  ASSUME NEW c, Sound(c), NEW segs, Chain(segs, Len(c.active)),
         NEW d, d = [c EXCEPT !.segs = segs]
  PROVE  /\ Sound(d) /\ d.input = c.input /\ d.caret = c.caret
         /\ d.active = c.active /\ d.segs = segs /\ d.out = c.out
         /\ d.ascii = c.ascii /\ d.inline = c.inline
<1>1. c \in ContextType /\ segs \in Seq(Segment)
  BY DEF Sound, Bounded, Chain
<1>2. /\ d \in ContextType /\ d.input = c.input /\ d.caret = c.caret
      /\ d.active = c.active /\ d.segs = segs /\ d.out = c.out
      /\ d.ascii = c.ascii /\ d.inline = c.inline
  BY <1>1 DEF ContextType
<1>3. Sound(d)
  BY <1>2 DEF Sound, Bounded
<1> QED BY <1>2, <1>3

\* A context is sound whatever its input, if that is short enough.
LEMMA SoundInput ==
  ASSUME NEW c, Sound(c), NEW d \in ContextType,
         d.caret <= Len(d.input), Len(d.input) <= MaxInput,
         d.active = c.active, d.segs = c.segs, d.out = c.out,
         d.ascii = c.ascii, d.inline = c.inline
  PROVE  Sound(d)
BY DEF Sound, Bounded

-----------------------------------------------------------------------------
(* Editing the input                                                        *)

\* Context::set_caret_pos, which cuts a position behind the end.
LEMMA CaretComplete ==
  ASSUME NEW c, Sound(c), NEW pos \in Nat
  PROVE  /\ Complete(set_caret_pos(c, pos)) /\ set_caret_pos(c, pos).out = c.out
         /\ set_caret_pos(c, pos).input = c.input
         /\ set_caret_pos(c, pos).inline => c.inline
<1> DEFINE caret == IF pos > Len(c.input) THEN Len(c.input) ELSE pos
           d == [c EXCEPT !.caret = caret]
<1>1. c \in ContextType /\ Len(c.input) \in Nat
  BY Members DEF Sound, Bounded
<1>2. caret \in Nat /\ caret <= Len(c.input)
  BY <1>1
<1> HIDE DEF caret
<1>3. /\ d \in ContextType /\ d.input = c.input /\ d.caret = caret
      /\ d.active = c.active /\ d.segs = c.segs /\ d.out = c.out
      /\ d.ascii = c.ascii /\ d.inline = c.inline
  BY <1>1, <1>2 DEF ContextType
<1> HIDE DEF d
<1>4. Sound(d)
  BY <1>2, <1>3 DEF Sound, Bounded
<1>5. set_caret_pos(c, pos) = Update(d)
  BY DEF set_caret_pos, d, caret
<1> QED BY <1>3, <1>4, <1>5, UpdateComplete

\* d is a context that differs from c in the input and the caret.
Edits(c, d) ==
  /\ Sound(d) /\ d.segs = c.segs /\ d.active = c.active /\ d.out = c.out
  /\ d.ascii = c.ascii /\ d.inline = c.inline

\* Context::set_input edits the input, then notifies.
LEMMA InputEdits ==
  ASSUME NEW c, Sound(c), NEW value \in Seq(Char), Len(value) <= MaxInput
  PROVE  \E d : Edits(c, d) /\ set_input(c, value) = Update(d)
<1> DEFINE s == [c EXCEPT !.input = value]
           d == [s EXCEPT !.caret = Len(value)]
<1>0. c \in ContextType
  BY DEF Sound, Bounded
<1>1. /\ s = [c EXCEPT !.input = value] /\ d = [s EXCEPT !.caret = Len(value)]
      /\ Len(value) \in Nat
  OBVIOUS
<1>2. set_input(c, value) = Update(d)
  BY DEF set_input
<1> HIDE DEF s, d
<1>3. Len(value) <= Len(value)
  BY <1>1
<1>4. Edits(c, d)
  <2>1. /\ s \in ContextType /\ s.input = value /\ s.caret = c.caret
        /\ s.active = c.active /\ s.segs = c.segs /\ s.out = c.out
        /\ s.ascii = c.ascii /\ s.inline = c.inline
    BY <1>0, <1>1, <1>3 DEF ContextType, s
  <2>2. /\ d \in ContextType /\ d.input = value /\ d.caret = Len(value)
        /\ d.active = c.active /\ d.segs = c.segs /\ d.out = c.out
        /\ d.ascii = c.ascii /\ d.inline = c.inline
    BY <1>0, <1>1, <1>3, <2>1 DEF ContextType, d
  <2> QED BY <1>0, <1>1, <1>3, <2>1, <2>2, SoundInput DEF Edits
<1> QED BY <1>2, <1>4

LEMMA InputComplete ==
  ASSUME NEW c, Sound(c), NEW value \in Seq(Char), Len(value) <= MaxInput
  PROVE  Complete(set_input(c, value)) /\ set_input(c, value).out = c.out
BY InputEdits, UpdateComplete DEF Edits

\* Context::PushInput does so too, as long as there is room in the bounded input.
LEMMA PushEdits ==
  ASSUME NEW c, Sound(c), Len(c.input) < MaxInput, NEW ch \in Char
  PROVE  \E d : /\ Edits(c, d) /\ PushInput(c, ch) = Update(d)
                /\ d.input = Prefix(c.input, c.caret) \o << ch >>
                               \o Suffix(c.input, c.caret)
                /\ d.caret = c.caret + 1 /\ d.input # << >>
<1> DEFINE input == Prefix(c.input, c.caret) \o << ch >> \o Suffix(c.input, c.caret)
           s == [c EXCEPT !.input = input]
           d == [s EXCEPT !.caret = c.caret + 1]
<1>1. /\ c \in ContextType
      /\ c.input \in Seq(Char) /\ c.caret \in Nat /\ c.caret <= Len(c.input)
      /\ Len(c.input) \in Nat /\ c.caret + 1 \in Nat
  BY Members DEF Sound, Bounded
<1>2. /\ Prefix(c.input, c.caret) \in Seq(Char)
      /\ Len(Prefix(c.input, c.caret)) = c.caret
  BY <1>1, PrefixType
<1>3. /\ Suffix(c.input, c.caret) \in Seq(Char)
      /\ Len(Suffix(c.input, c.caret)) = Len(c.input) - c.caret
  BY <1>1, SuffixType
<1>4. input \in Seq(Char) /\ Len(input) = Len(c.input) + 1
  <2>1. << ch >> \in Seq(Char) /\ Len(<< ch >>) = 1
    OBVIOUS
  <2> DEFINE front == Prefix(c.input, c.caret) \o << ch >>
  <2>2. front \in Seq(Char) /\ Len(front) = c.caret + 1
    BY <1>2, <2>1, ConcatProperties
  <2>3. input = front \o Suffix(c.input, c.caret)
    OBVIOUS
  <2> HIDE DEF front, input
  <2>4. input \in Seq(Char) /\ Len(input) = Len(front) + Len(Suffix(c.input, c.caret))
    BY <1>3, <2>2, <2>3, ConcatProperties
  <2> QED BY <1>1, <1>3, <2>2, <2>4
<1>5. Len(input) <= MaxInput /\ c.caret + 1 <= Len(input) /\ input # << >>
  BY <1>1, <1>4, BoundAssumption DEF input
<1>6. PushInput(c, ch) = Update(d)
  BY DEF PushInput
<1>7. s = [c EXCEPT !.input = input] /\ d = [s EXCEPT !.caret = c.caret + 1]
  OBVIOUS
<1> HIDE DEF input, s, d
<1>8. Edits(c, d) /\ d.input = input /\ d.caret = c.caret + 1
  <2>1. /\ s \in ContextType /\ s.input = input /\ s.caret = c.caret
        /\ s.active = c.active /\ s.segs = c.segs /\ s.out = c.out
        /\ s.ascii = c.ascii /\ s.inline = c.inline
    BY <1>1, <1>5, <1>4 DEF ContextType, s
  <2>2. /\ d \in ContextType /\ d.input = input /\ d.caret = c.caret + 1
        /\ d.active = c.active /\ d.segs = c.segs /\ d.out = c.out
        /\ d.ascii = c.ascii /\ d.inline = c.inline
    BY <1>1, <1>5, <1>4, <2>1 DEF ContextType, d
  <2> QED BY <1>1, <1>5, <1>4, <2>1, <2>2, SoundInput DEF Edits
<1> QED BY <1>5, <1>8, <1>6 DEF input

LEMMA PushComplete ==
  ASSUME NEW c, Sound(c), Len(c.input) < MaxInput, NEW ch \in Char
  PROVE  /\ Complete(PushInput(c, ch)) /\ PushInput(c, ch).out = c.out
         /\ PushInput(c, ch).input # << >>
<1>1. PICK d : Edits(c, d) /\ PushInput(c, ch) = Update(d) /\ d.input # << >>
  BY PushEdits
<1> QED BY <1>1, UpdateComplete DEF Edits

\* Context::PopInput.
LEMMA PopEdits ==
  ASSUME NEW c, Sound(c), CanPopInput(c)
  PROVE  \E d : /\ Edits(c, d) /\ PopInput(c) = Update(d)
                /\ d.input = Prefix(c.input, c.caret - 1) \o Suffix(c.input, c.caret)
                /\ d.caret = c.caret - 1
<1> DEFINE input == Prefix(c.input, c.caret - 1) \o Suffix(c.input, c.caret)
           s == [c EXCEPT !.input = input]
           d == [s EXCEPT !.caret = c.caret - 1]
<1>1. /\ c \in ContextType
      /\ c.input \in Seq(Char) /\ c.caret - 1 \in Nat /\ c.caret \in Nat
      /\ c.caret <= Len(c.input) /\ Len(c.input) \in Nat /\ Len(c.input) <= MaxInput
      /\ c.caret - 1 <= Len(c.input)
  BY Members DEF Sound, Bounded, CanPopInput
<1>2. /\ Prefix(c.input, c.caret - 1) \in Seq(Char)
      /\ Len(Prefix(c.input, c.caret - 1)) = c.caret - 1
  BY <1>1, PrefixType
<1>3. /\ Suffix(c.input, c.caret) \in Seq(Char)
      /\ Len(Suffix(c.input, c.caret)) = Len(c.input) - c.caret
  BY <1>1, SuffixType
<1>4. /\ input \in Seq(Char)
      /\ Len(input) = Len(Prefix(c.input, c.caret - 1)) + Len(Suffix(c.input, c.caret))
  BY <1>2, <1>3, ConcatProperties
<1>5. PopInput(c) = Update(d)
  BY DEF PopInput
<1>6. s = [c EXCEPT !.input = input] /\ d = [s EXCEPT !.caret = c.caret - 1]
  OBVIOUS
<1> HIDE DEF input, s, d
<1>7. Len(input) <= MaxInput /\ c.caret - 1 <= Len(input)
  BY SMTT(20), <1>1, <1>2, <1>3, <1>4, BoundAssumption
<1>8. Edits(c, d) /\ d.input = input /\ d.caret = c.caret - 1
  <2>1. /\ s \in ContextType /\ s.input = input /\ s.caret = c.caret
        /\ s.active = c.active /\ s.segs = c.segs /\ s.out = c.out
        /\ s.ascii = c.ascii /\ s.inline = c.inline
    BY <1>1, <1>4, <1>7 DEF ContextType, s
  <2>2. /\ d \in ContextType /\ d.input = input /\ d.caret = c.caret - 1
        /\ d.active = c.active /\ d.segs = c.segs /\ d.out = c.out
        /\ d.ascii = c.ascii /\ d.inline = c.inline
    BY <1>1, <1>4, <1>7, <2>1 DEF ContextType, d
  <2> QED BY <1>1, <1>4, <1>7, <2>1, <2>2, SoundInput DEF Edits
<1> QED BY <1>5, <1>8 DEF input

LEMMA PopComplete ==
  ASSUME NEW c, Sound(c), CanPopInput(c)
  PROVE  /\ Complete(PopInput(c)) /\ PopInput(c).out = c.out
         /\ PopInput(c).input = Prefix(c.input, c.caret - 1) \o Suffix(c.input, c.caret)
         /\ PopInput(c).caret = c.caret - 1
<1>1. PICK d : /\ Edits(c, d) /\ PopInput(c) = Update(d)
               /\ d.input = Prefix(c.input, c.caret - 1) \o Suffix(c.input, c.caret)
               /\ d.caret = c.caret - 1
  BY PopEdits
<1> QED BY <1>1, UpdateComplete DEF Edits

\* Context::DeleteInput, if there is something to delete.
LEMMA DeleteEdits ==
  ASSUME NEW c, Complete(c)
  PROVE  \/ DeleteInput(c) = c
         \/ \E d : Edits(c, d) /\ DeleteInput(c) = Update(d)
<1>1. CASE ~ CanDeleteInput(c)
  BY <1>1 DEF DeleteInput
<1>2. CASE CanDeleteInput(c)
  <2> DEFINE input == Prefix(c.input, c.caret) \o Suffix(c.input, c.caret + 1)
             d == [c EXCEPT !.input = input]
  <2>1. /\ c \in ContextType
        /\ c.input \in Seq(Char) /\ c.caret \in Nat /\ c.caret + 1 \in Nat
        /\ c.caret + 1 <= Len(c.input) /\ Len(c.input) \in Nat /\ Len(c.input) <= MaxInput
    BY <1>2, Members DEF Complete, Composed, Bounded, CanDeleteInput
  <2>2. /\ Prefix(c.input, c.caret) \in Seq(Char)
        /\ Len(Prefix(c.input, c.caret)) = c.caret
    <3>1. c.caret <= Len(c.input)
      BY <2>1
    <3> QED BY <2>1, <3>1, PrefixType
  <2>3. /\ Suffix(c.input, c.caret + 1) \in Seq(Char)
        /\ Len(Suffix(c.input, c.caret + 1)) = Len(c.input) - (c.caret + 1)
    BY <2>1, SuffixType
  <2>4. input \in Seq(Char) /\ Len(input) = Len(c.input) - 1
    <3>1. /\ input \in Seq(Char)
          /\ Len(input) = Len(Prefix(c.input, c.caret)) + Len(Suffix(c.input, c.caret + 1))
      BY <2>2, <2>3, ConcatProperties
    <3> HIDE DEF input
    <3> QED BY SMTT(20), <2>1, <2>2, <2>3, <3>1
  <2> HIDE DEF input
  <2>5. Len(input) <= MaxInput /\ c.caret <= Len(input)
    BY <2>1, <2>4, BoundAssumption
  <2>6. /\ d \in ContextType /\ d.input = input /\ d.caret = c.caret
        /\ d.active = c.active /\ d.segs = c.segs /\ d.out = c.out
        /\ d.ascii = c.ascii /\ d.inline = c.inline
    BY <2>1, <2>4 DEF ContextType
  <2>7. DeleteInput(c) = Update(d)
    BY <1>2 DEF DeleteInput, input
  <2> HIDE DEF d
  <2>8. Sound(d)
    BY <2>5, <2>6, CompleteIsSound DEF Sound, Bounded
  <2>9. Edits(c, d)
    BY <2>6, <2>8 DEF Edits
  <2> QED BY <2>7, <2>9
<1> QED BY <1>1, <1>2

LEMMA DeleteComplete ==
  ASSUME NEW c, Complete(c)
  PROVE  Complete(DeleteInput(c)) /\ DeleteInput(c).out = c.out
BY DeleteEdits, UpdateComplete DEF Edits

\* Context::Clear.
LEMMA ClearComplete ==
  ASSUME NEW c, Sound(c)
  PROVE  /\ Complete(Clear(c)) /\ Clear(c).out = c.out /\ Clear(c).input = << >>
         /\ Clear(c).inline => c.inline
<1> DEFINE s == [c EXCEPT !.input = << >>]
           d == [s EXCEPT !.caret = 0]
           e == [d EXCEPT !.segs = << >>]
<1>0. c \in ContextType
  BY DEF Sound, Bounded
<1>1. << >> \in Seq(Char) /\ Len(<< >>) <= MaxInput /\ 0 <= Len(<< >>)
  BY BoundAssumption
<1>2. /\ Clear(c) = Update(e)
      /\ s = [c EXCEPT !.input = << >>] /\ d = [s EXCEPT !.caret = 0]
  BY DEF Clear
<1> HIDE DEF s, d
<1>3. Sound(d) /\ d.out = c.out /\ d.input = << >> /\ d.inline = c.inline
  <2>1. /\ s \in ContextType /\ s.input = << >> /\ s.caret = c.caret
        /\ s.active = c.active /\ s.segs = c.segs /\ s.out = c.out
        /\ s.ascii = c.ascii /\ s.inline = c.inline
    BY <1>0, <1>1 DEF ContextType, s
  <2>2. /\ d \in ContextType /\ d.input = << >> /\ d.caret = 0
        /\ d.active = c.active /\ d.segs = c.segs /\ d.out = c.out
        /\ d.ascii = c.ascii /\ d.inline = c.inline
    BY <1>0, <1>1, <2>1 DEF ContextType, d
  <2> QED BY <1>0, <1>1, <2>1, <2>2, SoundInput
<1>4. Chain(<< >>, Len(d.active)) /\ e = [d EXCEPT !.segs = << >>]
  BY DEF Chain
<1> HIDE DEF e
<1>5. Sound(d)
  BY <1>3
<1> HIDE DEF d
<1>6. Sound(e) /\ e.out = d.out /\ e.input = d.input /\ e.inline = d.inline
  <2>1. PICK none : none = << >>
    OBVIOUS
  <2>2. Chain(none, Len(d.active)) /\ e = [d EXCEPT !.segs = none]
    BY <1>4, <2>1
  <2>3. Sound(e)
    BY <1>5, <2>2, SoundSegs
  <2>4. e.out = d.out /\ e.input = d.input
    BY <1>5, <2>2, SoundSegs
  <2>5. e.inline = d.inline
    BY <1>5, <2>2, SoundSegs
  <2> QED BY <2>3, <2>4, <2>5
<1> QED BY <1>2, <1>3, <1>6, UpdateComplete

-----------------------------------------------------------------------------
(* Committing                                                               *)

\* The text of a segment is a piece of the input.
LEMMA PieceType ==
  ASSUME NEW seg \in Segment
  PROVE  TextEnd(seg) \in Nat /\ PieceOf(seg) \in Piece
<1>1. seg.start \in Nat /\ seg.end \in Nat /\ seg.selected \in Nat /\ seg.cands \in Seq(Nat)
  BY DEF Segment
<1>2. TextEnd(seg) \in Nat
  <2>1. CASE HasSelectedCandidate(seg)
    <3>1. seg.selected + 1 \in 1 .. Len(seg.cands)
      BY <1>1, <2>1 DEF HasSelectedCandidate, HasCandidateAt
    <3>2. seg.cands[seg.selected + 1] \in Nat
      BY <1>1, <3>1
    <3> QED BY <2>1, <3>2 DEF TextEnd, SelectedEnd, CandidateEnd
  <2>2. CASE ~ HasSelectedCandidate(seg)
    BY <1>1, <2>2 DEF TextEnd
  <2> QED BY <2>1, <2>2
<1>3. HasSelectedCandidate(seg) \in BOOLEAN
  BY DEF HasSelectedCandidate, HasCandidateAt
<1> QED BY <1>1, <1>2, <1>3 DEF PieceOf, Piece

\* That piece lies in the segment, and stops short of its end only behind a
\* candidate.
LEMMA TextEndFits ==
  ASSUME NEW seg \in Segment, Fine(seg)
  PROVE  /\ TextEnd(seg) \in Nat /\ seg.start \in Nat /\ seg.end \in Nat
         /\ seg.start <= TextEnd(seg) /\ TextEnd(seg) <= seg.end
         /\ TextEnd(seg) < seg.end => HasSelectedCandidate(seg)
<1>1. /\ seg.start \in Nat /\ seg.end \in Nat /\ seg.selected \in Nat
      /\ seg.cands \in Seq(Nat) /\ seg.start <= seg.end
  BY DEF Segment, Fine, Loose
<1>2. CASE HasSelectedCandidate(seg)
  <2>1. seg.selected + 1 \in DOMAIN seg.cands /\ seg.cands # << >>
    BY <1>1, <1>2 DEF HasSelectedCandidate, HasCandidateAt
  <2>2. seg.start < seg.cands[seg.selected + 1] /\ seg.cands[seg.selected + 1] <= seg.end
    BY <2>1 DEF Fine, Loose, SelectedEnd, CandidateEnd
  <2>3. TextEnd(seg) = seg.cands[seg.selected + 1]
    BY <1>2 DEF TextEnd, SelectedEnd, CandidateEnd
  <2> QED BY <1>1, <1>2, <2>2, <2>3, PieceType
<1>3. CASE ~ HasSelectedCandidate(seg)
  BY <1>1, <1>3 DEF TextEnd
<1> QED BY <1>2, <1>3

\* The same for all the segments of a chain.
LEMMA TextEnds ==
  ASSUME NEW c \in ContextType, Chain(c.segs, Len(c.active)),
         NEW i \in 1 .. Len(c.segs)
  PROVE  /\ TextEnd(c.segs[i]) \in Nat /\ TextEnd(c.segs[i]) <= Len(c.active)
         /\ c.segs[i].start \in Nat /\ c.segs[i].start <= TextEnd(c.segs[i])
         /\ i = 1 => c.segs[i].start = 0
         /\ i # 1 => /\ TextEnd(c.segs[i - 1]) \in Nat
                     /\ TextEnd(c.segs[i - 1]) <= c.segs[i].start
                     /\ TextEnd(c.segs[i - 1]) < c.segs[i].start =>
                          HasSelectedCandidate(c.segs[i - 1])
<1>1. c.segs \in Seq(Segment) /\ Len(c.segs) \in Nat /\ Len(c.active) \in Nat
  BY Members
<1>2. /\ Fine(c.segs[i]) /\ c.segs[i].end <= Len(c.active)
      /\ c.segs[i].start = IF i = 1 THEN 0 ELSE c.segs[i - 1].end
      /\ c.segs[i] \in Segment
  <2>1. c.segs[i] \in Segment
    BY <1>1
  <2> QED BY <2>1 DEF Chain
<1>3. i # 1 => c.segs[i - 1] \in Segment /\ Fine(c.segs[i - 1])
  <2>1. i # 1 => i - 1 \in 1 .. Len(c.segs)
    BY <1>1
  <2> QED BY <1>1, <2>1 DEF Chain
<1>4. /\ TextEnd(c.segs[i]) \in Nat /\ c.segs[i].start \in Nat /\ c.segs[i].end \in Nat
      /\ c.segs[i].start <= TextEnd(c.segs[i]) /\ TextEnd(c.segs[i]) <= c.segs[i].end
  BY <1>2, TextEndFits
<1>5. i # 1 => /\ TextEnd(c.segs[i - 1]) \in Nat
               /\ TextEnd(c.segs[i - 1]) <= c.segs[i - 1].end
               /\ TextEnd(c.segs[i - 1]) < c.segs[i - 1].end =>
                    HasSelectedCandidate(c.segs[i - 1])
  BY <1>3, TextEndFits
<1> QED BY <1>1, <1>2, <1>4, <1>5

\* Pieces that go through the input once, from left to right.
Ordered(pieces, script) ==
  \A i \in 1 .. Len(pieces) :
    LET before == IF i = 1 THEN 0 ELSE pieces[i - 1].to
    IN /\ before <= pieces[i].from /\ pieces[i].from <= pieces[i].to
       /\ before < pieces[i].from => i > 1 /\ ~ script /\ ~ pieces[i - 1].raw

\* What is left of an input of length n behind a position.
Rest(end, n) ==
  IF n > end THEN << [from |-> end, to |-> n, raw |-> TRUE] >> ELSE << >>

LEMMA RestType ==
  ASSUME NEW end \in Nat, NEW n \in Nat
  PROVE  /\ Rest(end, n) \in Seq(Piece)
         /\ n > end => /\ Len(Rest(end, n)) = 1
                       /\ Rest(end, n)[1].from = end /\ Rest(end, n)[1].to = n
         /\ n <= end => Len(Rest(end, n)) = 0
<1> DEFINE last == [from |-> end, to |-> n, raw |-> TRUE]
<1>1. last \in Piece /\ last.from = end /\ last.to = n
  BY DEF Piece
<1>2. Rest(end, n) = IF n > end THEN << last >> ELSE << >>
  BY DEF Rest
<1> HIDE DEF last
<1> QED BY <1>1, <1>2

\* Pieces in order are still so when it follows them.
LEMMA InOrderWithRest ==
  ASSUME NEW active, NEW n \in Nat, Len(active) = n, NEW script \in BOOLEAN,
         NEW pieces \in Seq(Piece), NEW end \in Nat, end <= n,
         end = IF pieces = << >> THEN 0 ELSE pieces[Len(pieces)].to,
         Ordered(pieces, script)
  PROVE  /\ pieces \o Rest(end, n) \in Seq(Piece)
         /\ InOrder([text |-> pieces \o Rest(end, n), active |-> active,
                     script |-> script])
<1> DEFINE text == pieces \o Rest(end, n)
           o == [text |-> text, active |-> active, script |-> script]
           m == Len(pieces)
<1>1. /\ text \in Seq(Piece) /\ m \in Nat
      /\ Len(text) = m + Len(Rest(end, n)) /\ DOMAIN text = 1 .. Len(text)
      /\ \A i \in 1 .. m : text[i] = pieces[i]
      /\ n > end => text[m + 1] = Rest(end, n)[1]
  <2>1. PICK rest \in Seq(Piece) : /\ rest = Rest(end, n) /\ (n > end => Len(rest) = 1)
    BY ZenonT(30), RestType
  <2>2. /\ text = pieces \o rest /\ m \in Nat /\ Len(rest) \in Nat
    BY <2>1
  <2> HIDE DEF text
  <2>3. /\ text \in Seq(Piece) /\ Len(text) = m + Len(rest)
        /\ \A i \in 1 .. m + Len(rest) :
             text[i] = IF i <= m THEN pieces[i] ELSE rest[i - m]
    BY <2>2, ConcatProperties
  <2>4. \A i \in 1 .. m : text[i] = pieces[i]
    BY <2>2, <2>3
  <2>5. n > end => text[m + 1] = rest[1]
    BY <2>1, <2>2, <2>3
  <2> QED BY <2>1, <2>2, <2>3, <2>4, <2>5
<1> HIDE DEF text
<1>2. o.text = text /\ o.active = active /\ o.script = script
  OBVIOUS
<1> HIDE DEF o
<1>3. /\ n > end => Len(text) = m + 1 /\ text[m + 1].from = end /\ text[m + 1].to = n
      /\ n <= end => Len(text) = m
  <2>1. PICK rest : rest = Rest(end, n)
    OBVIOUS
  <2>2. n > end => Len(rest) = 1 /\ rest[1].from = end /\ rest[1].to = n
    BY ZenonT(30), <2>1, RestType
  <2>3. n <= end => Len(rest) = 0
    BY <2>1, RestType
  <2>4. Len(text) = m + Len(rest) /\ (n > end => text[m + 1] = rest[1])
    BY <1>1, <2>1, Zenon
  <2>5. n > end => Len(text) = m + 1 /\ text[m + 1].from = end /\ text[m + 1].to = n
    BY <2>2, <2>4, Zenon
  <2>6. n <= end => Len(text) = m
    BY <1>1, <2>3, <2>4
  <2> QED BY <2>5, <2>6
<1>4. m # 0 => pieces[m].to = end
  BY <1>1
<1>5. ASSUME NEW i \in 1 .. Len(text)
      PROVE  LET before == IF i = 1 THEN 0 ELSE text[i - 1].to
             IN /\ before <= text[i].from /\ text[i].from <= text[i].to
                /\ before < text[i].from => i > 1 /\ ~ script /\ ~ text[i - 1].raw
                /\ i = Len(text) => text[i].to = n
  <2>1. CASE i \in 1 .. m
    <3>1. i # 1 => i - 1 \in 1 .. m
      BY <1>1, <2>1
    <3>2. text[i] = pieces[i] /\ (i # 1 => text[i - 1] = pieces[i - 1])
      BY <1>1, <2>1, <3>1
    <3>3. i = Len(text) => pieces[i].to = n
      BY <1>1, <1>3, <1>4, <2>1
    <3> QED BY <2>1, <3>2, <3>3 DEF Ordered
  <2>2. CASE i \notin 1 .. m
    <3>1. i = m + 1 /\ n > end /\ Len(text) = i
      BY <1>1, <1>3, <2>2
    <3>2. i # 1 => text[i - 1].to = end
      BY <1>1, <1>4, <3>1
    <3>3. i = 1 => end = 0
      BY <1>1, <3>1
    <3>4. text[i].from = end /\ text[i].to = n
      BY <1>3, <3>1
    <3> QED BY <3>1, <3>2, <3>3, <3>4
  <2> QED BY <2>1, <2>2
<1>6. InOrder(o)
  BY <1>1, <1>2, <1>5 DEF InOrder
<1> QED BY <1>1, <1>6 DEF o, text

\* What Composition::GetCommitText answers is a text, in order,
LEMMA CommitText ==
  ASSUME NEW c \in ContextType, Chain(c.segs, Len(c.active))
  PROVE  /\ GetCommitText(c) \in Seq(Piece)
         /\ InOrder([text |-> GetCommitText(c), active |-> c.active, script |-> FALSE])
<1> DEFINE end == IF c.segs = << >> THEN 0 ELSE TextEnd(Back(c.segs))
           pieces == [i \in DOMAIN c.segs |-> PieceOf(c.segs[i])]
           m == Len(c.segs)
<1>1. /\ c.segs \in Seq(Segment) /\ m \in Nat /\ DOMAIN c.segs = 1 .. m
      /\ Len(c.active) \in Nat
      /\ \A i \in 1 .. m : c.segs[i] \in Segment
  BY Members
<1>2. /\ pieces \in Seq(Piece) /\ Len(pieces) = m
      /\ \A i \in 1 .. m : pieces[i] = PieceOf(c.segs[i])
  <2>1. \A i \in 1 .. m : PieceOf(c.segs[i]) \in Piece
    BY <1>1, PieceType
  <2> QED BY <1>1, <2>1
<1>3. \A i \in 1 .. m : /\ pieces[i].from = c.segs[i].start
                        /\ pieces[i].to = TextEnd(c.segs[i])
                        /\ HasSelectedCandidate(c.segs[i]) => ~ pieces[i].raw
  <2> SUFFICES ASSUME NEW i \in 1 .. m
               PROVE  /\ pieces[i].from = c.segs[i].start
                      /\ pieces[i].to = TextEnd(c.segs[i])
                      /\ HasSelectedCandidate(c.segs[i]) => ~ pieces[i].raw
    OBVIOUS
  <2>1. /\ pieces[i].from = c.segs[i].start
        /\ pieces[i].to = TextEnd(c.segs[i])
    BY <1>2 DEF PieceOf
  <2>2. pieces[i].raw = ~ HasSelectedCandidate(c.segs[i])
    BY <1>2 DEF PieceOf
  <2> QED BY <2>1, <2>2, Zenon
<1>4. /\ end \in Nat /\ end <= Len(c.active)
      /\ end = IF pieces = << >> THEN 0 ELSE pieces[Len(pieces)].to
  <2>1. c.segs # << >> => m \in 1 .. m /\ Back(c.segs) = c.segs[m]
    BY <1>1 DEF Back
  <2>2. c.segs # << >> => TextEnd(c.segs[m]) \in Nat /\ TextEnd(c.segs[m]) <= Len(c.active)
    BY <2>1, TextEnds
  <2>3. pieces = << >> <=> c.segs = << >>
    BY <1>1, <1>2
  <2> HIDE DEF pieces
  <2> QED BY <1>1, <1>2, <1>3, <2>1, <2>2, <2>3
<1>5. GetCommitText(c) = pieces \o Rest(end, Len(c.active))
  BY DEF GetCommitText, Rest, end
<1> HIDE DEF pieces, end
<1>6. ASSUME NEW i \in 1 .. Len(pieces)
      PROVE  LET before == IF i = 1 THEN 0 ELSE pieces[i - 1].to
             IN /\ before <= pieces[i].from /\ pieces[i].from <= pieces[i].to
                /\ before < pieces[i].from => i > 1 /\ ~ pieces[i - 1].raw
  <2>1. i \in 1 .. m /\ (i # 1 => i - 1 \in 1 .. m)
    BY <1>1, <1>2
  <2>2. /\ c.segs[i].start <= TextEnd(c.segs[i])
        /\ c.segs[i].start \in Nat /\ TextEnd(c.segs[i]) \in Nat
        /\ i = 1 => c.segs[i].start = 0
        /\ i # 1 => /\ TextEnd(c.segs[i - 1]) \in Nat
                    /\ TextEnd(c.segs[i - 1]) <= c.segs[i].start
                    /\ TextEnd(c.segs[i - 1]) < c.segs[i].start =>
                         HasSelectedCandidate(c.segs[i - 1])
    BY <2>1, TextEnds
  <2>3. CASE i = 1
    BY <1>3, <2>1, <2>2, <2>3
  <2>4. CASE i # 1
    <3>1. /\ pieces[i - 1].to = TextEnd(c.segs[i - 1])
          /\ HasSelectedCandidate(c.segs[i - 1]) => ~ pieces[i - 1].raw
      BY <1>3, <2>1, <2>4
    <3>2. pieces[i].from = c.segs[i].start /\ pieces[i].to = TextEnd(c.segs[i])
      BY <1>3, <2>1
    <3> QED BY <2>1, <2>2, <2>4, <3>1, <3>2
  <2> QED BY <2>3, <2>4
<1>7. Ordered(pieces, FALSE)
  BY <1>6 DEF Ordered
<1> QED BY ZenonT(30), <1>1, <1>2, <1>4, <1>5, <1>7, InOrderWithRest

\* and so is what Composition::GetScriptText answers.
LEMMA ScriptText ==
  ASSUME NEW c \in ContextType, Chain(c.segs, Len(c.active))
  PROVE  /\ GetScriptText(c) \in Seq(Piece)
         /\ InOrder([text |-> GetScriptText(c), active |-> c.active, script |-> TRUE])
<1> DEFINE m == Len(c.segs)
           ends == [i \in 0 .. m |-> IF i = 0 THEN 0 ELSE TextEnd(c.segs[i])]
           last == ends[m]
           pieces == [i \in DOMAIN c.segs |->
                        [from |-> ends[i - 1], to |-> ends[i],
                         raw |-> ~ HasSelectedCandidate(c.segs[i])]]
<1>1. /\ c.segs \in Seq(Segment) /\ m \in Nat /\ DOMAIN c.segs = 1 .. m
      /\ Len(c.active) \in Nat
  BY Members
<1>2. /\ ends[0] = 0
      /\ \A i \in 0 .. m : ends[i] \in Nat /\ ends[i] <= Len(c.active)
      /\ \A i \in 1 .. m : ends[i - 1] <= ends[i]
  <2>1. ends[0] = 0 /\ \A i \in 1 .. m : ends[i] = TextEnd(c.segs[i])
    BY <1>1
  <2>2. ASSUME NEW i \in 1 .. m
        PROVE  /\ ends[i] \in Nat /\ ends[i] <= Len(c.active)
               /\ ends[i - 1] <= ends[i]
    <3>1. /\ TextEnd(c.segs[i]) \in Nat /\ TextEnd(c.segs[i]) <= Len(c.active)
          /\ c.segs[i].start \in Nat /\ c.segs[i].start <= TextEnd(c.segs[i])
          /\ i # 1 => /\ TextEnd(c.segs[i - 1]) \in Nat
                      /\ TextEnd(c.segs[i - 1]) <= c.segs[i].start
      BY TextEnds
    <3>2. i # 1 => i - 1 \in 1 .. m
      BY <1>1
    <3> HIDE DEF ends
    <3>3. CASE i = 1
      BY <2>1, <3>1, <3>3
    <3>4. CASE i # 1
      BY <2>1, <3>1, <3>2, <3>4
    <3> QED BY <3>3, <3>4
  <2> HIDE DEF ends
  <2> QED BY <1>1, <2>1, <2>2
<1>3. GetScriptText(c) = pieces \o Rest(last, Len(c.active))
  BY DEF GetScriptText, Rest
<1> HIDE DEF ends
<1>4. ASSUME NEW i \in 1 .. m
      PROVE  ends[i - 1] \in Nat /\ ends[i] \in Nat
  BY <1>1, <1>2
<1>5. /\ pieces \in Seq(Piece) /\ Len(pieces) = m
      /\ \A i \in 1 .. m : pieces[i].from = ends[i - 1] /\ pieces[i].to = ends[i]
  <2>1. ASSUME NEW i \in 1 .. m
        PROVE  [from |-> ends[i - 1], to |-> ends[i],
                raw |-> ~ HasSelectedCandidate(c.segs[i])] \in Piece
    BY <1>4 DEF Piece
  <2> QED BY <1>1, <2>1
<1> HIDE DEF pieces
<1>6. /\ last \in Nat /\ last <= Len(c.active)
      /\ last = IF pieces = << >> THEN 0 ELSE pieces[Len(pieces)].to
  <2>1. m \in 0 .. m /\ (pieces = << >> <=> m = 0) /\ (m # 0 => m \in 1 .. m)
    BY <1>1, <1>5
  <2> QED BY <1>2, <1>5, <2>1
<1>7. ASSUME NEW i \in 1 .. Len(pieces)
      PROVE  LET before == IF i = 1 THEN 0 ELSE pieces[i - 1].to
             IN /\ before <= pieces[i].from /\ pieces[i].from <= pieces[i].to
                /\ ~ (before < pieces[i].from)
  <2>1. i \in 1 .. m /\ (i # 1 => i - 1 \in 1 .. m)
    BY <1>1, <1>5
  <2>2. CASE i = 1
    BY <1>2, <1>4, <1>5, <2>1, <2>2
  <2>3. CASE i # 1
    BY SMTT(20), <1>2, <1>4, <1>5, <2>1, <2>3
  <2> QED BY <2>2, <2>3
<1> HIDE DEF last
<1>8. Ordered(pieces, TRUE)
  BY <1>7 DEF Ordered
<1>9. PICK n \in Nat : n = Len(c.active)
  BY <1>1
<1>10. PICK end \in Nat : end = last
  BY <1>6
<1>11. /\ pieces \o Rest(end, n) \in Seq(Piece)
       /\ InOrder([text |-> pieces \o Rest(end, n), active |-> c.active, script |-> TRUE])
  BY <1>5, <1>6, <1>8, <1>9, <1>10, InOrderWithRest
<1> QED BY <1>3, <1>9, <1>10, <1>11

\* Sending a text in order to the sink changes nothing but `out'.
LEMMA SinkSound ==
  ASSUME NEW c, Sound(c), NEW text \in Seq(Piece), NEW script \in BOOLEAN,
         InOrder([text |-> text, active |-> c.active, script |-> script]),
         NEW d, d = Sink(c, text, script)
  PROVE  /\ Sound(d) /\ d.input = c.input /\ d.inline = c.inline
         /\ d.out # << >>
<1> DEFINE o == [text |-> text, active |-> c.active, script |-> script]
           out == Append(c.out, o)
<1>1. /\ c \in ContextType /\ c.out \in Seq(Output) /\ c.active \in Seq(Char)
      /\ \A n \in DOMAIN c.out : InOrder(c.out[n])
  BY Members DEF Sound, Bounded
<1>2. o \in Output /\ InOrder(o)
  BY <1>1 DEF Output
<1> HIDE DEF o
<1>3. out \in Seq(Output) /\ \A n \in DOMAIN out : InOrder(out[n])
  <2>1. /\ out \in Seq(Output) /\ DOMAIN out = 1 .. Len(c.out) + 1 /\ Len(c.out) \in Nat
        /\ out[Len(c.out) + 1] = o /\ \A n \in 1 .. Len(c.out) : out[n] = c.out[n]
        /\ DOMAIN c.out = 1 .. Len(c.out)
    BY <1>1, <1>2
  <2> HIDE DEF out
  <2> SUFFICES ASSUME NEW n \in DOMAIN out PROVE InOrder(out[n])
    BY <2>1
  <2>2. CASE n = Len(c.out) + 1
    BY <1>2, <2>1, <2>2
  <2>3. CASE n # Len(c.out) + 1
    <3>1. n \in DOMAIN c.out /\ out[n] = c.out[n]
      BY <2>1, <2>3
    <3> QED BY <1>1, <3>1
  <2> QED BY <2>2, <2>3
<1>4. d = [c EXCEPT !.out = out]
  BY DEF Sink, o
<1> HIDE DEF out
<1>5. /\ d \in ContextType /\ d.input = c.input /\ d.caret = c.caret
      /\ d.active = c.active /\ d.segs = c.segs /\ d.out = out
      /\ d.ascii = c.ascii /\ d.inline = c.inline
  BY <1>1, <1>3, <1>4 DEF ContextType
<1>6. out # << >>
  <2>1. PICK s \in Seq(Output) : s = c.out
    BY <1>1
  <2>2. Append(s, o) \in Seq(Output) /\ Len(Append(s, o)) # 0
    BY <1>2
  <2>3. Append(s, o) # << >>
    BY <2>2
  <2> QED BY <2>1, <2>3 DEF out
<1> QED BY <1>3, <1>5, <1>6 DEF Sound, Bounded

\* Context::Commit starts over, and adds nothing to the input.
LEMMA CommitComplete ==
  ASSUME NEW c, Sound(c), IsComposing(c) \/ Complete(c)
  PROVE  /\ Complete(Commit(c)) /\ Len(Commit(c).input) <= Len(c.input)
         /\ Commit(c).inline => c.inline
<1> DEFINE d == Sink(c, GetCommitText(c), FALSE)
<1>1. c \in ContextType /\ Chain(c.segs, Len(c.active))
  BY DEF Sound, Bounded
<1>2. Sound(d) /\ d.input = c.input /\ d.inline = c.inline
  BY <1>1, CommitText, SinkSound
<1>3. Commit(c) = IF IsComposing(c) THEN Clear(d) ELSE c
  BY DEF Commit
<1> HIDE DEF d
<1>4. Len(c.input) \in Nat /\ Len(<< >>) = 0
  BY <1>1, Members
<1> QED BY <1>2, <1>3, <1>4, ClearComplete

-----------------------------------------------------------------------------
(* Selecting                                                                *)

\* The members of a complete context, and the chain they make.
LEMMA CompleteMembers ==
  ASSUME NEW c, Complete(c)
  PROVE  /\ c \in ContextType /\ c.input \in Seq(Char) /\ c.segs \in Seq(Segment)
         /\ c.caret \in Nat /\ Len(c.input) \in Nat /\ Len(c.active) \in Nat
         /\ Len(c.segs) \in Nat /\ Len(c.active) <= Len(c.input)
         /\ c.caret <= Len(c.input) /\ Len(c.input) <= MaxInput
         /\ Finished(c.segs, Len(c.active)) /\ Chain(c.segs, Len(c.active))
         /\ c.segs # << >> => c.input # << >>
<1>1. /\ c \in ContextType /\ c.input \in Seq(Char) /\ c.segs \in Seq(Segment)
      /\ c.caret \in Nat /\ Len(c.input) \in Nat /\ Len(c.active) \in Nat
      /\ Len(c.segs) \in Nat
      /\ c.caret <= Len(c.input) /\ Len(c.input) <= MaxInput
      /\ Finished(c.segs, Len(c.active))
  BY Members DEF Complete, Composed, Bounded
<1>2. Len(c.active) = c.caret
  BY <1>1, PrefixType DEF Complete, Composed
<1>3. c.segs # << >> => Len(c.active) # 0
  BY <1>1 DEF Finished
<1>4. c.input # << >> <=> Len(c.input) # 0
  BY <1>1
<1> QED BY <1>1, <1>2, <1>3, <1>4 DEF Finished

\* Complete contexts differ in their segments only.
LEMMA CompleteSegs ==
  ASSUME NEW c, Complete(c), NEW segs, Finished(segs, Len(c.active)),
         Settled(segs), NEW d, d = [c EXCEPT !.segs = segs]
  PROVE  /\ Complete(d) /\ d.input = c.input /\ d.active = c.active /\ d.segs = segs
         /\ d.inline = c.inline
<1>1. segs \in Seq(Segment) /\ c \in ContextType
  BY CompleteMembers DEF Finished, Chain
<1>2. /\ d \in ContextType /\ d.input = c.input /\ d.caret = c.caret
      /\ d.active = c.active /\ d.segs = segs /\ d.out = c.out
      /\ d.ascii = c.ascii /\ d.inline = c.inline
  BY <1>1 DEF ContextType
<1> QED BY <1>2 DEF Complete, Composed, Bounded, IsComposing

\* The last segment may get another status or another highlighted candidate.
LEMMA FinishedSetBack ==
  ASSUME NEW n \in Nat, NEW segs, Finished(segs, n), segs # << >>,
         NEW seg \in Segment, Fine(seg),
         seg.start = Back(segs).start, seg.end = Back(segs).end
  PROVE  /\ Finished(SetBack(segs, seg), n)
         /\ SetBack(segs, seg) # << >> /\ Back(SetBack(segs, seg)) = seg
<1> DEFINE new == SetBack(segs, seg)
<1>1. Chain(segs, n) /\ segs \in Seq(Segment) /\ Len(segs) \in Nat \ {0}
  BY DEF Finished, Chain
<1>2. /\ Chain(new, n) /\ new # << >> /\ Back(new) = seg /\ Len(new) = Len(segs)
  BY <1>1, BackOf, ChainSetBack
<1>3. GetCurrentEndPosition(new) = n /\ n # 0
  BY <1>2 DEF Finished, GetCurrentEndPosition
<1>4. \A i \in 1 .. Len(segs) : new[i] = IF i = Len(segs) THEN seg ELSE segs[i]
  BY <1>1 DEF SetBack
<1> HIDE DEF new
<1>5. ASSUME NEW i \in 1 .. Len(segs), IsEmpty(new[i])
      PROVE  i > 1 /\ new[i - 1].status >= kSelected
  <2>1. IsEmpty(segs[i])
    BY <1>1, <1>4, <1>5 DEF IsEmpty, Back
  <2>2. i > 1 /\ segs[i - 1].status >= kSelected
    BY <2>1 DEF Finished
  <2>3. new[i - 1] = segs[i - 1]
    BY <1>1, <1>4, <2>2
  <2> QED BY <2>2, <2>3
<1>6. Finished(new, n)
  BY <1>2, <1>3, <1>5 DEF Finished
<1> QED BY <1>2, <1>6 DEF new

\* the status s of seg does not say that the user has just chosen in it
NoChoice(seg, s) ==
  s = kVoid \/ s = seg.status \/ (s >= kSelected /\ seg.status >= kSelected)

\* A segment keeps its place when control changes its status,
LEMMA StatusAssign ==
  ASSUME NEW seg \in Segment, Loose(seg), NEW s \in Status,
         NEW new, new = [seg EXCEPT !.status = s]
  PROVE  /\ new \in Segment /\ Loose(new) /\ new.start = seg.start
         /\ new.end = seg.end /\ new.status = s /\ new.tags = seg.tags
         /\ Fine(seg) /\ NoChoice(seg, s) => Fine(new)
<1>1. /\ new \in Segment /\ new.start = seg.start /\ new.end = seg.end
      /\ new.status = s /\ new.cands = seg.cands /\ new.selected = seg.selected
      /\ new.tags = seg.tags
  BY DEF Segment
<1>2. /\ HasSelectedCandidate(new) <=> HasSelectedCandidate(seg)
      /\ SelectedEnd(new) = SelectedEnd(seg)
  BY <1>1 DEF HasSelectedCandidate, HasCandidateAt, SelectedEnd, CandidateEnd
<1>3. Loose(new)
  BY <1>1, <1>2 DEF Loose
<1>4. ASSUME Fine(seg), NoChoice(seg, s) PROVE Fine(new)
  BY <1>1, <1>2, <1>3, <1>4 DEF NoChoice, Fine, kVoid, kGuess, kSelected
<1> QED BY <1>1, <1>3, <1>4

\* and stays fine,
LEMMA FineStatus ==
  ASSUME NEW seg \in Segment, Fine(seg), NEW s \in Status, NoChoice(seg, s),
         NEW new, new = [seg EXCEPT !.status = s]
  PROVE  /\ new \in Segment /\ Fine(new) /\ new.start = seg.start
         /\ new.end = seg.end /\ new.status = s
<1>1. Loose(seg)
  BY DEF Fine
<1> QED BY <1>1, StatusAssign

\* the statuses that control gives
LEMMA Statuses ==
  /\ kVoid \in Status /\ kGuess \in Status /\ kSelected \in Status /\ kConfirmed \in Status
  /\ \A seg : NoChoice(seg, kVoid)
  /\ \A seg : seg.status >= kSelected => NoChoice(seg, kConfirmed)
BY DEF NoChoice, Status, kVoid, kGuess, kSelected, kConfirmed

\* or its highlighted candidate, as long as there is a choice.
LEMMA SelectedAssign ==
  ASSUME NEW seg \in Segment, Fine(seg), seg.status = kGuess,
         NEW k \in Nat, seg.cands = << >> \/ k < Len(seg.cands),
         NEW new, new = [seg EXCEPT !.selected = k]
  PROVE  /\ new \in Segment /\ Fine(new) /\ new.start = seg.start
         /\ new.end = seg.end /\ new.status = kGuess
<1>1. /\ new \in Segment /\ new.start = seg.start /\ new.end = seg.end
      /\ new.status = kGuess /\ new.cands = seg.cands /\ new.selected = k
      /\ new.tags = seg.tags /\ seg.cands \in Seq(Nat)
  BY DEF Segment
<1>2. ASSUME seg.cands # << >>
      PROVE  HasSelectedCandidate(new) /\ SelectedEnd(new) <= seg.end
  <2>1. k + 1 \in DOMAIN seg.cands
    BY <1>1, <1>2
  <2>2. seg.cands[k + 1] <= seg.end
    BY <2>1 DEF Fine
  <2> QED
    BY <1>1, <1>2, <2>2
       DEF HasSelectedCandidate, HasCandidateAt, SelectedEnd, CandidateEnd
<1>3. Loose(new)
  BY <1>1, <1>2 DEF Fine, Loose
<1> QED BY <1>1, <1>3 DEF Fine, kGuess, kSelected

\* OnSelect shortens a segment to its candidate, which is never empty; a raw one
\* it leaves.
LEMMA SplitFine ==
  ASSUME NEW seg \in Segment, Loose(seg), seg.status = kSelected
  PROVE  /\ Split(seg) \in Segment /\ Fine(Split(seg))
         /\ Split(seg).start = seg.start /\ Split(seg).end <= seg.end
         /\ Split(seg).status = kSelected
         /\ ~ IsEmpty(seg) => ~ IsEmpty(Split(seg))
         /\ Unextended(Split(seg), seg.end)
<1>1. /\ seg.start \in Nat /\ seg.end \in Nat /\ seg.selected \in Nat
      /\ seg.cands \in Seq(Nat)
  BY DEF Segment
<1>2. CASE seg.cands = << >>
  <2>1. ~ HasSelectedCandidate(seg)
    BY <1>1, <1>2 DEF HasSelectedCandidate, HasCandidateAt
  <2>2. Split(seg) = seg
    BY <2>1 DEF Split
  <2> QED BY <1>1, <1>2, <2>2 DEF Fine, Unextended, kGuess, kSelected
<1>3. CASE seg.cands # << >>
  <2> DEFINE end == SelectedEnd(seg)
             new == [seg EXCEPT !.end = end]
  <2>1. /\ HasSelectedCandidate(seg) /\ end <= seg.end /\ end \in Nat
        /\ seg.start < end /\ ("raw" \in seg.tags => end = seg.end)
    <3>1. HasSelectedCandidate(seg) /\ end <= seg.end
      BY <1>3 DEF Loose
    <3>2. seg.selected + 1 \in DOMAIN seg.cands
      BY <1>1, <3>1 DEF HasSelectedCandidate, HasCandidateAt
    <3>3. /\ seg.cands[seg.selected + 1] \in Nat /\ seg.start < seg.cands[seg.selected + 1]
          /\ "raw" \in seg.tags => seg.cands[seg.selected + 1] = seg.end
      BY <1>1, <3>2 DEF Loose
    <3> QED BY <3>1, <3>3 DEF SelectedEnd, CandidateEnd
  <2>2. Split(seg) = IF end < seg.end THEN new ELSE seg
    BY <2>1 DEF Split
  <2>3. CASE end < seg.end
    <3>1. /\ new \in Segment /\ new.start = seg.start /\ new.end = end
          /\ new.cands = seg.cands /\ new.status = kSelected
          /\ new.selected = seg.selected /\ new.tags = seg.tags
      <4> HIDE DEF end
      <4> QED BY <2>1 DEF Segment
    <3>2. /\ HasSelectedCandidate(new) <=> HasSelectedCandidate(seg)
          /\ SelectedEnd(new) = end
      <4> HIDE DEF new
      <4> QED BY <3>1 DEF HasSelectedCandidate, HasCandidateAt, SelectedEnd, CandidateEnd
    <3> HIDE DEF end, new
    <3>3. Loose(new)
      BY <1>1, <2>1, <2>3, <3>1, <3>2 DEF Loose
    <3>4. Fine(new)
      BY <3>1, <3>2, <3>3 DEF Fine, kGuess, kSelected
    <3>5. ~ IsEmpty(new) /\ Unextended(new, seg.end)
      BY <1>1, <2>1, <3>1 DEF IsEmpty, Unextended
    <3> QED BY <1>1, <2>1, <2>2, <2>3, <3>1, <3>4, <3>5
  <2>4. CASE ~ (end < seg.end)
    <3>1. SelectedEnd(seg) = seg.end
      BY <1>1, <2>1, <2>4
    <3>2. Fine(seg)
      BY <3>1 DEF Fine, kGuess, kSelected
    <3>3. Split(seg) = seg
      BY <2>2, <2>4
    <3> QED BY <1>1, <3>2, <3>3 DEF Unextended
  <2> QED BY <2>3, <2>4
<1> QED BY <1>2, <1>3

\* What the last segment of a complete context looks like.
LEMMA CompleteBack ==
  ASSUME NEW c, Complete(c), c.segs # << >>
  PROVE  /\ Back(c.segs) \in Segment /\ Fine(Back(c.segs)) /\ Loose(Back(c.segs))
         /\ Back(c.segs).end = Len(c.active) /\ Back(c.segs).start \in Nat
         /\ Back(c.segs).start <= Back(c.segs).end
         /\ Back(c.segs).end <= Len(c.input)
         /\ ~ IsEmpty(Back(c.segs)) => Back(c.segs).status = kGuess
         /\ IsEmpty(Back(c.segs)) => Back(c.segs).cands = << >>
<1>1. /\ Chain(c.segs, Len(c.active)) /\ Len(c.active) \in Nat
      /\ Finished(c.segs, Len(c.active)) /\ Len(c.active) <= Len(c.input)
  BY CompleteMembers
<1>2. Back(c.segs).end = Len(c.active)
  BY <1>1 DEF Finished, GetCurrentEndPosition
<1>3. ~ IsEmpty(Back(c.segs)) => Back(c.segs).status = kGuess
  BY DEF Complete, Composed, Settled
<1>4. PICK seg \in Segment : seg = Back(c.segs) /\ Fine(seg) /\ Loose(seg)
  BY <1>1, BackOf DEF Fine
<1>5. ASSUME seg.cands # << >> PROVE ~ IsEmpty(seg)
  <2>1. seg.selected \in Nat /\ seg.cands \in Seq(Nat) /\ seg.start \in Nat /\ seg.end \in Nat
    BY <1>4 DEF Segment
  <2>2. seg.selected + 1 \in DOMAIN seg.cands /\ SelectedEnd(seg) <= seg.end
    BY <1>4, <1>5, <2>1 DEF Loose, HasSelectedCandidate, HasCandidateAt
  <2>3. seg.start < SelectedEnd(seg) /\ SelectedEnd(seg) \in Nat
    BY <1>4, <2>1, <2>2 DEF Loose, SelectedEnd, CandidateEnd
  <2> QED BY <2>1, <2>2, <2>3 DEF IsEmpty
<1> QED BY <1>1, <1>2, <1>3, <1>4, <1>5, BackOf DEF Loose

\* Only the last of two replacements of the last segment counts.
LEMMA SetBackTwice ==
  ASSUME NEW segs \in Seq(Segment), segs # << >>,
         NEW a \in Segment, NEW b \in Segment
  PROVE  /\ Back(SetBack(segs, a)) = a
         /\ SetBack(SetBack(segs, a), b) = SetBack(segs, b)
<1>1. PICK n \in Nat \ {0} : n = Len(segs)
  BY EmptySeq
<1>2. ASSUME NEW s \in Seq(Segment), Len(s) = n, NEW x \in Segment
      PROVE  /\ SetBack(s, x) \in Seq(Segment) /\ Len(SetBack(s, x)) = n
             /\ \A i \in 1 .. n : SetBack(s, x)[i] = IF i = n THEN x ELSE s[i]
  BY <1>1, <1>2 DEF SetBack
<1> DEFINE first == SetBack(segs, a)
<1>3. /\ first \in Seq(Segment) /\ Len(first) = n
      /\ \A i \in 1 .. n : first[i] = IF i = n THEN a ELSE segs[i]
  BY <1>1, <1>2
<1> HIDE DEF first
<1> DEFINE second == SetBack(first, b)
           direct == SetBack(segs, b)
<1>4. /\ second \in Seq(Segment) /\ Len(second) = n
      /\ \A i \in 1 .. n : second[i] = IF i = n THEN b ELSE first[i]
  BY <1>2, <1>3
<1>5. /\ direct \in Seq(Segment) /\ Len(direct) = n
      /\ \A i \in 1 .. n : direct[i] = IF i = n THEN b ELSE segs[i]
  BY <1>1, <1>2
<1> HIDE DEF second, direct
<1>6. second = direct
  <2>1. \A i \in 1 .. n : second[i] = direct[i]
    BY <1>3, <1>4, <1>5
  <2> QED BY <1>1, <1>4, <1>5, <2>1, SeqEqual
<1>7. Back(first) = a
  BY <1>1, <1>3 DEF Back
<1> QED BY <1>6, <1>7 DEF first, second, direct

\* Only the last segment of c may be another one in e.
SameButLast(c, e) ==
  \A i \in 1 .. Len(c.segs) : i < Len(c.segs) => Stays(c.segs, e.segs, i)

\* What is chosen in the last segment of c is selected in e, and no segmentor
\* will extend it.
Goes(c, e) ==
  ~ IsEmpty(Back(c.segs)) =>
    /\ Len(c.segs) < Len(e.segs)
    /\ e.segs[Len(c.segs)].status >= kSelected
    /\ Back(c.segs).start < e.segs[Len(c.segs)].end
    /\ Unextended(e.segs[Len(c.segs)], Len(c.active))

\* e goes on behind what is chosen in the last segment of c.
Chooses(c, e) ==
  /\ Sound(e) /\ Settled(e.segs)
  /\ e.input = c.input /\ e.caret = c.caret /\ e.active = c.active
  /\ e.inline = c.inline /\ e.out = c.out
  /\ SameButLast(c, e) /\ Goes(c, e)

\* Forward behind a last segment that may have been shortened.
LEMMA ForwardChooses ==
  ASSUME NEW c, Complete(c), c.segs # << >>, NEW seg \in Segment, Fine(seg),
         seg.start = Back(c.segs).start, seg.end <= Len(c.active),
         seg.status >= kSelected, Unextended(seg, Len(c.active)),
         ~ IsEmpty(Back(c.segs)) => ~ IsEmpty(seg),
         NEW e, e = [c EXCEPT !.segs = Forward(SetBack(c.segs, seg))]
  PROVE  Chooses(c, e)
<1> DEFINE part == SetBack(c.segs, seg)
           segs == Forward(part)
<1>1. /\ Chain(c.segs, Len(c.active)) /\ Len(c.active) \in Nat
      /\ c.segs \in Seq(Segment) /\ Sound(c)
  BY CompleteMembers, CompleteIsSound
<1>2. Chain(part, Len(c.active)) /\ part \in Seq(Segment)
  BY <1>1, ChainSetBack DEF Chain
<1>3. \A i \in 1 .. Len(c.segs) : i < Len(c.segs) => Stays(c.segs, part, i)
  BY <1>1, SetBackStays
<1>4. e = [c EXCEPT !.segs = segs]
  OBVIOUS
<1> HIDE DEF part
<1>5. Chain(segs, Len(c.active)) /\ Settled(segs)
  BY <1>1, <1>2, ForwardChain, ForwardSettled
<1>6. ASSUME NEW i \in 1 .. Len(c.segs), i < Len(c.segs) PROVE Stays(c.segs, segs, i)
  <2>1. i \in 1 .. Len(part) /\ part[i] = c.segs[i]
    BY <1>3, <1>6 DEF Stays
  <2>2. Stays(part, segs, i)
    BY <1>2, <2>1, ForwardStays
  <2> QED BY <2>1, <2>2 DEF Stays
<1>8. ASSUME ~ IsEmpty(Back(c.segs))
      PROVE  /\ Len(c.segs) < Len(segs)
             /\ segs[Len(c.segs)].status >= kSelected
             /\ Back(c.segs).start < segs[Len(c.segs)].end
             /\ Unextended(segs[Len(c.segs)], Len(c.active))
  <2>1. PICK m \in 1 .. Len(part) : m = Len(c.segs) /\ part[m] = seg
    BY <1>1 DEF SetBack, part
  <2>2. Stays(part, segs, m) /\ m < Len(segs)
    BY <1>2, <1>8, <2>1, ForwardStays
  <2>3. segs[m] = seg
    BY <2>1, <2>2 DEF Stays
  <2>4. seg.start < seg.end
    BY <1>8 DEF IsEmpty, Fine, Loose, Segment
  <2> QED BY <2>1, <2>2, <2>3, <2>4
<1> HIDE DEF segs
<1>7. /\ Sound(e) /\ e.input = c.input /\ e.caret = c.caret /\ e.active = c.active
      /\ e.segs = segs /\ e.out = c.out /\ e.inline = c.inline
  <2>1. /\ e.input = c.input /\ e.caret = c.caret /\ e.active = c.active
        /\ e.segs = segs /\ e.out = c.out /\ e.inline = c.inline
    <3>1. segs \in Seq(Segment) /\ c \in ContextType
      BY <1>1, <1>5 DEF Chain, Sound, Bounded
    <3> QED BY <1>4, <3>1 DEF ContextType
  <2>2. e \in ContextType /\ e.ascii = c.ascii
    <3>1. segs \in Seq(Segment) /\ c \in ContextType
      BY <1>1, <1>5 DEF Chain, Sound, Bounded
    <3> QED BY <1>4, <3>1 DEF ContextType
  <2>3. Sound(e)
    BY <1>1, <1>5, <2>1, <2>2 DEF Sound, Bounded
  <2> QED BY <2>1, <2>3
<1>9. Goes(c, e)
  BY <1>7, <1>8 DEF Goes
<1> QED BY <1>5, <1>6, <1>7, <1>9 DEF Chooses, SameButLast

\* The slot of select_notifier_, called when the last segment of a complete
\* context has become `chosen', commits or goes on behind what is chosen,
\* whatever the freed memory it compares with the caret holds.
LEMMA OnSelectCases ==
  ASSUME NEW c, Complete(c), c.segs # << >>, NEW reached \in BOOLEAN,
         NEW chosen \in Segment, Loose(chosen), chosen.status = kSelected,
         chosen.start = Back(c.segs).start, chosen.end = Back(c.segs).end,
         NEW d, d = [c EXCEPT !.segs = SetBack(c.segs, chosen)]
  PROVE  \/ \E e : /\ Sound(e) /\ IsComposing(e) /\ e.input = c.input
                   /\ e.inline = c.inline /\ OnSelect(d, reached) = Commit(e)
         \/ \E e : /\ Chooses(c, e)
                   /\ \/ OnSelect(d, reached) = e /\ Complete(e)
                      \/ OnSelect(d, reached) = set_caret_pos(e, Len(c.input))
                      \/ OnSelect(d, reached) = Compose(e)
<1> DEFINE back == Back(c.segs)
           seg == Split(chosen)
           finished == [seg EXCEPT !.status = kConfirmed]
           done == SetBack(c.segs, finished)
           part == SetBack(c.segs, seg)
           all == [c EXCEPT !.segs = done]
           on == [c EXCEPT !.segs = Forward(done)]
           forward == [c EXCEPT !.segs = Forward(part)]
<1>1. /\ Chain(c.segs, Len(c.active)) /\ Len(c.active) \in Nat
      /\ Len(c.active) <= Len(c.input) /\ Len(c.input) \in Nat
      /\ Finished(c.segs, Len(c.active)) /\ c.input # << >>
      /\ c \in ContextType /\ c.segs \in Seq(Segment)
  BY CompleteMembers
<1>2. /\ back \in Segment /\ back.end = Len(c.active)
      /\ back.start \in Nat /\ back.end \in Nat
  BY <1>1, CompleteBack
<1>4. /\ seg \in Segment /\ Fine(seg) /\ Loose(seg) /\ seg.start = back.start
      /\ seg.end <= back.end /\ seg.end \in Nat /\ seg.status = kSelected
  BY <1>2, SplitFine DEF Segment, Fine
<1>10. Unextended(seg, Len(c.active)) /\ (~ IsEmpty(back) => ~ IsEmpty(seg))
  <2>1. Unextended(seg, chosen.end) /\ (~ IsEmpty(chosen) => ~ IsEmpty(seg))
    BY SplitFine
  <2> QED BY <1>2, <2>1 DEF IsEmpty
<1> HIDE DEF back, seg
<1>5. /\ finished \in Segment /\ Fine(finished) /\ finished.start = back.start
      /\ finished.end = seg.end /\ finished.status = kConfirmed
      /\ finished.tags = seg.tags
  BY <1>4, StatusAssign DEF NoChoice, Status, kVoid, kSelected, kConfirmed
<1> HIDE DEF finished
<1>3. OnSelect(d, reached) =
        IF seg.end = Len(c.input)
        THEN IF AutoCommit THEN Commit(all) ELSE on
        ELSE IF reached THEN set_caret_pos(forward, Len(c.input))
        ELSE Compose(forward)
  <2>1. /\ d.segs = SetBack(c.segs, chosen) /\ d.input = c.input
        /\ Back(d.segs) = chosen /\ SetBack(d.segs, seg) = part
        /\ SetBack(d.segs, finished) = done
    <3>1. d.segs = SetBack(c.segs, chosen) /\ d.input = c.input
      BY <1>1 DEF ContextType
    <3> QED BY <1>1, <1>4, <1>5, <3>1, SetBackTwice
  <2> HIDE DEF done, part
  <2>2. /\ [d EXCEPT !.segs = done] = all /\ [d EXCEPT !.segs = Forward(done)] = on
        /\ [d EXCEPT !.segs = Forward(part)] = forward /\ forward.input = c.input
    BY <1>1 DEF ContextType
  <2> HIDE DEF all, on, forward
  <2> DEFINE split == Split(Back(d.segs))
             last == [split EXCEPT !.status = kConfirmed]
             done_d == [d EXCEPT !.segs = SetBack(@, last)]
             on_d == [d EXCEPT !.segs = Forward(SetBack(@, last))]
             forward_d == [d EXCEPT !.segs = Forward(SetBack(@, split))]
  <2>3. OnSelect(d, reached) =
          IF split.end = Len(d.input)
          THEN IF AutoCommit THEN Commit(done_d) ELSE on_d
          ELSE IF reached THEN set_caret_pos(forward_d, Len(d.input))
          ELSE Compose(forward_d)
    BY DEF OnSelect
  <2>4. split = seg /\ last = finished
    BY <2>1 DEF seg, finished
  <2> HIDE DEF split, last
  <2>5. done_d = all /\ on_d = on /\ forward_d = forward
    BY <2>1, <2>2, <2>4
  <2> HIDE DEF done_d, on_d, forward_d
  <2> QED BY <2>1, <2>2, <2>3, <2>4, <2>5
<1>6. ASSUME seg.end = Len(c.input)
      PROVE  /\ Sound(all) /\ all.input = c.input /\ all.inline = c.inline
             /\ Complete(on) /\ Chooses(c, on)
  <2>1. finished.end = back.end /\ finished.end <= Len(c.active)
    BY <1>1, <1>2, <1>4, <1>5, <1>6
  <2>0. Chooses(c, on)
    <3>1. /\ Unextended(finished, Len(c.active)) /\ finished.status >= kSelected
          /\ ~ IsEmpty(back) => ~ IsEmpty(finished)
      BY <1>4, <1>5, <1>10 DEF Unextended, IsEmpty, kSelected, kConfirmed
    <3> QED BY <1>5, <2>1, <3>1, ForwardChooses DEF back
  <2>2. /\ Finished(done, Len(c.active)) /\ done # << >> /\ Back(done) = finished
    BY <1>1, <1>5, <2>1, FinishedSetBack DEF back
  <2> HIDE DEF done
  <2>3. Finished(Forward(done), Len(c.active))
    BY <1>1, <1>5, <2>2, ForwardFinished DEF kSelected, kConfirmed
  <2>4. Settled(Forward(done))
    BY <1>5, <2>2, ForwardSettled DEF Finished, Chain
  <2>5. Complete(on)
    BY <2>3, <2>4, CompleteSegs
  <2>6. Sound(all) /\ all.input = c.input /\ all.inline = c.inline
    <3>1. Chain(done, Len(c.active)) /\ Sound(c) /\ all = [c EXCEPT !.segs = done]
      BY <2>2, CompleteIsSound DEF Finished
    <3> HIDE DEF all
    <3>2. Sound(all)
      BY <3>1, SoundSegs
    <3>3. all.input = c.input
      BY <3>1, SoundSegs
    <3>4. all.inline = c.inline
      BY <3>1, SoundSegs
    <3> QED BY <3>2, <3>3, <3>4
  <2> QED BY <2>0, <2>5, <2>6
<1>7. Chooses(c, forward)
  <2>1. seg.end <= Len(c.active) /\ seg.status >= kSelected
    BY <1>1, <1>2, <1>4 DEF kSelected
  <2> QED BY <1>4, <1>10, <2>1, ForwardChooses DEF back
<1> HIDE DEF done, part, all, on, forward
<1>8. CASE seg.end = Len(c.input)
  BY <1>1, <1>3, <1>6, <1>8 DEF IsComposing
<1>9. CASE seg.end # Len(c.input)
  BY <1>3, <1>7, <1>9
<1> QED BY <1>8, <1>9

\* In each case the context is complete again.
LEMMA OnSelectComplete ==
  ASSUME NEW c, Complete(c), c.segs # << >>, NEW reached \in BOOLEAN,
         NEW chosen \in Segment, Loose(chosen), chosen.status = kSelected,
         chosen.start = Back(c.segs).start, chosen.end = Back(c.segs).end,
         NEW d, d = [c EXCEPT !.segs = SetBack(c.segs, chosen)]
  PROVE  /\ Complete(OnSelect(d, reached))
         /\ Len(OnSelect(d, reached).input) <= Len(c.input)
         /\ OnSelect(d, reached).inline => c.inline
<1> DEFINE new == OnSelect(d, reached)
<1>1. Len(c.input) \in Nat /\ c.input # << >>
  BY CompleteMembers
<1>2. ASSUME NEW e, Sound(e), IsComposing(e), e.input = c.input, e.inline = c.inline,
             new = Commit(e)
      PROVE  Complete(new) /\ Len(new.input) <= Len(c.input) /\ (new.inline => c.inline)
  BY <1>2, CommitComplete
<1>3. ASSUME NEW e, Chooses(c, e), \/ new = e /\ Complete(e)
                                  \/ new = set_caret_pos(e, Len(c.input))
                                  \/ new = Compose(e)
      PROVE  Complete(new) /\ new.input = c.input /\ (new.inline => c.inline)
  <2>1. Sound(e) /\ e.input = c.input /\ e.inline = c.inline
    BY <1>3 DEF Chooses
  <2>2. /\ Complete(set_caret_pos(e, Len(c.input)))
        /\ set_caret_pos(e, Len(c.input)).input = c.input
        /\ set_caret_pos(e, Len(c.input)).inline => c.inline
    BY <1>1, <2>1, CaretComplete
  <2>3. /\ Composed(Compose(e)) /\ Compose(e).input = c.input
        /\ Compose(e).inline = c.inline
    BY <2>1, ComposeComposed DEF Keeps
  <2>4. Complete(Compose(e))
    BY <1>1, <2>3 DEF Complete, IsComposing
  <2> QED BY <1>3, <2>1, <2>2, <2>3, <2>4
<1>4. \/ \E e : /\ Sound(e) /\ IsComposing(e) /\ e.input = c.input
                /\ e.inline = c.inline /\ new = Commit(e)
      \/ \E e : /\ Chooses(c, e)
                /\ \/ new = e /\ Complete(e)
                   \/ new = set_caret_pos(e, Len(c.input))
                   \/ new = Compose(e)
  BY OnSelectCases
<1> HIDE DEF new
<1>5. Len(c.input) <= Len(c.input)
  BY <1>1
<1>6. Complete(new) /\ Len(new.input) <= Len(c.input) /\ (new.inline => c.inline)
  BY <1>2, <1>3, <1>4, <1>5
<1> QED BY <1>6 DEF new

\* A context whose last segment gets another status or highlighted candidate.
LEMMA CompleteSetBack ==
  ASSUME NEW c, Complete(c), c.segs # << >>, NEW seg \in Segment, Fine(seg),
         seg.start = Back(c.segs).start, seg.end = Back(c.segs).end,
         IsEmpty(seg) \/ seg.status = kGuess,
         NEW d, d = [c EXCEPT !.segs = SetBack(c.segs, seg)]
  PROVE  /\ Complete(d) /\ d.input = c.input /\ d.segs # << >> /\ Back(d.segs) = seg
         /\ d.inline = c.inline
<1> DEFINE segs == SetBack(c.segs, seg)
<1>1. Finished(c.segs, Len(c.active)) /\ Len(c.active) \in Nat
  BY CompleteMembers
<1>2. Finished(segs, Len(c.active)) /\ segs # << >> /\ Back(segs) = seg
  BY <1>1, FinishedSetBack
<1> HIDE DEF segs
<1> DEFINE e == [c EXCEPT !.segs = segs]
<1>3. d = e
  BY DEF segs
<1>4. Settled(segs)
  BY <1>2 DEF Settled
<1>5. Complete(e) /\ e.input = c.input /\ e.segs = segs /\ e.inline = c.inline
  BY <1>2, <1>4, CompleteSegs
<1> HIDE DEF e
<1> QED BY <1>2, <1>3, <1>5

\* d is c when its last segment has become `chosen'.
Selects(c, chosen, d) ==
  /\ c.segs # << >> /\ Loose(chosen) /\ chosen.status = kSelected
  /\ chosen.start = Back(c.segs).start /\ chosen.end = Back(c.segs).end
  /\ d = [c EXCEPT !.segs = SetBack(c.segs, chosen)]

\* Context::Select, of a candidate that exists or not.
LEMMA SelectCases ==
  ASSUME NEW c, Complete(c), NEW index \in Nat, NEW reached \in BOOLEAN
  PROVE  \/ Select(c, index, reached) = c
         \/ \E chosen \in Segment : \E d :
              Selects(c, chosen, d) /\ Select(c, index, reached) = OnSelect(d, reached)
<1>1. CASE ~ CanSelect(c, index)
  BY <1>1 DEF Select
<1>2. CASE CanSelect(c, index)
  <2> DEFINE back == Back(c.segs)
             mid == [back EXCEPT !.selected = index]
             seg == [mid EXCEPT !.status = kSelected]
             d == [c EXCEPT !.segs = SetBack(c.segs, seg)]
  <2>1. c.segs # << >> /\ index < Len(back.cands)
    BY <1>2 DEF CanSelect, HasCandidateAt
  <2>2. Select(c, index, reached) = OnSelect(d, reached)
    <3>1. seg = [Back(c.segs) EXCEPT !.selected = index, !.status = kSelected]
      OBVIOUS
    <3> HIDE DEF seg
    <3> QED BY <1>2, <3>1 DEF Select
  <2>3. back \in Segment /\ Fine(back) /\ back.status = kGuess
    <3>1. /\ back \in Segment /\ Fine(back) /\ (IsEmpty(back) => back.cands = << >>)
          /\ ~ IsEmpty(back) => back.status = kGuess
      BY <2>1, CompleteBack
    <3> QED BY <2>1, <3>1
  <2> HIDE DEF d
  <2>4. back.start = Back(c.segs).start /\ back.end = Back(c.segs).end
    OBVIOUS
  <2> HIDE DEF back
  <2>5. mid \in Segment /\ Loose(mid) /\ mid.start = back.start /\ mid.end = back.end
    BY <2>1, <2>3, SelectedAssign DEF Fine
  <2> HIDE DEF mid
  <2>6. /\ seg \in Segment /\ Loose(seg) /\ seg.status = kSelected
        /\ seg.start = back.start /\ seg.end = back.end
    BY <2>5, StatusAssign DEF Status, kVoid, kSelected, kConfirmed
  <2> HIDE DEF seg
  <2>7. Selects(c, seg, d)
    BY <2>1, <2>4, <2>6 DEF Selects, d
  <2> QED BY <2>2, <2>6, <2>7
<1> QED BY <1>1, <1>2

LEMMA SelectComplete ==
  ASSUME NEW c, Complete(c), NEW index \in Nat, NEW reached \in BOOLEAN
  PROVE  Complete(Select(c, index, reached))
BY SelectCases, OnSelectComplete DEF Selects

\* Context::ConfirmCurrentSelection, whether it can confirm or only marks.
LEMMA ConfirmCases ==
  ASSUME NEW c, Complete(c), NEW reached \in BOOLEAN
  PROVE  \/ c.segs = << >> /\ ConfirmCurrentSelection(c, reached) = c
         \/ \E chosen \in Segment : \E d :
              /\ Selects(c, chosen, d)
              /\ \/ ConfirmCurrentSelection(c, reached) = OnSelect(d, reached)
                 \/ /\ ConfirmCurrentSelection(c, reached) = d
                    /\ IsEmpty(chosen) /\ Fine(chosen)
<1>1. CASE c.segs = << >>
  BY <1>1 DEF ConfirmCurrentSelection
<1>2. CASE c.segs # << >>
  <2> DEFINE back == Back(c.segs)
             seg == [back EXCEPT !.status = kSelected]
             d == [c EXCEPT !.segs = SetBack(c.segs, seg)]
  <2>1. ConfirmCurrentSelection(c, reached) =
          IF CanConfirm(c) THEN OnSelect(d, reached) ELSE d
    BY <1>2 DEF ConfirmCurrentSelection
  <2>2. /\ back \in Segment /\ Loose(back) /\ Fine(back)
        /\ IsEmpty(back) => back.cands = << >>
    BY <1>2, CompleteBack
  <2>3. /\ back.start = Back(c.segs).start /\ back.end = Back(c.segs).end
        /\ ~ CanConfirm(c) => IsEmpty(back)
    BY <1>2 DEF CanConfirm
  <2> HIDE DEF back
  <2>4. /\ seg \in Segment /\ Loose(seg) /\ seg.status = kSelected
        /\ seg.start = back.start /\ seg.end = back.end
    BY <2>2, StatusAssign DEF Status, kVoid, kSelected, kConfirmed
  <2>5. seg.cands = back.cands
    BY <2>2 DEF Segment
  <2> HIDE DEF seg
  <2>6. d = [c EXCEPT !.segs = SetBack(c.segs, seg)]
    OBVIOUS
  <2> HIDE DEF d
  <2>7. Selects(c, seg, d)
    BY <1>2, <2>3, <2>4, <2>6 DEF Selects
  <2>8. ASSUME ~ CanConfirm(c) PROVE IsEmpty(seg) /\ Fine(seg)
    BY <2>2, <2>3, <2>4, <2>5, <2>8 DEF IsEmpty, Fine, kGuess, kSelected
  <2> QED BY <2>1, <2>4, <2>7, <2>8
<1> QED BY <1>1, <1>2

LEMMA ConfirmComplete ==
  ASSUME NEW c, Complete(c), NEW reached \in BOOLEAN
  PROVE  /\ Complete(ConfirmCurrentSelection(c, reached))
         /\ Len(ConfirmCurrentSelection(c, reached).input) <= Len(c.input)
         /\ ConfirmCurrentSelection(c, reached).inline => c.inline
<1> DEFINE new == ConfirmCurrentSelection(c, reached)
           Good(e) == Complete(e) /\ Len(e.input) <= Len(c.input) /\ (e.inline => c.inline)
<1>1. Len(c.input) <= Len(c.input)
  BY CompleteMembers
<1>2. Good(c)
  BY <1>1
<1>3. ASSUME NEW chosen \in Segment, NEW d, Selects(c, chosen, d)
      PROVE  /\ Good(OnSelect(d, reached))
             /\ IsEmpty(chosen) /\ Fine(chosen) => Good(d)
  <2>1. Good(OnSelect(d, reached))
    BY <1>3, OnSelectComplete DEF Selects
  <2>2. ASSUME IsEmpty(chosen), Fine(chosen) PROVE Good(d)
    BY <1>1, <1>3, <2>2, CompleteSetBack DEF Selects
  <2> QED BY <2>1, <2>2
<1> HIDE DEF Good
<1>4. Good(new)
  BY <1>2, <1>3, ConfirmCases
<1> QED BY <1>4 DEF Good

\* The last selected segment is one of the segments.
LEMMA LastSelectedIn ==
  ASSUME NEW segs \in Seq(Segment), LastSelected(segs) # {},
         NEW i, i = CHOOSE k \in LastSelected(segs) : TRUE
  PROVE  /\ i \in 1 .. Len(segs) /\ segs[i] \in Segment
         /\ segs[i].status >= kSelected /\ i \in LastSelected(segs)
<1>1. i \in LastSelected(segs)
  OBVIOUS
<1> QED BY <1>1 DEF LastSelected

\* Context::ConfirmPreviousSelection raises one status and nothing else.
LEMMA ConfirmPreviousComplete ==
  ASSUME NEW c, Complete(c)
  PROVE  Complete(ConfirmPreviousSelection(c))
<1> DEFINE i == CHOOSE k \in LastSelected(c.segs) : TRUE
           seg == [c.segs[i] EXCEPT !.status = kConfirmed]
           new == [c.segs EXCEPT ![i] = seg]
           d == [c EXCEPT !.segs = new]
<1>1. /\ Finished(c.segs, Len(c.active)) /\ Chain(c.segs, Len(c.active))
      /\ Len(c.active) \in Nat /\ c.segs \in Seq(Segment) /\ Len(c.segs) \in Nat
  BY CompleteMembers
<1>2. CASE ConfirmPreviousSelection(c) = c
  BY <1>2
<1>3. CASE LastSelected(c.segs) # {} /\ ConfirmPreviousSelection(c) # c
  <2>1. /\ i \in 1 .. Len(c.segs) /\ c.segs[i] \in Segment
        /\ c.segs[i].status >= kSelected
    BY <1>1, <1>3, LastSelectedIn
  <2>2. ConfirmPreviousSelection(c) = d
    <3>1. [c EXCEPT !.segs[i].status = kConfirmed] = d
      OBVIOUS
    <3> QED BY <1>3, <3>1 DEF ConfirmPreviousSelection
  <2> HIDE DEF i
  <2>3. /\ seg \in Segment /\ Fine(seg) /\ seg.start = c.segs[i].start
        /\ seg.end = c.segs[i].end /\ seg.status = kConfirmed
    <3>1. Fine(c.segs[i])
      BY <1>1, <2>1 DEF Chain
    <3> QED BY <2>1, <3>1, FineStatus, Statuses
  <2> HIDE DEF seg
  <2>4. /\ new \in Seq(Segment) /\ Len(new) = Len(c.segs)
        /\ \A j \in 1 .. Len(c.segs) : new[j] = IF j = i THEN seg ELSE c.segs[j]
    BY <1>1, <2>1, <2>3
  <2> HIDE DEF new
  <2>5. \A j \in 1 .. Len(c.segs) :
          /\ new[j].start = c.segs[j].start /\ new[j].end = c.segs[j].end
          /\ Fine(new[j])
          /\ c.segs[j].status >= kSelected => new[j].status >= kSelected
    <3> SUFFICES ASSUME NEW j \in 1 .. Len(c.segs)
                 PROVE  /\ new[j].start = c.segs[j].start /\ new[j].end = c.segs[j].end
                        /\ Fine(new[j])
                        /\ c.segs[j].status >= kSelected => new[j].status >= kSelected
      OBVIOUS
    <3>1. CASE j = i
      BY <2>3, <2>4, <3>1 DEF kSelected, kConfirmed
    <3>2. CASE j # i
      BY <1>1, <2>4, <3>2 DEF Chain
    <3> QED BY <3>1, <3>2
  <2>6. Chain(new, Len(c.active))
    <3>1. ASSUME NEW j \in 1 .. Len(new)
          PROVE  /\ Fine(new[j]) /\ new[j].end <= Len(c.active)
                 /\ new[j].start = IF j = 1 THEN 0 ELSE new[j - 1].end
                 /\ j # Len(new) => ~ IsEmpty(new[j])
      <4>1. /\ c.segs[j].end <= Len(c.active)
            /\ c.segs[j].start = IF j = 1 THEN 0 ELSE c.segs[j - 1].end
            /\ j # Len(c.segs) => ~ IsEmpty(c.segs[j])
        BY <1>1, <2>4 DEF Chain
      <4>2. j # 1 => j - 1 \in 1 .. Len(c.segs)
        BY <1>1, <2>4
      <4> QED BY <2>4, <2>5, <4>1, <4>2 DEF IsEmpty
    <3> QED BY <2>4, <3>1 DEF Chain
  <2>7. Finished(new, Len(c.active))
    <3>1. new = << >> <=> Len(c.active) = 0
      BY <1>1, <2>1, <2>4 DEF Finished
    <3>2. GetCurrentEndPosition(new) = Len(c.active)
      <4>1. c.segs[Len(c.segs)].end = Len(c.active) /\ Len(c.segs) \in 1 .. Len(c.segs)
        BY <1>1, <2>1 DEF Finished, GetCurrentEndPosition, Back
      <4> QED BY <2>1, <2>4, <2>5, <4>1 DEF GetCurrentEndPosition, Back
    <3>3. ASSUME NEW j \in 1 .. Len(new), IsEmpty(new[j])
          PROVE  j > 1 /\ new[j - 1].status >= kSelected
      <4>1. j > 1 /\ c.segs[j - 1].status >= kSelected
        BY <1>1, <2>4, <2>5, <3>3 DEF Finished, IsEmpty
      <4>2. j - 1 \in 1 .. Len(c.segs)
        BY <1>1, <2>4, <4>1
      <4> QED BY <2>5, <4>1, <4>2
    <3> QED BY <2>6, <3>1, <3>2, <3>3 DEF Finished
  <2>8. Settled(new)
    <3> SUFFICES ASSUME new # << >>, ~ IsEmpty(Back(new))
                 PROVE  Back(new).status = kGuess
      BY DEF Settled
    <3>1. Len(c.segs) \in 1 .. Len(c.segs) /\ c.segs # << >>
      BY <1>1, <2>1
    <3>2. ~ IsEmpty(Back(c.segs))
      BY <2>4, <2>5, <3>1 DEF Back, IsEmpty
    <3>3. c.segs[Len(c.segs)].status = kGuess
      BY <3>1, <3>2, CompleteBack DEF Back
    <3>4. i # Len(c.segs)
      BY <2>1, <3>3 DEF kGuess, kSelected
    <3> QED BY <2>4, <3>1, <3>3, <3>4 DEF Back
  <2>9. Complete(d)
    BY <2>7, <2>8, CompleteSegs
  <2> HIDE DEF d
  <2> QED BY <2>2, <2>9
<1>4. CASE LastSelected(c.segs) = {}
  BY <1>4 DEF ConfirmPreviousSelection
<1> QED BY <1>2, <1>3, <1>4

-----------------------------------------------------------------------------
(* Going back                                                               *)

\* Context::ReopenPreviousSegment.
LEMMA ReopenSegmentComplete ==
  ASSUME NEW c, Complete(c)
  PROVE  /\ Complete(ReopenPreviousSegment(c))
         /\ ReopenPreviousSegment(c).input = c.input
         /\ ReopenPreviousSegment(c).caret = c.caret
<1> DEFINE segs == Trim(c.segs)
           back == Back(segs)
           void == [back EXCEPT !.status = kVoid]
           reopened == IF segs # << >> /\ back.status >= kSelected
                       THEN SetBack(segs, void) ELSE segs
           d == [c EXCEPT !.segs = reopened]
<1>1. Chain(c.segs, Len(c.active)) /\ Len(c.active) \in Nat
  BY CompleteMembers
<1>2. Chain(segs, Len(c.active))
  BY <1>1, TrimChain
<1>3. ReopenPreviousSegment(c) = IF CanReopenSegment(c) THEN Update(d) ELSE c
  BY DEF ReopenPreviousSegment
<1> HIDE DEF segs
<1>4. Chain(reopened, Len(c.active))
  <2>1. CASE segs # << >> /\ back.status >= kSelected
    <3>1. /\ back \in Segment /\ Fine(back) /\ back.end <= Len(c.active)
          /\ back = Back(segs)
      BY <1>1, <1>2, <2>1, BackOf
    <3> HIDE DEF back
    <3>2. /\ void \in Segment /\ Fine(void) /\ void.start = back.start
          /\ void.end = back.end
      BY <3>1, FineStatus, Statuses
    <3> HIDE DEF void
    <3>3. Chain(SetBack(segs, void), Len(c.active))
      BY <1>1, <1>2, <2>1, <3>1, <3>2, ChainSetBack
    <3> QED BY <2>1, <3>3
  <2>2. CASE ~ (segs # << >> /\ back.status >= kSelected)
    BY <1>2, <2>2
  <2> QED BY <2>1, <2>2
<1> HIDE DEF reopened
<1>5. Sound(d) /\ d.input = c.input /\ d.caret = c.caret
  BY <1>4, CompleteIsSound, SoundSegs
<1> HIDE DEF d
<1> QED BY <1>3, <1>5, UpdateComplete

\* Context::ClearPreviousSegment.
LEMMA ClearSegmentInput ==
  ASSUME NEW c, Complete(c), CanClearSegment(c)
  PROVE  \E value \in Seq(Char) :
           Len(value) <= MaxInput /\ ClearPreviousSegment(c) = set_input(c, value)
<1> DEFINE start == Back(c.segs).start
<1>1. /\ c.segs # << >> /\ start < Len(c.input)
  BY DEF CanClearSegment
<1>2. start \in Nat /\ c.input \in Seq(Char) /\ Len(c.input) \in Nat /\ Len(c.input) <= MaxInput
  BY <1>1, CompleteBack, CompleteMembers
<1>3. ClearPreviousSegment(c) = set_input(c, Prefix(c.input, start))
  BY DEF ClearPreviousSegment
<1> HIDE DEF start
<1>4. /\ Prefix(c.input, start) \in Seq(Char) /\ Len(Prefix(c.input, start)) = start
  BY <1>1, <1>2, PrefixType
<1>5. Len(Prefix(c.input, start)) <= MaxInput
  BY <1>1, <1>2, <1>4, BoundAssumption
<1> QED BY <1>3, <1>4, <1>5

LEMMA ClearSegmentComplete ==
  ASSUME NEW c, Complete(c), CanClearSegment(c)
  PROVE  Complete(ClearPreviousSegment(c))
BY CompleteIsSound, ClearSegmentInput, InputComplete

\* Context::ReopenPreviousSelection drops what is behind the selection.
LEMMA ReopenSelectionComplete ==
  ASSUME NEW c, Complete(c), CanReopenSelection(c)
  PROVE  Complete(ReopenPreviousSelection(c))
<1> DEFINE i == CHOOSE k \in LastSelected(c.segs) : TRUE
           front == SubSeq(c.segs, 1, i)
           seg == [c.segs[i] EXCEPT !.status = kVoid]
           new == SetBack(front, seg)
           d == [c EXCEPT !.segs = new]
<1>1. /\ Chain(c.segs, Len(c.active)) /\ Len(c.active) \in Nat
      /\ c.segs \in Seq(Segment) /\ Len(c.segs) \in Nat
  BY CompleteMembers
<1>2. i \in 1 .. Len(c.segs) /\ c.segs[i] \in Segment
  BY <1>1, LastSelectedIn DEF CanReopenSelection
<1>3. ReopenPreviousSelection(c) = Update(d)
  BY DEF ReopenPreviousSelection
<1> HIDE DEF i
<1>4. /\ Fine(c.segs[i]) /\ c.segs[i].end <= Len(c.active)
  BY <1>1, <1>2 DEF Chain
<1>5. /\ seg \in Segment /\ Fine(seg) /\ seg.start = c.segs[i].start
      /\ seg.end = c.segs[i].end
  BY <1>2, <1>4, FineStatus, Statuses
<1> HIDE DEF seg
<1>6. /\ Chain(front, Len(c.active)) /\ front # << >> /\ Back(front) = c.segs[i]
  <2>1. i \in 0 .. Len(c.segs) /\ i \in 1 .. i
    BY <1>1, <1>2
  <2>2. /\ Chain(front, Len(c.active)) /\ Len(front) = i
        /\ \A k \in 1 .. i : front[k] = c.segs[k]
    BY <1>1, <2>1, ChainFront
  <2> HIDE DEF front
  <2> QED BY <2>1, <2>2 DEF Back
<1> HIDE DEF front
<1>7. Chain(new, Len(c.active))
  BY <1>1, <1>4, <1>5, <1>6, ChainSetBack
<1> HIDE DEF new
<1>8. Sound(d)
  BY <1>7, CompleteIsSound, SoundSegs
<1> HIDE DEF d
<1> QED BY <1>3, <1>8, UpdateComplete

\* Dropping what is not selected leaves a sound context with the same input.
LEMMA ClearNonConfirmedSound ==
  ASSUME NEW c, Complete(c)
  PROVE  /\ Sound(ClearNonConfirmedComposition(c))
         /\ ClearNonConfirmedComposition(c).input = c.input
         /\ ClearNonConfirmedComposition(c).inline = c.inline
<1> DEFINE drop == {i \in DOMAIN c.segs : c.segs[i].status < kSelected}
           kept == PopBackWhile(c.segs, drop)
           d == [c EXCEPT !.segs = Forward(kept)]
<1>1. /\ Chain(c.segs, Len(c.active)) /\ Len(c.active) \in Nat
      /\ c.segs \in Seq(Segment) /\ DOMAIN c.segs = 1 .. Len(c.segs)
  BY CompleteMembers
<1>2. drop \in SUBSET (1 .. Len(c.segs))
  BY <1>1
<1>3. ClearNonConfirmedComposition(c) = IF Len(kept) < Len(c.segs) THEN d ELSE c
  BY DEF ClearNonConfirmedComposition
<1> HIDE DEF drop
<1>4. Chain(kept, Len(c.active))
  BY <1>1, <1>2, PopBackWhileChain
<1> HIDE DEF kept
<1>5. Chain(Forward(kept), Len(c.active))
  BY <1>1, <1>4, ForwardChain
<1>6. Sound(c) /\ d = [c EXCEPT !.segs = Forward(kept)]
  BY CompleteIsSound
<1> HIDE DEF d
<1>7. Sound(d)
  BY <1>5, <1>6, SoundSegs
<1>8. d.input = c.input
  BY <1>5, <1>6, SoundSegs
<1>9. d.inline = c.inline
  BY <1>5, <1>6, SoundSegs
<1> QED BY <1>3, <1>6, <1>7, <1>8, <1>9

\* Context::set_option of ascii_mode, with the slot of the engine: the option
\* has its new value already when the slot runs.
LEMMA SetAsciiComplete ==
  ASSUME NEW c, NEW value, NEW d, d = [c EXCEPT !.ascii = value], Complete(d)
  PROVE  Complete(set_ascii_mode(c, value))
<1>1. set_ascii_mode(c, value) =
        IF IsComposing(d) THEN RefreshNonConfirmedComposition(d) ELSE d
  BY DEF set_ascii_mode
<1>2. Complete(RefreshNonConfirmedComposition(d))
  BY ClearNonConfirmedSound, UpdateComplete DEF RefreshNonConfirmedComposition
<1> QED BY <1>1, <1>2

\* The option may take any value that leaves it on as long as it is temporary.
LEMMA AsciiAssign ==
  ASSUME NEW c, Complete(c), NEW value \in BOOLEAN, c.inline => value,
         NEW d, d = [c EXCEPT !.ascii = value]
  PROVE  Complete(d)
<1>1. c \in ContextType /\ c.inline \in BOOLEAN
  BY CompleteMembers, Members
<1>2. /\ d \in ContextType /\ d.input = c.input /\ d.caret = c.caret
      /\ d.active = c.active /\ d.segs = c.segs /\ d.out = c.out
      /\ d.ascii = value /\ d.inline = c.inline
  BY <1>1 DEF ContextType
<1>3. d.inline => d.ascii
  BY <1>2, Zenon
<1> QED BY <1>2, <1>3 DEF Complete, Composed, Bounded, IsComposing

\* BackSpace, in both editors.
LEMMA BackSpaceComplete ==
  ASSUME NEW c, Complete(c)
  PROVE  Complete(OnBackSpace(c))
<1>1. Sound(c) /\ Complete(ReopenPreviousSegment(c))
  BY CompleteIsSound, ReopenSegmentComplete
<1>2. CanReopenSelection(c) => Complete(ReopenPreviousSelection(c))
  BY ReopenSelectionComplete
<1>3. CanPopInput(c) => /\ Complete(PopInput(c))
                        /\ Complete(ReopenPreviousSegment(PopInput(c)))
  BY <1>1, PopComplete, ReopenSegmentComplete
<1> QED BY <1>1, <1>2, <1>3 DEF OnBackSpace, RevertLastAction, DiscoverPreviousInput

-----------------------------------------------------------------------------
(* The actions                                                              *)

\* Between two keys the context is complete.
IInv == Complete(ctx)

\* A new session is complete,
LEMMA InitComplete ==
  ASSUME Init PROVE IInv
<1>1. << >> \in Seq(Char) /\ << >> \in Seq(Segment) /\ << >> \in Seq(Output)
  OBVIOUS
<1>2. EmptyContext \in ContextType
  BY <1>1 DEF EmptyContext, ContextType
<1>3. Prefix(<< >>, 0) = << >> /\ Len(<< >>) = 0
  BY DEF Prefix
<1>4. Finished(<< >>, 0)
  BY DEF Finished, Chain, GetCurrentEndPosition
<1>5. /\ EmptyContext.input = << >> /\ EmptyContext.caret = 0
      /\ EmptyContext.active = << >> /\ EmptyContext.segs = << >>
      /\ EmptyContext.inline = FALSE /\ EmptyContext.out = << >>
  BY DEF EmptyContext
<1>6. Complete(EmptyContext)
  BY <1>2, <1>3, <1>4, <1>5, BoundAssumption DEF Complete, Composed, Bounded, Settled
<1> QED BY <1>6 DEF Init, IInv

\* and stays so when a key arrives and the sink is empty again.
LEMMA FreshComplete ==
  ASSUME IInv
  PROVE  /\ Complete(Fresh) /\ Sound(Fresh) /\ Fresh.input = ctx.input
         /\ Fresh.segs = ctx.segs /\ Fresh.caret = ctx.caret
         /\ Fresh.active = ctx.active /\ Fresh.ascii = ctx.ascii
         /\ Fresh.inline = ctx.inline /\ Fresh.out = << >>
<1>1. ctx \in ContextType /\ << >> \in Seq(Output)
  BY DEF IInv, Complete, Composed, Bounded
<1>2. /\ Fresh \in ContextType /\ Fresh.input = ctx.input /\ Fresh.caret = ctx.caret
      /\ Fresh.active = ctx.active /\ Fresh.segs = ctx.segs
      /\ Fresh.ascii = ctx.ascii /\ Fresh.inline = ctx.inline
      /\ Fresh.out = << >>
  BY <1>1 DEF Fresh, ContextType
<1>3. Complete(Fresh)
  BY <1>2 DEF IInv, Complete, Composed, Bounded, IsComposing
<1> QED BY <1>2, <1>3, CompleteIsSound

\* Context::PushInput and ConfirmPreviousSelection, as AddToInput.
LEMMA AddComplete ==
  ASSUME NEW c, Complete(c), Len(c.input) < MaxInput, NEW ch \in Char
  PROVE  Complete(AddToInput(c, ch))
BY CompleteIsSound, PushComplete, ConfirmPreviousComplete DEF AddToInput

\* A character goes into the input, with or without confirming.
LEMMA PushStep ==
  ASSUME IInv, Room, NEW ch \in Char
  PROVE  /\ Complete(PushInput(Fresh, ch)) /\ Complete(AddToInput(Fresh, ch))
         /\ PushInput(Fresh, ch).input # << >>
BY FreshComplete, PushComplete, AddComplete DEF Room

\* Speller, which may first commit a word of full code length.
LEMMA SpellStep ==
  ASSUME IInv, NEW ch \in Char, SpellChar(ch)
  PROVE  IInv'
<1>1. PICK reached \in BOOLEAN :
        ctx' = AddToInput(IF CodeIsFull(ch)
                          THEN ConfirmCurrentSelection(Fresh, reached)
                          ELSE Fresh, ch)
  BY DEF SpellChar
<1> DEFINE c == IF CodeIsFull(ch) THEN ConfirmCurrentSelection(Fresh, reached) ELSE Fresh
<1>2. Len(Fresh.input) < MaxInput /\ Len(Fresh.input) \in Nat
  BY FreshComplete, CompleteMembers DEF SpellChar, Room
<1>3. Complete(c) /\ Len(c.input) <= Len(Fresh.input)
  BY <1>2, FreshComplete, ConfirmComplete
<1>4. Len(c.input) \in Nat
  BY <1>3, CompleteMembers
<1>5. ctx' = AddToInput(c, ch)
  BY <1>1
<1> HIDE DEF c
<1>6. Len(c.input) < MaxInput
  BY <1>2, <1>3, <1>4, BoundAssumption
<1> QED BY <1>3, <1>5, <1>6, AddComplete DEF IInv

\* Punctuator::AlternatePunct.
LEMMA AlternateStep ==
  ASSUME IInv, NEW ch \in Char, AlternatePunct(ch)
  PROVE  IInv'
<1> DEFINE seg == Back(ctx.segs)
           next == (seg.selected + 1) % Len(seg.cands)
           mid == [seg EXCEPT !.selected = next]
           new == [mid EXCEPT !.status = kGuess]
           d == [Fresh EXCEPT !.segs = SetBack(Fresh.segs, new)]
<1>1. ctx.segs # << >> /\ seg.cands # << >>
  BY DEF AlternatePunct, Alternates
<1>2. seg \in Segment /\ Fine(seg) /\ seg.status = kGuess
  BY <1>1, CompleteBack DEF IInv
<1>3. next \in Nat /\ next < Len(seg.cands)
  <2>1. seg.selected \in Nat /\ Len(seg.cands) \in Nat \ {0}
    BY <1>1, <1>2 DEF Segment
  <2> HIDE DEF seg
  <2> QED BY <2>1
<1>4. ctx' = d
  <2>1. new = [seg EXCEPT !.selected = next, !.status = kGuess]
    OBVIOUS
  <2> HIDE DEF new
  <2> QED BY <2>1 DEF AlternatePunct
<1> HIDE DEF next
<1>5. /\ mid \in Segment /\ Fine(mid) /\ mid.start = seg.start
      /\ mid.end = seg.end /\ mid.status = kGuess
  BY <1>2, <1>3, SelectedAssign
<1> HIDE DEF mid
<1>6. /\ new \in Segment /\ Fine(new) /\ new.start = seg.start
      /\ new.end = seg.end /\ new.status = kGuess
  <2>1. NoChoice(mid, kGuess)
    BY <1>5 DEF NoChoice
  <2> QED BY <1>5, <2>1, FineStatus, Statuses
<1> HIDE DEF new
<1>7. d = [Fresh EXCEPT !.segs = SetBack(Fresh.segs, new)]
  OBVIOUS
<1> HIDE DEF d
<1>8. Complete(d)
  BY <1>1, <1>6, <1>7, FreshComplete, CompleteSetBack
<1> QED BY <1>4, <1>8 DEF IInv

\* Both ways through Punctuator::PairPunct.
LEMMA PairCases ==
  ASSUME NEW c, Complete(c), NEW reached \in BOOLEAN
  PROVE  \/ PairPunct(c, reached) = c
         \/ \E d : /\ Complete(d) /\ d.active = c.active
                  /\ SameButLast(c, d)
                  /\ PairPunct(c, reached) = ConfirmCurrentSelection(d, reached)
<1> DEFINE seg == Back(c.segs)
           index == (seg.selected + c.oddness) % 2
           half == [seg EXCEPT !.selected = index]
           mid == [c EXCEPT !.segs = SetBack(c.segs, half)]
           flipped == [mid EXCEPT !.oddness = 1 - c.oddness]
<1>1. CASE PairPunct(c, reached) = c
  BY <1>1
<1>2. CASE /\ c.segs # << >> /\ Len(seg.cands) >= 2
           /\ PairPunct(c, reached) = ConfirmCurrentSelection(flipped, reached)
  <2>1. /\ seg \in Segment /\ Fine(seg)
        /\ ~ IsEmpty(seg) => seg.status = kGuess
        /\ IsEmpty(seg) => seg.cands = << >>
    BY <1>2, CompleteBack
  <2>2. seg.status = kGuess
    BY <1>2, <2>1
  <2>3. index \in Nat /\ index < Len(seg.cands)
    <3>1. seg.selected \in Nat /\ c.oddness \in {0, 1} /\ Len(seg.cands) \in Nat
      BY <2>1, CompleteMembers, Members DEF Segment
    <3> HIDE DEF seg
    <3>2. c.oddness \in Nat
      BY <3>1
    <3> QED BY SMTT(20), <1>2, <3>1, <3>2
  <2> HIDE DEF index
  <2>4. /\ half \in Segment /\ Fine(half) /\ half.start = seg.start
        /\ half.end = seg.end /\ half.status = kGuess
    BY <2>1, <2>2, <2>3, SelectedAssign
  <2>5. seg.start = Back(c.segs).start /\ seg.end = Back(c.segs).end
    OBVIOUS
  <2> HIDE DEF half, seg
  <2>6. mid = [c EXCEPT !.segs = SetBack(c.segs, half)] /\ c.oddness \in {0, 1}
    BY CompleteMembers, Members
  <2>0. mid.active = c.active /\ SameButLast(c, mid)
    <3>1. mid.active = c.active /\ mid.segs = SetBack(c.segs, half)
      BY CompleteMembers DEF ContextType
    <3> QED BY <2>4, <3>1, CompleteMembers, SetBackStays DEF SameButLast
  <2> HIDE DEF mid
  <2>7. Complete(mid)
    BY <1>2, <2>4, <2>5, <2>6, CompleteSetBack
  <2>8. mid \in ContextType /\ 1 - c.oddness \in {0, 1}
    BY <2>6, <2>7, CompleteMembers
  <2>9. /\ flipped \in ContextType /\ flipped.input = mid.input
        /\ flipped.caret = mid.caret /\ flipped.active = mid.active
        /\ flipped.segs = mid.segs /\ flipped.out = mid.out
        /\ flipped.ascii = mid.ascii /\ flipped.inline = mid.inline
    BY <2>8 DEF ContextType
  <2> HIDE DEF flipped
  <2>10. Complete(flipped)
    BY <2>7, <2>9 DEF Complete, Composed, Bounded, IsComposing
  <2>11. flipped.active = c.active /\ SameButLast(c, flipped)
    BY <2>0, <2>9 DEF SameButLast
  <2> QED BY <1>2, <2>10, <2>11
<1>3. \/ PairPunct(c, reached) = c
      \/ /\ c.segs # << >> /\ Len(seg.cands) >= 2
         /\ PairPunct(c, reached) = ConfirmCurrentSelection(flipped, reached)
  <2> DEFINE both == [c EXCEPT !.segs = SetBack(c.segs, half), !.oddness = 1 - c.oddness]
             Pair == /\ c.segs # << >> /\ seg.status > kVoid /\ "punct" \in seg.tags
                     /\ Len(seg.cands) >= 2
  <2>1. flipped = both
    OBVIOUS
  <2>2. PairPunct(c, reached) =
          IF Pair THEN ConfirmCurrentSelection(both, reached) ELSE c
    BY Zenon DEF PairPunct
  <2>3. Pair => c.segs # << >> /\ Len(seg.cands) >= 2
    OBVIOUS
  <2> HIDE DEF flipped, both, Pair, seg
  <2> QED BY <2>1, <2>2, <2>3
<1> QED BY <1>1, <1>2, <1>3

LEMMA PairComplete ==
  ASSUME NEW c, Complete(c), NEW reached \in BOOLEAN
  PROVE  Complete(PairPunct(c, reached))
<1>1. CASE PairPunct(c, reached) # c
  <2>1. PICK d : /\ Complete(d)
                 /\ PairPunct(c, reached) = ConfirmCurrentSelection(d, reached)
    BY <1>1, PairCases
  <2> QED BY <2>1, ConfirmComplete
<1> QED BY <1>1

\* Punctuator, for each kind of punctuation.
LEMMA PunctStep ==
  ASSUME IInv, NEW ch \in Char, PunctChar(ch)
  PROVE  IInv'
<1> DEFINE c == PushInput(Fresh, ch)
<1>1. PICK reached \in BOOLEAN :
        ctx' = CASE PunctDef[ch] = "unique" -> ConfirmCurrentSelection(c, reached)
                 [] PunctDef[ch] = "commit" -> Commit(c)
                 [] PunctDef[ch] = "pair" -> PairPunct(c, reached)
                 [] PunctDef[ch] = "list" -> c
  BY DEF PunctChar
<1>2. Complete(c)
  BY PushStep DEF PunctChar
<1>3. PunctDef[ch] \in {"unique", "list", "commit", "pair"}
  BY PunctAssumption DEF PunctChar, PunctKinds
<1> HIDE DEF c
<1>4. /\ Complete(ConfirmCurrentSelection(c, reached)) /\ Complete(Commit(c))
      /\ Complete(PairPunct(c, reached))
  BY <1>2, CompleteIsSound, ConfirmComplete, CommitComplete, PairComplete
<1> QED BY <1>1, <1>2, <1>3, <1>4 DEF IInv

\* A character, whichever processor takes it.
LEMMA TypeStep ==
  ASSUME IInv, NEW ch \in Char, TypeChar(ch)
  PROVE  IInv'
<1>1. CASE AsciiChar(ch)
  BY <1>1, PushStep DEF AsciiChar, IInv
<1>2. CASE RecognizedChar(ch)
  BY <1>2, PushStep DEF RecognizedChar, IInv
<1>3. CASE SpellChar(ch)
  BY <1>3, SpellStep
<1>4. CASE AlternatePunct(ch)
  BY <1>4, AlternateStep
<1>5. CASE PunctChar(ch)
  BY <1>5, PunctStep
<1>6. CASE EditorChar(ch)
  BY <1>6, PushStep, FreshComplete, CommitComplete DEF EditorChar, IInv
<1> QED BY <1>1, <1>2, <1>3, <1>4, <1>5, <1>6 DEF TypeChar

\* The selector only moves the highlight among the candidates of the last segment.
LEMMA HighlightStep ==
  ASSUME IInv, SelectorActive, NEW index \in Nat, Highlight(index),
         Back(ctx.segs).cands = << >> \/ index < Len(Back(ctx.segs).cands)
  PROVE  IInv'
<1> DEFINE seg == Back(ctx.segs)
           new == [seg EXCEPT !.selected = index]
           d == [Fresh EXCEPT !.segs = SetBack(Fresh.segs, new)]
<1>1. ctx.segs # << >> /\ Fresh.segs = ctx.segs /\ Complete(Fresh)
  BY FreshComplete DEF SelectorActive
<1>2. seg \in Segment /\ Fine(seg) /\ seg.status = kGuess
  BY <1>1, CompleteBack DEF IInv, SelectorActive
<1>3. ctx' = d
  BY <1>1 DEF Highlight
<1>4. /\ new \in Segment /\ Fine(new) /\ new.start = seg.start
      /\ new.end = seg.end /\ new.status = kGuess
  BY <1>2, SelectedAssign
<1> HIDE DEF new
<1>5. d = [Fresh EXCEPT !.segs = SetBack(Fresh.segs, new)]
  OBVIOUS
<1> HIDE DEF d
<1>6. Complete(d)
  BY <1>1, <1>4, <1>5, CompleteSetBack
<1> QED BY <1>3, <1>6 DEF IInv

\* What the selector looks at.
LEMMA SelectorFacts ==
  ASSUME IInv, SelectorActive
  PROVE  /\ Back(ctx.segs).selected \in Nat /\ Len(Back(ctx.segs).cands) \in Nat
         /\ PageSize \in Nat \ {0}
         /\ \/ Back(ctx.segs).cands = << >>
            \/ Back(ctx.segs).selected < Len(Back(ctx.segs).cands)
<1>1. PICK seg \in Segment : seg = Back(ctx.segs) /\ Loose(seg)
  BY CompleteBack DEF IInv, SelectorActive
<1>2. seg.selected \in Nat /\ Len(seg.cands) \in Nat
  BY DEF Segment
<1>3. seg.cands = << >> \/ seg.selected < Len(seg.cands)
  BY <1>1 DEF Loose, HasSelectedCandidate, HasCandidateAt
<1> QED BY <1>1, <1>2, <1>3, PageAssumption

\* Selector: the pages and the cursor.
LEMMA PageStep ==
  ASSUME IInv, PageUp \/ PageDown \/ CursorUp \/ CursorDown
  PROVE  IInv'
<1> DEFINE selected == Back(ctx.segs).selected
           len == Len(Back(ctx.segs).cands)
           none == Back(ctx.segs).cands = << >>
<1>1. /\ SelectorActive /\ selected \in Nat /\ len \in Nat /\ PageSize \in Nat \ {0}
      /\ none \/ selected < len
  BY SelectorFacts DEF PageUp, PageDown, CursorUp, CursorDown
<1>2. ASSUME NEW index \in Nat, Highlight(index), none \/ index < len PROVE IInv'
  BY <1>1, <1>2, HighlightStep
<1> HIDE DEF none
<1>3. CASE PageUp
  <2> DEFINE index == IF selected < PageSize THEN 0 ELSE selected - PageSize
  <2>1. Highlight(index)
    BY <1>3 DEF PageUp
  <2> HIDE DEF selected, len
  <2>2. index \in Nat /\ (none \/ index < len)
    BY <1>1
  <2> HIDE DEF index
  <2> QED BY <1>2, <2>1, <2>2
<1>4. CASE PageDown
  <2> DEFINE next == selected + PageSize
             page_start == (next \div PageSize) * PageSize
             index == IF next >= len THEN len - 1 ELSE next
  <2>1. Highlight(index) /\ len > page_start
    BY <1>4 DEF PageDown
  <2> HIDE DEF selected, len
  <2>2. next \in Nat
    BY <1>1
  <2> HIDE DEF next
  <2>3. next \div PageSize \in Nat
    BY <1>1, <2>2
  <2>4. page_start \in Nat
    BY <1>1, <2>3
  <2> HIDE DEF page_start
  <2>5. index \in Nat /\ index < len
    BY <1>1, <2>1, <2>2, <2>4
  <2> HIDE DEF index
  <2> QED BY <1>2, <2>1, <2>5
<1>5. CASE CursorUp
  <2>1. Highlight(selected - 1) /\ selected > 0
    BY <1>5 DEF CursorUp
  <2> HIDE DEF selected, len
  <2>2. selected - 1 \in Nat /\ (none \/ selected - 1 < len)
    BY <1>1, <2>1
  <2> QED BY <1>2, <2>1, <2>2
<1>6. CASE CursorDown
  <2>1. Highlight(selected + 1) /\ len > selected + 1
    BY <1>6 DEF CursorDown
  <2> HIDE DEF selected, len
  <2>2. selected + 1 \in Nat /\ selected + 1 < len
    BY <1>1, <2>1
  <2> QED BY <1>2, <2>1, <2>2
<1> QED BY <1>3, <1>4, <1>5, <1>6

\* Selector: a digit, which may be behind the last candidate.
LEMMA SelectKeyStep ==
  ASSUME IInv, NEW index \in 0 .. PageSize - 1, SelectKey(index)
  PROVE  IInv'
<1> DEFINE selected == Back(ctx.segs).selected
           page_start == (selected \div PageSize) * PageSize
<1>1. selected \in Nat /\ PageSize \in Nat \ {0}
  BY SelectorFacts DEF SelectKey
<1>2. PICK reached \in BOOLEAN : ctx' = Select(Fresh, page_start + index, reached)
  BY DEF SelectKey
<1> HIDE DEF selected
<1>3. page_start \in Nat
  <2>1. selected \div PageSize \in Nat
    BY <1>1
  <2> QED BY <1>1, <2>1
<1> HIDE DEF page_start
<1>4. page_start + index \in Nat
  BY <1>1, <1>3
<1> QED BY <1>2, <1>4, FreshComplete, SelectComplete DEF IInv

\* Navigator::Home stays in front of the caret.
LEMMA HomePosType ==
  ASSUME IInv PROVE HomePos \in Nat
<1> DEFINE last == LastSelected(ctx.segs)
           first == IF last = {} THEN 1 ELSE (CHOOSE i \in last : TRUE) + 1
           pos == IF first <= Len(ctx.segs) THEN ctx.segs[first].start ELSE ctx.caret
<1>1. /\ ctx.segs \in Seq(Segment) /\ ctx.caret \in Nat /\ Len(ctx.segs) \in Nat
  BY CompleteMembers DEF IInv
<1>2. first \in Nat \ {0}
  <2>1. ASSUME last # {} PROVE (CHOOSE i \in last : TRUE) \in 1 .. Len(ctx.segs)
    BY <1>1, <2>1, LastSelectedIn
  <2> HIDE DEF last
  <2> QED BY <1>1, <2>1
<1>3. HomePos = IF pos < ctx.caret THEN pos ELSE 0
  BY DEF HomePos
<1> HIDE DEF first
<1>4. pos \in Nat
  <2>1. ASSUME first <= Len(ctx.segs) PROVE ctx.segs[first].start \in Nat
    <3>1. ctx.segs[first] \in Segment
      BY <1>1, <1>2, <2>1
    <3> QED BY <3>1 DEF Segment
  <2> QED BY <1>1, <2>1
<1> HIDE DEF pos
<1> QED BY <1>3, <1>4

\* Navigator, and the selector where it takes Home and End.
LEMMA NavigatorStep ==
  ASSUME IInv, Left \/ Right \/ Home \/ End
  PROVE  IInv'
<1>1. /\ ctx.caret \in Nat /\ Len(ctx.input) \in Nat /\ ctx.caret <= Len(ctx.input)
      /\ HomePos \in Nat /\ 0 \in Nat
  BY CompleteMembers, HomePosType DEF IInv
<1>2. \A pos \in Nat : Complete(set_caret_pos(Fresh, pos))
  BY FreshComplete, CaretComplete
<1>0. ASSUME SelectorTakesHome, Highlight(0) PROVE IInv'
  <2>1. SelectorActive /\ Back(ctx.segs).selected > 0
    BY <1>0 DEF SelectorTakesHome
  <2>2. Back(ctx.segs).cands = << >> \/ 0 < Len(Back(ctx.segs).cands)
    <3>1. /\ Back(ctx.segs).selected \in Nat /\ Len(Back(ctx.segs).cands) \in Nat
          /\ \/ Back(ctx.segs).cands = << >>
             \/ Back(ctx.segs).selected < Len(Back(ctx.segs).cands)
      BY <2>1, SelectorFacts
    <3> QED BY <2>1, <3>1
  <2> QED BY <1>0, <1>1, <2>1, <2>2, HighlightStep
<1>3. CASE Left
  <2> DEFINE pos == IF ctx.caret = 0 THEN Len(ctx.input) ELSE ctx.caret - 1
  <2>1. pos \in Nat
    BY <1>1
  <2>2. ctx' = set_caret_pos(Fresh, pos)
    BY <1>3 DEF Left
  <2> HIDE DEF pos
  <2> QED BY <1>2, <2>1, <2>2 DEF IInv
<1>4. CASE Right
  <2> DEFINE pos == IF ctx.caret >= Len(ctx.input) THEN HomePos ELSE ctx.caret + 1
  <2>1. pos \in Nat
    BY <1>1
  <2>2. ctx' = set_caret_pos(Fresh, pos)
    BY <1>4 DEF Right
  <2> HIDE DEF pos
  <2> QED BY <1>2, <2>1, <2>2 DEF IInv
<1>5. CASE Home
  <2>1. CASE SelectorTakesHome /\ Highlight(0)
    BY <1>0, <2>1
  <2>2. CASE ctx' = set_caret_pos(Fresh, HomePos)
    BY <1>1, <1>2, <2>2 DEF IInv
  <2> QED BY <1>5, <2>1, <2>2 DEF Home
<1>6. CASE End
  <2>1. CASE SelectorTakesHome /\ Highlight(0)
    BY <1>0, <2>1
  <2>2. CASE ctx' = set_caret_pos(Fresh, Len(ctx.input))
    BY <1>1, <1>2, <2>2 DEF IInv
  <2> QED BY <1>6, <2>1, <2>2 DEF End
<1> QED BY <1>3, <1>4, <1>5, <1>6

\* Editor: the keys bound to its actions.
LEMMA EditorStep ==
  ASSUME IInv, Space \/ Return \/ ShiftReturn \/ BackSpace \/ Delete \/ Escape
  PROVE  IInv'
<1>1. /\ Complete(Fresh) /\ Sound(Fresh)
      /\ Composing => IsComposing(Fresh) /\ IsComposing(ClearNonConfirmedComposition(Fresh))
  BY FreshComplete, ClearNonConfirmedSound DEF Composing, IsComposing
<1>2. CASE Space
  <2>1. PICK reached \in BOOLEAN :
          ctx' = IF CanConfirm(Fresh) THEN ConfirmCurrentSelection(Fresh, reached)
                 ELSE Commit(ConfirmCurrentSelection(Fresh, reached))
    BY <1>2 DEF Space, Confirm
  <2>2. Complete(ConfirmCurrentSelection(Fresh, reached))
    BY <1>1, ConfirmComplete
  <2>3. Complete(Commit(ConfirmCurrentSelection(Fresh, reached)))
    BY <2>2, CompleteIsSound, CommitComplete
  <2> QED BY <2>1, <2>2, <2>3 DEF IInv
<1>3. CASE Return
  <2>1. Complete(Commit(Fresh))
    BY <1>1, CommitComplete
  <2>2. Complete(Commit(ClearNonConfirmedComposition(Fresh)))
    BY <1>1, <1>3, ClearNonConfirmedSound, CommitComplete DEF Return
  <2> QED BY <1>3, <2>1, <2>2 DEF Return, IInv
<1>4. CASE ShiftReturn
  <2> DEFINE d == Sink(Fresh, GetScriptText(Fresh), TRUE)
  <2>1. Fresh \in ContextType /\ Chain(Fresh.segs, Len(Fresh.active))
    BY <1>1, CompleteMembers
  <2>2. Sound(d)
    BY <1>1, <2>1, ScriptText, SinkSound
  <2>3. ctx' = Clear(d)
    BY <1>4 DEF ShiftReturn
  <2> HIDE DEF d
  <2> QED BY <2>2, <2>3, ClearComplete DEF IInv
<1>5. CASE BackSpace
  BY <1>1, <1>5, BackSpaceComplete DEF BackSpace, IInv
<1>6. CASE Delete
  BY <1>1, <1>6, DeleteComplete DEF Delete, IInv
<1>7. CASE Escape
  BY <1>1, <1>7, ClearSegmentComplete, ClearComplete DEF Escape, IInv
<1> QED BY <1>2, <1>3, <1>4, <1>5, <1>6, <1>7

\* AsciiComposer::ToggleAsciiMode, in each style: the mode is set where all is
\* as before, where a selection has been confirmed, or behind a commit.
Toggles(c) ==
  \/ c.segs = ctx.segs /\ c.active = ctx.active
  \/ \E a : \E reached \in BOOLEAN :
       /\ Complete(a) /\ a.segs = ctx.segs /\ a.active = ctx.active
       /\ c = ConfirmCurrentSelection(a, reached)
  \/ \E a : Sound(a) /\ IsComposing(a) /\ c = Commit(a)

LEMMA ToggleCases ==
  ASSUME IInv, NEW style \in SwitchStyles, ToggleAsciiMode(style)
  PROVE  \E c \in ContextType : \E value :
           /\ Complete([c EXCEPT !.ascii = value]) /\ Toggles(c)
           /\ ctx' = set_ascii_mode(c, value)
<1> DEFINE on == ~ ctx.ascii
           idle == [Fresh EXCEPT !.inline = FALSE]
           temporary == [idle EXCEPT !.inline = on]
           switched == [temporary EXCEPT !.ascii = on]
<1> DEFINE Sets(c) == /\ c \in ContextType /\ Complete([c EXCEPT !.ascii = on])
                      /\ Toggles(c)
<1>1. /\ Complete(Fresh) /\ Fresh \in ContextType /\ on \in BOOLEAN
      /\ Fresh.segs = ctx.segs /\ Fresh.active = ctx.active
      /\ Composing => IsComposing(Fresh)
  BY FreshComplete, CompleteMembers DEF IInv, Composing, IsComposing
<1>2. \/ ~ Composing /\ ctx' = set_ascii_mode(Fresh, on)
      \/ Composing /\ ctx' = set_ascii_mode(temporary, on)
      \/ \E reached \in BOOLEAN :
           ctx' = set_ascii_mode(ConfirmCurrentSelection(idle, reached), on)
      \/ /\ Composing
         /\ ctx' = set_ascii_mode(Commit(ClearNonConfirmedComposition(idle)), on)
  BY DEF ToggleAsciiMode
<1> HIDE DEF on
<1>3. /\ idle \in ContextType /\ idle.input = Fresh.input /\ idle.caret = Fresh.caret
      /\ idle.active = Fresh.active /\ idle.segs = Fresh.segs
      /\ idle.ascii = Fresh.ascii /\ idle.out = Fresh.out /\ idle.inline = FALSE
  BY <1>1 DEF ContextType
<1> HIDE DEF idle
<1>4. /\ temporary \in ContextType /\ temporary.input = idle.input
      /\ temporary.caret = idle.caret /\ temporary.active = idle.active
      /\ temporary.segs = idle.segs /\ temporary.out = idle.out
      /\ temporary.inline = on
  BY <1>1, <1>3 DEF ContextType
<1>5. switched = [temporary EXCEPT !.ascii = on]
  OBVIOUS
<1> HIDE DEF temporary
<1>6. /\ switched \in ContextType /\ switched.input = temporary.input
      /\ switched.caret = temporary.caret /\ switched.active = temporary.active
      /\ switched.segs = temporary.segs /\ switched.out = temporary.out
      /\ switched.inline = on /\ switched.ascii = on
  BY <1>1, <1>4 DEF ContextType
<1> HIDE DEF switched
<1>7. Complete(idle)
  BY <1>1, <1>3 DEF Complete, Composed, Bounded, IsComposing
<1>8. ASSUME ~ Composing PROVE Sets(Fresh)
  <2>1. ~ Fresh.inline
    BY <1>1, <1>8, FreshComplete DEF Complete, Composing, IsComposing
  <2> DEFINE d == [Fresh EXCEPT !.ascii = on]
  <2>2. Complete(d)
    BY <1>1, <2>1, AsciiAssign
  <2> QED BY <1>1, <2>2 DEF Toggles
<1>9. ASSUME Composing PROVE Sets(temporary)
  <2>1. Bounded(switched)
    <3>1. switched.inline => switched.ascii
      BY <1>6, Zenon
    <3> QED BY <1>1, <1>3, <1>4, <1>6, <3>1 DEF Complete, Composed, Bounded
  <2>2. Complete(switched)
    BY <1>1, <1>3, <1>4, <1>6, <1>9, <2>1 DEF Complete, Composed, IsComposing
  <2> QED BY <1>1, <1>3, <1>4, <1>5, <2>2 DEF Toggles
<1>10. ASSUME NEW c, Complete(c), c.inline => idle.inline, Toggles(c)
       PROVE  Sets(c)
  <2> DEFINE d == [c EXCEPT !.ascii = on]
  <2>1. Complete(d)
    BY <1>1, <1>3, <1>10, AsciiAssign
  <2> QED BY <1>10, <2>1, CompleteMembers
<1>11. ASSUME NEW reached \in BOOLEAN
       PROVE  Sets(ConfirmCurrentSelection(idle, reached))
  <2> DEFINE c == ConfirmCurrentSelection(idle, reached)
  <2>1. Toggles(c)
    BY <1>1, <1>3, <1>7 DEF Toggles
  <2>2. Complete(c) /\ (c.inline => idle.inline)
    BY <1>7, ConfirmComplete
  <2> HIDE DEF c
  <2>3. Sets(c)
    BY <1>10, <2>1, <2>2
  <2> QED BY <2>3 DEF c
<1>12. ASSUME Composing PROVE Sets(Commit(ClearNonConfirmedComposition(idle)))
  <2> DEFINE a == ClearNonConfirmedComposition(idle)
             c == Commit(a)
  <2>1. IsComposing(a) /\ Sound(a) /\ a.inline = idle.inline
    BY <1>1, <1>3, <1>7, <1>12, ClearNonConfirmedSound DEF IsComposing
  <2> HIDE DEF a
  <2>2. Complete(c) /\ (c.inline => idle.inline) /\ Toggles(c)
    BY <2>1, CommitComplete DEF Toggles
  <2> HIDE DEF c
  <2>3. Sets(c)
    BY <1>10, <2>2
  <2> QED BY <2>3 DEF c, a
<1>13. \E c : Sets(c) /\ ctx' = set_ascii_mode(c, on)
  BY <1>2, <1>8, <1>9, <1>11, <1>12
<1> QED BY <1>13

LEMMA ToggleStep ==
  ASSUME IInv, NEW style \in SwitchStyles, ToggleAsciiMode(style)
  PROVE  IInv'
BY ToggleCases, SetAsciiComplete DEF IInv

\* Every step keeps the invariant,
LEMMA StepComplete ==
  ASSUME IInv, [Next]_vars PROVE IInv'
<1>1. CASE \E ch \in Char : TypeChar(ch)
  BY <1>1, TypeStep
<1>2. CASE PageUp \/ PageDown \/ CursorUp \/ CursorDown
  BY <1>2, PageStep
<1>3. CASE \E index \in 0 .. PageSize - 1 : SelectKey(index)
  BY <1>3, SelectKeyStep
<1>4. CASE Left \/ Right \/ Home \/ End
  BY <1>4, NavigatorStep
<1>5. CASE Space \/ Return \/ ShiftReturn \/ BackSpace \/ Delete \/ Escape
  BY <1>5, EditorStep
<1>6. CASE \E style \in SwitchStyles : ToggleAsciiMode(style)
  BY <1>6, ToggleStep
<1>7. CASE ClearComposition
  BY <1>7, FreshComplete, ClearComplete DEF ClearComposition, IInv
<1>8. CASE CommitComposition
  BY <1>8, FreshComplete, CommitComplete DEF CommitComposition, IInv
<1>9. CASE UNCHANGED vars
  BY <1>9 DEF vars, IInv
<1> QED BY <1>1, <1>2, <1>3, <1>4, <1>5, <1>6, <1>7, <1>8, <1>9 DEF Next

\* so that every context ever seen between two keys is complete.
LEMMA AlwaysComplete == Spec => []IInv
<1>1. Init => IInv
  BY InitComplete
<1>2. IInv /\ [Next]_vars => IInv'
  BY StepComplete
<1> QED BY <1>1, <1>2, PTL DEF Spec

-----------------------------------------------------------------------------
(* Theorems                                                                 *)

\* Whatever keys are pressed in whatever schema, the context has its type and
\* the caret stays in the input (context.cc, engine.cc).
THEOREM TypeCorrect == Spec => []TypeOK
<1>1. IInv => TypeOK
  BY DEF IInv, Complete, Composed, Bounded, TypeOK
<1> QED BY <1>1, AlwaysComplete, PTL

\* The composition is always about the input before the caret, and its
\* segments cut that into consecutive intervals: no key, selection or
\* switch of the mode leaves a gap or an overlap in what will be committed.
THEOREM Partition == Spec => []SegmentsPartitionInput
<1>1. ASSUME IInv PROVE SegmentsPartitionInput
  <2> DEFINE segs == ctx.segs
             n == Len(ctx.active)
  <2>1. /\ Finished(segs, n) /\ Chain(segs, n) /\ n \in Nat
        /\ segs \in Seq(Segment) /\ DOMAIN segs = 1 .. Len(segs)
        /\ ctx.active = Prefix(ctx.input, ctx.caret)
    BY <1>1, CompleteMembers DEF IInv, Complete, Composed
  <2>2. segs = << >> <=> ctx.active = << >>
    <3>1. ctx.active \in Seq(Char)
      BY <1>1, CompleteMembers, Members DEF IInv
    <3>2. ctx.active = << >> <=> n = 0
      BY <3>1
    <3> QED BY <2>1, <3>2 DEF Finished
  <2>3. ASSUME NEW i \in DOMAIN segs
        PROVE  /\ segs[i].start <= segs[i].end
               /\ segs[i].start = IF i = 1 THEN 0 ELSE segs[i - 1].end
               /\ i = Len(segs) => segs[i].end = n
    <3>1. /\ segs[i].start <= segs[i].end
          /\ segs[i].start = IF i = 1 THEN 0 ELSE segs[i - 1].end
      BY <2>1, <2>3 DEF Chain, Fine, Loose
    <3>2. i = Len(segs) => segs[i].end = n
      BY <2>1, <2>3 DEF Finished, GetCurrentEndPosition, Back
    <3> QED BY <3>1, <3>2
  <2> QED BY <2>1, <2>2, <2>3 DEF SegmentsPartitionInput
<1> QED BY <1>1, AlwaysComplete, PTL

\* An empty segment is there only to be typed into behind a selection
\* (Segmentation::Forward); it never hides in the middle of the composition.
THEOREM EmptySegment == Spec => []EmptySegmentFollowsSelection
<1>1. ASSUME IInv PROVE EmptySegmentFollowsSelection
  <2> DEFINE segs == ctx.segs
             n == Len(ctx.active)
  <2>1. /\ Finished(segs, n) /\ Chain(segs, n) /\ DOMAIN segs = 1 .. Len(segs)
    BY <1>1, CompleteMembers DEF IInv
  <2>2. ASSUME NEW i \in DOMAIN segs, IsEmpty(segs[i])
        PROVE  i = Len(segs) /\ i > 1 /\ segs[i - 1].status >= kSelected
    BY <2>1, <2>2 DEF Finished, Chain
  <2> QED BY <2>2 DEF EmptySegmentFollowsSelection
<1> QED BY <1>1, AlwaysComplete, PTL

\* What is highlighted exists and fits in its segment, and a selection that
\* converts only a part of a segment has split it there (engine.cc, OnSelect):
\* what the user sees selected is what the segment stands for.
THEOREM Selection == Spec => []SelectionFits
<1>1. ASSUME IInv PROVE SelectionFits
  <2>1. Chain(ctx.segs, Len(ctx.active)) /\ DOMAIN ctx.segs = 1 .. Len(ctx.segs)
    BY <1>1, CompleteMembers DEF IInv
  <2>2. ASSUME NEW i \in DOMAIN ctx.segs, NEW seg, seg = ctx.segs[i]
        PROVE  /\ seg.cands # << >> => HasSelectedCandidate(seg)
               /\ HasSelectedCandidate(seg) =>
                    /\ SelectedEnd(seg) \in seg.start + 1 .. seg.end
                    /\ seg.status >= kSelected => SelectedEnd(seg) = seg.end
    <3>1. seg \in Segment /\ Fine(seg) /\ Loose(seg)
      BY <2>1, <2>2 DEF Chain, Fine
    <3>2. /\ seg.selected \in Nat /\ seg.cands \in Seq(Nat)
          /\ seg.start \in Nat /\ seg.end \in Nat
      BY <3>1 DEF Segment
    <3>3. seg.cands # << >> => HasSelectedCandidate(seg)
      BY <3>1 DEF Loose
    <3>4. ASSUME HasSelectedCandidate(seg)
          PROVE  /\ SelectedEnd(seg) \in seg.start + 1 .. seg.end
                 /\ seg.status >= kSelected => SelectedEnd(seg) = seg.end
      <4>1. seg.selected + 1 \in DOMAIN seg.cands /\ seg.cands # << >>
        BY <3>2, <3>4 DEF HasSelectedCandidate, HasCandidateAt
      <4>2. /\ seg.start < SelectedEnd(seg) /\ SelectedEnd(seg) <= seg.end
            /\ SelectedEnd(seg) \in Nat
        BY <3>1, <3>2, <4>1 DEF Loose, SelectedEnd, CandidateEnd
      <4>3. seg.status >= kSelected => SelectedEnd(seg) = seg.end
        BY <3>1, <4>1 DEF Fine
      <4> QED BY <3>2, <4>2, <4>3
    <3> QED BY <3>3, <3>4
  <2> QED BY <2>2 DEF SelectionFits
<1> QED BY <1>1, AlwaysComplete, PTL

\* AsciiComposer hears of the end of every composition for which it has switched
\* the mode: the temporary ascii mode never outlives it (ascii_composer.cc).
THEOREM InlineEnds == Spec => []InlineEndsWithComposition
<1>1. IInv => InlineEndsWithComposition
  BY DEF IInv, Complete, Composed, Bounded, InlineEndsWithComposition, Composing, IsComposing
<1> QED BY <1>1, AlwaysComplete, PTL

\* Whatever has been selected, split and confirmed before, every text that is
\* sent to the application goes through the input from left to right and to its
\* end, and only behind a candidate that is shorter than its segment is
\* something left out (composition.cc, GetCommitText and GetScriptText).
THEOREM CommitOrder == Spec => []CommitInOrder
<1>1. IInv => CommitInOrder
  BY DEF IInv, Complete, Composed, Bounded, CommitInOrder
<1> QED BY <1>1, AlwaysComplete, PTL

-----------------------------------------------------------------------------
(* What the user has selected                                               *)

\* a selection that only BackSpace takes back
Held(seg) == seg.status >= kSelected /\ ~ IsEmpty(seg) /\ "raw" \notin seg.tags

\* the first k characters of the composition of c are still those of d's
Begins(c, d, k) == k <= Len(d.active) /\ Prefix(d.active, k) = Prefix(c.active, k)

\* all of them
Grows(c, d) == Begins(c, d, Len(c.active))

Alike(seg, new) ==
  /\ new.start = seg.start /\ new.end = seg.end /\ new.tags = seg.tags
  /\ new.cands = seg.cands /\ new.selected = seg.selected
  /\ new.status >= seg.status

\* What c holds is in d too, unless its part of the input is not.
Retains(c, d) ==
  \A i \in 1 .. Len(c.segs) :
    Held(c.segs[i]) /\ Begins(c, d, c.segs[i].end) =>
      i \in 1 .. Len(d.segs) /\ Alike(c.segs[i], d.segs[i])

\* What a selection leaves, if it does not commit.
Passes(c, d) == d.out # << >> \/ (Retains(c, d) /\ Grows(c, d))

\* The user can choose in the last segment: it is not held.
LEMMA HeldIsBefore ==
  ASSUME NEW segs \in Seq(Segment), Settled(segs),
         NEW i \in 1 .. Len(segs), Held(segs[i])
  PROVE  i < Len(segs)
<1>1. i \in Nat /\ Len(segs) \in Nat /\ segs # << >>
  OBVIOUS
<1>2. i # Len(segs)
  BY <1>1 DEF Settled, Held, Back, kGuess, kSelected
<1> QED BY <1>1, <1>2

\* Both relations are about the segments and the string they are about.
LEMMA SameRetains ==
  ASSUME NEW c, NEW d, NEW a, NEW b,
         c.segs = a.segs, c.active = a.active, d.segs = b.segs, d.active = b.active
  PROVE  /\ Retains(a, b) => Retains(c, d)
         /\ Grows(a, b) => Grows(c, d)
BY DEF Retains, Grows, Begins

\* A context holds what it holds,
LEMMA RetainsItself ==
  ASSUME NEW c \in ContextType
  PROVE  Retains(c, c) /\ Grows(c, c)
<1>1. /\ \A i \in 1 .. Len(c.segs) : c.segs[i] \in Segment
      /\ Len(c.active) \in Nat
  BY Members
<1>2. \A i \in 1 .. Len(c.segs) : Alike(c.segs[i], c.segs[i])
  <2>1. \A s \in Status : s >= s
    BY DEF Status, kVoid, kConfirmed
  <2> QED BY <1>1, <2>1 DEF Alike, Segment
<1> QED BY <1>1, <1>2 DEF Retains, Grows, Begins

\* and so on from one to the next, as long as the input only grows.
LEMMA RetainsTrans ==
  ASSUME NEW c, NEW d, NEW e, Sound(c), Sound(d), Sound(e),
         Retains(c, d), Grows(c, d), Retains(d, e)
  PROVE  Retains(c, e)
<1> SUFFICES ASSUME NEW i \in 1 .. Len(c.segs), Held(c.segs[i]),
                    Begins(c, e, c.segs[i].end)
             PROVE  i \in 1 .. Len(e.segs) /\ Alike(c.segs[i], e.segs[i])
  BY DEF Retains
<1> DEFINE k == c.segs[i].end
<1>1. /\ c.active \in Seq(Char) /\ d.active \in Seq(Char) /\ e.active \in Seq(Char)
      /\ c.segs \in Seq(Segment) /\ d.segs \in Seq(Segment) /\ e.segs \in Seq(Segment)
  BY Members DEF Sound, Bounded
<1>2. k \in Nat /\ k <= Len(c.active) /\ c.segs[i] \in Segment
  <2>1. c.segs[i] \in Segment
    BY <1>1
  <2> QED BY <2>1 DEF Sound, Chain, Segment
<1> HIDE DEF k
<1>3. Begins(c, d, k)
  <2>1. PICK a \in Seq(Char) : a = c.active
    BY <1>1
  <2>2. PICK b \in Seq(Char) : b = d.active
    BY <1>1
  <2>3. Len(a) <= Len(b) /\ Prefix(b, Len(a)) = Prefix(a, Len(a)) /\ k <= Len(a)
    BY <1>2, <2>1, <2>2 DEF Grows, Begins
  <2>4. k <= Len(b) /\ Prefix(b, k) = Prefix(a, k)
    <3>1. Len(a) \in Nat /\ Len(b) \in Nat /\ k <= Len(b)
      BY <1>2, <2>3
    <3>2. \A j \in 1 .. Len(a) : b[j] = a[j]
      <4> TAKE j \in 1 .. Len(a)
      <4>1. Prefix(b, Len(a))[j] = b[j] /\ Prefix(a, Len(a))[j] = a[j]
        BY <2>3, <3>1 DEF Prefix
      <4> QED BY <2>3, <4>1
    <3>3. /\ Prefix(b, k) \in Seq(Char) /\ Len(Prefix(b, k)) = k
          /\ Prefix(a, k) \in Seq(Char) /\ Len(Prefix(a, k)) = k
      BY <1>2, <2>3, <3>1, PrefixType
    <3>4. \A j \in 1 .. k : Prefix(b, k)[j] = Prefix(a, k)[j]
      <4> TAKE j \in 1 .. k
      <4>1. Prefix(b, k)[j] = b[j] /\ Prefix(a, k)[j] = a[j] /\ j \in 1 .. Len(a)
        BY <1>2, <2>3, <3>1 DEF Prefix
      <4> QED BY <3>2, <4>1
    <3> QED BY <3>1, <3>3, <3>4, SeqEqual
  <2> QED BY <2>1, <2>2, <2>4 DEF Begins
<1>4. i \in 1 .. Len(d.segs) /\ Alike(c.segs[i], d.segs[i])
  BY <1>3 DEF Retains, k
<1>5. /\ c.segs[i].status \in Nat /\ d.segs[i].status \in Nat
      /\ d.segs[i] \in Segment
  <2>1. d.segs[i] \in Segment
    BY <1>1, <1>4
  <2>2. \A seg \in Segment : seg.status \in Nat
    BY DEF Segment, Status, kVoid, kConfirmed
  <2> QED BY <1>2, <2>1, <2>2
<1>6. Held(d.segs[i])
  BY <1>4, <1>5 DEF Held, Alike, IsEmpty, kSelected
<1>7. Begins(d, e, d.segs[i].end)
  BY <1>3, <1>4 DEF Begins, Alike, k
<1>8. i \in 1 .. Len(e.segs) /\ Alike(d.segs[i], e.segs[i])
  BY <1>4, <1>6, <1>7 DEF Retains
<1>9. e.segs[i].status \in Nat
  <2>1. e.segs[i] \in Segment
    BY <1>1, <1>8
  <2>2. \A seg \in Segment : seg.status \in Nat
    BY DEF Segment, Status, kVoid, kConfirmed
  <2> QED BY <2>1, <2>2
<1> QED BY <1>4, <1>5, <1>8, <1>9 DEF Alike

\* A composition that is gone retains nothing of the input.
LEMMA EmptyRetains ==
  ASSUME NEW c, Sound(c), NEW d, Len(d.active) = 0
  PROVE  Retains(c, d)
<1> SUFFICES ASSUME NEW i \in 1 .. Len(c.segs), Held(c.segs[i]),
                    c.segs[i].end <= 0
             PROVE  FALSE
  BY DEF Retains, Begins
<1>1. c.segs[i] \in Segment /\ Fine(c.segs[i])
  <2>1. c.segs \in Seq(Segment)
    BY Members DEF Sound, Bounded
  <2> QED BY <2>1 DEF Sound, Chain
<1>2. c.segs[i].start \in Nat /\ c.segs[i].end \in Nat /\ c.segs[i].start <= c.segs[i].end
  BY <1>1 DEF Segment, Fine, Loose
<1> QED BY <1>2 DEF Held, IsEmpty

\* Engine::Compose leaves what is held, since Reset and the segmentors do.
LEMMA ComposeRetains ==
  ASSUME NEW c, Sound(c), Settled(c.segs)
  PROVE  Retains(c, Compose(c))
<1> DEFINE input == Prefix(c.input, c.caret)
           new == TranslateSegments(CalculateSegmentation(
                    Reset(c.segs, c.active, input), input, c.ascii), input)
           d == Compose(c)
<1>1. /\ c \in ContextType /\ c.input \in Seq(Char) /\ c.caret \in Nat
      /\ c.active \in Seq(Char) /\ c.ascii \in BOOLEAN /\ c.segs \in Seq(Segment)
      /\ Len(c.active) \in Nat /\ Chain(c.segs, Len(c.active))
      /\ c.caret <= Len(c.input)
  BY Members DEF Sound, Bounded
<1>2. input \in Seq(Char) /\ Len(input) \in Nat
  BY <1>1, PrefixType
<1> HIDE DEF input
<1>3. d.active = input /\ d.segs = new
  <2> DEFINE e == [c EXCEPT !.active = input, !.segs = new]
  <2>1. d = e
    BY DEF Compose, input
  <2> HIDE DEF new, d
  <2>2. e.active = input /\ e.segs = new
    BY <1>1 DEF ContextType
  <2> QED BY <2>1, <2>2
<1> HIDE DEF d
<1> SUFFICES ASSUME NEW i \in 1 .. Len(c.segs), Held(c.segs[i]),
                    Begins(c, d, c.segs[i].end)
             PROVE  i \in 1 .. Len(d.segs) /\ Alike(c.segs[i], d.segs[i])
  BY DEF Retains, d
<1>4. PICK k \in Nat : k = c.segs[i].end /\ k <= Len(c.active)
  <2>1. c.segs[i] \in Segment
    BY <1>1
  <2> QED BY <1>1, <2>1 DEF Chain, Segment
<1>5. k <= Len(input) /\ Prefix(input, k) = Prefix(c.active, k)
  BY <1>3, <1>4 DEF Begins
<1>6. \A j \in 1 .. k : c.active[j] = input[j]
  <2> TAKE j \in 1 .. k
  <2>1. Prefix(input, k)[j] = input[j] /\ Prefix(c.active, k)[j] = c.active[j]
    BY SMTT(20), <1>1, <1>2, <1>4, <1>5 DEF Prefix
  <2> QED BY <1>5, <2>1
<1>7. k <= DiffPos(c.active, input)
  BY <1>1, <1>2, <1>4, <1>5, <1>6, DiffPosBehind
<1>8. i < Len(c.segs) /\ c.segs[i].status >= kSelected /\ "raw" \notin c.segs[i].tags
  BY <1>1, HeldIsBefore DEF Held
<1>9. Stays(c.segs, new, i)
  BY <1>1, <1>2, <1>4, <1>7, <1>8, SelectedStays DEF Unextended
<1>10. i \in 1 .. Len(d.segs) /\ d.segs[i] = c.segs[i]
  BY <1>3, <1>9 DEF Stays
<1>11. Alike(c.segs[i], c.segs[i])
  <2>1. \A s \in Status : s >= s
    BY DEF Status, kVoid, kConfirmed
  <2>2. c.segs[i].status \in Status
    <3>1. c.segs[i] \in Segment
      BY <1>1
    <3> QED BY <3>1 DEF Segment
  <2> QED BY <2>1, <2>2 DEF Alike
<1> QED BY <1>10, <1>11

\* AsciiComposer changes nothing of that,
LEMMA UpdateRetains ==
  ASSUME NEW c, Sound(c), Settled(c.segs)
  PROVE  Retains(c, Update(c))
<1> DEFINE d == Compose(c)
           e == [d EXCEPT !.inline = FALSE]
           f == [e EXCEPT !.ascii = FALSE]
<1>1. d \in ContextType /\ c \in ContextType
  BY ComposeComposed DEF Composed, Sound, Bounded
<1>2. Update(c) = IF d.inline /\ ~ IsComposing(d) THEN f ELSE d
  BY DEF Update, OnContextUpdate
<1>3. Retains(c, d)
  BY ComposeRetains
<1> HIDE DEF d
<1>4. f.segs = d.segs /\ f.active = d.active
  BY <1>1 DEF ContextType
<1>5. Retains(c, f)
  BY <1>3, <1>4, SameRetains
<1> QED BY <1>2, <1>3, <1>5

\* and editing the input or the caret before it changes nothing either.
LEMMA EditRetains ==
  ASSUME NEW c, Complete(c), NEW d, Sound(d), d.segs = c.segs, d.active = c.active
  PROVE  Retains(c, Update(d))
<1>1. Retains(d, Update(d))
  BY UpdateRetains DEF Complete, Composed
<1> QED BY <1>1, SameRetains

\* The composition grows with the caret.
LEMMA CaretGrows ==
  ASSUME NEW c, Composed(c), NEW d, Composed(d), d.input = c.input,
         c.caret <= d.caret
  PROVE  Grows(c, d)
<1>1. PICK s \in Seq(Char) : s = c.input
  BY Members DEF Composed, Bounded
<1>2. /\ c.caret \in Nat /\ d.caret \in Nat /\ c.caret <= Len(s) /\ d.caret <= Len(s)
      /\ Len(s) \in Nat
      /\ c.active = Prefix(s, c.caret) /\ d.active = Prefix(s, d.caret)
  BY <1>1, Members DEF Composed, Bounded
<1> DEFINE m == c.caret
           n == d.caret
           a == Prefix(s, m)
           b == Prefix(s, n)
<1>3. m \in Nat /\ n \in Nat /\ m <= n /\ n <= Len(s) /\ m <= Len(s)
  BY <1>2
<1>4. a = c.active /\ b = d.active
  BY <1>2
<1> HIDE DEF m, n
<1>5. a \in Seq(Char) /\ b \in Seq(Char) /\ Len(a) = m /\ Len(b) = n
  BY <1>3, PrefixType
<1>6. /\ \A j \in 1 .. m : a[j] = s[j]
      /\ \A j \in 1 .. n : b[j] = s[j]
  BY <1>3 DEF Prefix
<1> HIDE DEF a, b
<1>7. /\ Prefix(b, m) \in Seq(Char) /\ Len(Prefix(b, m)) = m
      /\ Prefix(a, m) \in Seq(Char) /\ Len(Prefix(a, m)) = m
  BY <1>3, <1>5, PrefixType
<1>8. \A j \in 1 .. m : Prefix(b, m)[j] = Prefix(a, m)[j]
  <2> TAKE j \in 1 .. m
  <2>1. Prefix(b, m)[j] = b[j] /\ Prefix(a, m)[j] = a[j] /\ j \in 1 .. n
    BY <1>3, <1>5 DEF Prefix
  <2> QED BY <1>6, <2>1
<1>9. Prefix(b, m) = Prefix(a, m)
  BY <1>3, <1>7, <1>8, SeqEqual
<1> QED BY <1>3, <1>4, <1>5, <1>9 DEF Grows, Begins

\* The arrows, Home and End,
LEMMA CaretRetains ==
  ASSUME NEW c, Complete(c), NEW pos \in Nat
  PROVE  Retains(c, set_caret_pos(c, pos))
<1> DEFINE caret == IF pos > Len(c.input) THEN Len(c.input) ELSE pos
           d == [c EXCEPT !.caret = caret]
<1>1. c \in ContextType /\ Len(c.input) \in Nat /\ Sound(c) /\ Len(c.input) <= MaxInput
  BY CompleteMembers, CompleteIsSound
<1>2. caret \in Nat /\ caret <= Len(c.input)
  BY <1>1
<1>3. set_caret_pos(c, pos) = Update(d)
  BY DEF set_caret_pos
<1> HIDE DEF caret
<1>4. /\ d \in ContextType /\ d.input = c.input /\ d.caret = caret
      /\ d.active = c.active /\ d.segs = c.segs /\ d.out = c.out
      /\ d.ascii = c.ascii /\ d.inline = c.inline
  BY <1>1, <1>2 DEF ContextType
<1> HIDE DEF d
<1>5. Sound(d)
  BY <1>1, <1>2, <1>4 DEF Sound, Bounded
<1> QED BY <1>3, <1>4, <1>5, EditRetains

\* what clears the composition,
LEMMA ClearRetains ==
  ASSUME NEW c, Sound(c), NEW d, Complete(d), d.input = << >>
  PROVE  Retains(c, d)
<1>1. d.active = Prefix(d.input, d.caret) /\ d.caret \in Nat /\ d.caret <= Len(<< >>)
  BY CompleteMembers DEF Complete, Composed
<1>2. Len(d.active) = 0
  <2>1. PICK s \in Seq(Char) : s = d.input /\ Len(s) = 0
    BY CompleteMembers
  <2>2. PICK n \in Nat : n = d.caret /\ n <= Len(s)
    BY <1>1, <2>1
  <2>3. n = 0
    BY <2>1, <2>2
  <2>4. Len(Prefix(s, n)) = n
    BY <2>2, PrefixType
  <2> QED BY <1>1, <2>1, <2>2, <2>3, <2>4
<1> QED BY <1>2, EmptyRetains

\* Escape and Delete,
LEMMA InputRetains ==
  ASSUME NEW c, Complete(c), NEW value \in Seq(Char), Len(value) <= MaxInput
  PROVE  Retains(c, set_input(c, value))
BY CompleteIsSound, InputEdits, EditRetains DEF Edits

LEMMA DeleteRetains ==
  ASSUME NEW c, Complete(c)
  PROVE  Retains(c, DeleteInput(c))
BY CompleteMembers, DeleteEdits, EditRetains, RetainsItself DEF Edits

\* and every character that goes into the input, which makes it longer.
LEMMA PushRetains ==
  ASSUME NEW c, Complete(c), Len(c.input) < MaxInput, NEW ch \in Char
  PROVE  Retains(c, PushInput(c, ch)) /\ Grows(c, PushInput(c, ch))
<1> DEFINE front == Prefix(c.input, c.caret)
           rest == Suffix(c.input, c.caret)
           s == front \o << ch >> \o rest
           m == c.caret
           e == PushInput(c, ch)
<1>1. PICK d : /\ Edits(c, d) /\ e = Update(d)
               /\ d.input = s /\ d.caret = c.caret + 1
  BY CompleteIsSound, PushEdits
<1>2. Retains(c, e)
  BY <1>1, EditRetains DEF Edits
<1>3. Complete(e) /\ e.input = s /\ e.caret = m + 1
  BY <1>1, UpdateComplete DEF Edits
<1>4. /\ m \in Nat /\ c.active = front /\ e.active = Prefix(s, m + 1)
      /\ front \in Seq(Char) /\ rest \in Seq(Char) /\ Len(front) = m
      /\ Len(rest) \in Nat
  <2>1. c.input \in Seq(Char) /\ c.caret \in Nat /\ c.caret <= Len(c.input)
    BY CompleteMembers
  <2>2. front \in Seq(Char) /\ Len(front) = m /\ rest \in Seq(Char)
    BY <2>1, PrefixType, SuffixType
  <2>3. c.active = front /\ e.active = Prefix(s, m + 1)
    BY <1>3 DEF Complete, Composed
  <2>4. Len(rest) \in Nat
    BY <2>2
  <2> QED BY <2>1, <2>2, <2>3, <2>4
<1> HIDE DEF front, rest, m, e
<1>5. /\ s \in Seq(Char) /\ Len(s) = m + 1 + Len(rest)
      /\ \A j \in 1 .. m : s[j] = front[j]
  <2> DEFINE start == front \o << ch >>
  <2>1. /\ start \in Seq(Char) /\ Len(start) = m + 1
        /\ \A j \in 1 .. m : start[j] = front[j]
    BY <1>4, ConcatProperties
  <2> HIDE DEF start
  <2>2. /\ start \o rest \in Seq(Char) /\ Len(start \o rest) = Len(start) + Len(rest)
        /\ \A j \in 1 .. Len(start) + Len(rest) :
             (start \o rest)[j] = IF j <= Len(start) THEN start[j] ELSE rest[j - Len(start)]
    BY <1>4, <2>1, ConcatProperties
  <2>3. \A j \in 1 .. m : (start \o rest)[j] = front[j]
    BY <1>4, <2>1, <2>2
  <2>4. s = start \o rest
    BY DEF start
  <2> QED BY <1>4, <2>1, <2>2, <2>3, <2>4
<1> HIDE DEF s
<1>6. /\ e.active \in Seq(Char) /\ Len(e.active) = m + 1
      /\ \A j \in 1 .. m : e.active[j] = front[j]
  <2>1. m + 1 \in Nat /\ m + 1 <= Len(s)
    BY <1>4, <1>5
  <2>2. Prefix(s, m + 1) \in Seq(Char) /\ Len(Prefix(s, m + 1)) = m + 1
    BY <1>5, <2>1, PrefixType
  <2>3. \A j \in 1 .. m + 1 : Prefix(s, m + 1)[j] = s[j]
    BY <1>5, <2>1 DEF Prefix
  <2>4. \A j \in 1 .. m : Prefix(s, m + 1)[j] = front[j]
    BY <1>4, <1>5, <2>3
  <2>5. e.active = Prefix(s, m + 1)
    BY <1>4
  <2> QED BY <2>2, <2>4, <2>5
<1>7. PICK a \in Seq(Char) : a = e.active
  BY <1>6
<1>8. Prefix(a, m) = Prefix(front, m)
  <2>1. m <= Len(a) /\ m <= Len(front)
    BY <1>4, <1>6, <1>7
  <2>2. /\ Prefix(a, m) \in Seq(Char) /\ Len(Prefix(a, m)) = m
        /\ Prefix(front, m) \in Seq(Char) /\ Len(Prefix(front, m)) = m
    BY <1>4, <2>1, PrefixType
  <2>3. ASSUME NEW j \in 1 .. m PROVE Prefix(a, m)[j] = Prefix(front, m)[j]
    <3>1. Prefix(a, m)[j] = a[j] /\ Prefix(front, m)[j] = front[j]
      BY <1>4, <2>1 DEF Prefix
    <3> QED BY <1>6, <1>7, <3>1
  <2> QED BY <1>4, <2>2, <2>3, SeqEqual
<1>9. Grows(c, e)
  BY <1>4, <1>6, <1>7, <1>8 DEF Grows, Begins
<1> QED BY <1>2, <1>9 DEF e

\* A commit sends something.
LEMMA CommitSends ==
  ASSUME NEW c, Sound(c), IsComposing(c)
  PROVE  Commit(c).out # << >>
<1> DEFINE d == Sink(c, GetCommitText(c), FALSE)
<1>1. c \in ContextType /\ Chain(c.segs, Len(c.active))
  BY DEF Sound, Bounded
<1>2. Sound(d) /\ d.out # << >>
  BY <1>1, CommitText, SinkSound
<1>3. Commit(c) = Clear(d)
  BY DEF Commit
<1> HIDE DEF d
<1> QED BY <1>2, <1>3, ClearComplete

\* What differs from c in its last segment retains the others.
LEMMA OthersRetained ==
  ASSUME NEW c, Complete(c), NEW e, e.active = c.active, SameButLast(c, e)
  PROVE  Retains(c, e) /\ Grows(c, e)
<1>1. Retains(c, c) /\ Grows(c, c) /\ c.segs \in Seq(Segment) /\ Settled(c.segs)
  BY CompleteMembers, RetainsItself DEF Complete, Composed
<1>2. ASSUME NEW i \in 1 .. Len(c.segs), Held(c.segs[i]), Begins(c, e, c.segs[i].end)
      PROVE  i \in 1 .. Len(e.segs) /\ Alike(c.segs[i], e.segs[i])
  <2>1. Begins(c, c, c.segs[i].end)
    <3>1. Chain(c.segs, Len(c.active))
      BY CompleteMembers
    <3> QED BY <3>1 DEF Begins, Chain
  <2>2. Alike(c.segs[i], c.segs[i])
    BY <1>1, <1>2, <2>1 DEF Retains
  <2>3. Stays(c.segs, e.segs, i)
    BY <1>1, <1>2, HeldIsBefore DEF SameButLast
  <2> QED BY <2>2, <2>3 DEF Stays
<1> QED BY <1>1, <1>2 DEF Retains, Grows, Begins

\* The slot of select_notifier_, on each of its ways,
LEMMA OnSelectPasses ==
  ASSUME NEW c, Complete(c), c.segs # << >>, NEW reached \in BOOLEAN,
         NEW chosen \in Segment, Loose(chosen), chosen.status = kSelected,
         chosen.start = Back(c.segs).start, chosen.end = Back(c.segs).end,
         NEW d, d = [c EXCEPT !.segs = SetBack(c.segs, chosen)]
  PROVE  Passes(c, OnSelect(d, reached))
<1> DEFINE new == OnSelect(d, reached)
<1>0. /\ Sound(c) /\ Composed(c) /\ c.caret \in Nat /\ c.caret <= Len(c.input)
      /\ Len(c.input) \in Nat
  BY CompleteMembers, CompleteIsSound DEF Complete
<1>1. ASSUME NEW e, Sound(e), IsComposing(e), new = Commit(e)
      PROVE  Passes(c, new)
  BY <1>1, CommitSends DEF Passes
<1>2. ASSUME NEW e, Chooses(c, e), \/ new = e /\ Complete(e)
                                  \/ new = set_caret_pos(e, Len(c.input))
                                  \/ new = Compose(e)
      PROVE  Passes(c, new)
  <2>1. /\ Sound(e) /\ Settled(e.segs) /\ e.input = c.input /\ e.caret = c.caret
        /\ e.active = c.active
    BY <1>2 DEF Chooses
  <2>2. Retains(c, e) /\ Grows(c, e)
    BY <1>2, OthersRetained DEF Chooses
  <2>3. CASE new = set_caret_pos(e, Len(c.input))
    <3> DEFINE f == [e EXCEPT !.caret = Len(c.input)]
    <3>1. /\ f \in ContextType /\ f.input = c.input /\ f.caret = Len(c.input)
          /\ f.active = e.active /\ f.segs = e.segs /\ f.out = e.out
          /\ f.ascii = e.ascii /\ f.inline = e.inline
      <4>1. e \in ContextType
        BY <2>1 DEF Sound, Bounded
      <4> QED BY <1>0, <2>1, <4>1 DEF ContextType
    <3>2. new = Update(f)
      <4>1. (IF Len(c.input) > Len(c.input) THEN Len(c.input) ELSE Len(c.input))
              = Len(c.input)
        OBVIOUS
      <4> QED BY <2>1, <2>3, <4>1 DEF set_caret_pos
    <3> HIDE DEF f
    <3>3. Sound(f)
      <4>1. f.caret <= Len(f.input)
        BY <1>0, <3>1
      <4> QED BY <2>1, <3>1, <4>1 DEF Sound, Bounded
    <3>4. Retains(e, Update(f))
      <4>1. Retains(f, Update(f))
        BY <2>1, <3>1, <3>3, UpdateRetains
      <4> QED BY <3>1, <4>1, SameRetains
    <3>5. /\ Complete(Update(f)) /\ Update(f).input = c.input
          /\ Update(f).caret = Len(c.input)
      BY <3>1, <3>3, UpdateComplete
    <3>6. Grows(c, Update(f))
      BY <1>0, <3>5, CaretGrows DEF Complete
    <3>7. Retains(c, Update(f))
      BY <1>0, <2>1, <2>2, <3>4, <3>5, CompleteIsSound, RetainsTrans
    <3> QED BY <3>2, <3>6, <3>7 DEF Passes
  <2>4. CASE new = Compose(e)
    <3>1. Retains(e, Compose(e))
      BY <2>1, ComposeRetains
    <3>2. /\ Composed(Compose(e)) /\ Compose(e).input = c.input
          /\ Compose(e).caret = c.caret
      BY <2>1, ComposeComposed DEF Keeps
    <3>3. Sound(Compose(e))
      BY <3>2 DEF Composed, Sound, Finished
    <3>4. Retains(c, Compose(e))
      BY <1>0, <2>1, <2>2, <3>1, <3>3, RetainsTrans
    <3>5. Grows(c, Compose(e))
      <4>1. c.caret <= Compose(e).caret
        BY <1>0, <3>2
      <4> QED BY <1>0, <3>2, <4>1, CaretGrows
    <3> QED BY <2>4, <3>4, <3>5 DEF Passes
  <2> QED BY <1>2, <2>2, <2>3, <2>4 DEF Passes
<1>3. \/ \E e : /\ Sound(e) /\ IsComposing(e) /\ e.input = c.input
                /\ e.inline = c.inline /\ new = Commit(e)
      \/ \E e : /\ Chooses(c, e)
                /\ \/ new = e /\ Complete(e)
                   \/ new = set_caret_pos(e, Len(c.input))
                   \/ new = Compose(e)
  BY OnSelectCases
<1> HIDE DEF new
<1>4. Passes(c, new)
  BY <1>1, <1>2, <1>3
<1> QED BY <1>4 DEF new

\* a digit,
LEMMA SelectPasses ==
  ASSUME NEW c, Complete(c), NEW index \in Nat, NEW reached \in BOOLEAN
  PROVE  Passes(c, Select(c, index, reached))
<1>1. Passes(c, c)
  BY CompleteMembers, RetainsItself DEF Passes
<1>2. ASSUME NEW chosen \in Segment, NEW d, Selects(c, chosen, d)
      PROVE  Passes(c, OnSelect(d, reached))
  BY <1>2, OnSelectPasses DEF Selects
<1> QED BY <1>1, <1>2, SelectCases

\* Space, and whatever else confirms.
LEMMA ConfirmPasses ==
  ASSUME NEW c, Complete(c), NEW reached \in BOOLEAN
  PROVE  Passes(c, ConfirmCurrentSelection(c, reached))
<1> DEFINE new == ConfirmCurrentSelection(c, reached)
<1>1. Passes(c, c)
  BY CompleteMembers, RetainsItself DEF Passes
<1>2. ASSUME NEW chosen \in Segment, NEW d, Selects(c, chosen, d)
      PROVE  Passes(c, OnSelect(d, reached)) /\ Passes(c, d)
  <2>1. Passes(c, OnSelect(d, reached))
    BY <1>2, OnSelectPasses DEF Selects
  <2>2. d.active = c.active /\ d.segs = SetBack(c.segs, chosen)
    BY <1>2, CompleteMembers DEF Selects, ContextType
  <2>3. SameButLast(c, d)
    BY <2>2, CompleteMembers, SetBackStays DEF SameButLast
  <2> QED BY <2>1, <2>2, <2>3, OthersRetained DEF Passes
<1> HIDE DEF new
<1>3. Passes(c, new)
  BY <1>1, <1>2, ConfirmCases DEF new
<1> QED BY <1>3 DEF new

\* Context::ConfirmPreviousSelection only raises a status.
LEMMA ConfirmPreviousRetains ==
  ASSUME NEW c, Complete(c)
  PROVE  /\ Retains(c, ConfirmPreviousSelection(c))
         /\ Grows(c, ConfirmPreviousSelection(c))
         /\ ConfirmPreviousSelection(c).out = c.out
<1> DEFINE i == CHOOSE k \in LastSelected(c.segs) : TRUE
           seg == [c.segs[i] EXCEPT !.status = kConfirmed]
           new == [c.segs EXCEPT ![i] = seg]
           d == [c EXCEPT !.segs = new]
<1>0. c \in ContextType /\ c.segs \in Seq(Segment) /\ Retains(c, c) /\ Grows(c, c)
  BY CompleteMembers, RetainsItself
<1>1. CASE ConfirmPreviousSelection(c) = c
  BY <1>0, <1>1
<1>2. CASE LastSelected(c.segs) # {} /\ ConfirmPreviousSelection(c) # c
  <2>1. i \in 1 .. Len(c.segs) /\ c.segs[i] \in Segment
    BY <1>0, <1>2, LastSelectedIn
  <2>2. ConfirmPreviousSelection(c) = d
    <3>1. [c EXCEPT !.segs[i].status = kConfirmed] = d
      OBVIOUS
    <3> QED BY <1>2, <3>1 DEF ConfirmPreviousSelection
  <2> HIDE DEF i
  <2>3. /\ seg.start = c.segs[i].start /\ seg.end = c.segs[i].end
        /\ seg.tags = c.segs[i].tags /\ seg.cands = c.segs[i].cands
        /\ seg.selected = c.segs[i].selected /\ seg.status = kConfirmed
    BY <2>1 DEF Segment
  <2>4. Alike(c.segs[i], seg)
    <3>1. c.segs[i].status \in Status
      BY <2>1 DEF Segment
    <3>2. kConfirmed >= c.segs[i].status
      BY <3>1 DEF Status, kVoid, kConfirmed
    <3> QED BY <2>3, <3>2 DEF Alike
  <2> HIDE DEF seg
  <2>5. /\ Len(new) = Len(c.segs) /\ DOMAIN new = 1 .. Len(c.segs)
        /\ \A j \in 1 .. Len(c.segs) : new[j] = IF j = i THEN seg ELSE c.segs[j]
    BY <1>0, <2>1
  <2> HIDE DEF new
  <2>6. d.segs = new /\ d.active = c.active /\ d.out = c.out
    BY <1>0 DEF ContextType
  <2> HIDE DEF d
  <2>7. ASSUME NEW j \in 1 .. Len(c.segs), Held(c.segs[j]), Begins(c, d, c.segs[j].end)
        PROVE  j \in 1 .. Len(d.segs) /\ Alike(c.segs[j], d.segs[j])
    <3>1. Begins(c, c, c.segs[j].end)
      BY <2>6, <2>7 DEF Begins
    <3>2. Alike(c.segs[j], c.segs[j])
      BY <1>0, <2>7, <3>1 DEF Retains
    <3> QED BY <2>4, <2>5, <2>6, <3>2
  <2>8. Grows(c, d)
    BY <1>0, <2>6 DEF Grows, Begins
  <2> QED BY <2>2, <2>6, <2>7, <2>8 DEF Retains
<1>3. CASE LastSelected(c.segs) = {}
  BY <1>0, <1>3 DEF ConfirmPreviousSelection
<1> QED BY <1>1, <1>2, <1>3

\* Context::ClearNonConfirmedComposition drops only what is not selected.
LEMMA ClearNonConfirmedRetains ==
  ASSUME NEW c, Complete(c)
  PROVE  /\ Retains(c, ClearNonConfirmedComposition(c))
         /\ Grows(c, ClearNonConfirmedComposition(c))
         /\ Settled(ClearNonConfirmedComposition(c).segs)
<1> DEFINE drop == {i \in DOMAIN c.segs : c.segs[i].status < kSelected}
           kept == PopBackWhile(c.segs, drop)
           d == [c EXCEPT !.segs = Forward(kept)]
<1>1. /\ Chain(c.segs, Len(c.active)) /\ Len(c.active) \in Nat
      /\ c.segs \in Seq(Segment) /\ DOMAIN c.segs = 1 .. Len(c.segs)
      /\ c \in ContextType /\ Settled(c.segs) /\ Retains(c, c) /\ Grows(c, c)
      /\ Len(c.segs) \in Nat
  BY CompleteMembers, RetainsItself DEF Complete, Composed
<1>2. ClearNonConfirmedComposition(c) = IF Len(kept) < Len(c.segs) THEN d ELSE c
  BY DEF ClearNonConfirmedComposition
<1>3. drop \in SUBSET (1 .. Len(c.segs)) /\ \A i \in drop : c.segs[i].status < kSelected
  BY <1>1
<1> HIDE DEF drop
<1>4. PICK m \in 0 .. Len(c.segs) :
        /\ \A j \in m + 1 .. Len(c.segs) : j \in drop
        /\ Chain(kept, Len(c.active)) /\ Len(kept) = m
        /\ \A j \in 1 .. m : kept[j] = c.segs[j]
  BY <1>1, <1>3, PopBackWhileChain
<1> HIDE DEF kept
<1>5. kept \in Seq(Segment) /\ Settled(Forward(kept))
  BY <1>4, ForwardSettled DEF Chain
<1>6. d.segs = Forward(kept) /\ d.active = c.active
  BY <1>1 DEF ContextType
<1> HIDE DEF d
<1>7. Retains(c, d)
  <2> SUFFICES ASSUME NEW i \in 1 .. Len(c.segs), Held(c.segs[i]),
                      Begins(c, d, c.segs[i].end)
               PROVE  i \in 1 .. Len(d.segs) /\ Alike(c.segs[i], d.segs[i])
    BY DEF Retains
  <2>1. Begins(c, c, c.segs[i].end)
    BY <1>6 DEF Begins
  <2>2. Alike(c.segs[i], c.segs[i])
    BY <1>1, <2>1 DEF Retains
  <2>3. i \notin drop
    <3>1. c.segs[i].status \in Nat
      <4>1. \A seg \in Segment : seg.status \in Nat
        BY DEF Segment, Status, kVoid, kConfirmed
      <4> QED BY <1>1, <4>1
    <3> QED BY <1>3, <3>1 DEF Held, kSelected
  <2>4. i \in 1 .. Len(kept) /\ kept[i] = c.segs[i]
    BY <1>1, <1>4, <2>3
  <2>5. Stays(kept, Forward(kept), i)
    BY <1>5, <2>4, ForwardStays
  <2> QED BY <1>6, <2>2, <2>4, <2>5 DEF Stays
<1>8. Grows(c, d)
  BY <1>1, <1>6 DEF Grows, Begins
<1> QED BY <1>1, <1>2, <1>5, <1>6, <1>7, <1>8

\* The slot of the engine on ascii_mode composes the rest anew.
LEMMA SetAsciiRetains ==
  ASSUME NEW c, NEW value, NEW d, d = [c EXCEPT !.ascii = value], Complete(d),
         c \in ContextType
  PROVE  Retains(c, set_ascii_mode(c, value)) /\ set_ascii_mode(c, value).out = c.out
<1>1. set_ascii_mode(c, value) =
        IF IsComposing(d) THEN RefreshNonConfirmedComposition(d) ELSE d
  BY DEF set_ascii_mode
<1>2. d.segs = c.segs /\ d.active = c.active /\ d.out = c.out
  BY DEF ContextType
<1>3. Retains(d, d) /\ d \in ContextType /\ Sound(d)
  BY CompleteMembers, CompleteIsSound, RetainsItself
<1> DEFINE e == ClearNonConfirmedComposition(d)
<1>4. /\ Sound(e) /\ Retains(d, e) /\ Grows(d, e) /\ Settled(e.segs)
  BY ClearNonConfirmedSound, ClearNonConfirmedRetains
<1>5. e.out = d.out
  BY <1>3 DEF ClearNonConfirmedComposition, ContextType
<1> HIDE DEF e
<1>6. Retains(e, Update(e)) /\ Sound(Update(e)) /\ Update(e).out = d.out
  BY <1>4, <1>5, UpdateRetains, UpdateComplete, CompleteIsSound
<1>7. Retains(d, Update(e))
  BY <1>3, <1>4, <1>6, RetainsTrans
<1>8. \/ RefreshNonConfirmedComposition(d) = d
      \/ RefreshNonConfirmedComposition(d) = Update(e)
  BY DEF RefreshNonConfirmedComposition, e
<1> DEFINE f == set_ascii_mode(c, value)
<1>9. f = d \/ f = Update(e)
  BY <1>1, <1>8
<1> HIDE DEF f
<1>10. Retains(d, f) /\ f.out = d.out
  BY <1>3, <1>6, <1>7, <1>9
<1> QED BY <1>2, <1>10, SameRetains DEF f

\* AddToInput does both: it pushes, then confirms.
LEMMA AddRetains ==
  ASSUME NEW c, Complete(c), Len(c.input) < MaxInput, NEW ch \in Char
  PROVE  Retains(c, AddToInput(c, ch)) /\ AddToInput(c, ch).out = c.out
<1> DEFINE d == PushInput(c, ch)
           e == ConfirmPreviousSelection(d)
<1>1. Complete(d) /\ d.out = c.out /\ Retains(c, d) /\ Grows(c, d)
  BY CompleteIsSound, PushComplete, PushRetains
<1> HIDE DEF d
<1>2. Complete(e) /\ Retains(d, e) /\ e.out = d.out
  BY <1>1, ConfirmPreviousComplete, ConfirmPreviousRetains
<1>3. AddToInput(c, ch) = e
  BY DEF AddToInput, d
<1> HIDE DEF e
<1> QED BY <1>1, <1>2, <1>3, CompleteIsSound, RetainsTrans

\* What follows a selection retains what was there before it, or it commits.
LEMMA PassesTrans ==
  ASSUME NEW c, Complete(c), NEW d, Complete(d), NEW e, Complete(e),
         Passes(c, d), Retains(d, e), d.out # << >> => e.out # << >>
  PROVE  e.out # << >> \/ Retains(c, e)
BY CompleteIsSound, RetainsTrans DEF Passes

\* What a key other than BackSpace leaves of the context.
Stands == ctx'.out # << >> \/ Retains(ctx, ctx')

LEMMA FreshStands ==
  ASSUME IInv, ctx'.out # << >> \/ Retains(Fresh, ctx') PROVE Stands
<1>1. Fresh.segs = ctx.segs /\ Fresh.active = ctx.active
  BY FreshComplete
<1>2. Retains(Fresh, ctx') => Retains(ctx, ctx')
  BY <1>1, SameRetains
<1> QED BY <1>2 DEF Stands

LEMMA SpellStands ==
  ASSUME IInv, NEW ch \in Char, SpellChar(ch)
  PROVE  Stands
<1>1. PICK reached \in BOOLEAN :
        ctx' = AddToInput(IF CodeIsFull(ch)
                          THEN ConfirmCurrentSelection(Fresh, reached)
                          ELSE Fresh, ch)
  BY DEF SpellChar
<1> DEFINE c == IF CodeIsFull(ch) THEN ConfirmCurrentSelection(Fresh, reached) ELSE Fresh
<1>2. Complete(Fresh) /\ Len(Fresh.input) < MaxInput /\ Len(Fresh.input) \in Nat
  BY FreshComplete, CompleteMembers DEF SpellChar, Room
<1>3. Complete(c) /\ Len(c.input) <= Len(Fresh.input) /\ Passes(Fresh, c)
  <2>1. Passes(Fresh, Fresh)
    BY <1>2, CompleteMembers, RetainsItself DEF Passes
  <2>2. Len(Fresh.input) <= Len(Fresh.input)
    BY <1>2
  <2> QED BY <1>2, <2>1, <2>2, ConfirmComplete, ConfirmPasses
<1>4. Len(c.input) \in Nat
  BY <1>3, CompleteMembers
<1>5. ctx' = AddToInput(c, ch)
  BY <1>1
<1> HIDE DEF c
<1>6. Len(c.input) < MaxInput
  BY <1>2, <1>3, <1>4, BoundAssumption
<1>7. Complete(ctx') /\ Retains(c, ctx') /\ ctx'.out = c.out
  BY <1>3, <1>5, <1>6, AddComplete, AddRetains
<1>8. ctx'.out # << >> \/ Retains(Fresh, ctx')
  BY <1>2, <1>3, <1>7, PassesTrans
<1> QED BY <1>8, FreshStands

LEMMA PunctStands ==
  ASSUME IInv, NEW ch \in Char, PunctChar(ch)
  PROVE  Stands
<1> DEFINE c == PushInput(Fresh, ch)
<1>1. PICK reached \in BOOLEAN :
        ctx' = CASE PunctDef[ch] = "unique" -> ConfirmCurrentSelection(c, reached)
                 [] PunctDef[ch] = "commit" -> Commit(c)
                 [] PunctDef[ch] = "pair" -> PairPunct(c, reached)
                 [] PunctDef[ch] = "list" -> c
  BY DEF PunctChar
<1>2. /\ Complete(Fresh) /\ Sound(Fresh) /\ Complete(c) /\ Sound(c) /\ IsComposing(c)
      /\ Retains(Fresh, c) /\ Grows(Fresh, c)
  BY FreshComplete, PushStep, PushRetains, CompleteIsSound
     DEF PunctChar, Room, IsComposing
<1>3. PunctDef[ch] \in {"unique", "list", "commit", "pair"}
  BY PunctAssumption DEF PunctChar, PunctKinds
<1> HIDE DEF c
<1>4. ASSUME NEW e, Complete(e), Passes(c, e)
      PROVE  e.out # << >> \/ Retains(Fresh, e)
  BY <1>2, <1>4, CompleteIsSound, RetainsTrans DEF Passes
<1>5. \A d : Complete(d) => /\ Complete(ConfirmCurrentSelection(d, reached))
                            /\ Passes(d, ConfirmCurrentSelection(d, reached))
  BY ConfirmComplete, ConfirmPasses
<1>6. Passes(c, c)
  BY <1>2, CompleteMembers, RetainsItself DEF Passes
<1>7. Passes(c, PairPunct(c, reached)) /\ Complete(PairPunct(c, reached))
  <2> DEFINE new == PairPunct(c, reached)
  <2>1. CASE new # c
    <3>1. PICK d : /\ Complete(d) /\ d.active = c.active /\ SameButLast(c, d)
                   /\ new = ConfirmCurrentSelection(d, reached)
      BY <1>2, <2>1, PairCases
    <3> HIDE DEF new
    <3>2. Retains(c, d) /\ Grows(c, d)
      BY <1>2, <3>1, OthersRetained
    <3>3. Complete(new) /\ Passes(d, new)
      BY <1>5, <3>1
    <3>4. Grows(d, new) => Grows(c, new)
      BY <3>1 DEF Grows, Begins
    <3>5. Retains(d, new) => Retains(c, new)
      BY <1>2, <3>1, <3>2, <3>3, CompleteIsSound, RetainsTrans
    <3> QED BY <3>3, <3>4, <3>5 DEF Passes, new
  <2> QED BY <1>2, <1>6, <2>1
<1>8. ctx'.out # << >> \/ Retains(Fresh, ctx')
  <2>1. CASE ctx' = ConfirmCurrentSelection(c, reached)
    BY <1>2, <1>4, <1>5, <2>1
  <2>2. CASE ctx' = Commit(c)
    BY <1>2, <2>2, CommitSends
  <2>3. CASE ctx' = PairPunct(c, reached)
    BY <1>4, <1>7, <2>3
  <2>4. CASE ctx' = c
    BY <1>2, <2>4
  <2> QED BY <1>1, <1>3, <2>1, <2>2, <2>3, <2>4
<1> QED BY <1>8, FreshStands

\* Another highlighted candidate is in the last segment, which is not held.
LEMMA BackStands ==
  ASSUME IInv, NEW seg \in Segment,
         ctx' = [Fresh EXCEPT !.segs = SetBack(Fresh.segs, seg)]
  PROVE  Stands
<1>1. Complete(Fresh) /\ Fresh \in ContextType /\ Fresh.segs \in Seq(Segment)
  BY FreshComplete, CompleteMembers
<1>2. ctx'.segs = SetBack(Fresh.segs, seg) /\ ctx'.active = Fresh.active
  BY <1>1 DEF ContextType
<1>3. SameButLast(Fresh, ctx')
  BY <1>1, <1>2, SetBackStays DEF SameButLast
<1> QED BY <1>1, <1>2, <1>3, OthersRetained, FreshStands

LEMMA TypeStands ==
  ASSUME IInv, NEW ch \in Char, TypeChar(ch)
  PROVE  Stands
<1>1. /\ Complete(Fresh) /\ Sound(Fresh)
      /\ Room => /\ Retains(Fresh, PushInput(Fresh, ch))
                 /\ Retains(Fresh, AddToInput(Fresh, ch))
  BY FreshComplete, PushRetains, AddRetains DEF Room
<1>2. CASE AsciiChar(ch) \/ RecognizedChar(ch)
  BY <1>1, <1>2, FreshStands DEF AsciiChar, RecognizedChar
<1>3. CASE SpellChar(ch)
  BY <1>3, SpellStands
<1>4. CASE AlternatePunct(ch)
  <2> DEFINE seg == Back(ctx.segs)
             next == (seg.selected + 1) % Len(seg.cands)
             new == [seg EXCEPT !.selected = next, !.status = kGuess]
  <2>1. /\ ctx' = [Fresh EXCEPT !.segs = SetBack(Fresh.segs, new)]
        /\ ctx.segs # << >> /\ seg.cands # << >>
    BY <1>4 DEF AlternatePunct, Alternates
  <2>2. seg \in Segment
    BY <2>1, CompleteBack DEF IInv
  <2>3. next \in Nat
    <3>1. seg.selected \in Nat /\ Len(seg.cands) \in Nat \ {0}
      BY <2>1, <2>2 DEF Segment
    <3> HIDE DEF seg
    <3> QED BY <3>1
  <2> HIDE DEF next
  <2>4. new \in Segment
    <3> HIDE DEF seg
    <3> QED BY <2>2, <2>3, Statuses DEF Segment
  <2> HIDE DEF new
  <2> QED BY <2>1, <2>4, BackStands
<1>5. CASE PunctChar(ch)
  BY <1>5, PunctStands
<1>6. CASE EditorChar(ch)
  <2>1. CASE Composing /\ ctx' = Commit(Fresh)
    <3>1. IsComposing(Fresh)
      BY <2>1, FreshComplete DEF Composing, IsComposing
    <3> QED BY <1>1, <2>1, <3>1, CommitSends DEF Stands
  <2>2. CASE Room /\ ctx' = AddToInput(Fresh, ch)
    BY <1>1, <2>2, FreshStands
  <2> QED BY <1>6, <2>1, <2>2 DEF EditorChar
<1> QED BY <1>2, <1>3, <1>4, <1>5, <1>6 DEF TypeChar

LEMMA HighlightStands ==
  ASSUME IInv, SelectorActive, NEW index \in Nat, Highlight(index)
  PROVE  Stands
<1> DEFINE seg == Back(ctx.segs)
           new == [seg EXCEPT !.selected = index]
<1>1. seg \in Segment /\ Fresh.segs = ctx.segs
  BY FreshComplete, CompleteBack DEF IInv, SelectorActive
<1>2. ctx' = [Fresh EXCEPT !.segs = SetBack(Fresh.segs, new)]
  BY <1>1 DEF Highlight
<1>3. new \in Segment
  <2> HIDE DEF seg
  <2> QED BY <1>1 DEF Segment
<1> HIDE DEF new
<1> QED BY <1>2, <1>3, BackStands

LEMMA SelectorStands ==
  ASSUME IInv, \/ PageUp \/ PageDown \/ CursorUp \/ CursorDown
               \/ \E index \in 0 .. PageSize - 1 : SelectKey(index)
  PROVE  Stands
<1>1. /\ SelectorActive /\ Back(ctx.segs).selected \in Nat
      /\ Len(Back(ctx.segs).cands) \in Nat /\ PageSize \in Nat \ {0}
  BY SelectorFacts DEF PageUp, PageDown, CursorUp, CursorDown, SelectKey
<1> DEFINE selected == Back(ctx.segs).selected
           len == Len(Back(ctx.segs).cands)
<1>2. ASSUME NEW index \in Nat, Highlight(index) PROVE Stands
  BY <1>1, <1>2, HighlightStands
<1>3. CASE PageUp
  <2> DEFINE index == IF selected < PageSize THEN 0 ELSE selected - PageSize
  <2>1. Highlight(index)
    BY <1>3 DEF PageUp
  <2>2. index \in Nat
    BY <1>1
  <2> HIDE DEF index
  <2> QED BY <1>2, <2>1, <2>2
<1>4. CASE PageDown
  <2> DEFINE next == selected + PageSize
             page_start == (next \div PageSize) * PageSize
             index == IF next >= len THEN len - 1 ELSE next
  <2>1. Highlight(index) /\ len > page_start
    BY <1>4 DEF PageDown
  <2> HIDE DEF selected, len
  <2>2. next \in Nat
    BY <1>1 DEF selected
  <2> HIDE DEF next
  <2>3. next \div PageSize \in Nat
    BY <1>1, <2>2
  <2>4. page_start \in Nat
    BY <1>1, <2>3
  <2> HIDE DEF page_start
  <2>5. index \in Nat
    BY <1>1, <2>1, <2>2, <2>4 DEF len
  <2> HIDE DEF index
  <2> QED BY <1>2, <2>1, <2>5
<1>5. CASE CursorUp
  <2>1. Highlight(selected - 1) /\ selected - 1 \in Nat
    BY <1>1, <1>5 DEF CursorUp
  <2> QED BY <1>2, <2>1
<1>6. CASE CursorDown
  <2>1. Highlight(selected + 1) /\ selected + 1 \in Nat
    BY <1>1, <1>6 DEF CursorDown
  <2> QED BY <1>2, <2>1
<1>7. ASSUME NEW index \in 0 .. PageSize - 1, SelectKey(index) PROVE Stands
  <2> DEFINE page_start == (selected \div PageSize) * PageSize
  <2>1. PICK reached \in BOOLEAN : ctx' = Select(Fresh, page_start + index, reached)
    BY <1>7 DEF SelectKey
  <2> HIDE DEF selected
  <2>2. page_start \in Nat
    <3>1. selected \div PageSize \in Nat
      BY <1>1 DEF selected
    <3> QED BY <1>1, <3>1
  <2> HIDE DEF page_start
  <2>3. page_start + index \in Nat
    BY <1>1, <2>2
  <2>4. Passes(Fresh, ctx')
    BY <2>1, <2>3, FreshComplete, SelectPasses
  <2> QED BY <2>4, FreshStands DEF Passes
<1> QED BY <1>3, <1>4, <1>5, <1>6, <1>7

LEMMA NavigatorStands ==
  ASSUME IInv, Left \/ Right \/ Home \/ End
  PROVE  Stands
<1>1. /\ ctx.caret \in Nat /\ Len(ctx.input) \in Nat /\ HomePos \in Nat /\ 0 \in Nat
  BY CompleteMembers, HomePosType DEF IInv
<1>2. ASSUME NEW pos \in Nat, ctx' = set_caret_pos(Fresh, pos) PROVE Stands
  BY <1>2, FreshComplete, CaretRetains, FreshStands
<1>3. ASSUME SelectorTakesHome, Highlight(0) PROVE Stands
  BY <1>1, <1>3, HighlightStands DEF SelectorTakesHome
<1>4. CASE Left
  <2> DEFINE pos == IF ctx.caret = 0 THEN Len(ctx.input) ELSE ctx.caret - 1
  <2>1. pos \in Nat
    BY <1>1
  <2>2. ctx' = set_caret_pos(Fresh, pos)
    BY <1>4 DEF Left
  <2> HIDE DEF pos
  <2> QED BY <1>2, <2>1, <2>2
<1>5. CASE Right
  <2> DEFINE pos == IF ctx.caret >= Len(ctx.input) THEN HomePos ELSE ctx.caret + 1
  <2>1. pos \in Nat
    BY <1>1
  <2>2. ctx' = set_caret_pos(Fresh, pos)
    BY <1>5 DEF Right
  <2> HIDE DEF pos
  <2> QED BY <1>2, <2>1, <2>2
<1>6. CASE Home
  BY <1>1, <1>2, <1>3, <1>6 DEF Home
<1>7. CASE End
  BY <1>1, <1>2, <1>3, <1>7 DEF End
<1> QED BY <1>4, <1>5, <1>6, <1>7

\* Space commits what it cannot confirm.
LEMMA ConfirmSends ==
  ASSUME IInv, Composing, ~ CanConfirm(Fresh), NEW reached \in BOOLEAN
  PROVE  Confirm(Fresh, reached).out # << >>
<1>1. Complete(Fresh) /\ Fresh \in ContextType /\ IsComposing(Fresh)
  BY FreshComplete, CompleteMembers DEF Composing, IsComposing
<1> DEFINE c == ConfirmCurrentSelection(Fresh, reached)
           marked == [Fresh EXCEPT !.segs =
                        SetBack(@, [Back(@) EXCEPT !.status = kSelected])]
<1>2. c = Fresh \/ c = marked
  BY DEF ConfirmCurrentSelection
<1>3. marked.input = Fresh.input
  BY <1>1 DEF ContextType
<1> HIDE DEF marked
<1>4. Complete(c)
  BY <1>1, ConfirmComplete
<1>5. Confirm(Fresh, reached) = Commit(c)
  BY DEF Confirm
<1> HIDE DEF c
<1>6. IsComposing(c) /\ Sound(c)
  BY <1>1, <1>2, <1>3, <1>4, CompleteIsSound DEF IsComposing
<1> QED BY <1>5, <1>6, CommitSends

LEMMA EditorStands ==
  ASSUME IInv, Space \/ Return \/ ShiftReturn \/ Delete \/ Escape
  PROVE  Stands
<1>1. /\ Complete(Fresh) /\ Sound(Fresh) /\ Fresh \in ContextType
      /\ Composing => IsComposing(Fresh)
  BY FreshComplete, CompleteMembers DEF Composing, IsComposing
<1>2. CASE Space
  <2>1. PICK reached \in BOOLEAN :
          ctx' = IF CanConfirm(Fresh) THEN ConfirmCurrentSelection(Fresh, reached)
                 ELSE Commit(ConfirmCurrentSelection(Fresh, reached))
    BY <1>2 DEF Space, Confirm
  <2>2. CASE CanConfirm(Fresh)
    BY <1>1, <2>1, <2>2, ConfirmPasses, FreshStands DEF Passes
  <2>3. CASE ~ CanConfirm(Fresh)
    BY <1>2, <2>3, ConfirmSends DEF Stands, Space
  <2> QED BY <2>2, <2>3
<1>3. CASE Return
  <2>1. Commit(Fresh).out # << >>
    BY <1>1, <1>3, CommitSends DEF Return
  <2>2. Commit(ClearNonConfirmedComposition(Fresh)).out # << >>
    BY <1>1, <1>3, ClearNonConfirmedSound, CommitSends DEF Return, IsComposing
  <2> QED BY <1>3, <2>1, <2>2 DEF Return, Stands
<1>4. CASE ShiftReturn
  <2> DEFINE d == Sink(Fresh, GetScriptText(Fresh), TRUE)
  <2>1. Fresh \in ContextType /\ Chain(Fresh.segs, Len(Fresh.active))
    BY <1>1, CompleteMembers
  <2>2. Sound(d) /\ d.out # << >>
    BY <1>1, <2>1, ScriptText, SinkSound
  <2>3. ctx' = Clear(d)
    BY <1>4 DEF ShiftReturn
  <2> HIDE DEF d
  <2> QED BY <2>2, <2>3, ClearComplete DEF Stands
<1>5. CASE Delete
  BY <1>1, <1>5, DeleteRetains, FreshStands DEF Delete
<1>6. CASE Escape
  <2>1. CASE CanClearSegment(Fresh)
    <3>1. PICK value \in Seq(Char) :
            Len(value) <= MaxInput /\ ClearPreviousSegment(Fresh) = set_input(Fresh, value)
      BY <1>1, <2>1, ClearSegmentInput
    <3>2. ctx' = set_input(Fresh, value)
      BY <1>6, <2>1, <3>1 DEF Escape
    <3> QED BY <1>1, <3>1, <3>2, InputRetains, FreshStands
  <2>2. CASE ~ CanClearSegment(Fresh)
    <3>1. ctx' = Clear(Fresh)
      BY <1>6, <2>2 DEF Escape
    <3> QED BY <1>1, <3>1, ClearComplete, ClearRetains, FreshStands
  <2> QED BY <2>1, <2>2
<1> QED BY <1>2, <1>3, <1>4, <1>5, <1>6

LEMMA ToggleStands ==
  ASSUME IInv, NEW style \in SwitchStyles, ToggleAsciiMode(style)
  PROVE  Stands
<1>1. PICK c \in ContextType : \E value :
        /\ Complete([c EXCEPT !.ascii = value]) /\ Toggles(c)
        /\ ctx' = set_ascii_mode(c, value)
  BY ToggleCases
<1>2. PICK value :
        /\ Complete([c EXCEPT !.ascii = value]) /\ Toggles(c)
        /\ ctx' = set_ascii_mode(c, value)
  BY <1>1
<1>3. /\ Retains(c, ctx') /\ ctx'.out = c.out /\ Complete(ctx')
  BY <1>2, SetAsciiRetains, SetAsciiComplete
<1>4. CASE c.segs = ctx.segs /\ c.active = ctx.active
  BY <1>3, <1>4, SameRetains DEF Stands
<1>5. ASSUME NEW a, NEW reached \in BOOLEAN,
             Complete(a), a.segs = ctx.segs, a.active = ctx.active,
             c = ConfirmCurrentSelection(a, reached)
      PROVE  Stands
  <2>1. Complete(c) /\ Passes(a, c)
    BY <1>5, ConfirmComplete, ConfirmPasses
  <2>2. ctx'.out # << >> \/ Retains(a, ctx')
    BY <1>3, <1>5, <2>1, PassesTrans
  <2> QED BY <1>5, <2>2, SameRetains DEF Stands
<1>6. ASSUME NEW a, Sound(a), IsComposing(a), c = Commit(a) PROVE Stands
  BY <1>3, <1>6, CommitSends DEF Stands
<1> QED BY <1>2, <1>4, <1>5, <1>6 DEF Toggles

LEMMA StepStands ==
  ASSUME IInv, Next, ~ BackSpace
  PROVE  Stands
<1>1. CASE \E ch \in Char : TypeChar(ch)
  BY <1>1, TypeStands
<1>2. CASE \/ PageUp \/ PageDown \/ CursorUp \/ CursorDown
           \/ \E index \in 0 .. PageSize - 1 : SelectKey(index)
  BY <1>2, SelectorStands
<1>3. CASE Left \/ Right \/ Home \/ End
  BY <1>3, NavigatorStands
<1>4. CASE Space \/ Return \/ ShiftReturn \/ Delete \/ Escape
  BY <1>4, EditorStands
<1>5. CASE \E style \in SwitchStyles : ToggleAsciiMode(style)
  BY <1>5, ToggleStands
<1>6. CASE ClearComposition
  BY <1>6, FreshComplete, ClearComplete, ClearRetains, FreshStands DEF ClearComposition
<1>7. CASE CommitComposition
  BY <1>7, FreshComplete, CommitSends DEF CommitComposition, Composing, IsComposing, Stands
<1> QED BY <1>1, <1>2, <1>3, <1>4, <1>5, <1>6, <1>7 DEF Next

\* What the user has selected survives every key but BackSpace, unless the key
\* commits: neither Reset nor a segmentor nor any method of the context disturbs
\* it as long as the input in front of its end is the same (segmentation.cc,
\* Reset; engine.cc, Compose and OnSelect; context.cc).
THEOREM SelectionStays == Spec => SelectionSurvives
<1>1. ASSUME IInv, [Next]_vars
      PROVE  [\/ BackSpace \/ ctx'.out # << >>
              \/ \A seg \in SelectedSegments :
                   Untouched(seg) /\ "raw" \notin seg.tags => Survives(seg)]_vars
  <2>1. CASE Next /\ ~ BackSpace /\ ctx'.out = << >>
    <3>1. Retains(ctx, ctx')
      BY <1>1, <2>1, StepStands DEF Stands
    <3>2. ctx.segs \in Seq(Segment) /\ DOMAIN ctx.segs = 1 .. Len(ctx.segs)
      BY <1>1, CompleteMembers DEF IInv
    <3>3. Complete(ctx')
      BY <1>1, StepComplete DEF IInv
    <3>4. ASSUME NEW seg \in SelectedSegments, Untouched(seg), "raw" \notin seg.tags
          PROVE  Survives(seg)
      <4>1. PICK i \in 1 .. Len(ctx.segs) : seg = ctx.segs[i]
        BY <3>2 DEF SelectedSegments
      <4>2. Held(ctx.segs[i]) /\ Begins(ctx, ctx', ctx.segs[i].end)
        BY <3>4, <4>1 DEF SelectedSegments, Held, Begins, Untouched
      <4>3. i \in 1 .. Len(ctx'.segs) /\ Alike(ctx.segs[i], ctx'.segs[i])
        BY <3>1, <4>2 DEF Retains
      <4>4. i \in DOMAIN ctx'.segs
        BY <3>3, <4>3, CompleteMembers
      <4> QED BY <4>1, <4>3, <4>4 DEF Survives, Alike
    <3> QED BY <3>4
  <2> QED BY <1>1, <2>1
<1> QED BY <1>1, AlwaysComplete, PTL DEF Spec, SelectionSurvives

-----------------------------------------------------------------------------
(* Typing and taking back                                                   *)

\* The characters of substr(n).
LEMMA SuffixAt ==
  ASSUME NEW s \in Seq(Char), NEW n \in Nat, n <= Len(s)
  PROVE  \A i \in 1 .. Len(s) - n : Suffix(s, n)[i] = s[i + n]
BY DEF Suffix

\* Removing the character that has been put in gives back the string.
LEMMA InsertedRemoved ==
  ASSUME NEW s \in Seq(Char), NEW n \in Nat, n <= Len(s), NEW ch \in Char,
         NEW t, t = Prefix(s, n) \o << ch >> \o Suffix(s, n)
  PROVE  Prefix(t, n) \o Suffix(t, n + 1) = s
<1> DEFINE a == Prefix(s, n)
           z == Suffix(s, n)
           front == a \o << ch >>
           b == Prefix(t, n)
           y == Suffix(t, n + 1)
<1>1. Len(s) \in Nat /\ n + 1 \in Nat
  OBVIOUS
<1>2. a \in Seq(Char) /\ Len(a) = n /\ (\A i \in 1 .. n : a[i] = s[i])
  BY <1>1, PrefixType DEF Prefix
<1>3. /\ z \in Seq(Char) /\ Len(z) = Len(s) - n
      /\ \A i \in 1 .. Len(s) - n : z[i] = s[i + n]
  BY <1>1, SuffixType, SuffixAt
<1> HIDE DEF a, z
<1>4. << ch >> \in Seq(Char) /\ Len(<< ch >>) = 1
  OBVIOUS
<1>5. /\ front \in Seq(Char) /\ Len(front) = n + 1
      /\ \A i \in 1 .. n : front[i] = a[i]
  BY <1>1, <1>2, <1>4, ConcatProperties
<1>6. t = front \o z
  BY DEF a, z
<1> HIDE DEF front
<1>7. /\ t \in Seq(Char) /\ Len(t) = Len(s) + 1
      /\ \A i \in 1 .. n + 1 : t[i] = front[i]
      /\ \A i \in 1 .. Len(s) - n : t[n + 1 + i] = z[i]
  <2>0. /\ front \o z \in Seq(Char) /\ Len(front \o z) = Len(front) + Len(z)
        /\ \A i \in 1 .. Len(front) + Len(z) :
             (front \o z)[i] = IF i <= Len(front) THEN front[i] ELSE z[i - Len(front)]
    BY <1>3, <1>5, ConcatProperties
  <2>1. /\ t \in Seq(Char) /\ Len(t) = Len(front) + Len(z)
        /\ \A i \in 1 .. Len(front) + Len(z) :
             t[i] = IF i <= Len(front) THEN front[i] ELSE z[i - Len(front)]
    BY <1>6, <2>0
  <2>2. ASSUME NEW i \in 1 .. n + 1 PROVE t[i] = front[i]
    <3>1. i \in 1 .. Len(front) + Len(z) /\ i <= Len(front)
      BY <1>1, <1>3, <1>5
    <3> QED BY <2>1, <3>1
  <2>3. ASSUME NEW i \in 1 .. Len(s) - n PROVE t[n + 1 + i] = z[i]
    <3>1. /\ n + 1 + i \in 1 .. Len(front) + Len(z) /\ ~ (n + 1 + i <= Len(front))
          /\ n + 1 + i - Len(front) = i
      BY <1>1, <1>3, <1>5
    <3> QED BY SMTT(20), <2>1, <3>1
  <2>4. Len(t) = Len(s) + 1
    BY <1>1, <1>3, <1>5, <2>1
  <2> QED BY <2>1, <2>2, <2>3, <2>4
<1>8. b \in Seq(Char) /\ Len(b) = n /\ (\A i \in 1 .. n : b[i] = t[i])
  BY <1>1, <1>7, PrefixType DEF Prefix
<1>9. /\ y \in Seq(Char) /\ Len(y) = Len(s) - n
      /\ \A i \in 1 .. Len(s) - n : y[i] = t[n + 1 + i]
  <2>1. n + 1 <= Len(t) /\ Len(t) - (n + 1) = Len(s) - n
    BY <1>1, <1>7
  <2>2. y \in Seq(Char) /\ Len(y) = Len(t) - (n + 1)
    BY <1>1, <1>7, <2>1, SuffixType
  <2>3. \A i \in 1 .. Len(s) - n : y[i] = t[n + 1 + i]
    <3> TAKE i \in 1 .. Len(s) - n
    <3>1. i \in 1 .. Len(t) - (n + 1) /\ i + (n + 1) = n + 1 + i
      BY <1>1, <2>1
    <3>2. y[i] = t[i + (n + 1)]
      BY <1>1, <1>7, <2>1, <3>1, SuffixAt
    <3> QED BY <3>1, <3>2
  <2> QED BY <2>1, <2>2, <2>3
<1> HIDE DEF b, y
<1>10. /\ b \o y \in Seq(Char) /\ Len(b \o y) = Len(s)
       /\ \A i \in 1 .. Len(s) : (b \o y)[i] = IF i <= n THEN b[i] ELSE y[i - n]
  BY <1>1, <1>8, <1>9, ConcatProperties
<1>11. ASSUME NEW i \in 1 .. Len(s) PROVE (b \o y)[i] = s[i]
  <2>1. CASE i <= n
    <3>1. i \in 1 .. n /\ i \in 1 .. n + 1
      BY <1>1, <2>1
    <3> QED BY <1>2, <1>5, <1>7, <1>8, <1>10, <2>1, <3>1
  <2>2. CASE ~ (i <= n)
    <3>1. i - n \in 1 .. Len(s) - n /\ i - n + n = i
      BY <1>1, <2>2
    <3> QED BY ZenonT(30), <1>3, <1>7, <1>9, <1>10, <2>2, <3>1
  <2> QED BY <2>1, <2>2
<1>12. b \o y = s
  BY <1>10, <1>11, SeqEqual
<1> QED BY <1>12 DEF b, y

\* What is in front of the caret once the character has been put in.
LEMMA InsertedPrefix ==
  ASSUME NEW s \in Seq(Char), NEW n \in Nat, n <= Len(s), NEW ch \in Char,
         NEW t, t = Prefix(s, n) \o << ch >> \o Suffix(s, n)
  PROVE  Prefix(t, n + 1) = Append(Prefix(s, n), ch)
<1> DEFINE a == Prefix(s, n)
           z == Suffix(s, n)
           front == a \o << ch >>
           b == Prefix(t, n + 1)
<1>1. /\ a \in Seq(Char) /\ Len(a) = n
      /\ z \in Seq(Char) /\ Len(z) = Len(s) - n /\ Len(s) \in Nat
  BY PrefixType, SuffixType
<1>2. front = Append(a, ch) /\ t = front \o z
  BY <1>1
<1> HIDE DEF a, z
<1>3. front \in Seq(Char) /\ Len(front) = n + 1
  BY <1>1, <1>2
<1> HIDE DEF front
<1>4. /\ t \in Seq(Char) /\ Len(t) = Len(s) + 1
      /\ \A i \in 1 .. n + 1 : t[i] = front[i]
  <2>1. /\ front \o z \in Seq(Char) /\ Len(front \o z) = Len(front) + Len(z)
        /\ \A i \in 1 .. Len(front) + Len(z) :
             (front \o z)[i] = IF i <= Len(front) THEN front[i] ELSE z[i - Len(front)]
    BY <1>1, <1>3, ConcatProperties
  <2>2. ASSUME NEW i \in 1 .. n + 1 PROVE t[i] = front[i]
    <3>1. i \in 1 .. Len(front) + Len(z) /\ i <= Len(front)
      BY <1>1, <1>3
    <3> QED BY <1>2, <2>1, <3>1
  <2>3. Len(front) + Len(z) = Len(s) + 1
    BY <1>1, <1>3
  <2>4. t \in Seq(Char) /\ Len(t) = Len(front) + Len(z)
    <3> HIDE DEF b
    <3> QED BY ONLY <1>2, <2>1
  <2> HIDE DEF b
  <2> QED BY <2>2, <2>3, <2>4
<1>5. b \in Seq(Char) /\ Len(b) = n + 1 /\ (\A i \in 1 .. n + 1 : b[i] = t[i])
  <2>1. n + 1 \in Nat /\ n + 1 <= Len(t)
    BY <1>1, <1>4
  <2>2. b \in Seq(Char) /\ Len(b) = n + 1
    BY <1>4, <2>1, PrefixType
  <2>3. b = SubSeq(t, 1, n + 1)
    BY SMTT(20), <1>1, <1>4, <2>1 DEF Prefix
  <2> HIDE DEF b
  <2>4. ASSUME NEW i \in 1 .. n + 1 PROVE b[i] = t[i]
    BY <1>4, <2>1, <2>3
  <2> QED BY <2>2, <2>4
<1> HIDE DEF b
<1>6. b = front
  <2>1. Len(b) = Len(front) /\ \A i \in 1 .. Len(b) : b[i] = front[i]
    BY <1>3, <1>4, <1>5
  <2> QED BY <1>3, <1>5, <2>1, SeqEqual
<1> QED BY <1>2, <1>6 DEF a, b

\* What Engine::Compose makes of the segments, when the update is told.
LEMMA UpdateSegs ==
  ASSUME NEW c, Sound(c), NEW input, input = Prefix(c.input, c.caret)
  PROVE  /\ Update(c).segs = TranslateSegments(CalculateSegmentation(
                               Reset(c.segs, c.active, input), input, c.ascii), input)
         /\ Compose(c).segs = Update(c).segs
<1> DEFINE new == TranslateSegments(CalculateSegmentation(
                    Reset(c.segs, c.active, input), input, c.ascii), input)
           s == [c EXCEPT !.active = input, !.segs = new]
           d == Compose(c)
           e == [d EXCEPT !.inline = FALSE]
           f == [e EXCEPT !.ascii = FALSE]
<1>1. c \in ContextType /\ d \in ContextType
  BY ComposeComposed DEF Composed, Sound, Bounded
<1>2. Update(c) = IF d.inline /\ ~ IsComposing(d) THEN f ELSE d
  BY DEF Update, OnContextUpdate
<1>3. d = s
  BY DEF Compose
<1> HIDE DEF new, d
<1>4. s.segs = new
  BY <1>1 DEF ContextType
<1> HIDE DEF s
<1>5. f.segs = d.segs
  BY <1>1 DEF ContextType
<1>6. Update(c).segs = new /\ d.segs = new
  BY <1>2, <1>3, <1>4, <1>5
<1> QED BY <1>6 DEF new, d

\* An update never turns the ascii mode on.
LEMMA UpdateAscii ==
  ASSUME NEW c, Sound(c), ~ c.ascii
  PROVE  ~ Update(c).ascii
<1> DEFINE d == Compose(c)
           e == [d EXCEPT !.inline = FALSE]
           f == [e EXCEPT !.ascii = FALSE]
<1>1. c \in ContextType /\ d \in ContextType
  BY ComposeComposed DEF Composed, Sound, Bounded
<1>2. Update(c) = IF d.inline /\ ~ IsComposing(d) THEN f ELSE d
  BY DEF Update, OnContextUpdate
<1>3. d.ascii = c.ascii
  BY <1>1 DEF Compose, ContextType
<1> HIDE DEF d
<1>4. ~ f.ascii
  BY <1>1 DEF ContextType
<1> QED BY <1>2, <1>3, <1>4

\* The segment that PushInput puts the character into is the last one, and not
\* empty: the caret is right behind the character. Where it is a letter, the
\* segment begins as abc_segmentor or matcher would have it.
LEMMA PushLast ==
  ASSUME NEW c, Complete(c), Len(c.input) < MaxInput, NEW ch \in Char,
         NEW p, p = PushInput(c, ch)
  PROVE  /\ p.input = Prefix(c.input, c.caret) \o << ch >> \o Suffix(c.input, c.caret)
         /\ p.caret = c.caret + 1
         /\ p.segs # << >> /\ ~ IsEmpty(Back(p.segs))
         /\ ch \in Letters /\ ~ c.ascii =>
              ~ p.ascii /\ Opens(Prefix(p.input, p.caret), Back(p.segs).start)
<1>1. Sound(c) /\ c.caret \in Nat /\ c.input \in Seq(Char) /\ c.caret <= Len(c.input)
  BY CompleteIsSound, CompleteMembers
<1>2. PICK d : /\ Edits(c, d) /\ p = Update(d)
               /\ d.input = Prefix(c.input, c.caret) \o << ch >>
                              \o Suffix(c.input, c.caret)
               /\ d.caret = c.caret + 1
  BY <1>1, PushEdits
<1>3. p.input = d.input /\ p.caret = d.caret
  BY <1>2, UpdateComplete DEF Edits
<1> DEFINE input == Prefix(d.input, d.caret)
           kept == Reset(d.segs, d.active, input)
           new == CalculateSegmentation(kept, input, d.ascii)
<1>4. p.segs = TranslateSegments(new, input)
  BY <1>2, UpdateSegs DEF Edits
<1>5. /\ d.input \in Seq(Char) /\ d.caret \in Nat /\ d.caret <= Len(d.input)
      /\ Len(d.input) \in Nat /\ Len(d.input) <= MaxInput
      /\ d.ascii \in BOOLEAN /\ d.active \in Seq(Char)
      /\ Chain(d.segs, Len(d.active)) /\ Len(d.active) \in Nat
  BY <1>2, Members DEF Edits, Sound, Bounded
<1>6. Len(d.active) = c.caret
  <2>1. c.active = Prefix(c.input, c.caret)
    BY DEF Complete, Composed
  <2> QED BY <1>1, <1>2, <2>1, PrefixType DEF Edits
<1>7. input \in Seq(Char) /\ Len(input) = d.caret
  BY <1>5, PrefixType
<1> HIDE DEF input
<1>8. Len(d.active) < Len(input) /\ Len(input) <= MaxInput
  BY <1>1, <1>2, <1>5, <1>6, <1>7, BoundAssumption
<1>9. new # << >> /\ ~ IsEmpty(Back(new))
  BY <1>5, <1>7, <1>8, TypedIsLast
<1>14. ASSUME ch \in Letters, ~ c.ascii
       PROVE  ~ p.ascii /\ Opens(input, Back(new).start)
  <2>1. ~ d.ascii
    BY <1>2, <1>14 DEF Edits
  <2>2. ~ p.ascii
    BY <1>2, <2>1, UpdateAscii DEF Edits
  <2>3. At(input, Len(input) - 1) = ch
    <3>0. input = Prefix(d.input, c.caret + 1)
      BY <1>2 DEF input
    <3>1. input = Append(Prefix(c.input, c.caret), ch)
      BY <1>1, <1>2, <3>0, InsertedPrefix
    <3>2. Prefix(c.input, c.caret) \in Seq(Char)
      BY <1>1, PrefixType
    <3> QED BY <3>1, <3>2 DEF At
  <2>4. Opens(input, Back(new).start)
    BY <1>5, <1>7, <1>8, <1>14, <2>1, <2>3, TypedOpens
  <2> QED BY <2>2, <2>4
<1>10. Finished(new, Len(input))
  <2>1. Chain(kept, Len(input))
    BY <1>5, <1>7, ResetChain
  <2> HIDE DEF kept
  <2> QED BY <1>5, <1>7, <2>1, CalculateSegmentationFinished
<1> HIDE DEF new
<1>11. /\ Back(new) \in Segment /\ Fine(Back(new)) /\ Back(new).end <= Len(input)
       /\ Len(new) \in 1 .. Len(new) /\ Back(new) = new[Len(new)]
       /\ DOMAIN new = 1 .. Len(new)
  <2>1. Len(input) \in Nat /\ Chain(new, Len(input))
    BY <1>5, <1>7, <1>10 DEF Finished
  <2>2. /\ Back(new) \in Segment /\ Fine(Back(new)) /\ Back(new).end <= Len(input)
        /\ Len(new) \in Nat \ {0} /\ Back(new) = new[Len(new)]
    BY <1>9, <2>1, BackOf
  <2> QED BY <2>1, <2>2 DEF Chain
<1>12. /\ Translated(Back(new), input).start = Back(new).start
       /\ Translated(Back(new), input).end = Back(new).end
  BY <1>7, <1>8, <1>11, TranslatedType
<1>13. /\ p.segs # << >> /\ Back(p.segs) = Translated(Back(new), input)
  <2> DEFINE all == [i \in 1 .. Len(new) |-> Translated(new[i], input)]
  <2>1. p.segs = all /\ Len(new) \in Nat
    BY <1>4, <1>11 DEF TranslateSegments
  <2>2. Len(all) = Len(new) /\ all[Len(new)] = Translated(new[Len(new)], input)
    BY <1>11, <2>1
  <2> HIDE DEF all
  <2>3. all # << >>
    BY <1>11, <2>2
  <2> QED BY <1>11, <2>1, <2>2, <2>3 DEF Back
<1>15. ch \in Letters /\ ~ c.ascii =>
         ~ p.ascii /\ Opens(Prefix(p.input, p.caret), Back(p.segs).start)
  BY <1>3, <1>12, <1>13, <1>14 DEF input
<1> QED BY <1>2, <1>3, <1>9, <1>12, <1>13, <1>15 DEF IsEmpty

\* Segments that only differ in their status, from those the user has selected
\* to those that are confirmed, have the same last selected one.
Confirmed(segs, new, i) ==
  /\ Len(new) = Len(segs)
  /\ \A j \in 1 .. Len(segs) :
       /\ new[j].start = segs[j].start /\ new[j].end = segs[j].end
       /\ j # i => new[j].status = segs[j].status
  /\ i \in 1 .. Len(segs) /\ new[i].status = kConfirmed

LEMMA ConfirmedLast ==
  ASSUME NEW segs \in Seq(Segment), NEW new \in Seq(Segment),
         NEW i \in LastSelected(segs), Confirmed(segs, new, i),
         NEW k \in LastSelected(new)
  PROVE  k = i
<1>1. /\ i \in 1 .. Len(segs) /\ segs[i].status >= kSelected
      /\ \A j \in 1 .. Len(segs) : segs[j].status >= kSelected => j <= i
  BY DEF LastSelected
<1>2. /\ k \in 1 .. Len(new) /\ new[k].status >= kSelected
      /\ \A j \in 1 .. Len(new) : new[j].status >= kSelected => j <= k
  BY DEF LastSelected
<1>3. i <= k
  BY <1>1, <1>2 DEF Confirmed, kConfirmed, kSelected
<1>4. k <= i
  <2>1. CASE k = i
    BY <1>1, <2>1
  <2>2. CASE k # i
    BY <1>1, <1>2, <2>2 DEF Confirmed
  <2> QED BY <2>1, <2>2
<1> QED BY <1>1, <1>2, <1>3, <1>4

\* ConfirmPreviousSelection leaves no selection that could be reopened, and
\* every segment where it is.
LEMMA ConfirmPreviousLeaves ==
  ASSUME NEW c, Complete(c), NEW t, t = ConfirmPreviousSelection(c)
  PROVE  /\ t.input = c.input /\ t.caret = c.caret /\ t.ascii = c.ascii
         /\ ~ CanReopenSelection(t)
         /\ c.segs # << >> /\ ~ IsEmpty(Back(c.segs)) =>
              /\ ~ CanReopenSegment(t)
              /\ t.segs # << >> /\ ~ IsEmpty(Back(t.segs))
              /\ Back(t.segs).start = Back(c.segs).start
<1> DEFINE i == CHOOSE k \in LastSelected(c.segs) : TRUE
           seg == [c.segs[i] EXCEPT !.status = kConfirmed]
           new == [c.segs EXCEPT ![i] = seg]
           d == [c EXCEPT !.segs = new]
<1>1. c \in ContextType /\ c.segs \in Seq(Segment) /\ Len(c.segs) \in Nat
  BY CompleteMembers
<1>2. CASE LastSelected(c.segs) = {}
  <2>1. t = c
    BY <1>2 DEF ConfirmPreviousSelection
  <2> QED BY <1>2, <2>1 DEF CanReopenSelection, CanReopenSegment, CanTrim
<1>3. CASE LastSelected(c.segs) # {}
  <2>1. /\ i \in 1 .. Len(c.segs) /\ c.segs[i] \in Segment
        /\ c.segs[i].status >= kSelected /\ i \in LastSelected(c.segs)
    BY <1>1, <1>3, LastSelectedIn
  <2>2. t = IF c.segs[i].status > kSelected THEN c ELSE d
    <3>1. [c EXCEPT !.segs[i].status = kConfirmed] = d
      OBVIOUS
    <3> QED BY <1>3, <3>1 DEF ConfirmPreviousSelection
  <2> HIDE DEF i
  <2>3. CASE c.segs[i].status > kSelected
    <3>1. t = c
      BY <2>2, <2>3
    <3>2. ASSUME NEW k \in LastSelected(c.segs) PROVE c.segs[k].status # kSelected
      <4>1. /\ k \in 1 .. Len(c.segs) /\ k <= i /\ i <= k
        BY <1>1, <2>1, <3>2 DEF LastSelected
      <4>2. k = i
        BY <2>1, <4>1
      <4>3. c.segs[i].status \in Nat
        BY <2>1 DEF Segment, Status, kVoid, kConfirmed
      <4> QED BY <2>3, <4>2, <4>3 DEF kSelected
    <3> QED BY <3>1, <3>2 DEF CanReopenSelection, CanReopenSegment, CanTrim
  <2>4. CASE ~ (c.segs[i].status > kSelected)
    <3>1. /\ seg \in Segment /\ seg.start = c.segs[i].start
          /\ seg.end = c.segs[i].end /\ seg.status = kConfirmed
      BY <2>1, Statuses DEF Segment
    <3> HIDE DEF seg
    <3>2. /\ new \in Seq(Segment) /\ Len(new) = Len(c.segs)
          /\ \A j \in 1 .. Len(c.segs) : new[j] = IF j = i THEN seg ELSE c.segs[j]
      BY <1>1, <2>1, <3>1
    <3> HIDE DEF new
    <3>3. /\ t = d /\ d.segs = new /\ d.input = c.input /\ d.caret = c.caret
          /\ d.ascii = c.ascii
      BY <1>1, <2>2, <2>4, <3>2 DEF ContextType
    <3> HIDE DEF d
    <3>4. Confirmed(c.segs, new, i)
      BY <2>1, <3>1, <3>2 DEF Confirmed
    <3>5. ASSUME NEW k \in LastSelected(new) PROVE new[k].status # kSelected
      <4>1. k = i
        BY <1>1, <2>1, <3>2, <3>4, ConfirmedLast
      <4> QED BY <3>4, <4>1 DEF Confirmed, kConfirmed, kSelected
    <3>6. c.segs # << >> /\ ~ IsEmpty(Back(c.segs)) =>
            /\ ~ CanTrim(new) /\ new # << >> /\ ~ IsEmpty(Back(new))
            /\ Back(new).start = Back(c.segs).start
      <4>1. Len(c.segs) \in 1 .. Len(c.segs)
        BY <1>1, <2>1
      <4>2. /\ IsEmpty(Back(new)) <=> IsEmpty(Back(c.segs))
            /\ Back(new).start = Back(c.segs).start
        BY <3>4, <4>1 DEF Confirmed, Back, IsEmpty
      <4>3. new # << >>
        BY <1>1, <3>2, <4>1
      <4> QED BY <4>2, <4>3 DEF CanTrim
    <3> QED BY <3>3, <3>5, <3>6 DEF CanReopenSelection, CanReopenSegment
  <2> QED BY <2>3, <2>4
<1> QED BY <1>2, <1>3

\* PopInput takes out what PushInput has put in, as long as nothing between
\* them edits the input.
LEMMA PushPopped ==
  ASSUME NEW c, Complete(c), Len(c.input) < MaxInput, NEW ch \in Char,
         NEW t, Complete(t), t.caret = PushInput(c, ch).caret,
         t.input = PushInput(c, ch).input
  PROVE  /\ CanPopInput(t)
         /\ PopInput(t).input = c.input /\ PopInput(t).caret = c.caret
<1>1. /\ t.input = Prefix(c.input, c.caret) \o << ch >> \o Suffix(c.input, c.caret)
      /\ t.caret = c.caret + 1
  BY PushLast
<1>2. /\ c.input \in Seq(Char) /\ c.caret \in Nat /\ c.caret <= Len(c.input)
  BY CompleteMembers
<1>3. CanPopInput(t) /\ t.caret - 1 = c.caret
  BY <1>1, <1>2 DEF CanPopInput
<1>4. /\ PopInput(t).input = Prefix(t.input, c.caret) \o Suffix(t.input, c.caret + 1)
      /\ PopInput(t).caret = c.caret
  BY <1>1, <1>3, CompleteIsSound, PopComplete
<1>5. Prefix(t.input, c.caret) \o Suffix(t.input, c.caret + 1) = c.input
  <2>1. PICK s \in Seq(Char) : s = c.input
    BY <1>2
  <2>2. PICK n \in Nat : n = c.caret /\ n <= Len(s)
    BY <1>2, <2>1
  <2>3. PICK u : u = t.input /\ u = Prefix(s, n) \o << ch >> \o Suffix(s, n)
    BY <1>1, <2>1, <2>2
  <2>4. n <= Len(s) /\ u = Prefix(s, n) \o << ch >> \o Suffix(s, n)
    BY <2>2, <2>3
  <2>5. Prefix(u, n) \o Suffix(u, n + 1) = s
    BY <2>4, InsertedRemoved
  <2> QED BY <2>1, <2>2, <2>3, <2>5
<1> QED BY <1>3, <1>4, <1>5

\* In either editor, BackSpace right after Speller has added a character takes
\* that character out again, and nothing else of the input.
LEMMA AddUndone ==
  ASSUME NEW c, Complete(c), Len(c.input) < MaxInput, NEW ch \in Char
  PROVE  /\ OnBackSpace(AddToInput(c, ch)).input = c.input
         /\ OnBackSpace(AddToInput(c, ch)).caret = c.caret
<1> DEFINE p == PushInput(c, ch)
           t == AddToInput(c, ch)
<1>1. Complete(p) /\ Complete(t) /\ t = ConfirmPreviousSelection(p)
  BY CompleteIsSound, PushComplete, AddComplete DEF AddToInput
<1>2. p.segs # << >> /\ ~ IsEmpty(Back(p.segs))
  BY PushLast
<1>3. /\ t.input = p.input /\ t.caret = p.caret
      /\ ~ CanReopenSelection(t) /\ ~ CanReopenSegment(t)
  BY <1>1, <1>2, ConfirmPreviousLeaves
<1>4. /\ CanPopInput(t)
      /\ PopInput(t).input = c.input /\ PopInput(t).caret = c.caret
  BY <1>1, <1>3, PushPopped
<1> HIDE DEF p, t
<1>5. CASE Express
  <2>1. OnBackSpace(t) = ReopenPreviousSegment(PopInput(t))
    BY <1>3, <1>4, <1>5 DEF OnBackSpace, RevertLastAction
  <2>2. Complete(PopInput(t))
    BY <1>1, <1>4, CompleteIsSound, PopComplete
  <2> QED BY <1>4, <2>1, <2>2, ReopenSegmentComplete DEF t
<1>6. CASE ~ Express
  <2>1. OnBackSpace(t) = PopInput(t)
    BY <1>3, <1>4, <1>6 DEF OnBackSpace, DiscoverPreviousInput
  <2> QED BY <1>4, <2>1 DEF t
<1> QED BY <1>5, <1>6

\* In the fluency editor, what has been selected is still selected after it.
LEMMA AddUndoneKeeps ==
  ASSUME ~ Express, NEW c, Complete(c), Len(c.input) < MaxInput,
         NEW ch \in Letters, ~ c.ascii
  PROVE  GetConfirmedPosition(OnBackSpace(AddToInput(c, ch)).segs)
           >= GetConfirmedPosition(AddToInput(c, ch).segs)
<1> DEFINE p == PushInput(c, ch)
           t == AddToInput(c, ch)
           old == Prefix(c.input, c.caret)
           k == c.caret
<1>1. ch \in Char
  BY DEF Char
<1>2. Complete(p) /\ Complete(t) /\ t = ConfirmPreviousSelection(p)
  BY <1>1, CompleteIsSound, PushComplete, AddComplete DEF AddToInput
<1>3. /\ p.input = Prefix(c.input, k) \o << ch >> \o Suffix(c.input, k)
      /\ p.caret = k + 1 /\ p.segs # << >> /\ ~ IsEmpty(Back(p.segs))
      /\ ~ p.ascii /\ Opens(Prefix(p.input, p.caret), Back(p.segs).start)
  BY <1>1, PushLast
<1>4. /\ t.input = p.input /\ t.caret = p.caret /\ ~ t.ascii
      /\ ~ CanReopenSelection(t) /\ ~ CanReopenSegment(t)
      /\ t.segs # << >> /\ ~ IsEmpty(Back(t.segs))
      /\ Back(t.segs).start = Back(p.segs).start
  BY <1>2, <1>3, ConfirmPreviousLeaves
<1>5. /\ CanPopInput(t)
      /\ PopInput(t).input = c.input /\ PopInput(t).caret = c.caret
  BY <1>1, <1>2, <1>4, PushPopped
<1>6. OnBackSpace(t) = PopInput(t)
  BY <1>4, <1>5 DEF OnBackSpace, DiscoverPreviousInput
<1>7. /\ c.input \in Seq(Char) /\ k \in Nat /\ k <= Len(c.input)
      /\ k <= MaxInput
  BY CompleteMembers, BoundAssumption
<1>8. old \in Seq(Char) /\ Len(old) = k
  BY <1>7, PrefixType
<1>9. t.active = Append(old, ch)
  <2>1. t.active = Prefix(t.input, t.caret)
    BY <1>2 DEF Complete, Composed
  <2> QED BY <1>1, <1>3, <1>4, <1>7, <2>1, InsertedPrefix
<1>10. /\ Chain(t.segs, Len(t.active)) /\ Back(t.segs).end = Len(t.active)
       /\ Back(t.segs).status < kSelected
       /\ Opens(t.active, Back(t.segs).start) /\ t.ascii \in BOOLEAN
  <2>1. /\ Chain(t.segs, Len(t.active)) /\ Back(t.segs).end = Len(t.active)
        /\ Back(t.segs).status = kGuess /\ t.ascii \in BOOLEAN
    BY <1>2, <1>4, CompleteMembers, CompleteBack, Members
  <2>2. t.active = Prefix(p.input, p.caret)
    BY <1>2, <1>4 DEF Complete, Composed
  <2> QED BY <1>3, <1>4, <2>1, <2>2 DEF kGuess, kSelected
<1>11. PICK d : Edits(t, d) /\ PopInput(t) = Update(d)
  BY <1>2, <1>5, CompleteIsSound, PopEdits
<1> DEFINE new == TranslateSegments(CalculateSegmentation(
                    Reset(t.segs, t.active, old), old, t.ascii), old)
<1>12. PopInput(t).segs = new
  <2>1. Update(d).input = d.input /\ Update(d).caret = d.caret
    BY <1>11, UpdateComplete DEF Edits
  <2>2. old = Prefix(d.input, d.caret)
    BY <1>5, <1>11, <2>1
  <2>3. /\ Sound(d) /\ d.segs = t.segs /\ d.active = t.active /\ d.ascii = t.ascii
    BY <1>11 DEF Edits
  <2> HIDE DEF old
  <2> QED BY <1>11, <2>2, <2>3, UpdateSegs
<1>13. /\ t.active \in Seq(Char) /\ Len(t.active) = k + 1
       /\ \A j \in 1 .. k : t.active[j] = old[j]
  <2> HIDE DEF old
  <2> QED BY <1>1, <1>7, <1>8, <1>9
<1> HIDE DEF old, t, new
<1>14. GetConfirmedPosition(new) >= GetConfirmedPosition(t.segs)
  BY <1>4, <1>7, <1>8, <1>10, <1>13, UntypedKeeps DEF new
<1> QED BY <1>6, <1>12, <1>14 DEF t

\* Whatever has been selected before, a letter that has gone into the input, in
\* the middle or at the end, is what the next BackSpace takes out (speller.cc
\* confirms the previous selection for it; editor.cc, RevertLastAction and
\* DiscoverPreviousInput).
THEOREM UndoesTyping == Spec => []BackSpaceUndoesTyping
<1>1. ASSUME IInv PROVE BackSpaceUndoesTyping
  <2> SUFFICES ASSUME NEW ch \in Letters, Room
               PROVE  /\ OnBackSpace(Typed(ch)).input = ctx.input
                      /\ OnBackSpace(Typed(ch)).caret = ctx.caret
    BY DEF BackSpaceUndoesTyping
  <2>1. Complete(Fresh) /\ Fresh.input = ctx.input /\ Fresh.caret = ctx.caret
    BY <1>1, FreshComplete
  <2>2. Len(Fresh.input) < MaxInput /\ ch \in Char
    BY <2>1 DEF Room, Char
  <2> QED BY <2>1, <2>2, AddUndone DEF Typed
<1> QED BY <1>1, AlwaysComplete, PTL

\* "so that next BackSpace does not revert previous selection" (speller.cc, about
\* AddToInput): in the fluency editor the BackSpace after a letter leaves
\* everything selected that was, whatever has been selected and wherever the
\* caret is. (The express editor reopens the segment instead.)
THEOREM KeepsSelection ==
  ASSUME ~ Express
  PROVE  Spec => []BackSpaceKeepsSelection
<1>1. ASSUME IInv PROVE BackSpaceKeepsSelection
  <2> SUFFICES ASSUME NEW ch \in Letters, ~ ctx.ascii, Room
               PROVE  GetConfirmedPosition(OnBackSpace(Typed(ch)).segs)
                        >= GetConfirmedPosition(Typed(ch).segs)
    BY DEF BackSpaceKeepsSelection
  <2>1. Complete(Fresh) /\ Fresh.input = ctx.input /\ Fresh.ascii = ctx.ascii
    BY <1>1, FreshComplete
  <2>2. Len(Fresh.input) < MaxInput /\ ~ Fresh.ascii
    BY <2>1 DEF Room
  <2> QED BY <2>1, <2>2, AddUndoneKeeps DEF Typed
<1> QED BY <1>1, AlwaysComplete, PTL

-----------------------------------------------------------------------------
(* Getting on                                                               *)

\* As long as the user can choose in the last segment, what has been selected
\* ends before it.
LEMMA ConfirmedBeforeBack ==
  ASSUME NEW c, Complete(c), c.segs # << >>, ~ IsEmpty(Back(c.segs))
  PROVE  /\ GetConfirmedPosition(c.segs) \in Nat
         /\ GetConfirmedPosition(c.segs) <= Back(c.segs).start
<1>1. /\ Chain(c.segs, Len(c.active)) /\ Len(c.active) \in Nat
      /\ c.segs \in Seq(Segment)
  BY CompleteMembers
<1>2. /\ Back(c.segs).status = kGuess /\ Back(c.segs).start \in Nat
      /\ GetConfirmedPosition(c.segs) \in Nat
  BY <1>1, CompleteBack, ConfirmedPosition
<1>3. PICK n \in Nat \ {0} : n = Len(c.segs) /\ Back(c.segs) = c.segs[n]
  BY <1>1, EmptySeq DEF Back
<1>4. CASE LastSelected(c.segs) = {}
  BY <1>2, <1>4 DEF GetConfirmedPosition
<1>5. CASE LastSelected(c.segs) # {}
  <2>1. PICK i : i = CHOOSE k \in LastSelected(c.segs) : TRUE
    OBVIOUS
  <2>2. /\ i \in 1 .. n /\ c.segs[i].status >= kSelected
        /\ GetConfirmedPosition(c.segs) = c.segs[i].end
    BY <1>1, <1>3, <1>5, <2>1, LastSelectedIn DEF GetConfirmedPosition
  <2>3. i # n
    BY <1>2, <1>3, <2>2 DEF kGuess, kSelected
  <2>4. n - 1 \in 1 .. n /\ i \in 1 .. n /\ n - 1 \in i .. n
    BY <2>2, <2>3
  <2>5. c.segs[n].start = c.segs[n - 1].end
    BY SMTT(20), <1>1, <1>3, <2>4 DEF Chain
  <2>6. c.segs[i].end <= c.segs[n - 1].end
    BY <1>1, <1>3, <2>4, ChainMonotone
  <2> QED BY <1>2, <1>3, <2>2, <2>5, <2>6
<1> QED BY <1>4, <1>5

\* What e has selected of the last segment of c lies behind it.
LEMMA GoesFurther ==
  ASSUME NEW c, Complete(c), c.segs # << >>, ~ IsEmpty(Back(c.segs)),
         NEW e, Goes(c, e), NEW n \in Nat, NEW segs, Chain(segs, n),
         Stays(e.segs, segs, Len(c.segs))
  PROVE  GetConfirmedPosition(segs) > GetConfirmedPosition(c.segs)
<1>1. PICK m \in 1 .. Len(segs) : m = Len(c.segs) /\ segs[m] = e.segs[m]
  BY DEF Stays
<1>2. segs[m].status >= kSelected /\ Back(c.segs).start < segs[m].end
  BY <1>1 DEF Goes
<1>3. segs[m].end <= GetConfirmedPosition(segs)
  BY <1>1, <1>2, ConfirmedBound
<1>4. /\ segs[m].end \in Nat /\ GetConfirmedPosition(segs) \in Nat
      /\ Back(c.segs).start \in Nat
  <2>1. segs[m] \in Segment
    BY <1>1 DEF Chain
  <2> QED BY <2>1, ConfirmedPosition, CompleteBack DEF Segment
<1> QED BY <1>2, <1>3, <1>4, ConfirmedBeforeBack

\* When the engine composes the same string again, what is selected stays; so does
\* a raw segment if it ends with the string.
LEMMA ComposeStays ==
  ASSUME NEW c, Sound(c), c.active = Prefix(c.input, c.caret),
         NEW i \in 1 .. Len(c.segs), i < Len(c.segs),
         c.segs[i].status >= kSelected, Unextended(c.segs[i], Len(c.active))
  PROVE  Stays(c.segs, Update(c).segs, i) /\ Stays(c.segs, Compose(c).segs, i)
<1>1. /\ c.active \in Seq(Char) /\ c.segs \in Seq(Segment) /\ c.ascii \in BOOLEAN
      /\ Len(c.active) \in Nat /\ Chain(c.segs, Len(c.active))
  BY Members DEF Sound, Bounded
<1>2. PICK k \in Nat : k = c.segs[i].end /\ k <= Len(c.active)
  <2>1. c.segs[i] \in Segment
    BY <1>1
  <2> QED BY <1>1, <2>1 DEF Chain, Segment
<1>3. k <= DiffPos(c.active, c.active)
  BY <1>1, <1>2, DiffPosBehind
<1>4. Stays(c.segs, TranslateSegments(CalculateSegmentation(
                      Reset(c.segs, c.active, c.active), c.active, c.ascii), c.active), i)
  BY <1>1, <1>2, <1>3, SelectedStays
<1> QED BY <1>4, UpdateSegs

\* Whatever the freed memory that OnSelect reads says about the caret.
LEMMA OnSelectProgresses ==
  ASSUME NEW c, Complete(c), ~ IsEmpty(Back(c.segs)), NEW reached \in BOOLEAN,
         NEW chosen \in Segment, NEW d, Selects(c, chosen, d)
  PROVE  Progresses(c, OnSelect(d, reached))
<1> DEFINE new == OnSelect(d, reached)
<1>1. /\ c.segs # << >> /\ c.caret \in Nat /\ Len(c.input) \in Nat
      /\ c.caret <= Len(c.input) /\ Len(c.segs) \in Nat \ {0}
      /\ c.active = Prefix(c.input, c.caret)
  BY CompleteMembers, EmptySeq DEF Selects, Complete, Composed
<1>2. ASSUME NEW e, Sound(e), IsComposing(e), new = Commit(e)
      PROVE  Progresses(c, new)
  BY <1>2, CommitSends DEF Progresses
<1>3. ASSUME NEW e, Chooses(c, e), \/ new = e /\ Complete(e)
                                  \/ new = set_caret_pos(e, Len(c.input))
                                  \/ new = Compose(e)
      PROVE  Progresses(c, new)
  <2>1. /\ Sound(e) /\ e \in ContextType /\ e.input = c.input /\ e.caret = c.caret
        /\ e.active = c.active /\ Goes(c, e)
        /\ Chain(e.segs, Len(e.active)) /\ Len(e.active) \in Nat
    BY <1>3, Members DEF Chooses, Sound, Bounded
  <2>2. PICK m \in 1 .. Len(e.segs) :
          /\ m = Len(c.segs) /\ m < Len(e.segs)
          /\ e.segs[m].status >= kSelected /\ Unextended(e.segs[m], Len(e.active))
    <3>1. e.segs \in Seq(Segment)
      BY <2>1, Members
    <3> QED BY <1>1, <2>1, <3>1 DEF Goes
  <2>3. ASSUME NEW f, Sound(f), f.input = c.input, f.caret = c.caret,
               f.active = c.active, f.segs = e.segs
        PROVE  Stays(e.segs, Update(f).segs, m) /\ Stays(e.segs, Compose(f).segs, m)
    BY <1>1, <2>1, <2>2, <2>3, ComposeStays
  <2>4. ASSUME NEW n \in Nat, Chain(new.segs, n), Stays(e.segs, new.segs, m)
        PROVE  Progresses(c, new)
    <3> HIDE DEF new
    <3> QED BY <1>1, <2>1, <2>2, <2>4, GoesFurther DEF Progresses
  <2>5. CASE new = e
    <3>1. Stays(e.segs, e.segs, m)
      BY <2>2 DEF Stays
    <3> QED BY <2>1, <2>4, <2>5, <3>1
  <2>6. CASE new = Compose(e)
    <3>1. Composed(Compose(e))
      BY <2>1, ComposeComposed
    <3>2. /\ Chain(Compose(e).segs, Len(Compose(e).active))
          /\ Len(Compose(e).active) \in Nat
      BY <3>1, Members DEF Composed, Bounded, Finished
    <3>3. Stays(e.segs, Compose(e).segs, m)
      BY <2>1, <2>3
    <3> QED BY <2>4, <2>6, <3>2, <3>3
  <2>7. CASE new = set_caret_pos(e, Len(c.input))
    <3> DEFINE f == [e EXCEPT !.caret = Len(c.input)]
    <3>1. /\ f \in ContextType /\ f.input = c.input /\ f.caret = Len(c.input)
          /\ f.active = e.active /\ f.segs = e.segs /\ f.out = e.out
          /\ f.ascii = e.ascii /\ f.inline = e.inline
      BY <1>1, <2>1 DEF ContextType
    <3>2. new = Update(f)
      <4>1. (IF Len(c.input) > Len(c.input) THEN Len(c.input) ELSE Len(c.input))
              = Len(c.input)
        OBVIOUS
      <4> QED BY <2>1, <2>7, <4>1 DEF set_caret_pos
    <3> HIDE DEF f, new
    <3>3. Sound(f)
      <4>1. f.caret <= Len(f.input)
        BY <1>1, <3>1
      <4> QED BY <2>1, <3>1, <4>1 DEF Sound, Bounded
    <3>4. Complete(new) /\ new.caret = Len(c.input)
      BY <3>1, <3>2, <3>3, UpdateComplete
    <3>5. CASE c.caret < Len(c.input)
      BY <3>4, <3>5 DEF Progresses
    <3>6. CASE c.caret = Len(c.input)
      <4>1. Stays(e.segs, new.segs, m)
        BY <2>1, <2>3, <3>1, <3>2, <3>3, <3>6
      <4>2. Chain(new.segs, Len(new.active)) /\ Len(new.active) \in Nat
        BY <3>4, CompleteMembers
      <4> QED BY <2>4, <4>1, <4>2
    <3> QED BY <1>1, <3>5, <3>6
  <2> QED BY <1>3, <2>5, <2>6, <2>7
<1>4. \/ \E e : /\ Sound(e) /\ IsComposing(e) /\ e.input = c.input
                /\ e.inline = c.inline /\ new = Commit(e)
      \/ \E e : /\ Chooses(c, e)
                /\ \/ new = e /\ Complete(e)
                   \/ new = set_caret_pos(e, Len(c.input))
                   \/ new = Compose(e)
  BY OnSelectCases DEF Selects
<1> HIDE DEF new
<1>5. Progresses(c, new)
  BY <1>2, <1>3, <1>4
<1> QED BY <1>5 DEF new

\* Whatever has been typed and selected, Space never leaves the user where he
\* was: what Editor::Confirm makes of the composition has something sent, more
\* selected, or the caret farther on (ConfirmCurrentSelection and the slot
\* OnSelect).
THEOREM SpaceProgresses == Spec => []SpaceMakesProgress
<1>1. ASSUME IInv PROVE SpaceMakesProgress
  <2> SUFFICES ASSUME Composing, NEW reached \in BOOLEAN
               PROVE  Progresses(ctx, Confirm(Fresh, reached))
    BY DEF SpaceMakesProgress
  <2> DEFINE new == Confirm(Fresh, reached)
  <2>1. Complete(Fresh) /\ Fresh.segs = ctx.segs /\ Fresh.caret = ctx.caret
    BY <1>1, FreshComplete
  <2>2. CASE ~ CanConfirm(Fresh)
    BY <1>1, <2>2, ConfirmSends DEF Progresses
  <2>3. CASE CanConfirm(Fresh)
    <3>1. Fresh.segs # << >> /\ ~ IsEmpty(Back(Fresh.segs))
      <4>1. /\ Fresh.segs # << >>
            /\ HasSelectedCandidate(Back(Fresh.segs)) \/ ~ IsEmpty(Back(Fresh.segs))
        BY <2>3 DEF CanConfirm
      <4>2. Back(Fresh.segs).cands # << >> => ~ IsEmpty(Back(Fresh.segs))
        BY <2>1, <4>1, CompleteBack
      <4>3. HasSelectedCandidate(Back(Fresh.segs)) => Back(Fresh.segs).cands # << >>
        <5>1. Back(Fresh.segs).selected \in Nat
          BY <2>1, <4>1, CompleteBack DEF Segment
        <5> QED BY <5>1 DEF HasSelectedCandidate, HasCandidateAt
      <4> QED BY <4>1, <4>2, <4>3
    <3>2. new = ConfirmCurrentSelection(Fresh, reached)
      BY <2>3 DEF Confirm
    <3> HIDE DEF new
    <3>3. PICK chosen \in Segment : \E d :
            Selects(Fresh, chosen, d) /\ new = OnSelect(d, reached)
      <4>1. ASSUME NEW chosen \in Segment, NEW d, Selects(Fresh, chosen, d)
            PROVE  ~ IsEmpty(chosen)
        BY <3>1, <4>1 DEF Selects, IsEmpty
      <4> QED BY <2>1, <3>1, <3>2, <4>1, ConfirmCases
    <3>4. PICK d : Selects(Fresh, chosen, d) /\ new = OnSelect(d, reached)
      BY <3>3
    <3>5. Progresses(Fresh, new)
      BY <2>1, <3>1, <3>4, OnSelectProgresses
    <3> QED BY <2>1, <3>5 DEF Progresses, new
  <2> QED BY <2>2, <2>3
<1> QED BY <1>1, AlwaysComplete, PTL
=============================================================================

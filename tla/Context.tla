------------------------------ MODULE Context ------------------------------
(***************************************************************************)
(* The context of a session and the engine that keeps its composition up   *)
(* to date.  A context is the record                                        *)
(*   input, caret    what the user typed, and the caret in it               *)
(*   active, segs    the composition: the segments of the input before the  *)
(*                   caret, and the string they were computed for           *)
(*   ascii           the option ascii_mode                                  *)
(*   inline          whether ascii_mode is to end with this composition     *)
(*                   (AsciiComposer is connected to the update notifier)    *)
(*   oddness         which half of a paired punctuation comes next          *)
(*   out             what the handler in progress has sent to the sink      *)
(* Every operator here is one method: it takes a context and answers the    *)
(* context that the method leaves, notifications included, since a          *)
(* notifier calls its slots before it returns.                              *)
(***************************************************************************)
EXTENDS Segmentation

CONSTANT AutoCommit   \* option auto_commit: TRUE in express_editor schemas

ASSUME AutoCommitAssumption == AutoCommit \in BOOLEAN

\* A committed text is a sequence of pieces: [from, to) of the input, taken
\* from a candidate or raw.
Piece == [from : Nat, to : Nat, raw : BOOLEAN]
Output == [text : Seq(Piece), active : Seq(Char), script : BOOLEAN]

ContextType ==
  [input : Seq(Char), caret : Nat, active : Seq(Char), segs : Seq(Segment),
   ascii : BOOLEAN, inline : BOOLEAN, oddness : {0, 1}, out : Seq(Output)]

EmptyContext ==
  [input |-> << >>, caret |-> 0, active |-> << >>, segs |-> << >>,
   ascii |-> FALSE, inline |-> FALSE, oddness |-> 0, out |-> << >>]

IsComposing(c) == c.input # << >>
\* substr(0, n) and substr(n): positions beyond the end are cut off
Prefix(s, n) == SubSeq(s, 1, IF n < Len(s) THEN n ELSE Len(s))
Suffix(s, n) == SubSeq(s, n + 1, Len(s))

-----------------------------------------------------------------------------
(* Notifications                                                            *)

\* ConcreteEngine::Compose
Compose(c) ==
  LET active_input == Prefix(c.input, c.caret)
      kept == Reset(c.segs, c.active, active_input)
      segs == CalculateSegmentation(kept, active_input, c.ascii)
  IN [c EXCEPT !.active = active_input,
               !.segs = TranslateSegments(segs, active_input)]

\* AsciiComposer, if connected, quits the temporary ascii mode once nothing is
\* being composed. (Setting the option then does nothing more: see
\* set_ascii_mode.)
OnContextUpdate(c) ==
  IF c.inline /\ ~ IsComposing(c)
  THEN [c EXCEPT !.inline = FALSE, !.ascii = FALSE]
  ELSE c

\* update_notifier_: the engine composes, then AsciiComposer is told.
\* Mutant: AsciiComposer does not listen.
UpdateUnheard(c) == Compose(c)

Update(c) == OnContextUpdate(Compose(c))

-----------------------------------------------------------------------------
(* Editing the input                                                        *)

set_caret_pos(c, pos) ==
  Update([c EXCEPT !.caret = IF pos > Len(c.input) THEN Len(c.input) ELSE pos])

set_input(c, value) == Update([c EXCEPT !.input = value, !.caret = Len(value)])

PushInput(c, ch) ==
  Update([c EXCEPT !.input = Prefix(@, c.caret) \o << ch >> \o Suffix(@, c.caret),
                   !.caret = @ + 1])

CanPopInput(c) == c.caret >= 1
\* Mutant: the caret stays where it was.
PopInputBehindCaret(c) ==
  Update([c EXCEPT !.input = Prefix(@, c.caret - 1) \o Suffix(@, c.caret)])

PopInput(c) ==
  Update([c EXCEPT !.input = Prefix(@, c.caret - 1) \o Suffix(@, c.caret),
                   !.caret = @ - 1])

CanDeleteInput(c) == c.caret + 1 <= Len(c.input)
DeleteInput(c) ==
  IF CanDeleteInput(c)
  THEN Update([c EXCEPT !.input = Prefix(@, c.caret) \o Suffix(@, c.caret + 1)])
  ELSE c

Clear(c) == Update([c EXCEPT !.input = << >>, !.caret = 0, !.segs = << >>])

-----------------------------------------------------------------------------
(* Committing                                                               *)

\* Where the text of a segment ends: its candidate may be shorter than it.
TextEnd(seg) == IF HasSelectedCandidate(seg) THEN SelectedEnd(seg) ELSE seg.end

PieceOf(seg) ==
  [from |-> seg.start, to |-> TextEnd(seg), raw |-> ~ HasSelectedCandidate(seg)]

\* Composition::GetCommitText: a piece for each segment, then the input
\* behind the last one.
GetCommitText(c) ==
  LET end == IF c.segs = << >> THEN 0 ELSE TextEnd(Back(c.segs))
      rest == IF Len(c.active) > end
              THEN << [from |-> end, to |-> Len(c.active), raw |-> TRUE] >>
              ELSE << >>
  IN [i \in DOMAIN c.segs |-> PieceOf(c.segs[i])] \o rest

\* Composition::GetScriptText: here a piece starts where the last one ended.
GetScriptText(c) ==
  LET ends == [i \in 0 .. Len(c.segs) |->
                 IF i = 0 THEN 0 ELSE TextEnd(c.segs[i])]
      rest == IF Len(c.active) > ends[Len(c.segs)]
              THEN << [from |-> ends[Len(c.segs)], to |-> Len(c.active),
                       raw |-> TRUE] >>
              ELSE << >>
  IN [i \in DOMAIN c.segs |->
        [from |-> ends[i - 1], to |-> ends[i],
         raw |-> ~ HasSelectedCandidate(c.segs[i])]] \o rest

Sink(c, text, script) ==
  [c EXCEPT !.out = Append(@, [text |-> text, active |-> c.active,
                               script |-> script])]

\* commit_notifier_ sends the text to the sink; then everything starts over.
Commit(c) ==
  IF IsComposing(c) THEN Clear(Sink(c, GetCommitText(c), FALSE)) ELSE c

-----------------------------------------------------------------------------
(* Selecting                                                                *)

\* A segment whose candidate converts only a part of it ends with that part.
\* Mutant: it stays whole.
SplitNot(seg) == seg

Split(seg) ==
  IF HasSelectedCandidate(seg) /\ SelectedEnd(seg) < seg.end
  THEN [seg EXCEPT !.end = SelectedEnd(seg)]
  ELSE seg

\* ConcreteEngine::OnSelect, the slot of select_notifier_.  The code keeps a
\* reference to the last segment across Forward(), whose push_back may move
\* the vector: the comparison of seg.end with the caret then reads freed
\* memory.  It answers `reached', which need not be the truth.
OnSelect(c, reached) ==
  LET seg == Split(Back(c.segs))
      finished == [seg EXCEPT !.status = kConfirmed]
      forward == [c EXCEPT !.segs = Forward(SetBack(@, seg))]
  IN IF seg.end = Len(c.input)
     THEN IF AutoCommit
          THEN Commit([c EXCEPT !.segs = SetBack(@, finished)])
          ELSE [c EXCEPT !.segs = Forward(SetBack(@, finished))]
     ELSE IF reached THEN set_caret_pos(forward, Len(c.input))
     ELSE Compose(forward)

CanSelect(c, index) ==
  c.segs # << >> /\ HasCandidateAt(Back(c.segs), index)
Select(c, index, reached) ==
  IF CanSelect(c, index)
  THEN OnSelect([c EXCEPT !.segs =
         SetBack(@, [Back(@) EXCEPT !.selected = index, !.status = kSelected])],
         reached)
  ELSE c

\* ConfirmCurrentSelection answers FALSE for a composition that is empty or
\* ends in an empty segment, which it marks as selected all the same.
CanConfirm(c) ==
  /\ c.segs # << >>
  /\ HasSelectedCandidate(Back(c.segs)) \/ ~ IsEmpty(Back(c.segs))
ConfirmCurrentSelection(c, reached) ==
  LET marked == [c EXCEPT !.segs = SetBack(@, [Back(@) EXCEPT !.status = kSelected])]
  IN IF c.segs = << >> THEN c
     ELSE IF CanConfirm(c) THEN OnSelect(marked, reached)
     ELSE marked

ConfirmPreviousSelection(c) ==
  LET last == LastSelected(c.segs)
      i == CHOOSE i \in last : TRUE
  IN IF last = {} THEN c
     ELSE IF c.segs[i].status > kSelected THEN c
     ELSE [c EXCEPT !.segs[i].status = kConfirmed]

-----------------------------------------------------------------------------
(* Going back                                                               *)

CanReopenSegment(c) == CanTrim(c.segs)
ReopenPreviousSegment(c) ==
  LET segs == Trim(c.segs)
      reopened == IF segs # << >> /\ Back(segs).status >= kSelected
                  THEN SetBack(segs, [Back(segs) EXCEPT !.status = kVoid])
                  ELSE segs
  IN IF CanReopenSegment(c) THEN Update([c EXCEPT !.segs = reopened]) ELSE c

CanClearSegment(c) ==
  c.segs # << >> /\ Back(c.segs).start < Len(c.input)
ClearPreviousSegment(c) == set_input(c, Prefix(c.input, Back(c.segs).start))

\* The last segment that is selected or confirmed must not be confirmed yet.
CanReopenSelection(c) ==
  \E i \in LastSelected(c.segs) : c.segs[i].status = kSelected
ReopenPreviousSelection(c) ==
  LET i == CHOOSE i \in LastSelected(c.segs) : TRUE
  IN Update([c EXCEPT !.segs =
       SetBack(SubSeq(@, 1, i), [@[i] EXCEPT !.status = kVoid])])

ClearNonConfirmedComposition(c) ==
  LET kept == PopBackWhile(c.segs, {i \in DOMAIN c.segs : c.segs[i].status < kSelected})
  IN IF Len(kept) < Len(c.segs) THEN [c EXCEPT !.segs = Forward(kept)] ELSE c

RefreshNonConfirmedComposition(c) ==
  IF c.segs # << >> /\ Back(c.segs).status < kSelected
  THEN Update(ClearNonConfirmedComposition(c))
  ELSE c

\* set_option and the slot ConcreteEngine::OnOptionUpdate
set_ascii_mode(c, value) ==
  LET d == [c EXCEPT !.ascii = value]
  IN IF IsComposing(d) THEN RefreshNonConfirmedComposition(d) ELSE d
=============================================================================

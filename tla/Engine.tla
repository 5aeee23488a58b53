------------------------------ MODULE Engine ------------------------------
(***************************************************************************)
(* A session at work: ConcreteEngine::ProcessKeyEvent hands a key to the    *)
(* processors of the schema in turn (ascii_composer, recognizer, speller,   *)
(* punctuator, selector, navigator, and express_editor or fluency_editor)   *)
(* until one takes it.  There is one action for each key and, for a         *)
(* character, for each processor that may take it; the guard says that the  *)
(* processors before it pass.  The last actions are calls of the API.       *)
(***************************************************************************)
EXTENDS Context

CONSTANTS
  Express,    \* TRUE for express_editor, FALSE for fluency_editor
  PageSize,   \* menu/page_size
  MaxCode     \* speller/max_code_length, 0 for none

ASSUME EditorAssumption == Express \in BOOLEAN /\ AutoCommit = Express
ASSUME PageAssumption == PageSize \in Nat \ {0} /\ MaxCode \in Nat

VARIABLE ctx   \* the session's context

vars == << ctx >>

Init == ctx = EmptyContext

\* The context as a handler finds it: nothing sent to the sink yet.
Fresh == [ctx EXCEPT !.out = << >>]

Composing == IsComposing(ctx)
Room == Len(ctx.input) < MaxInput

-----------------------------------------------------------------------------
(* Characters                                                               *)

Recognized(ch) == MatchFound(Append(ctx.input, ch), ctx.segs)

\* Recognizer, Speller and Punctuator let a character pass if ...
Spelled(ch) == ch \in Letters \/ (Composing /\ ch \in Delims)

AsciiChar(ch) ==
  /\ ctx.ascii /\ Composing /\ Room
  /\ ctx' = PushInput(Fresh, ch)

RecognizedChar(ch) ==
  /\ ~ ctx.ascii /\ Room /\ Recognized(ch)
  /\ ctx' = PushInput(Fresh, ch)

\* a letter commits the word before it once that has the full code length
CodeIsFull(ch) ==
  /\ ch \in Letters /\ MaxCode > 0
  /\ ctx.segs # << >>
  /\ LET seg == Back(ctx.segs)
     IN /\ HasSelectedCandidate(seg)
        /\ "abc" \in seg.tags /\ MenuOf[seg.end - seg.start] # << >>
        /\ SelectedEnd(seg) - seg.start = MaxCode
        /\ SelectedEnd(seg) = Len(ctx.input)
        /\ \A k \in seg.start .. Len(ctx.input) - 1 : At(ctx.input, k) \notin Delims

\* Mutant: the previous selection is not confirmed.
AddToInputOnly(c, ch) == PushInput(c, ch)

AddToInput(c, ch) == ConfirmPreviousSelection(PushInput(c, ch))

SpellChar(ch) ==
  /\ ~ ctx.ascii /\ Room /\ ~ Recognized(ch) /\ Spelled(ch)
  /\ \E reached \in BOOLEAN :
       ctx' = AddToInput(IF CodeIsFull(ch)
                         THEN ConfirmCurrentSelection(Fresh, reached)
                         ELSE Fresh, ch)

\* Punctuator: a second press of a key with a list of meanings goes through
\* the list; every other press adds to the input, then acts by kind.
Alternates(ch) ==
  /\ PunctDef[ch] = "list" /\ ctx.segs # << >>
  /\ LET seg == Back(ctx.segs)
     IN /\ seg.status > kVoid /\ "punct" \in seg.tags /\ seg.cands # << >>
        /\ SubSeq(ctx.input, seg.start + 1, seg.end) = << ch >>

AlternatePunct(ch) ==
  /\ ~ ctx.ascii /\ ch \in Puncts /\ Alternates(ch)
  /\ ~ Recognized(ch) /\ ~ Spelled(ch)
  /\ LET seg == Back(ctx.segs)
         next == (seg.selected + 1) % Len(seg.cands)
     IN ctx' = [Fresh EXCEPT !.segs =
                  SetBack(@, [seg EXCEPT !.selected = next, !.status = kGuess])]

PairPunct(c, reached) ==
  LET seg == Back(c.segs)
      half == [seg EXCEPT !.selected = (@ + c.oddness) % 2]
      flipped == [c EXCEPT !.segs = SetBack(@, half), !.oddness = 1 - @]
  IN IF c.segs # << >> /\ seg.status > kVoid /\ "punct" \in seg.tags
        /\ Len(seg.cands) >= 2
     THEN ConfirmCurrentSelection(flipped, reached)
     ELSE c

PunctChar(ch) ==
  /\ ~ ctx.ascii /\ Room /\ ch \in Puncts /\ ~ Alternates(ch)
  /\ ~ Recognized(ch) /\ ~ Spelled(ch)
  /\ \E reached \in BOOLEAN :
       LET c == PushInput(Fresh, ch)
       IN ctx' = CASE PunctDef[ch] = "unique" -> ConfirmCurrentSelection(c, reached)
                   [] PunctDef[ch] = "commit" -> Commit(c)
                   [] PunctDef[ch] = "pair" -> PairPunct(c, reached)
                   [] PunctDef[ch] = "list" -> c

\* Editor::OnChar: a fluency editor takes any character, an express editor
\* commits and lets the application have it.
EditorChar(ch) ==
  /\ ~ ctx.ascii /\ ch \notin Puncts
  /\ ~ Recognized(ch) /\ ~ Spelled(ch)
  /\ \/ Express /\ Composing /\ ctx' = Commit(Fresh)
     \/ ~ Express /\ Room /\ ctx' = AddToInput(Fresh, ch)

-----------------------------------------------------------------------------
(* Selector                                                                 *)

SelectorActive ==
  /\ ctx.segs # << >>
  /\ ~ IsEmpty(Back(ctx.segs)) /\ "raw" \notin Back(ctx.segs).tags

Highlight(index) ==
  ctx' = [Fresh EXCEPT !.segs = SetBack(@, [Back(@) EXCEPT !.selected = index])]

PageUp ==
  /\ SelectorActive
  /\ LET index == Back(ctx.segs).selected
     IN Highlight(IF index < PageSize THEN 0 ELSE index - PageSize)

PageDown ==
  /\ SelectorActive
  /\ LET seg == Back(ctx.segs)
         index == seg.selected + PageSize
         page_start == (index \div PageSize) * PageSize
     IN /\ Len(seg.cands) > page_start
        /\ Highlight(IF index >= Len(seg.cands) THEN Len(seg.cands) - 1 ELSE index)

CursorUp ==
  /\ SelectorActive /\ Back(ctx.segs).selected > 0
  /\ Highlight(Back(ctx.segs).selected - 1)

CursorDown ==
  /\ SelectorActive
  /\ Len(Back(ctx.segs).cands) > Back(ctx.segs).selected + 1
  /\ Highlight(Back(ctx.segs).selected + 1)

\* a digit selects on the page that holds the highlighted candidate
SelectKey(index) ==
  /\ ~ ctx.ascii /\ SelectorActive /\ index < PageSize
  /\ LET page_start == (Back(ctx.segs).selected \div PageSize) * PageSize
     IN \E reached \in BOOLEAN :
          ctx' = Select(Fresh, page_start + index, reached)

-----------------------------------------------------------------------------
(* Navigator; Home and End go to the selector first                         *)

Left ==
  /\ Composing
  /\ ctx' = set_caret_pos(Fresh, IF ctx.caret = 0 THEN Len(ctx.input)
                                 ELSE ctx.caret - 1)

\* Navigator::Home: the start of the segments behind the last selected one,
\* or the very start
HomePos ==
  LET last == LastSelected(ctx.segs)
      first == IF last = {} THEN 1 ELSE (CHOOSE i \in last : TRUE) + 1
      pos == IF first <= Len(ctx.segs) THEN ctx.segs[first].start ELSE ctx.caret
  IN IF pos < ctx.caret THEN pos ELSE 0

Right ==
  /\ Composing
  /\ ctx' = set_caret_pos(Fresh, IF ctx.caret >= Len(ctx.input) THEN HomePos
                                 ELSE ctx.caret + 1)

SelectorTakesHome == SelectorActive /\ Back(ctx.segs).selected > 0

Home ==
  \/ SelectorTakesHome /\ Highlight(0)
  \/ ~ SelectorTakesHome /\ Composing /\ ctx' = set_caret_pos(Fresh, HomePos)

End ==
  \/ /\ ctx.caret = Len(ctx.input) /\ SelectorTakesHome
     /\ Highlight(0)
  \/ /\ ctx.caret # Len(ctx.input)
     /\ ctx' = set_caret_pos(Fresh, Len(ctx.input))

-----------------------------------------------------------------------------
(* Editor                                                                   *)

\* Mutant: what cannot be confirmed is not committed.
ConfirmOnly(c, reached) == ConfirmCurrentSelection(c, reached)

Confirm(c, reached) ==
  LET confirmed == ConfirmCurrentSelection(c, reached)
  IN IF CanConfirm(c) THEN confirmed ELSE Commit(confirmed)

Space ==
  /\ ~ ctx.ascii /\ Composing
  /\ \E reached \in BOOLEAN : ctx' = Confirm(Fresh, reached)

Return ==
  /\ Composing
  /\ ctx' = IF Express THEN Commit(ClearNonConfirmedComposition(Fresh))
            ELSE Commit(Fresh)

ShiftReturn ==
  /\ Composing
  /\ ctx' = Clear(Sink(Fresh, GetScriptText(Fresh), TRUE))

\* ExpressEditor: RevertLastAction
RevertLastAction(c) ==
  IF CanReopenSelection(c) THEN ReopenPreviousSelection(c)
  ELSE IF CanPopInput(c) THEN ReopenPreviousSegment(PopInput(c))
  ELSE c

\* Editor: DiscoverPreviousInput
DiscoverPreviousInput(c) ==
  IF CanReopenSegment(c) THEN ReopenPreviousSegment(c)
  ELSE IF CanReopenSelection(c) THEN ReopenPreviousSelection(c)
  ELSE IF CanPopInput(c) THEN PopInput(c)
  ELSE c

OnBackSpace(c) == IF Express THEN RevertLastAction(c) ELSE DiscoverPreviousInput(c)

BackSpace == Composing /\ ctx' = OnBackSpace(Fresh)

Delete == Composing /\ ctx' = DeleteInput(Fresh)

Escape ==
  /\ Composing
  /\ ctx' = IF CanClearSegment(Fresh) THEN ClearPreviousSegment(Fresh)
            ELSE Clear(Fresh)

-----------------------------------------------------------------------------
(* AsciiComposer::ToggleAsciiMode, on release of a switch key               *)

SwitchStyles == {"inline", "commit_text", "commit_code"}

ToggleAsciiMode(style) ==
  LET on == ~ ctx.ascii
      idle == [Fresh EXCEPT !.inline = FALSE]
  IN \/ ~ Composing /\ ctx' = set_ascii_mode(Fresh, on)
     \/ /\ Composing /\ style = "inline"
        /\ ctx' = set_ascii_mode([idle EXCEPT !.inline = on], on)
     \/ /\ Composing /\ style = "commit_text"
        /\ \E reached \in BOOLEAN :
             ctx' = set_ascii_mode(ConfirmCurrentSelection(idle, reached), on)
     \/ /\ Composing /\ style = "commit_code"
        /\ ctx' = set_ascii_mode(Commit(ClearNonConfirmedComposition(idle)), on)

-----------------------------------------------------------------------------
(* The API: RimeClearComposition, RimeCommitComposition                     *)

ClearComposition == Composing /\ ctx' = Clear(Fresh)
CommitComposition == Composing /\ ctx' = Commit(Fresh)

-----------------------------------------------------------------------------
TypeChar(ch) ==
  \/ AsciiChar(ch) \/ RecognizedChar(ch) \/ SpellChar(ch)
  \/ AlternatePunct(ch) \/ PunctChar(ch) \/ EditorChar(ch)

Next ==
  \/ \E ch \in Char : TypeChar(ch)
  \/ PageUp \/ PageDown \/ CursorUp \/ CursorDown
  \/ \E index \in 0 .. PageSize - 1 : SelectKey(index)
  \/ Left \/ Right \/ Home \/ End
  \/ Space \/ Return \/ ShiftReturn \/ BackSpace \/ Delete \/ Escape
  \/ \E style \in SwitchStyles : ToggleAsciiMode(style)
  \/ ClearComposition \/ CommitComposition

Spec == Init /\ [][Next]_vars

-----------------------------------------------------------------------------
(* Invariants                                                               *)

\* The context has its type; the caret is in the input.
TypeOK ==
  /\ ctx \in ContextType
  /\ ctx.caret <= Len(ctx.input) /\ Len(ctx.input) <= MaxInput

\* The composition is always about the input before the caret, and its
\* segments cut that into consecutive intervals without a gap, whatever keys
\* have been pressed and however often a selection has split a segment.
SegmentsPartitionInput ==
  LET segs == ctx.segs
  IN /\ ctx.active = Prefix(ctx.input, ctx.caret)
     /\ segs = << >> <=> ctx.active = << >>
     /\ \A i \in DOMAIN segs :
          /\ segs[i].start <= segs[i].end
          /\ segs[i].start = IF i = 1 THEN 0 ELSE segs[i - 1].end
          /\ i = Len(segs) => segs[i].end = Len(ctx.active)

\* An empty segment only ever waits at the end of the composition, behind
\* something the user has selected.
EmptySegmentFollowsSelection ==
  \A i \in DOMAIN ctx.segs :
    IsEmpty(ctx.segs[i]) =>
      /\ i = Len(ctx.segs) /\ i > 1
      /\ ctx.segs[i - 1].status >= kSelected

\* A selected segment is exactly as long as what its candidate converts, and
\* the highlighted candidate of any segment exists and fits in it.
SelectionFits ==
  \A i \in DOMAIN ctx.segs :
    LET seg == ctx.segs[i]
    IN /\ seg.cands # << >> => HasSelectedCandidate(seg)
       /\ HasSelectedCandidate(seg) =>
            /\ SelectedEnd(seg) \in seg.start + 1 .. seg.end
            /\ seg.status >= kSelected => SelectedEnd(seg) = seg.end

\* The temporary ascii mode ends with the composition it was meant for.
InlineEndsWithComposition == ctx.inline => Composing /\ ctx.ascii

\* A committed text goes through the input once, from left to right, and to its
\* end; what it leaves out lies behind a candidate that converts only a part of
\* its segment; and the script text leaves out nothing.
InOrder(o) ==
  \A i \in DOMAIN o.text :
    LET before == IF i = 1 THEN 0 ELSE o.text[i - 1].to
    IN /\ before <= o.text[i].from /\ o.text[i].from <= o.text[i].to
       /\ before < o.text[i].from => i > 1 /\ ~ o.script /\ ~ o.text[i - 1].raw
       /\ i = Len(o.text) => o.text[i].to = Len(o.active)
CommitInOrder == \A n \in DOMAIN ctx.out : InOrder(ctx.out[n])

\* After any letter that Speller adds to the input, BackSpace gives back the
\* input as it was, wherever the caret is.
Typed(ch) == AddToInput(Fresh, ch)
BackSpaceUndoesTyping ==
  \A ch \in Letters :
    ~ ctx.ascii /\ Room /\ ~ Recognized(ch) /\ ~ CodeIsFull(ch) =>
      /\ OnBackSpace(Typed(ch)).input = ctx.input
      /\ OnBackSpace(Typed(ch)).caret = ctx.caret

\* "so that next BackSpace does not revert previous selection" (speller.cc):
\* that BackSpace leaves everything selected that was selected.
BackSpaceKeepsSelection ==
  \A ch \in Letters :
    ~ ctx.ascii /\ Room /\ ~ Recognized(ch) /\ ~ CodeIsFull(ch) =>
      GetConfirmedPosition(OnBackSpace(Typed(ch)).segs) >=
        GetConfirmedPosition(Typed(ch).segs)

\* Space, pressed in any composition, is never a press without effect, whatever
\* the freed memory says: what comes of it has something sent to the sink, more
\* of the input selected than is selected now, or the caret farther on.
Progresses(c, d) ==
  \/ d.out # << >>
  \/ GetConfirmedPosition(d.segs) > GetConfirmedPosition(c.segs)
  \/ d.caret > c.caret
SpaceMakesProgress ==
  ~ ctx.ascii /\ Composing =>
    \A reached \in BOOLEAN : Progresses(ctx, Confirm(Fresh, reached))

-----------------------------------------------------------------------------
(* What a step may never do                                                 *)

\* seg is in the next composition as it is in this one
Survives(seg) ==
  \E i \in DOMAIN ctx'.segs :
    LET new == ctx'.segs[i]
    IN /\ new.start = seg.start /\ new.end = seg.end
       /\ new.cands = seg.cands /\ new.selected = seg.selected
       /\ new.status >= seg.status

\* the input up to the end of seg is still there, in front of the caret
Untouched(seg) ==
  /\ seg.end <= Len(ctx'.active)
  /\ Prefix(ctx'.active, seg.end) = Prefix(ctx.active, seg.end)

SelectedSegments ==
  {seg \in {ctx.segs[i] : i \in DOMAIN ctx.segs} :
     seg.status >= kSelected /\ ~ IsEmpty(seg)}

\* Only BackSpace takes back a selection: no other key that does not commit
\* changes a segment the user has selected as long as the input up to its end
\* stays the same, except that fallback_segmentor joins a raw segment with the
\* raw input behind it. (After a commit, the letter that made Speller commit may
\* begin an input that looks the same.)
SelectionSurvives ==
  [][\/ BackSpace \/ ctx'.out # << >>
     \/ \A seg \in SelectedSegments :
          Untouched(seg) /\ "raw" \notin seg.tags => Survives(seg)]_vars

\* "finished converting current segment; move caret to the end of input"
\* (engine.cc): once Space has selected all there is in front of the caret,
\* and there is more input, the caret goes to the end.
CaretFollowsSelection ==
  [][Space /\ CanConfirm(ctx) /\ ctx.caret < Len(ctx.input)
        /\ TextEnd(Back(ctx.segs)) = ctx.caret
       => ctx'.caret = Len(ctx.input)]_vars
=============================================================================

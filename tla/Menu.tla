-------------------------------- MODULE Menu --------------------------------
(***************************************************************************)
(* The menu of a segment merges what the translators offer, as far as it is   *)
(* needed, and passes each candidate through the filters.  The selector moves *)
(* the highlight, and the front end is shown the page that has it.           *)
(***************************************************************************)
EXTENDS Translations, FiniteSets

CONSTANTS
  Recipes,     \* what translators may offer: sequences of generators, none of
               \* them exhausted
  Forms,       \* the simplified forms of a text, where they differ from it
  page_size,   \* menu/page_size of the schema
  RIME_MAX_NUM_CANDIDATES,   \* how many of a page the front end is given
  NoPage

ASSUME PageAssumption ==
  RIME_MAX_NUM_CANDIDATES \in Nat /\ page_size \in 1 .. RIME_MAX_NUM_CANDIDATES

IsSequence(s) == Len(s) \in Nat /\ s = [i \in 1 .. Len(s) |-> s[i]]
ASSUME RecipeAssumption == \A offer \in Recipes : IsSequence(offer)
\* OpenCC lists each form of a character once.
ASSUME FormsAssumption ==
  \A text \in DOMAIN Forms : IsSequence(Forms[text]) /\ IsInjective(Forms[text])

Descending(items) ==
  \A i, j \in DOMAIN items :
    items[i].end \in Nat /\ (i < j => items[i].end >= items[j].end)
IsChunk(chunk) ==
  /\ {"remaining", "entries"} \subseteq DOMAIN chunk
  /\ chunk.remaining \in Nat /\ IsSequence(chunk.entries)
  /\ \A i \in DOMAIN chunk.entries : chunk.entries[i].weight \in Int
\* What a translator returns has a candidate, and goes from long ones to short ones;
\* only a charset filter can have passed over candidates.
IsGenerator(t) ==
  /\ {"kind", "filtered", "done"} \subseteq DOMAIN t /\ ~ t.done
  /\ IF t.kind = "lazy"
     THEN /\ {"keys", "end"} \subseteq DOMAIN t /\ t.end \in Nat
          /\ IsSequence(t.keys) /\ \A k \in DOMAIN t.keys : IsChunk(t.keys[k])
          /\ t \in {Lazy(t.keys, t.end), CharsetFilter(Lazy(t.keys, t.end))}
     ELSE /\ "items" \in DOMAIN t /\ IsSequence(t.items) /\ t.items # << >>
          /\ Descending(t.items)
          /\ t.kind = "r10n" => /\ "seen" \in DOMAIN t
                                /\ t.seen \subseteq IF t.filtered THEN Extended ELSE {}
\* The echo translator is the first of a schema; it alone offers the input, and
\* OpenCC has no other form of that.
ASSUME OfferAssumption ==
  \A offer \in Recipes : \A i \in DOMAIN offer :
    LET t == offer[i] IN
    /\ IsGenerator(t)
    /\ IF t.kind = "echo"
       THEN i = 1 /\ Len(t.items) = 1 /\ t.items[1].text \notin DOMAIN Forms
       ELSE t.kind # "lazy" => \A j \in DOMAIN t.items : t.items[j].type # "raw"

VARIABLES
  recipe,           \* what was offered
  simplification,   \* an option of the session; a change translates anew
  translations,     \* what is left of it
  candidates,       \* what has been recruited: a candidate, and those of the
                    \* same text that were merged into it
  selected_index,
  page,             \* the page the front end shows
  op,               \* the operation that waits for candidates, if any
  want              \* how many candidates are to be prepared

offered == << recipe, simplification >>
vars == << offered, translations, candidates, selected_index, page, op, want >>

-----------------------------------------------------------------------------
(* Merging                                                                  *)

HasNext(i) == i < Len(translations) /\ ~ translations[i + 1].done

\* An echo is for when there is nothing else.
GivesWay(i) == candidates # << >> \/ HasNext(i)

\* Mutant: the shorter goes first.
LosesToTheShorter(i) ==
  /\ HasNext(i)
  /\ translations[i].done
       \/ Peek(translations[i]).end > Peek(translations[i + 1]).end

\* Translation::Compare is positive: generator i gives up its chance.
Loses(i) ==
  LET ours == translations[i]
      theirs == translations[i + 1] IN
  \/ ours.kind = "echo" /\ GivesWay(i)
  \/ /\ HasNext(i)
     /\ \/ ours.done
        \/ IF ours.kind = "reverse"
           THEN Peek(theirs).type \notin {"completion", "sentence"}
           ELSE Peek(ours).end < Peek(theirs).end

\* An echo among the first n has been asked, and if it gives way is exhausted.
Asked(n) ==
  [i \in DOMAIN translations |->
     IF i <= n /\ translations[i].kind = "echo" /\ GivesWay(i)
     THEN [translations[i] EXCEPT !.done = TRUE] ELSE translations[i]]

-----------------------------------------------------------------------------
(* Filters                                                                  *)

Simplifier(c) ==
  IF simplification /\ c.text \in DOMAIN Forms
  THEN [i \in DOMAIN Forms[c.text] |-> Candidate(Forms[c.text][i], c.end, c.type)]
  ELSE << c >>

SameText(recruited, c) == {j \in DOMAIN recruited : recruited[j].first.text = c.text}

New(cs) == [i \in DOMAIN cs |-> [first |-> cs[i], others |-> << >>]]

\* Mutant: a candidate is compared with the one before only.
UniquifierOfNeighbours(recruited, cs) ==
  recruited \o New(Kept(cs, {i \in DOMAIN cs :
    recruited = << >> \/ recruited[Len(recruited)].first.text # cs[i].text}))

\* A candidate whose text has been recruited is merged into the earlier one.
Uniquifier(recruited, cs) ==
  LET merged(j) == Kept(cs, {i \in DOMAIN cs : cs[i].text = recruited[j].first.text})
      fresh == Kept(cs, {i \in DOMAIN cs : SameText(recruited, cs[i]) = {}})
  IN [j \in DOMAIN recruited |-> [recruited[j] EXCEPT !.others = @ \o merged(j)]]
     \o New(fresh)

-----------------------------------------------------------------------------
(* Menu::Prepare, one round of the loop at a time                            *)

Preparing == Len(candidates) < want /\ translations # << >>
Winners == {i \in DOMAIN translations : ~ Loses(i)}

\* The first generator that does not lose to the next one provides.
Recruit ==
  /\ Preparing
  /\ \E k \in Winners :
       /\ \A j \in Winners : k <= j
       /\ LET t == translations[k] IN
          IF t.done
          THEN translations' = RemoveAt(Asked(k - 1), k) /\ UNCHANGED candidates
          ELSE \E next \in {Advance(t)} :
                 /\ translations' = IF next.done THEN RemoveAt(Asked(k - 1), k)
                                    ELSE [Asked(k - 1) EXCEPT ![k] = next]
                 /\ candidates' = Uniquifier(candidates, Simplifier(Peek(t)))
  /\ UNCHANGED << offered, selected_index, page, op, want >>

\* Mutant: the loop goes on when nobody provides.
FailAndRetry ==
  /\ Preparing /\ Winners = {}
  /\ translations' = Asked(Len(translations))
  /\ UNCHANGED << offered, candidates, selected_index, page, op, want >>

\* Nobody provides, and the loop is left.
FailToSelect ==
  /\ Preparing /\ Winners = {}
  /\ translations' = Asked(Len(translations)) /\ want' = 0
  /\ UNCHANGED << offered, candidates, selected_index, page, op >>

-----------------------------------------------------------------------------
(* What the user and the front end do                                        *)

Init ==
  /\ recipe \in Recipes /\ simplification \in BOOLEAN
  /\ translations = recipe /\ candidates = << >>
  /\ selected_index = 0 /\ page = NoPage /\ op = "none" /\ want = 0

Move(index) ==
  /\ selected_index' = index /\ page' = NoPage /\ op' = "none" /\ want' = 0
  /\ UNCHANGED << offered, translations, candidates >>
Request(name, n) ==
  /\ op = "none"
  /\ op' = name /\ want' = n /\ page' = NoPage
  /\ UNCHANGED << offered, translations, candidates, selected_index >>
Prepared(name) == op = name /\ ~ Preparing

PageUp ==
  /\ op = "none"
  /\ Move(IF selected_index < page_size THEN 0 ELSE selected_index - page_size)

CursorUp == op = "none" /\ selected_index > 0 /\ Move(selected_index - 1)

Home == op = "none" /\ selected_index > 0 /\ Move(0)

NextPage == ((selected_index + page_size) \div page_size) * page_size
PageDown == Request("PageDown", NextPage + page_size)

\* Mutant: the highlight moves by a page, whether or not there are so many.
TurnPageBlindly ==
  /\ Prepared("PageDown")
  /\ Move(IF Len(candidates) <= NextPage THEN selected_index
          ELSE selected_index + page_size)

\* The highlight moves by a page, or to the last candidate of the next page.
TurnPage ==
  /\ Prepared("PageDown")
  /\ Move(IF Len(candidates) <= NextPage THEN selected_index
          ELSE IF selected_index + page_size >= Len(candidates)
               THEN Len(candidates) - 1 ELSE selected_index + page_size)

CursorDown == Request("CursorDown", selected_index + 2)
MoveDown ==
  /\ Prepared("CursorDown")
  /\ Move(IF Len(candidates) <= selected_index + 1 THEN selected_index
          ELSE selected_index + 1)

\* A digit: GetCandidateAt prepares one more candidate than the index.
SelectCandidateAt(i) ==
  Request("Select", (selected_index \div page_size) * page_size + i + 1)
SelectPrepared ==
  /\ Prepared("Select")
  /\ Move(IF want \in 1 .. Len(candidates) THEN want - 1 ELSE selected_index)

PageStart == (selected_index \div page_size) * page_size
\* RimeGetContext
GetContext == Request("GetContext", PageStart + page_size)

CreatePage ==
  /\ Prepared("GetContext")
  /\ LET size == Len(candidates)
         end == IF PageStart + page_size < size THEN PageStart + page_size ELSE size
     IN page' = IF PageStart >= size THEN NoPage
                ELSE [no |-> selected_index \div page_size, size |-> end - PageStart,
                      last |-> translations = << >> /\ end = size]
  /\ op' = "none" /\ want' = 0
  /\ UNCHANGED << offered, translations, candidates, selected_index >>

Answer == Recruit \/ FailToSelect \/ TurnPage \/ MoveDown \/ SelectPrepared
            \/ CreatePage
Next ==
  \/ PageUp \/ CursorUp \/ Home \/ PageDown \/ CursorDown \/ GetContext
  \/ \E i \in 0 .. page_size - 1 : SelectCandidateAt(i)
  \/ Answer
Spec == Init /\ [][Next]_vars
FairSpec == Spec /\ WF_vars(Answer)

-----------------------------------------------------------------------------
(* What there is to be offered                                              *)

Words(t) ==
  IF t.kind = "lazy"
  THEN {e.text : e \in UNION {ToSet(t.keys[i].entries) : i \in DOMAIN t.keys}}
  ELSE {c.text : c \in ToSet(t.items)}
Contents(t) == IF t.filtered THEN Words(t) \ Extended ELSE Words(t)

Offered ==
  UNION {Contents(recipe[i]) : i \in {j \in DOMAIN recipe : recipe[j].kind # "echo"}}
Shown == {candidates[i].first : i \in DOMAIN candidates}
FormsOf(text) ==
  IF simplification /\ text \in DOMAIN Forms THEN ToSet(Forms[text]) ELSE {text}
Comparable(t) == t.kind \notin {"echo", "reverse"}

\* A lookup is given up when an expanded search finds no more words, although there
\* may be some further on; here there are none.
Gapless ==
  \A offer \in Recipes : \A i \in DOMAIN offer :
    offer[i].kind = "lazy" => NoGap(offer[i].keys)

\* The variables stay in their ranges.
TypeOK ==
  /\ Len(translations) <= Len(recipe)
  /\ selected_index \in Nat /\ want \in Nat
  /\ op \in {"none", "PageDown", "CursorDown", "Select", "GetContext"}
  /\ page # NoPage => page.no \in Nat /\ page.size \in 1 .. page_size

\* No text is offered twice, whichever generators have it.
NoDuplicates ==
  \A i, j \in DOMAIN candidates :
    i # j => candidates[i].first.text # candidates[j].first.text

\* When all that was offered has been recruited, each text of every generator is in
\* the menu: none is lost between a page of a lookup and the next, or while
\* generators take turns.
NothingLost ==
  (\A i \in DOMAIN translations : translations[i].done) =>
    \A text \in Offered : \A form \in FormsOf(text) : \E c \in Shown : c.text = form

EchoWhenAlone ==
  (\E c \in Shown : c.type = "raw") => Len(candidates) = 1 /\ Offered = {}
LongestFirst ==
  (Len(recipe) <= 2 /\ \A i \in DOMAIN recipe : Comparable(recipe[i])) =>
    \A i, j \in DOMAIN candidates :
      i < j => candidates[i].first.end >= candidates[j].first.end

\* The candidates of two generators are merged with the longest first, and the
\* input itself is a candidate only if there is no other.
MenuIsInOrder == EchoWhenAlone /\ LongestFirst

\* The highlighted candidate exists, and is on the page that is shown.
HighlightIsShown ==
  /\ candidates # << >> => selected_index < Len(candidates)
  /\ page # NoPage => selected_index - page_size * page.no \in 0 .. page.size - 1

\* Every key is answered.
KeysAreAnswered == (op # "none") ~> (op = "none")
=============================================================================

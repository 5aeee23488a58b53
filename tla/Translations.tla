---------------------------- MODULE Translations ----------------------------
(***************************************************************************)
(* What translators offer for a segment: generators of candidates.  A        *)
(* generator is a record whose kind tells its class, and done whether it is  *)
(* exhausted.  A candidate is a text, where it ends in the input, and a type; *)
(* all candidates of a segment begin where the segment does.                 *)
(***************************************************************************)
EXTENDS Integers, Sequences, FiniteSets, SequencesExt, FiniteSetsExt, TLC

CONSTANTS
  kInitialSearchLimit, kExpandingFactor,   \* of a lazy lookup
  Extended   \* texts with characters that the charset filter rejects

ASSUME LimitAssumption ==
  kInitialSearchLimit \in Nat \ {0} /\ kExpandingFactor \in Nat \ {0, 1}

\* The elements of a sequence at some indices, in their order
Kept(s, indices) ==
  LET rank(i) == Cardinality({j \in indices : j <= i})
  IN [n \in 1 .. Cardinality(indices) |-> s[CHOOSE i \in indices : rank(i) = n]]

Candidate(text, end, type) == [text |-> text, end |-> end, type |-> type]

\* UniqueTranslation, FifoTranslation, TableTranslation, SentenceTranslation and
\* ReverseLookupTranslation hold what they offer.
Listed(kind, items) == [kind |-> kind, items |-> items, filtered |-> FALSE, done |-> items = << >>]

-----------------------------------------------------------------------------
(* Words by predictive lookup, some keys of the prism at a time.  A chunk has *)
(* the words of a key: the length of the code that remains, and their texts   *)
(* and weights.                                                             *)

WithWords(chunks) == {k \in DOMAIN chunks : chunks[k].entries # << >>}

LookupWords(keys, limit) == Kept(keys, {k \in WithWords(keys) : k <= limit})

\* An expanded search finds words as long as there are any.
NoGap(keys) ==
  \A limit \in kInitialSearchLimit .. Len(keys) :
    (\E k \in WithWords(keys) : k > limit) =>
      \E k \in WithWords(keys) : limit < k /\ k <= limit * kExpandingFactor

EntryCount(chunks) ==
  Cardinality(UNION {{k} \X DOMAIN chunks[k].entries : k \in DOMAIN chunks})

Before(a, b) ==
  \/ a.remaining < b.remaining
  \/ a.remaining = b.remaining /\ a.entries[1].weight > b.entries[1].weight
Sort(chunks) ==
  LET precedes(i, j) == \/ Before(chunks[i], chunks[j])
                        \/ ~ Before(chunks[j], chunks[i]) /\ i < j
      rank(i) == Cardinality({j \in DOMAIN chunks : j = i \/ precedes(j, i)})
  IN [n \in DOMAIN chunks |-> chunks[CHOOSE i \in DOMAIN chunks : rank(i) = n]]

\* DictEntryIterator::Next: the chunks are reordered only when the first of them
\* has got a new head.
NextEntry(chunks) ==
  LET rest == Tail(chunks[1].entries)
  IN IF rest = << >> THEN Tail(chunks)
     ELSE Sort([chunks EXCEPT ![1].entries = rest])

\* DictEntryIterator::Skip passes over the first n words.
Skip(chunks, n) ==
  LET skipped(k) == n - EntryCount(SubSeq(chunks, 1, k - 1))
      cut == [k \in DOMAIN chunks |-> [chunks[k] EXCEPT !.entries =
                IF skipped(k) <= 0 THEN @ ELSE SubSeq(@, skipped(k) + 1, Len(@))]]
  IN Kept(cut, WithWords(cut))

Lazy(keys, end) ==
  LET iter == LookupWords(keys, kInitialSearchLimit)
  IN [kind |-> "lazy", keys |-> keys, end |-> end, iter |-> iter,
      limit |-> kInitialSearchLimit, count |-> EntryCount(iter),
      filtered |-> FALSE, done |-> iter = << >>]

\* Mutant: a page of keys is looked up, and no more.
FetchNoMore(t) == [t EXCEPT !.limit = 0, !.iter = << >>, !.done = TRUE]

\* More keys, the words of those seen before being skipped.
FetchMore(t) ==
  LET limit == t.limit * kExpandingFactor
      more == LookupWords(t.keys, limit)
      gained == EntryCount(more) > t.count
      iter == IF gained THEN Skip(more, t.count) ELSE << >>
  IN [t EXCEPT !.limit = IF Len(t.keys) < limit THEN 0 ELSE limit,
               !.count = IF gained THEN EntryCount(more) ELSE @,
               !.iter = iter, !.done = iter = << >>]

NextLazy(t) ==
  LET iter == NextEntry(t.iter)
  IN IF t.limit > 0 /\ iter = << >> THEN FetchMore(t)
     ELSE [t EXCEPT !.iter = iter, !.done = iter = << >>]

-----------------------------------------------------------------------------
(* Phrases of the user and of the dictionary, the longest first, in front of   *)
(* them a sentence, if there is one.  Both lists are sorted by length.         *)

\* user phrases go first among phrases of the same length
Merge(user, phrases) ==
  LET all == user \o phrases
      order == SortSeq([i \in DOMAIN all |-> i], LAMBDA i, j :
                 all[i].end > all[j].end \/ (all[i].end = all[j].end /\ i < j))
  IN [i \in DOMAIN all |-> all[order[i]]]

R10n(sentence, user, phrases) ==
  [kind |-> "r10n", items |-> sentence \o Merge(user, phrases), seen |-> {},
   filtered |-> FALSE, done |-> user \o phrases = << >>]

\* Texts that were offered before are passed over, but not after the sentence.
NextR10n(t) ==
  LET seen == t.seen \cup {t.items[1].text}
      new == {i \in 2 .. Len(t.items) : t.items[1].type = "sentence"
                                          \/ t.items[i].text \notin seen}
      rest == IF new = {} THEN << >> ELSE SubSeq(t.items, Min(new), Len(t.items))
  IN [t EXCEPT !.seen = seen, !.items = rest, !.done = rest = << >>]

-----------------------------------------------------------------------------
(* Any generator                                                            *)

Peek(t) ==
  IF t.kind = "lazy"
  THEN Candidate(t.iter[1].entries[1].text, t.end,
                 IF t.iter[1].remaining = 0 THEN "zh" ELSE "completion")
  ELSE t.items[1]

Step(t) ==
  CASE t.kind = "lazy" -> NextLazy(t)
    [] t.kind = "r10n" -> NextR10n(t)
    [] OTHER -> [t EXCEPT !.items = Tail(@), !.done = Len(t.items) = 1]

Passed(text) == text \notin Extended

\* A charset filter around a generator passes over what it rejects, at most all
\* that is left.  (The sets of one are there for each step to be evaluated once.)
LocateNextCandidate(t) ==
  LET settled(u) == ~ u.filtered \/ u.done \/ Passed(Peek(u).text)
      after[n \in Nat] ==
        IF n = 0 THEN t
        ELSE CHOOSE u \in {IF settled(v) THEN v ELSE Step(v) : v \in {after[n - 1]}} : TRUE
  IN after[IF t.kind = "lazy" THEN EntryCount(t.keys) ELSE Len(t.items)]

CharsetFilter(t) == LocateNextCandidate([t EXCEPT !.filtered = TRUE])
Advance(t) == CHOOSE u \in {LocateNextCandidate(s) : s \in {Step(t)}} : TRUE
=============================================================================

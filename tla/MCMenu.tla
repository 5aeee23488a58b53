------------------------------- MODULE MCMenu -------------------------------
(* What the translators of a schema may offer for an input of three letters. *)
EXTENDS Menu

List(type, texts, end) ==
  Listed("list", [i \in DOMAIN texts |-> Candidate(texts[i], end, type)])
Key(remaining, texts, weight) ==
  [remaining |-> remaining,
   entries |-> [i \in DOMAIN texts |-> [text |-> texts[i], weight |-> weight - i]]]
Group(texts, end) == [i \in DOMAIN texts |-> Candidate(texts[i], end, "zh")]

Echo == Listed("echo", << Candidate("abc", 3, "raw") >>)
Punct == List("punct", << "stop", "mark" >>, 3)
\* words of the first two syllables and of the first, and no word for all of it
Sentence == Listed("list", << Candidate("long", 3, "sentence"),
                              Candidate("ming", 2, "zh"), Candidate("ri", 1, "zh") >>)
Lookup == Listed("reverse", << Candidate("ming", 3, "reverse_lookup"),
                                Candidate("stroke", 3, "reverse_lookup") >>)
\* more keys than a search finds, one of them without words
Keys == << Key(0, << "ming", "yue" >>, 9), Key(1, << "tian" >>, 5),
           Key(1, << >>, 5), Key(1, << "rare", "xing" >>, 7),
           Key(2, << "hou" >>, 1) >>
Table == Lazy(Keys, 3)
Filtered == CharsetFilter(Lazy(Keys, 3))
Phrases == R10n(<< >>, Group(<< "ming", "hou" >>, 3) \o Group(<< "ri" >>, 1),
                Group(<< "hou", "rare" >>, 3) \o Group(<< "yue" >>, 2))
Fluent == R10n(<< Candidate("long", 3, "sentence") >>, Group(<< "ming" >>, 2),
               Group(<< "ming", "yue" >>, 2) \o Group(<< "ri" >>, 1))

Generators == {Echo, Punct, Sentence, Lookup, Table, Filtered, Phrases, Fluent}
SomeRecipes ==
  {<< g >> : g \in Generators} \cup (Generators \X (Generators \ {Echo}))
    \cup {<< Echo, Punct, Fluent >>, << Echo, Lookup, Table >>,
          << Lookup, Table, Phrases >>}
ASSUME KeysAssumption == Gapless
SomeForms == [t \in {"hou", "tian"} |-> IF t = "hou" THEN << "hou", "ming" >> ELSE << "yue" >>]
=============================================================================

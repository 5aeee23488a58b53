--------------------------- MODULE MCSyllabifier ---------------------------
(* Inputs for checking Syllabifier.                                          *)
EXTENDS Syllabifier

\* no delimiter, one, and two in a row
FewDelims == {{}, {1}, {1, 2}, {0}}
NoDelims == {{}}
Plain == {{}, {kNormalSpelling}, {kAbbreviation}}
Mixed == Plain \cup {{kNormalSpelling, kAbbreviation}}
Normal == << kNormalSpelling >>
Completions ==
  {<< >>, << Normal >>, << Normal, Normal \o Normal >>, << << kAbbreviation >> >>,
   << Normal \o << kAbbreviation >> \o Normal >>}
=============================================================================

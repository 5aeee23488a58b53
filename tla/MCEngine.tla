------------------------------ MODULE MCEngine ------------------------------
(* Constants for checking Engine.                                            *)
EXTENDS Engine

\* a dictionary that knows no word longer than two letters, and a second word
\* and the first letter for two of them
ShortWords ==
  [n \in 1 .. MaxInput |-> IF n = 1 THEN << 1, 1 >> ELSE << 2, 1, 1 >>]

\* the same with one word of one letter; and without the second words
FewWords == [n \in 1 .. MaxInput |-> IF n = 1 THEN << 1 >> ELSE << 2, 1, 1 >>]
FewestWords == [n \in 1 .. MaxInput |-> IF n = 1 THEN << 1 >> ELSE << 2, 1 >>]

NoPuncts == << >>
ExpressPuncts ==
  [p \in {"comma", "quote", "stop"} |->
     CASE p = "comma" -> "unique" [] p = "quote" -> "pair" [] p = "stop" -> "commit"]
FluencyPuncts == [p \in {"slash"} |-> "list"]
=============================================================================

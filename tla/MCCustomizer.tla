---------------------------- MODULE MCCustomizer ----------------------------
(* A file with three keys.  "x" leads through a value and cannot be set.    *)
EXTENDS Customizer

CONSTANTS Red, Blue
v1 == << 2, 0 >>   \* 1.0
v2 == << 2, 0, 2 >>   \* 1.0.1
v3 == << 4, 0 >>   \* 2.0
ThreeVersions == {v1, v2, v3}
Colours == {Red, Blue}
ThreeKeys == << "a", "x", "b" >>
Through == {"x"}
SomePatches == {[a |-> Red], [b |-> Blue], [a |-> Blue, x |-> Red]}
SomeChoices == {[b |-> Red]}
=============================================================================

----------------------------- MODULE MCRomStart -----------------------------
(***************************************************************************)
(* RomStart for TLC: two images that share no word, so that a mixture of   *)
(* them shows; and beside it the functions that the ROM offers to programs *)
(* and the disk that it shows to a host, on bounded inputs.                *)
(***************************************************************************)
EXTENDS Rom

TestImages == {[vtor |-> 2, sp |-> 3, pc |-> 4], [vtor |-> 5, sp |-> 6, pc |-> 7]}

\* At most two ones, at most one zero, and every run of ones.
FewOnes == {{i, j} : i, j \in Bit} \cup {{}}
Runs    == {i..j : i, j \in Bit}
TestWords == FewOnes \cup Runs \cup {Bit \ {i} : i \in Bit}

\* Up to two bytes of few ones, and one of five bytes, longer than the sum.
TestBytes    == {{}, {0}, {7}, {0, 7}, 0..7, {1, 4}}
TestMessages == UNION {[1..n -> TestBytes] : n \in 0..2}
                    \cup {<<{7}, {}, {3, 4}, 0..7, {0}>>}

\* Pages of two places, neither at the end: every one of up to seven letters, and
\* longer ones that repeat themselves.
MCPlaces(text) == {i \in 1..Len(text) : text[i] = "version"}
IsPage(text) == Cardinality(MCPlaces(text)) = 2 /\ Len(text) \notin MCPlaces(text)
TestTexts == {text \in UNION {[1..n -> {"a", "b", "version"}] : n \in 3..7}
                          \cup [1..11 -> {"a", "version"}] : IsPage(text)}

=============================================================================

------------------------- MODULE MCStreamingSession -------------------------
(* Instances of StreamingSession for TLC. *)
EXTENDS StreamingSession, TLC

CONSTANTS c1, c2

\* A word, the same word with a second one, and another word.
SmallTexts == {<<1>>, <<1, 2>>, <<3>>}

\* One text, where the properties do not look at texts.
OneText == {<<1>>}

Symmetric == Permutations(Conns)
=============================================================================

----------------------------- MODULE MCRouting -----------------------------
(* Values for the TLC runs of Routing, written as characters.              *)
EXTENDS Routing

Character == [a |-> 97, two |-> 50, F |-> 70]

\* A letter, two digits and a letter that can follow a percent sign, and every
\* byte the codec treats specially.
MCAlphabet == {Character.a, Character.two, Character.F,
               Percent, Dot, Slash, Open, Close}

\* Upstream ids "a" and "{%2": the grammar forbids neither braces nor percent.
MCEnabled == {<<Character.a>>, <<Open, Percent, Character.two>>}

\* Values "", "/", "%2" and "a}".
MCValues == {<<>>, <<Slash>>, <<Percent, Character.two>>, <<Character.a, Close>>}
=============================================================================

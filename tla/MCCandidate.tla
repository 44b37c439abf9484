----------------------------- MODULE MCCandidate -----------------------------
(***************************************************************************)
(* TLC instances of Candidate: decimals in base 3, bytes of two bits,      *)
(* blocks of four bytes, of which the length takes two.                    *)
(***************************************************************************)
EXTENDS Candidate, TLC

Full == <<3, 1, 2, 0, 1, 3>>
Other == <<3, 1, 2, 0, 1, 2>>
NoBoot == <<0, 1, 2>>

MCImages == {First(Full, n) : n \in 0 .. 6} \cup {Other, NoBoot, Full \o <<0>>}
MCLeftovers == {Full \o <<2>>, Zeros(7)}

Line1(value) == [key |-> "manifest", value |-> value]
Pair1(key, value) == [key |-> key, value |-> value]

Digests == {Padded(First(Full, n)) : n \in 0 .. 6} \cup {Padded(NoBoot)}

\* All numerals of up to three characters; 3 is one that is no digit.
Numerals == UNION {[1 .. n -> 0 .. 3] : n \in 0 .. 3}

Orders == Permutations({1, 2, 3})
InOrder(o, a, b, c) == <<<<a, b, c>>[o[1]], <<a, b, c>>[o[2]], <<a, b, c>>[o[3]]>>

\* Well-formed files with every digest and length.
Plain ==
  {<<Line1(<<1>>), Pair1("sha256", d), Pair1("length", n), Pair1("version", <<0, 1>>)>> :
     d \in Digests, n \in {x \in Numerals : Len(x) > 0}}

\* Files of up to four lines behind the first.
Lines ==
  {BlankLine, Pair1("sha256", Padded(Full)), Pair1("length", <<2, 0>>),
   Pair1("length", <<1>>), Pair1("version", <<0, 1>>), Pair1("version", Bad),
   Pair1("length", NoValue), Pair1("other", <<1>>), Pair1("none", <<1>>), Pair1("overlong", <<1>>)}

Assorted ==
  {<<Line1(<<1>>)>> \o ls : ls \in UNION {[1 .. n -> Lines] : n \in 0 .. 4}}

FirstLines ==
  {<<>>} \cup
  {<<l>> \o InOrder(o, Pair1("sha256", Padded(Full)), Pair1("length", <<2, 0>>), Pair1("version", <<0, 1>>)) :
     l \in {BlankLine, Line1(NoValue), Pair1("version", <<0, 1>>)} \cup {Line1(x) : x \in Numerals},
     o \in Orders}

MCManifests == Plain \cup Assorted \cup FirstLines
MCBootMagic == <<3>>
=============================================================================

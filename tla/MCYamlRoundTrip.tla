-------------------------- MODULE MCYamlRoundTrip --------------------------
(***************************************************************************)
(* A string of at most three characters as a value and in a list of a      *)
(* record, of two as a key; longer ones of the characters at which lines   *)
(* are folded and of those of numbers; shapes of nested, empty and shared  *)
(* collections; and texts of at most three pieces that no dump wrote.      *)
(***************************************************************************)
EXTENDS YamlRoundTrip

Alphabet == {"a", "1", SP, NL, ":", "#", "-", ".", "'", DQ, BS, ESC}
Coded == SeqOf(Hex \cup {"a", "1", SP, NL, BS}, 3)
Strings == SeqOf(Alphabet, 3) \cup Coded
Foldable == TupleOf({"a", SP, NL, "'"}, 5) \cup TupleOf({"a", SP, ESC}, 5)
              \cup TupleOf({"a", SP, HEX2, HEX4}, 4)
Numeric == TupleOf({"1", "-", ":", "."}, 4)

Str(s) == ScalarNode("str", s)
MapOf(kids) == CollectionNode("map", kids)
ListOf(kids) == CollectionNode("seq", kids)
K == Str(<<"a">>)
Long == Str(<<"a", "1", "a", "1", "a">>)
One == ScalarNode("int", <<"1">>)
Score == ScalarNode("float", <<"1", ".", "1">>)

Shapes ==
  {<<MapOf(<<>>)>>,
   <<ListOf(<<2, 3>>), ListOf(<<>>), MapOf(<<>>)>>,
   <<MapOf(<<2, 3, 4, 5>>), K, One, Long, One>>,
   <<MapOf(<<2, 3, 4, 5>>), K, Score, Long, MapOf(<<6, 7, 8, 9>>), K, Score, K, One>>,
   <<ListOf(<<2, 3>>), Score, ScalarNode("float", <<"-", "1", ".">>)>>,
   <<MapOf(<<2, 3>>), ListOf(<<>>), K>>,
   <<MapOf(<<2, 4>>), ListOf(<<3>>), One, MapOf(<<5, 6>>), K, ListOf(<<7, 8>>),
     K, ListOf(<<9>>), K>>,
   <<MapOf(<<2, 3, 5, 3>>), K, ListOf(<<4>>), K, Long>>,
   <<ListOf(<<2, 2, 5>>), MapOf(<<3, 4>>), K, ListOf(<<1>>), ListOf(<<2>>)>>,
   <<MapOf(<<2, 3, 4, 2>>), K, MapOf(<<>>), Str(<<>>)>>,
   <<ListOf(<<2, 2, 2, 3, 3>>), ListOf(<<>>), MapOf(<<>>)>>}

MCDocs ==
  {<<MapOf(<<2, 3>>), K, Str(s)>> : s \in Strings \cup Foldable \cup Numeric}
    \cup {<<MapOf(<<2, 3>>), Str(s), K>> : s \in SeqOf(Alphabet, 2)}
    \cup {<<MapOf(<<2, 3>>), K, ListOf(<<4, 5>>), Str(s), K>> : s \in SeqOf(Alphabet, 2)}
    \cup {<<Str(s)>> : s \in SeqOf(Alphabet, 1)}
    \cup Shapes

Pieces == {<<"a">>, <<"a", ":", SP>>, <<"-", SP>>, <<NL>>, <<SP, SP>>, <<"[">>,
           <<"]">>, <<"{">>, <<"}">>, <<",">>, <<"?", SP>>, <<":", SP>>,
           <<"&", "a", SP>>, <<"*", "a">>, <<"#">>, <<"'">>, <<"@">>,
           <<DQ, BS, "x", "1">>, <<"1", DQ>>,
           <<"-", "-", "-", NL>>, <<".", ".", ".", NL>>}
MCTexts == {FlattenSeq(w) : w \in SeqOf(Pieces, 3)}
=============================================================================

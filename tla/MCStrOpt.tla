------------------------------ MODULE MCStrOpt ------------------------------
(* Texts, splitters and numbers of StrOpt for TLC. *)
EXTENDS StrOpt

SomeChars ==
  Blanks \cup Digits \cup {"a", ".", ";", ",", "e", "E", "+", "-"}

UpTo(n, chars) == UNION {[1 .. k -> chars] : k \in 0 .. n}

ShortTexts ==
  UpTo(6, {"a", ".", ";"}) \cup UpTo(6, {"a", " ", "\t"})
    \cup UpTo(5, {"a", "\r", "\n", " "}) \cup NumberTexts

Way(call, sep, merge) == [call |-> call, sep |-> sep, merge |-> merge]

AllWays ==
  {Way("strSepParse", <<".">>, FALSE), Way("strLine", <<>>, FALSE)}
    \cup {Way("strParse", sep, merge) :
            sep \in {<<".">>, <<".", ".">>, <<".", ";">>}, merge \in BOOLEAN}

SomeNumbers ==
  [neg : BOOLEAN, mant : {0, 7, 10, 25, 305}, places : 0 .. 3,
   exp : {-15, -10, -1, 0, 2, 12, 15}]
=============================================================================

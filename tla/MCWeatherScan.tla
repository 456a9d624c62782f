--------------------------- MODULE MCWeatherScan ---------------------------
(* Texts that are put together from the tokens the scanner tells apart. *)
EXTENDS WeatherScan

OtherLetters == {"x"}
OtherMarks == {"!"}

Tokens ==
  { <<"0", "9", "0", "/", "0", "0", "5">>, <<"c", "0", "9", "0", "s", "0", "0", "5">>,
    <<"c", "0", "9", "0">>, <<"s", "0", "1", "2">>, <<"g", "5">>, <<"g", ".", ".", ".">>,
    <<"t", "-", "0", "5">>, <<"t", "0", ".", "7">>, <<"t", "+", "0", "5">>,
    <<"r", ".", ".", ".">>, <<"s", ".">>, <<"s", " ", "V", "5">>, <<"h", "5", "0">>,
    <<"h", "5", "x">>, <<"b", "1", "0", "0", "5">>, <<"L", "5">>, <<"l", ".", ".">>,
    <<"F", "0", "0", "5", "0">>, <<"X", "1", "1", "1">>, <<"#", "5">>, <<"#", " ">>, <<"#", " ", " ", " ", ".", " ", " ">>,
    <<"v", "1">>, <<"x">>, <<" ">>, <<".">>, <<"|">>,
    <<"|", "v", "1", "!", "!", "|">> }

Scraps == {"s", ".", "5", "x", " ", "|"}

SomeTexts ==
  {a \o b \o c : a \in Tokens, b \in Tokens, c \in Tokens}
    \cup UNION {[1 .. n -> Scraps] : n \in 0 .. 5}
=============================================================================

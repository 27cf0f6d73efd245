--------------------------- MODULE MCSerialFraming --------------------------
(* SerialFraming for TLC: every script of up to three items, with markers, *)
(* newlines and lengths where they might be taken for something else.      *)
EXTENDS SerialFraming

A == 65
F(kind, body) == [kind |-> kind, lo |-> Len(body) % 256, hi |-> Len(body) \div 256, body |-> body]
Boot == F("line", <<1, 0, A, A, A>>)
MCItems == {
  F("frame", <<>>), F("frame", <<1>>), F("frame", <<Marker, Newline>>),
  F("cut", <<A, 1>>), F("cut", <<Marker>>),
  F("line", <<A>>), F("line", <<1>>), Boot,
  F("prompt", <<A>>)}

(* The longer scripts end with a restart.                                  *)
Scripted(n) == {s \in [1 .. n -> MCItems] : Separated(s)}
MCScripts ==
  Scripted(1) \cup Scripted(2) \cup Scripted(3) \cup
  {s \o <<Boot, F("frame", <<1>>)>> : s \in {x \in Scripted(2) : x[2].kind # "prompt"}}
=============================================================================

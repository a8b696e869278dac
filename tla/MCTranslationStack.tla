------------------------- MODULE MCTranslationStack -------------------------
(* Instances of TranslationStack for TLC. *)
EXTENDS TranslationStack, TLC

MCShorten == [t \in Targets |-> IF t = "long" THEN "a" ELSE t]
MCReuses == {Nothing, 1 :> "a" @@ Nothing}
MCGlossaries == {Nothing, 1 :> "b" @@ Nothing, 2 :> "bad" @@ Nothing}

\* The endpoint may serve other models than before, or none.
MCListings == {<<"chat", "chat", "embedding">>, <<"embedding", "other">>, << >>}

NoTerms == [t \in Texts |-> Unknown]
MCTerms == {NoTerms, [NoTerms EXCEPT !["t1"] = "joined"], [NoTerms EXCEPT !["t1"] = "ok"]}
R(i, t) == [id |-> i, text |-> t]
MCBatches == {<<R(1, "t1"), R(2, "t2"), R(3, "t1"), R(4, "plain")>>, <<R(1, "t2"), R(1, "t1")>>, <<R(1, "t1")>>}

\* Tokens never stand side by side in a source, except an identifier and a sign.
Adjacent(x, y) == {x, y} \subseteq Atoms
ShortTexts(symbols, n) ==
  {s \in UNION {[1..k -> symbols] : k \in 1..n} : \A i \in 1..(Len(s) - 1) : ~Adjacent(s[i], s[i + 1])}
MCSourceTexts ==
  ShortTexts({"han", "comma", "M"}, 4) \cup ShortTexts({"han", "gold", "K", "18K"}, 3)
    \cup ShortTexts({"han", "M", "->"}, 3)
MCMarkers == <<"#0", "#1", "#2", "#3">>

MCProses == {<< >>, <<"a">>, <<"space">>, <<"M", "a", "space">>}
=============================================================================

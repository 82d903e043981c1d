----------------------------- MODULE MCCardList -----------------------------
(* CardList with every file of up to six characters of five kinds, and every *)
(* one of up to eight of a digit and a line end, of which eight do not fit.  *)
EXTENDS CardList

StringsOf(chars, n) == UNION {[1 .. k -> chars] : k \in 0 .. n}

MCFiles   == StringsOf({1, Nul, Sep, Blank, Other}, 6) \cup StringsOf({1, Sep}, 8)
MCShown   == {<< >>, <<1>>, <<17>>, <<0>>, <<17, 17>>, <<17, 1>>}
MCOverrun == {<<Other>>, <<1, 1>>}
=============================================================================

--------------------------- MODULE MCGraphSnapshot ---------------------------
(* Small instances of GraphSnapshot. *)
EXTENDS GraphSnapshot

\* The edges of a->b -> a -> b->a are written alike.
MCNames == {<<"a">>, <<"a", "->", "b">>, <<"b", "->", "a">>}

\* One, two and three arguments.
MCArgv == [n \in MCNames |->
  CASE n = <<"a">>            -> <<"cat">>
    [] n = <<"a", "->", "b">> -> <<"sort", "-u">>
    [] OTHER                  -> <<"tr", "a", "b">>]
==============================================================================

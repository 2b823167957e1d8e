----------------------------- MODULE MCPickling -----------------------------
(* Contexts for the model checking of Pickling.                             *)
EXTENDS Pickling

(* A number, an object that pickle refuses; a mesh, a model with the mesh   *)
(* in its arguments and its state, a field on the model; two structures     *)
(* whose __getstate__ fails, one whose state is refused; one with a list of *)
(* structures in its arguments, and one that is in its own state.           *)
Leaves      == {"n", "fun"}
DataOfStudy == {"mesh", "model", "field", "broken", "torn", "leaky",
                "holder", "twin"}

(* Lists: structures and others, numbers, the list of numbers; refused      *)
(* objects after nothing, after a list that others hold, after a structure; *)
(* a list of structures in a list, with and without a structure beside it.  *)
ListsOfStudy == {"mixed", "pair", "box", "lone", "funs", "spoilt", "nested", "hidden"}
Names == Leaves \cup DataOfStudy \cup ListsOfStudy

KindOf == [o \in Names |-> IF o \in Leaves THEN "plain"
                          ELSE IF o \in ListsOfStudy THEN "list" ELSE "ds"]

ItemsOf == [o \in Names |->
    CASE o = "model"  -> <<"n", "mesh">>
      [] o = "field"  -> <<"model">>
      [] o = "holder" -> <<"mixed">>
      [] o = "mixed"  -> <<"model", "n", "mesh">>
      [] o = "pair"   -> <<"n", "n">>
      [] o = "box"    -> <<"pair">>
      [] o = "lone"   -> <<"fun">>
      [] o = "funs"   -> <<"pair", "fun">>
      [] o = "spoilt" -> <<"mesh", "fun">>
      [] o = "nested" -> <<"mesh", "mixed">>
      [] o = "hidden" -> <<"mixed">>
      [] OTHER        -> <<>>]

States == [o \in Names |->
    CASE o = "model" -> <<"mesh">>
      [] o = "field" -> <<"n", "mesh">>
      [] o = "leaky" -> <<"n", "fun">>
      [] o = "twin"  -> <<"mesh", "twin">>
      [] OTHER       -> <<>>]

UpTo(n, S) == UNION {[1..k -> S] : k \in 1..n}

(* The contexts of two names, of three among some, and others, where marks  *)
(* and numbers are read in the place of each other after a refused list.    *)
Usual == {"fun", "mesh", "model", "field", "mixed", "pair", "box", "funs"}
Long  == {<<"funs", "mixed", "funs", "n">>, <<"funs", "mixed", "pair", "n", "n">>,
          <<"lone", "mixed", "nested">>, <<"lone", "nested", "mixed">>,
          <<"broken", "funs", "mesh", "torn", "pair", "n">>}
SomeContexts == UpTo(2, Names) \cup UpTo(3, Usual) \cup Long
AllContexts  == UpTo(3, Names)
=============================================================================

--------------------------- MODULE MCProviderStream ---------------------------
(* Answers small enough to interleave every delta: one call has its arguments in *)
(* two fragments, one in a single fragment, one takes none, and one has no name. *)
EXTENDS ProviderStream

Fragments == [c \in Calls |-> CASE c = "a" -> 2 [] c = "none" -> 0 [] OTHER -> 1]
Answers == { <<>>, <<"text">>, <<"a">>, <<"text", "none">>, <<"a", "b">>,
             <<"text", "a", "b">>, <<"a", "bad">>, <<"bad", "a">>, <<"bad">>,
             <<"text", "bad">>, <<"none", "a", "b">> }
================================================================================

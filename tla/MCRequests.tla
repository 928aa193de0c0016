------------------------------ MODULE MCRequests ------------------------------
(* Requests to build: conversations of three turns of nine kinds, settings on   *)
(* both sides of every limit, and lists of tools whose names collide or whose   *)
(* schemas refer to each other, in circles too.                                 *)
EXTENDS Integers, Sequences

\* the vocabulary of Requests; its variables play no part here
W == INSTANCE Requests WITH Asked <- {}, request <- <<>>, provider <- "", body <- <<>>

(* Turn i. Two of them number their call 9, as Gemini's reader numbers the calls of
   every answer from the same one on. One leaves its call without a result, as a
   truncated response does. *)
Turns(i) ==
    { << W!Msg("user", << W!Text(i) >>) >>,
      << W!Msg("user", << W!Text(i), W!Image >>) >>,
      << W!Msg("user", << W!LinkedDocument >>) >>,
      << W!Msg("assistant", << W!Thinking >>) >>,
      << W!Msg("assistant", << W!Text(i), W!Call(i, "Read") >>) >>,
      << W!Msg("system", << W!Text(i) >>) >>,
      << W!Msg("assistant", << W!Text(i), W!Call(i, "Read") >>),
         W!Msg("user", << W!Result(i) >>) >>,
      << W!Msg("assistant", << W!Call(9, "Read") >>),
         W!Msg("user", << W!Result(9), W!Text(i) >>) >>,
      << W!Msg("assistant", << W!Call(9, "Grep"), W!Call(i, "Read") >>),
         W!Msg("user", << W!Result(9), W!Result(i) >>) >> }
Talks == {a \o b \o c : a \in Turns(1), b \in Turns(2), c \in Turns(3)}

Object(keys, params) == W!Node("object", W!None, keys, params)
Leaf    == W!Node("leaf", W!None, {}, [p \in {} |-> W!None])
Ref(d)  == W!Node("ref", d, {}, [p \in {} |-> W!None])
Targets == {Leaf, Ref("A"), Ref("B"), Ref("C")}     \* nobody defines C
Definitions ==
    {[A |-> a, B |-> b] :
        a \in {Ref("B")} \cup {Object({"additionalProperties"}, [p |-> n]) : n \in Targets},
        b \in {Leaf, Ref("A")} \cup {Object({}, [p |-> n]) : n \in Targets}}
Schemas ==
    {[defs |-> d, root |-> Object({"$schema", "definitions", "additionalProperties"}, [p |-> x, q |-> y])] :
        d \in Definitions, x \in Targets, y \in Targets}

Plain        == [defs |-> [d \in {} |-> W!None], root |-> Object({}, [p |-> Leaf])]
Names        == {<<"a_b">>, <<"a.b">>, <<"a_b", 2>>}
Named(names) == [i \in DOMAIN names |-> [name |-> names[i], schema |-> Plain]]
ToolLists    == {Named(n) : n \in UNION {[1..k -> Names] : k \in 0..3}}
                \cup {<< [name |-> <<"a_b">>, schema |-> s] >> : s \in Schemas}

Settings ==
    [mode : W!Modes, budget : {W!NoBudget, 0, 1, 1024, 4096, 8192, 32768},
     max : {1, 1023, 1024, 1364, 1365, 2048, 16384, 65536}, temperature : BOOLEAN, forced : BOOLEAN]
Usual == [mode |-> "manual", budget |-> W!NoBudget, max |-> 16384, temperature |-> TRUE, forced |-> FALSE]
Hello == << W!Msg("user", << W!Text(1) >>) >>

Ask(talk, settings, tools) == [messages |-> talk, settings |-> settings, tools |-> tools]
MCAsked == {Ask(talk, Usual, <<>>) : talk \in Talks}
           \cup {Ask(Hello, s, t) : s \in Settings, t \in {<<>>, Named(<< <<"a_b">> >>)}}
           \cup {Ask(Hello, Usual, t) : t \in ToolLists}
================================================================================

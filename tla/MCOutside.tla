------------------------------ MODULE MCOutside ------------------------------
(***************************************************************************)
(* What the agent exchanges with the outside, in one run: an answer of a   *)
(* provider (MCProviderStream), or the commands of a session (Outside).  A *)
(* behaviour is one of the two, with the variables of the other at rest.   *)
(***************************************************************************)
EXTENDS MCProviderStream, Outside

VARIABLE part       \* which of the two; never changes

\* two Bash calls of one session, side by side or one after the other; the rest alone
Made    == {<<"bash", "bash">>, <<"no_call", "run">>, <<"docker", "no_call">>,
            <<"stream", "no_call">>, <<"no_call", "exec_streaming">>}
OneLine == [out |-> 1, err |-> 0]
Three   == [out |-> 2, err |-> 1]
Bounds  == [bash |-> OneLine, run |-> Three, docker |-> Three, stream |-> Three,
            exec_streaming |-> Three]

NoAnswer   == Init /\ reader = "gemini" /\ plan = <<>> /\ consumer = "collect"
NoCommands == Session!Init /\ made = <<"no_call", "run">>

MCInit ==
    \/ part = "answer"  /\ Init /\ NoCommands
    \/ part = "command" /\ Session!Init /\ NoAnswer

MCNext ==
    /\ UNCHANGED part
    /\ \/ part = "answer"  /\ Next /\ UNCHANGED commandVars
       \/ part = "command" /\ Session!Next /\ UNCHANGED vars

MCSpec == MCInit /\ [][MCNext]_<<part, vars, commandVars>> /\ Fairness /\ Session!Fairness

(***************************************************************************)
(* Once its connection is over, an answer's reader returns and its         *)
(* consumer has the answer, an error, or has gone away. A call that waits  *)
(* for a command gets its result, if need be by its timeout, and a stream  *)
(* ends when the command and what it left behind have.                     *)
(***************************************************************************)
ExchangesEnd == TurnEnds /\ Session!CommandsEnd
==============================================================================

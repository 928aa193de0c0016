-------------------------------- MODULE Outside --------------------------------
(* The commands of a session (Commands), in variables with names of their own, for  *)
(* the modules that put them beside another exchange with the outside.              *)
EXTENDS Naturals, Sequences

CONSTANTS Jobs, CommandPlans, Dirs, MaxLines,   \* of the commands
          Buffer                                \* of a stream's channel

VARIABLES
    made, stage, shell, behind, where, written, taken, reading, lines, hears, given,
    told, from, before, cwd, gone

commandVars == <<made, stage, shell, behind, where, written, taken, reading, lines, hears,
                 given, told, from, before, cwd, gone>>

Session == INSTANCE Commands
           WITH kind <- made, phase <- stage, left <- behind, chan <- lines, listening <- hears,
                got <- given, result <- told, Plans <- CommandPlans, Capacity <- Buffer

(* A plan says of each call of what kind it is; a directory that may go away is not
   the agent's own. *)
ASSUME CommandAssumption ==
    /\ CommandPlans \subseteq [Jobs -> Session!Kinds]
    /\ Session!Base \notin Dirs /\ Session!None \notin Dirs
    /\ Buffer \in Nat \ {0}

(* A call says what its command printed, where it ended and that it ended: *)
(* what it printed reaches the caller whole and in order, the next call of *)
(* a session starts where the last one ended or where a process it left    *)
(* behind led it, and a command that a sandbox other than Docker's has     *)
(* answered for does not run on.                                           *)
CommandsAreTrue == Session!CommandsAreTrue
================================================================================

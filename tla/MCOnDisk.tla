------------------------------- MODULE MCOnDisk -------------------------------
(***************************************************************************)
(* Three components that share nothing but that a crash leaves them with   *)
(* what is on disk (OnDisk), checked in one run.  A behaviour is one of    *)
(* the three, with the variables of the other two at rest.                 *)
(***************************************************************************)
EXTENDS OnDisk, TLC

\* Writers are interchangeable: only invariants are checked. A part of five bytes holds one
\* message, or a message and a tombstone to the last byte.
Symmetry == Permutations(Writers)

VARIABLE part       \* which of the three; never changes

NoVm == Vm!Init /\ backend = "local"

MCInit ==
    \/ part = "session" /\ Log!Init /\ Solver!Init /\ NoVm
    \/ part = "solve" /\ Log!Init /\ Solver!Init /\ NoVm
    \/ part = "vm" /\ Log!Init /\ Solver!Init /\ Vm!Init

MCNext ==
    /\ UNCHANGED part
    /\ \/ part = "session" /\ Log!Next /\ UNCHANGED <<solveVars, boxVars>>
       \/ part = "solve" /\ Solver!Next /\ UNCHANGED <<sessionVars, boxVars>>
       \/ part = "vm" /\ Vm!Next /\ UNCHANGED <<sessionVars, solveVars>>

MCSpec == MCInit /\ [][MCNext]_<<part, sessionVars, solveVars, boxVars>>
===============================================================================

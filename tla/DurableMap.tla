----------------------------- MODULE DurableMap -----------------------------
(***************************************************************************)
(* What a journalled KvStore promises one caller: a map of versioned       *)
(* entries, a copy of it on disk that is always some whole state the map   *)
(* was in, versions that never return, and a process that restarts from    *)
(* the copy.                                                               *)
(***************************************************************************)
EXTENDS Integers

CONSTANTS Keys, Entry, None

VARIABLES live, disk

Fresh(entry) == \A k \in Keys : entry.version > live[k].version /\ entry.version > disk[k].version

Init == live = [k \in Keys |-> None] /\ disk = live

Put(k) ==
    /\ live'[k] \in Entry \ {None} /\ Fresh(live'[k])
    /\ live' = [live EXCEPT ![k] = live'[k]]
    /\ UNCHANGED disk

Remove(k) == live' = [live EXCEPT ![k] = None] /\ UNCHANGED disk

Save == disk' = live /\ UNCHANGED live

Restart == live' = disk /\ UNCHANGED disk

Next == (\E k \in Keys : Put(k) \/ Remove(k)) \/ Save \/ Restart

Spec == Init /\ [][Next]_<<live, disk>>
=============================================================================

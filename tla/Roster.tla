------------------------------- MODULE Roster -------------------------------
(***************************************************************************)
(* What the server promises a plugin about players: each session joins at  *)
(* most once and quits only after it joined, and two sessions that are     *)
(* present at the same time never share a name.                            *)
(***************************************************************************)
CONSTANTS Sessions, Keys

VARIABLES
    present,             \* <<name, session>> of the players in the world
    left                 \* sessions that have quit

vars == <<present, left>>

Init == present = {} /\ left = {}

Join(k, s) ==
    /\ s \notin left
    /\ \A entry \in present : entry[1] # k /\ entry[2] # s
    /\ present' = present \cup {<<k, s>>}
    /\ UNCHANGED left

Quit(k, s) ==
    /\ <<k, s>> \in present
    /\ present' = present \ {<<k, s>>}
    /\ left' = left \cup {s}

Next == \E k \in Keys, s \in Sessions : Join(k, s) \/ Quit(k, s)

Spec == Init /\ [][Next]_vars
=============================================================================

---------------------------- MODULE IdReservation ----------------------------
(***************************************************************************)
(* What the object id map of the super block promises to the rest of the   *)
(* filesystem: an id that was asked for stays reserved, so it is never     *)
(* handed out a second time, and ids nobody asked for become reserved only *)
(* when the map has no room to record the exact set.                       *)
(***************************************************************************)
CONSTANT Ids

VARIABLES
  reserved,  \* the ids the map answers "used" for
  room       \* the map can still record one more separate interval

vars == <<reserved, room>>

Init == reserved = {} /\ room = TRUE

Reserve(id) ==
  /\ reserved \cup {id} \subseteq reserved'
  /\ reserved' \subseteq Ids
  /\ room => reserved' = reserved \cup {id}
  /\ room' \in BOOLEAN

Next == \E id \in Ids : Reserve(id)

Spec == Init /\ [][Next]_vars
=============================================================================

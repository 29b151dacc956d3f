------------------------------ MODULE Jukebox ------------------------------
(***************************************************************************)
(* What the music queue promises: songs wait, one at a time is on, and a   *)
(* song that is over never comes back.                                     *)
(***************************************************************************)
CONSTANTS Items, None

VARIABLES waiting, on, over

jvars == <<waiting, on, over>>

JInit == waiting = {} /\ on = None /\ over = {}

Fresh == Items \ (waiting \cup over \cup {on})

Ask(i) ==
  /\ i \in Fresh
  /\ waiting' = waiting \cup {i}
  /\ UNCHANGED <<on, over>>

\* A waiting song is taken back.
Drop(i) ==
  /\ i \in waiting
  /\ waiting' = waiting \ {i}
  /\ over' = over \cup {i}
  /\ UNCHANGED on

\* The song that is on, if any, is over; a waiting song or a new one of the
\* house is next, or the room falls silent.
Change(next) ==
  /\ next \in waiting \cup Fresh \cup {None}
  /\ on # None \/ next # None
  /\ on' = next
  /\ waiting' = waiting \ {next}
  /\ over' = over \cup ({on} \ {None})

JNext == \/ \E i \in Items : Ask(i) \/ Drop(i)
         \/ \E next \in Items \cup {None} : Change(next)

JSpec == JInit /\ [][JNext]_jvars
=============================================================================

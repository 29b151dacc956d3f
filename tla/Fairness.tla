------------------------------ MODULE Fairness ------------------------------
(***************************************************************************)
(* FairnessService.findInsertionPosition: where among the waiting songs a  *)
(* table's new song goes.  The code scans the list once and counts, table  *)
(* by table, the songs it has passed; every branch that goes on counts the *)
(* song it passes, so the count is a property of the prefix and the scan   *)
(* is the search for the first place that will do.                         *)
(*                                                                         *)
(* The score of a table (what it has consumed, how long it waited, less    *)
(* its penalties) is a number like any other here.                         *)
(***************************************************************************)
EXTENDS Integers, Sequences, FiniteSets

CONSTANTS
  Tables,
  Staff      \* stands for table_id null: songs of the staff and of the house

ASSUME FairnessAssumption == Staff \notin Tables

\* A waiting song, as far as the placement looks at it.
Placeable(song) == song.table \in Tables \cup {Staff} /\ song.score \in Int

\* Songs of a table among the first n of a queue.
PlacesPassed(queue, n, table) ==
  {k \in DOMAIN queue : k <= n /\ queue[k].table = table}
Passed(queue, n, table) == Cardinality(PlacesPassed(queue, n, table))
CountOf(queue, table) == Passed(queue, Len(queue), table)

\* The table before place i: what plays is before the first.
TableBefore(queue, i, playing) ==
  IF i = 1 THEN playing ELSE queue[i - 1].table

\* The other table has more songs waiting than the new one's, and one of them
\* is already ahead.
OwesTheTurn(queue, i, new) ==
  LET other == queue[i].table IN
  /\ CountOf(queue, other) > CountOf(queue, new)
  /\ Passed(queue, i - 1, other) >= 1

\* The scan stops at the song in place i.
StopsAt_NoTurns(queue, i, new, score, playing) ==
  /\ queue[i].table \notin {Staff, new}
  /\ TableBefore(queue, i, playing) # new
  /\ score > queue[i].score

StopsAt(queue, i, new, score, playing) ==
  /\ queue[i].table # Staff
  /\ TableBefore(queue, i, playing) # new
  /\ queue[i].table # new
  /\ OwesTheTurn(queue, i, new) \/ score > queue[i].score

\* The place of the new song, counted from 1, when `busy` tables take part.
FindInsertionPosition(queue, new, score, playing, busy) ==
  LET stops == {i \in DOMAIN queue : StopsAt(queue, i, new, score, playing)}
  IN IF busy <= 1 \/ stops = {}
       THEN Len(queue) + 1
       ELSE CHOOSE i \in stops : \A j \in stops : i <= j

(***************************************************************************)
(* What a place promises.                                                  *)
(***************************************************************************)
\* A song that is put before another one has no song of its own table on
\* either side, nor takes the turn of a song of the staff.
NoNeighbours(queue, new, playing, place) ==
  place \in DOMAIN queue =>
    /\ queue[place].table \notin {new, Staff}
    /\ TableBefore(queue, place, playing) # new

\* A table with nothing waiting does not wait for two songs of any other
\* table, however much that table has consumed.
OneSongEach(queue, new, place) ==
  CountOf(queue, new) = 0 =>
    \A other \in Tables : Passed(queue, place - 1, other) <= 1
=============================================================================

------------------------ MODULE PlaybackQueue_proofs ------------------------
(***************************************************************************)
(* Proofs about PlaybackQueue, for every pool of songs and any number of   *)
(* guests.                                                                 *)
(*                                                                         *)
(* When a single driver moves the queue and skips only songs that are not  *)
(* over: one song plays, what is over stays over, the player is told what  *)
(* plays, and the queue implements the jukebox.  With two drivers none of  *)
(* this holds: each misses the row the other starts.                       *)
(*                                                                         *)
(* For any number of drivers, whatever they skip: the types, with every    *)
(* position within the number of songs, and the order of those that wait.  *)
(***************************************************************************)
EXTENDS PlaybackQueue, FiniteSetTheorems, TLAPS

OneDriver == \A d, e \in Drivers : d = e
SkipsInTime == SkipStatuses \subseteq {"pending", "playing"}

\* The steps of a transaction that has looked at what plays.
Looked == {"seen", "retired", "start", "startHouse", "startNothing"}

IsRow(r) == r = [status |-> r.status, pos |-> r.pos]

Rows ==
  /\ item = [i \in Items |-> item[i]]
  /\ \A i \in Items : IsRow(item[i]) /\ item[i].status \in Statuses

AtMostOne ==
  \A i, j \in Items :
    item[i].status = "playing" /\ item[j].status = "playing" => i = j

\* What the transaction has read still holds: nobody else starts or stops a
\* song, and a song that waits stays until the driver moves it.
StillTrue(d) ==
  /\ call[d].step \in Looked => call[d].see = With("playing")
  /\ call[d].step = "start" => call[d].pick \in With("pending")
  /\ call[d].step = "finish" =>
       \/ call[d].pick \in With("playing")
       \/ call[d].pick = None /\ With("playing") = {}

IInv ==
  /\ Rows
  /\ call \in [Drivers -> DriverCall]
  /\ AtMostOne
  /\ \A d \in Drivers : StillTrue(d)

-----------------------------------------------------------------------------
\* Renumbering rows changes nobody's status.
LEMMA CompactedStatus ==
  ASSUME NEW STATE rows, NEW STATE S, Compacted(rows, S),
         \A i \in Items : IsRow(rows[i]) /\ rows[i].status \in Statuses
  PROVE  Rows' /\ \A i \in Items : item'[i].status = rows[i].status
<1>1. PICK rank : item' = Renumbered(rows, rank)
  BY DEF Compacted
<1>2. ASSUME NEW i \in Items
      PROVE  IsRow(item'[i]) /\ item'[i].status = rows[i].status
  <2> DEFINE p == IF i \in DOMAIN rank THEN rank[i]
                  ELSE IF i \in ActiveIn(rows) THEN rows[i].pos
                  ELSE 0
             s == rows[i].status
  <2>1. item'[i] = [rows[i] EXCEPT !.pos = p]
    BY <1>1 DEF Renumbered
  <2>2. rows[i] = [status |-> s, pos |-> rows[i].pos]
    BY DEF IsRow
  <2> HIDE DEF p, s
  <2>3. item'[i] = [status |-> s, pos |-> p]
    BY <2>1, <2>2
  <2>4. item'[i].status = s /\ item'[i].pos = p
    BY <2>3
  <2>5. IsRow(item'[i])
    BY <2>3, <2>4 DEF IsRow
  <2> QED BY <2>4, <2>5 DEF s
<1>3. item' = [i \in Items |-> item'[i]]
  BY <1>1 DEF Renumbered
<1> QED BY <1>2, <1>3 DEF Rows

\* Retiring the rows of S.
LEMMA RetiredStatus ==
  ASSUME NEW STATE rows, NEW STATE S, NEW STATE status, NEW i \in Items,
         IsRow(rows[i]), rows[i].status \in Statuses, status \in Statuses
  PROVE  /\ IsRow(Retired(rows, S, status)[i])
         /\ Retired(rows, S, status)[i].status =
              IF i \in S THEN status ELSE rows[i].status
<1>1. CASE i \in S
  <2>1. Retired(rows, S, status)[i] = [rows[i] EXCEPT !.status = status]
    BY <1>1 DEF Retired
  <2>2. rows[i] = [status |-> rows[i].status, pos |-> rows[i].pos]
    BY DEF IsRow
  <2>3. Retired(rows, S, status)[i] = [status |-> status, pos |-> rows[i].pos]
    BY <2>1, <2>2
  <2> QED BY <2>3, <1>1 DEF IsRow
<1>2. CASE i \notin S
  BY <1>2 DEF Retired
<1> QED BY <1>1, <1>2

-----------------------------------------------------------------------------
(***************************************************************************)
(* What a step does to the songs.                                          *)
(***************************************************************************)
\* The song that plays, if any, is over; next, if any, starts.
MovesOn(next, over) ==
  /\ Rows'
  /\ \A j \in Items : item'[j].status =
       IF j = next THEN "playing"
       ELSE IF j \in With("playing") THEN over ELSE item[j].status

Changes ==
  \E next \in With("pending") \cup Unused \cup {None},
     over \in {"played", "skipped"} : MovesOn(next, over)

\* A transaction has made its writes, and will tell the player of them.
Starts(d) ==
  \E next \in With("pending") \cup Unused \cup {None},
     over \in {"played", "skipped"} : MovesOn(next, over) /\ ToPlayer(d, next)

\* A song that waits is taken back.
Drops ==
  \E i \in With("pending") :
    /\ Rows'
    /\ \A j \in Items :
         item'[j].status = IF j = i THEN "skipped" ELSE item[j].status

\* A song joins those that wait.
Joins ==
  \E i \in Unused :
    /\ Rows'
    /\ \A j \in Items :
         item'[j].status = IF j = i THEN "pending" ELSE item[j].status

\* Each song has a row.
LEMMA ItemRows ==
  ASSUME Rows, NEW i \in Items
  PROVE  IsRow(item[i]) /\ item[i].status \in Statuses
BY DEF Rows

\* skipAndAdvance skips what plays, the others finish it.
LEMMA OverIsAStatus ==
  ASSUME NEW op
  PROVE  DoneAs(op) \in {"played", "skipped"} /\ DoneAs(op) \in Statuses
BY DEF DoneAs, Statuses

\* The transactions that promote a waiting song.
LEMMA StartRowStarts ==
  ASSUME IInv, NEW d \in Drivers, StartRow(d)
  PROVE  Starts(d)
<1> DEFINE i == call[d].pick
           over == DoneAs(call[d].op)
           old == Retired(item, call[d].see, over)
           rows == [old EXCEPT ![i].status = "playing"]
<1>1. call[d].see = With("playing") /\ i \in With("pending")
  BY DEF IInv, StillTrue, StartRow, Looked
<1>2. i \in Items
  BY <1>1 DEF With
<1>3. over \in {"played", "skipped"} /\ over \in Statuses
  BY OverIsAStatus
<1>4. Compacted(rows, ActiveIn(rows))
  BY DEF StartRow, CompactPositions
<1> HIDE DEF over
<1>5. \A j \in Items : /\ IsRow(old[j])
                       /\ old[j].status = IF j \in With("playing") THEN over
                                                                   ELSE item[j].status
                       /\ old[j].status \in Statuses
  BY <1>1, <1>3, ItemRows, RetiredStatus DEF IInv
<1>6. DOMAIN old = Items
  BY DEF Retired
<1> HIDE DEF old
<1>7. \A j \in Items \ {i} : rows[j] = old[j]
  BY <1>6
<1>8. rows[i] = [status |-> "playing", pos |-> old[i].pos]
  <2>1. rows[i] = [old[i] EXCEPT !.status = "playing"]
    BY <1>2, <1>6
  <2>2. old[i] = [status |-> old[i].status, pos |-> old[i].pos]
    BY <1>2, <1>5 DEF IsRow
  <2> QED BY <2>1, <2>2
<1>9. IsRow(rows[i]) /\ rows[i].status = "playing"
  BY <1>8 DEF IsRow
<1> HIDE DEF rows
<1>10. \A j \in Items : /\ IsRow(rows[j])
                        /\ rows[j].status \in Statuses
                        /\ rows[j].status = IF j = i THEN "playing" ELSE old[j].status
  BY <1>5, <1>7, <1>9 DEF Statuses
<1>11. Rows' /\ \A j \in Items : item'[j].status = rows[j].status
  BY <1>4, <1>10, CompactedStatus
<1>12. MovesOn(i, over)
  BY <1>5, <1>10, <1>11 DEF MovesOn
<1>13. ToPlayer(d, i)
  BY DEF StartRow
<1> QED BY <1>1, <1>3, <1>12, <1>13 DEF Starts

\* A new row that takes the place of row i of some rows.
LEMMA ReplacedRow ==
  ASSUME NEW STATE old, DOMAIN old = Items, NEW STATE status, status \in Statuses,
         NEW STATE pos, NEW STATE i, i \in Items,
         \A j \in Items : IsRow(old[j]) /\ old[j].status \in Statuses
  PROVE  LET rows == [old EXCEPT ![i] = Row(status, pos)]
         IN \A j \in Items :
              /\ IsRow(rows[j]) /\ rows[j].status \in Statuses
              /\ rows[j].status = IF j = i THEN status ELSE old[j].status
<1> DEFINE rows == [old EXCEPT ![i] = Row(status, pos)]
<1>1. \A j \in Items \ {i} : rows[j] = old[j]
  OBVIOUS
<1>2. rows[i] = Row(status, pos)
  OBVIOUS
<1>3. IsRow(rows[i]) /\ rows[i].status = status
  BY <1>2 DEF Row, IsRow
<1> QED BY <1>1, <1>3

\* The transactions that start a song of the house.
LEMMA StartHouseStarts ==
  ASSUME IInv, NEW d \in Drivers, StartHouse(d)
  PROVE  Starts(d)
<1> DEFINE over == DoneAs(call[d].op)
           old == Retired(item, call[d].see, over)
<1>1. call[d].see = With("playing")
  BY DEF IInv, StillTrue, StartHouse, Looked
<1>2. over \in {"played", "skipped"} /\ over \in Statuses
  BY OverIsAStatus
<1>3. PICK i \in Unused :
        /\ CompactPositions([old EXCEPT ![i] = Row("playing", MaxPosition + 1)])
        /\ ToPlayer(d, i)
  BY DEF StartHouse
<1>4. i \in Items
  BY DEF Unused, With
<1> HIDE DEF over
<1>5. \A j \in Items : /\ IsRow(old[j])
                       /\ old[j].status = IF j \in With("playing") THEN over
                                                                   ELSE item[j].status
                       /\ old[j].status \in Statuses
  BY <1>1, <1>2, ItemRows, RetiredStatus DEF IInv
<1>6. DOMAIN old = Items
  BY DEF Retired
<1> HIDE DEF old
<1> DEFINE rows == [old EXCEPT ![i] = Row("playing", MaxPosition + 1)]
<1>7. \A j \in Items : /\ IsRow(rows[j])
                       /\ rows[j].status \in Statuses
                       /\ rows[j].status = IF j = i THEN "playing" ELSE old[j].status
  <2>1. "playing" \in Statuses
    BY DEF Statuses
  <2> QED BY <1>4, <1>5, <1>6, <2>1, ReplacedRow
<1>8. Compacted(rows, ActiveIn(rows))
  BY <1>3 DEF CompactPositions
<1> HIDE DEF rows
<1>9. Rows' /\ \A j \in Items : item'[j].status = rows[j].status
  BY <1>7, <1>8, CompactedStatus
<1>10. MovesOn(i, over)
  BY <1>5, <1>7, <1>9 DEF MovesOn
<1> QED BY <1>2, <1>3, <1>10 DEF Starts

\* The transactions that find nothing to play.
LEMMA StartNothingStarts ==
  ASSUME IInv, NEW d \in Drivers, StartNothing(d)
  PROVE  Starts(d)
<1> DEFINE over == DoneAs(call[d].op)
           rows == Retired(item, call[d].see, over)
<1>1. call[d].see = With("playing")
  BY DEF IInv, StillTrue, StartNothing, Looked
<1>2. over \in {"played", "skipped"} /\ over \in Statuses
  BY OverIsAStatus
<1>3. Compacted(rows, ActiveIn(rows) \cap call[d].held)
  BY DEF StartNothing
<1> HIDE DEF over
<1>4. \A j \in Items : /\ IsRow(rows[j])
                       /\ rows[j].status = IF j \in With("playing") THEN over
                                                                    ELSE item[j].status
                       /\ rows[j].status \in Statuses
  BY <1>1, <1>2, ItemRows, RetiredStatus DEF IInv
<1> HIDE DEF rows
<1>5. Rows' /\ \A j \in Items : item'[j].status = rows[j].status
  BY <1>3, <1>4, CompactedStatus
<1>6. MovesOn(None, over)
  BY <1>4, <1>5, QueueAssumption DEF MovesOn, QueueAssumption
<1>7. ToPlayer(d, None)
  BY DEF StartNothing
<1> QED BY <1>2, <1>6, <1>7 DEF Starts

\* Rows that move down keep their status.
LEMMA DownStatus ==
  ASSUME Rows, NEW STATE S, NEW j \in Items
  PROVE  IsRow(Down(S)[j]) /\ Down(S)[j].status = item[j].status
<1>1. IsRow(item[j])
  BY ItemRows
<1>2. CASE j \in S
  <2>1. Down(S)[j] = [item[j] EXCEPT !.pos = item[j].pos + 1]
    BY <1>2 DEF Down
  <2>2. item[j] = [status |-> item[j].status, pos |-> item[j].pos]
    BY <1>1 DEF IsRow
  <2>3. Down(S)[j] = [status |-> item[j].status, pos |-> item[j].pos + 1]
    BY <2>1, <2>2
  <2> QED BY <2>3 DEF IsRow
<1>3. CASE j \notin S
  BY <1>1, <1>3 DEF Down
<1> QED BY <1>2, <1>3

\* adminPlayNow.
LEMMA PlayNowStarts ==
  ASSUME IInv, NEW d \in Drivers, PlayNowCommit(d)
  PROVE  Starts(d)
<1> DEFINE down == Down(With("pending"))
           old == Retired(down, call[d].see \cap With("playing"), "played")
<1>1. call[d].see \cap With("playing") = With("playing")
  BY DEF IInv, StillTrue, PlayNowCommit, Looked
<1>2. PICK i \in Unused :
        CompactPositions([old EXCEPT ![i] = Row("playing", 1)]) /\ ToPlayer(d, i)
  BY DEF PlayNowCommit
<1>3. i \in Items
  BY DEF Unused, With
<1>4. "playing" \in Statuses /\ "played" \in Statuses
  BY DEF Statuses
<1>5. \A j \in Items : /\ IsRow(down[j])
                       /\ down[j].status = item[j].status
                       /\ down[j].status \in Statuses
  BY DownStatus, ItemRows DEF IInv
<1>6. DOMAIN old = Items
  BY DEF Retired
<1> HIDE DEF down
<1>7. \A j \in Items : /\ IsRow(old[j])
                       /\ old[j].status = IF j \in With("playing") THEN "played"
                                                                   ELSE item[j].status
                       /\ old[j].status \in Statuses
  BY <1>1, <1>4, <1>5, RetiredStatus
<1> HIDE DEF old
<1> DEFINE rows == [old EXCEPT ![i] = Row("playing", 1)]
<1>8. \A j \in Items : /\ IsRow(rows[j])
                       /\ rows[j].status \in Statuses
                       /\ rows[j].status = IF j = i THEN "playing" ELSE old[j].status
  BY <1>3, <1>4, <1>6, <1>7, ReplacedRow
<1>9. Compacted(rows, ActiveIn(rows))
  BY <1>2 DEF CompactPositions
<1> HIDE DEF rows
<1>10. Rows' /\ \A j \in Items : item'[j].status = rows[j].status
  BY <1>8, <1>9, CompactedStatus
<1>11. MovesOn(i, "played")
  BY <1>7, <1>8, <1>10 DEF MovesOn
<1> QED BY <1>2, <1>11 DEF Starts

\* One song goes, as finishCurrent and skip do.
LEMMA OneRetired ==
  ASSUME IInv, NEW STATE i, i \in Items, NEW STATE over, over \in {"played", "skipped"},
         CompactPositions(Retired(item, {i}, over))
  PROVE  /\ Rows'
         /\ \A j \in Items :
              item'[j].status = IF j = i THEN over ELSE item[j].status
<1> DEFINE rows == Retired(item, {i}, over)
<1>1. over \in Statuses
  BY DEF Statuses
<1>2. \A j \in Items : /\ IsRow(rows[j])
                       /\ rows[j].status = IF j \in {i} THEN over ELSE item[j].status
                       /\ rows[j].status \in Statuses
  BY <1>1, ItemRows, RetiredStatus DEF IInv
<1>3. Compacted(rows, ActiveIn(rows))
  BY DEF CompactPositions
<1> HIDE DEF rows
<1>4. Rows' /\ \A j \in Items : item'[j].status = rows[j].status
  BY <1>2, <1>3, CompactedStatus
<1> QED BY <1>2, <1>4

\* The one song that plays goes.
LEMMA PlayingRetired ==
  ASSUME IInv, NEW STATE i, i \in With("playing"),
         NEW STATE over, over \in {"played", "skipped"},
         CompactPositions(Retired(item, {i}, over))
  PROVE  MovesOn(None, over)
<1>1. i \in Items
  BY DEF With
<1>2. Rows' /\ \A j \in Items :
        item'[j].status = IF j = i THEN over ELSE item[j].status
  BY <1>1, OneRetired
<1>3. \A j \in Items : j \in With("playing") <=> j = i
  BY DEF IInv, AtMostOne, With
<1> QED BY <1>2, <1>3, QueueAssumption DEF MovesOn, QueueAssumption

\* finishCurrent.
LEMMA FinishStarts ==
  ASSUME IInv, NEW d \in Drivers, FinishCommit(d)
  PROVE  Starts(d)
<1> DEFINE i == call[d].pick
<1>1. i \in With("playing") \/ (i = None /\ With("playing") = {})
  BY DEF IInv, StillTrue, FinishCommit
<1>2. ToPlayer(d, None)
  BY DEF FinishCommit
<1>3. CASE i = None
  <2>1. item' = item /\ With("playing") = {}
    BY <1>1, <1>3, QueueAssumption DEF FinishCommit, With, QueueAssumption
  <2>2. Rows'
    BY <2>1 DEF IInv, Rows
  <2>3. MovesOn(None, "played")
    BY <2>1, <2>2, QueueAssumption DEF MovesOn, QueueAssumption
  <2> QED BY <1>2, <2>3 DEF Starts
<1>4. CASE i # None
  <2>1. i \in With("playing") /\ CompactPositions(Retired(item, {i}, "played"))
    BY <1>1, <1>4 DEF FinishCommit
  <2>2. MovesOn(None, "played")
    BY <2>1, PlayingRetired
  <2> QED BY <1>2, <2>2 DEF Starts
<1> QED BY <1>3, <1>4

\* skip(id), of a song that waits or plays.
LEMMA SkipRetires ==
  ASSUME IInv, SkipsInTime, NEW d \in Drivers, NEW i \in Items, Skip(d, i)
  PROVE  Changes \/ Drops
<1>1. CompactPositions(Retired(item, {i}, "skipped"))
  BY DEF Skip
<1>2. CASE item[i].status = "playing"
  <2>1. i \in With("playing")
    BY <1>2 DEF With
  <2> QED BY <1>1, <2>1, PlayingRetired DEF Changes
<1>3. CASE item[i].status = "pending"
  <2>1. i \in With("pending")
    BY <1>3 DEF With
  <2>2. Rows' /\ \A j \in Items :
          item'[j].status = IF j = i THEN "skipped" ELSE item[j].status
    BY <1>1, OneRetired
  <2> QED BY <2>1, <2>2 DEF Drops
<1> QED BY <1>2, <1>3 DEF Skip, SkipsInTime

\* adminCreate.
LEMMA AdminCreateJoins ==
  ASSUME IInv, NEW d \in Drivers, NEW p, AdminCreate(d, p)
  PROVE  Joins
<1> DEFINE old == Down(ToShift(p))
           pos == IF p > 0 THEN p ELSE MaxPosition + 1
<1>1. PICK i \in Unused : CompactPositions([old EXCEPT ![i] = Row("pending", pos)])
  BY DEF AdminCreate
<1>2. i \in Items
  BY DEF Unused, With
<1>3. "pending" \in Statuses
  BY DEF Statuses
<1>4. \A j \in Items : /\ IsRow(old[j])
                       /\ old[j].status = item[j].status
                       /\ old[j].status \in Statuses
  BY DownStatus, ItemRows DEF IInv
<1>5. DOMAIN old = Items
  BY DEF Down
<1> HIDE DEF old, pos
<1> DEFINE rows == [old EXCEPT ![i] = Row("pending", pos)]
<1>6. \A j \in Items : /\ IsRow(rows[j])
                       /\ rows[j].status \in Statuses
                       /\ rows[j].status = IF j = i THEN "pending" ELSE old[j].status
  BY <1>2, <1>3, <1>4, <1>5, ReplacedRow
<1>7. Compacted(rows, ActiveIn(rows))
  BY <1>1 DEF CompactPositions
<1> HIDE DEF rows
<1>8. Rows' /\ \A j \in Items : item'[j].status = rows[j].status
  BY <1>6, <1>7, CompactedStatus
<1> QED BY <1>4, <1>6, <1>8 DEF Joins

\* A guest's create.
LEMMA InsertJoins ==
  ASSUME IInv, NEW g \in Guests, NEW at, Insert(g, at)
  PROVE  Joins
<1> DEFINE list == draft[g].list
           head == draft[g].head
           start == StartPos(head)
           listed == {list[k] : k \in DOMAIN list}
           Written(j) ==
             IF j \notin Active THEN 0
             ELSE IF j \in listed
               THEN PosInList(at, start, CHOOSE k \in DOMAIN list : list[k] = j)
             ELSE IF j = head THEN 1
             ELSE item[j].pos
           old == [j \in Items |-> [item[j] EXCEPT !.pos = Written(j)]]
           pos == start + at
<1>1. PICK i \in Unused : item' = [old EXCEPT ![i] = Row("pending", pos)]
  BY DEF Insert
<1>2. i \in Items
  BY DEF Unused, With
<1>3. "pending" \in Statuses
  BY DEF Statuses
<1>4. ASSUME NEW j \in Items
      PROVE  IsRow(old[j]) /\ old[j].status = item[j].status
  <2> DEFINE w == Written(j)
  <2>1. old[j] = [item[j] EXCEPT !.pos = w]
    OBVIOUS
  <2> HIDE DEF w, old
  <2>2. item[j] = [status |-> item[j].status, pos |-> item[j].pos]
    BY ItemRows DEF IInv, IsRow
  <2>3. old[j] = [status |-> item[j].status, pos |-> w]
    BY <2>1, <2>2
  <2> QED BY <2>3 DEF IsRow
<1>5. DOMAIN old = Items
  OBVIOUS
<1> HIDE DEF old, pos
<1>6. \A j \in Items : old[j].status \in Statuses
  BY <1>4, ItemRows DEF IInv
<1>7. \A j \in Items : /\ IsRow(item'[j])
                       /\ item'[j].status \in Statuses
                       /\ item'[j].status = IF j = i THEN "pending" ELSE old[j].status
  BY <1>1, <1>2, <1>3, <1>4, <1>5, <1>6, ReplacedRow
<1>8. item' = [j \in Items |-> item'[j]]
  BY <1>1, <1>5
<1>9. Rows'
  BY <1>7, <1>8 DEF Rows
<1> QED BY <1>4, <1>7, <1>9 DEF Joins

\* What starts and is announced is a change of song.
LEMMA StartsChanges ==
  ASSUME NEW d \in Drivers, Starts(d)
  PROVE  Changes
BY DEF Starts, Changes

\* Every step moves on, takes a song back, adds one, or leaves the songs alone.
LEMMA StepOfSongs ==
  ASSUME IInv, SkipsInTime, [Next]_vars
  PROVE  Changes \/ Drops \/ Joins \/ item' = item
<1>1. CASE UNCHANGED vars
  BY <1>1 DEF vars
<1>2. ASSUME NEW d \in Drivers, Drive(d)
      PROVE  Changes \/ Drops \/ Joins \/ item' = item
  <2>1. CASE \E op \in Moves \cup {"adminPlayNow"} : See(d, op)
    BY <2>1 DEF See
  <2>2. CASE Retire(d)
    BY <2>2 DEF Retire
  <2>3. CASE PickNextPlayable(d)
    BY <2>3 DEF PickNextPlayable, PickRow, PickNone
  <2>4. CASE StartRow(d)
    BY <2>4, StartRowStarts, StartsChanges
  <2>5. CASE StartHouse(d)
    BY <2>5, StartHouseStarts, StartsChanges
  <2>6. CASE StartNothing(d)
    BY <2>6, StartNothingStarts, StartsChanges
  <2>7. CASE PlayNowCommit(d)
    BY <2>7, PlayNowStarts, StartsChanges
  <2>8. CASE FinishRead(d)
    BY <2>8 DEF FinishRead
  <2>9. CASE FinishCommit(d)
    BY <2>9, FinishStarts, StartsChanges
  <2>10. CASE \E i \in Items : Skip(d, i)
    BY <2>10, SkipRetires
  <2>11. CASE \E p \in 0 .. Cardinality(Active) : AdminCreate(d, p)
    BY <2>11, AdminCreateJoins
  <2>12. CASE TellPlayer(d)
    BY <2>12 DEF TellPlayer
  <2>13. CASE Lose(d)
    BY <2>13 DEF Lose
  <2> QED BY <1>2, <2>1, <2>2, <2>3, <2>4, <2>5, <2>6, <2>7, <2>8, <2>9,
             <2>10, <2>11, <2>12, <2>13 DEF Drive
<1>3. ASSUME NEW g \in Guests,
             ListPending(g) \/ (\E at \in 0 .. Cardinality(Items) : Insert(g, at))
               \/ GiveUp(g)
      PROVE  Joins \/ item' = item
  BY <1>3, InsertJoins DEF ListPending, GiveUp
<1>4. CASE SetPlaying
  BY <1>4 DEF SetPlaying
<1> QED BY <1>1, <1>2, <1>3, <1>4 DEF Next

-----------------------------------------------------------------------------
(***************************************************************************)
(* The invariant is inductive.                                             *)
(***************************************************************************)
\* The invariant holds at the start.
LEMMA InitInv == ASSUME Init PROVE IInv
<1>1. Rows
  <2>1. IsRow(NoRow) /\ NoRow.status \in Statuses
    BY DEF NoRow, IsRow, Statuses
  <2> QED BY <2>1 DEF Init, Rows
<1>2. \A i \in Items : item[i].status = "none"
  BY DEF Init, NoRow
<1>3. call \in [Drivers -> DriverCall]
  BY DEF Init, NoCall, DriverCall, CallSteps
<1>4. AtMostOne
  BY <1>2 DEF AtMostOne
<1>5. \A d \in Drivers : call[d].step = "idle"
  BY DEF Init, NoCall
<1>6. \A d \in Drivers : StillTrue(d)
  BY <1>5 DEF StillTrue, Looked
<1> QED BY <1>1, <1>3, <1>4, <1>6 DEF IInv

\* Whatever a step does to the songs, their rows stay rows and one plays.
LEMMA SongsStayInOrder ==
  ASSUME IInv, Changes \/ Drops \/ Joins \/ item' = item
  PROVE  Rows' /\ AtMostOne'
<1>1. CASE Changes
  <2>1. PICK next \in With("pending") \cup Unused \cup {None},
             over \in {"played", "skipped"} : MovesOn(next, over)
    BY <1>1 DEF Changes
  <2>2. \A j \in Items : item'[j].status = "playing" => j = next
    BY <2>1 DEF MovesOn, With
  <2> QED BY <2>1, <2>2 DEF MovesOn, AtMostOne
<1>2. CASE Drops
  BY <1>2 DEF Drops, IInv, AtMostOne
<1>3. CASE Joins
  BY <1>3 DEF Joins, IInv, AtMostOne
<1>4. CASE item' = item
  BY <1>4 DEF IInv, AtMostOne, Rows
<1> QED BY <1>1, <1>2, <1>3, <1>4

\* A call that is over, or waits to tell the player, relies on nothing.
LEMMA NothingToKeep ==
  ASSUME NEW d, (call[d].step)' \in {"idle", "player"}
  PROVE  StillTrue(d)'
BY DEF StillTrue, Looked

\* A step of the driver, which is alone, keeps what its own call relies on.
LEMMA DriverKeeps ==
  ASSUME IInv, NEW d \in Drivers, Drive(d)
  PROVE  call' \in [Drivers -> DriverCall] /\ StillTrue(d)'
<1> USE DEF DriverCall, CallSteps, Ops, Moves
<1>1. call \in [Drivers -> DriverCall] /\ StillTrue(d)
  BY DEF IInv
<1>2. NoCall \in DriverCall
  BY DEF NoCall
<1>3. With("playing") \subseteq Items /\ Active \subseteq Items
  BY DEF With, Active, ActiveIn
<1>4. ASSUME NEW pick \in Items \cup {None}, ToPlayer(d, pick)
      PROVE  call' \in [Drivers -> DriverCall] /\ StillTrue(d)'
  <2>1. [NoCall EXCEPT !.op = call[d].op, !.step = "player", !.pick = pick]
          \in DriverCall
    BY <1>1, <1>2
  <2>2. call' \in [Drivers -> DriverCall] /\ (call[d].step)' = "player"
    BY <1>1, <1>4, <2>1 DEF ToPlayer, NoCall
  <2> QED BY <2>2, NothingToKeep
<1>5. ASSUME call'[d] = NoCall, call' = [call EXCEPT ![d] = NoCall]
      PROVE  call' \in [Drivers -> DriverCall] /\ StillTrue(d)'
  <2>1. call' \in [Drivers -> DriverCall] /\ (call[d].step)' = "idle"
    BY <1>1, <1>2, <1>5 DEF NoCall
  <2> QED BY <2>1, NothingToKeep
<1>6. ASSUME NEW op \in Moves \cup {"adminPlayNow"}, See(d, op)
      PROVE  call' \in [Drivers -> DriverCall] /\ StillTrue(d)'
  <2> DEFINE c == [NoCall EXCEPT !.op = op, !.step = "seen", !.see = With("playing")]
  <2>1. c \in DriverCall /\ c.step = "seen" /\ c.see = With("playing")
    BY <1>2, <1>3 DEF NoCall
  <2>2. call' = [call EXCEPT ![d] = c] /\ item' = item
    BY <1>6 DEF See
  <2> HIDE DEF c
  <2>3. call'[d] = c /\ call' \in [Drivers -> DriverCall]
    BY <1>1, <2>1, <2>2
  <2>4. With("playing")' = With("playing")
    BY <2>2 DEF With
  <2> QED BY <2>1, <2>3, <2>4 DEF StillTrue
<1>7. CASE Retire(d)
  <2> DEFINE c == [call[d] EXCEPT !.step = "retired",
                                  !.see = @ \cap With("playing"), !.held = Active]
  <2>1. call[d].see = With("playing")
    BY <1>1, <1>7 DEF Retire, StillTrue, Looked
  <2>2. c \in DriverCall /\ c.step = "retired" /\ c.see = With("playing")
    BY <1>1, <1>3, <2>1
  <2>3. call' = [call EXCEPT ![d] = c] /\ item' = item
    BY <1>1, <1>7 DEF Retire
  <2> HIDE DEF c
  <2>4. call'[d] = c /\ call' \in [Drivers -> DriverCall]
    BY <1>1, <2>2, <2>3
  <2>5. With("playing")' = With("playing")
    BY <2>3 DEF With
  <2> QED BY <2>2, <2>4, <2>5 DEF StillTrue
<1>8. CASE PickRow(d)
  <2>1. PICK i \in Lowest(ToPromote) :
          call' = [call EXCEPT ![d].step = "start", ![d].pick = i]
    BY <1>8 DEF PickRow
  <2>2. i \in With("pending") /\ i \in Items
    BY DEF Lowest, ToPromote, With
  <2> DEFINE c == [call[d] EXCEPT !.step = "start", !.pick = i]
  <2>3. call[d].see = With("playing")
    BY <1>1, <1>8 DEF PickRow, StillTrue, Looked
  <2>4. /\ c \in DriverCall /\ c.step = "start"
        /\ c.pick = i /\ c.see = With("playing")
    BY <1>1, <2>2, <2>3
  <2>5. call' = [call EXCEPT ![d] = c] /\ item' = item
    BY <1>1, <1>8, <2>1 DEF PickRow
  <2> HIDE DEF c
  <2>6. call'[d] = c /\ call' \in [Drivers -> DriverCall]
    BY <1>1, <2>4, <2>5
  <2>7. With("playing")' = With("playing") /\ With("pending")' = With("pending")
    BY <2>5 DEF With
  <2> QED BY <2>2, <2>4, <2>6, <2>7 DEF StillTrue
<1>9. CASE PickNone(d)
  <2>1. PICK step \in {"startHouse", "startNothing"} :
          call' = [call EXCEPT ![d].step = step]
    BY <1>9 DEF PickNone
  <2> DEFINE c == [call[d] EXCEPT !.step = step]
  <2>2. call[d].see = With("playing")
    BY <1>1, <1>9 DEF PickNone, StillTrue, Looked
  <2>3. c \in DriverCall /\ c.step = step /\ c.see = With("playing")
    BY <1>1, <2>2
  <2>4. call' = [call EXCEPT ![d] = c] /\ item' = item
    BY <1>1, <1>9, <2>1 DEF PickNone
  <2> HIDE DEF c
  <2>5. call'[d] = c /\ call' \in [Drivers -> DriverCall]
    BY <1>1, <2>3, <2>4
  <2>6. With("playing")' = With("playing")
    BY <2>4 DEF With
  <2> QED BY <2>3, <2>5, <2>6 DEF StillTrue
<1>10. CASE StartRow(d)
  BY <1>1, <1>4, <1>10 DEF StartRow
<1>11. CASE StartHouse(d)
  <2>1. PICK i \in Unused : ToPlayer(d, i)
    BY <1>11 DEF StartHouse
  <2> QED BY <1>4, <2>1 DEF Unused, With
<1>12. CASE StartNothing(d)
  BY <1>4, <1>12 DEF StartNothing
<1>13. CASE PlayNowCommit(d)
  <2>1. PICK i \in Unused : ToPlayer(d, i)
    BY <1>13 DEF PlayNowCommit
  <2> QED BY <1>4, <2>1 DEF Unused, With
<1>14. CASE FinishRead(d)
  <2>1. PICK i \in IF With("playing") = {} THEN {None} ELSE Lowest(With("playing")) :
          call' = [call EXCEPT ![d] = [NoCall EXCEPT !.op = "finishCurrent",
                                         !.step = "finish", !.pick = i]]
    BY <1>14 DEF FinishRead
  <2>2. /\ i \in Items \cup {None}
        /\ i \in With("playing") \/ (i = None /\ With("playing") = {})
    BY <1>3, <2>1 DEF Lowest
  <2> DEFINE c == [NoCall EXCEPT !.op = "finishCurrent", !.step = "finish", !.pick = i]
  <2>3. c \in DriverCall /\ c.step = "finish" /\ c.pick = i
    BY <1>2, <2>2 DEF NoCall
  <2>4. call' = [call EXCEPT ![d] = c] /\ item' = item
    BY <1>14, <2>1 DEF FinishRead
  <2> HIDE DEF c
  <2>5. call'[d] = c /\ call' \in [Drivers -> DriverCall]
    BY <1>1, <2>3, <2>4
  <2>6. With("playing")' = With("playing")
    BY <2>4 DEF With
  <2> QED BY <2>2, <2>3, <2>5, <2>6 DEF StillTrue, Looked
<1>15. CASE FinishCommit(d)
  BY <1>4, <1>15 DEF FinishCommit
<1>16. ASSUME call[d] = NoCall, call' = call
       PROVE  call' \in [Drivers -> DriverCall] /\ StillTrue(d)'
  <2>1. (call[d].step)' = "idle"
    BY <1>16 DEF NoCall
  <2> QED BY <1>1, <1>16, <2>1, NothingToKeep
<1>17. ASSUME TellPlayer(d) \/ Lose(d)
       PROVE  call' = [call EXCEPT ![d] = NoCall] /\ call'[d] = NoCall
  BY <1>1, <1>17 DEF TellPlayer, Lose
<1> QED BY <1>5, <1>6, <1>7, <1>8, <1>9, <1>10, <1>11, <1>12, <1>13, <1>14, <1>15,
           <1>16, <1>17 DEF Drive, PickNextPlayable, Skip, AdminCreate

\* A guest's step starts and stops nothing, and takes no waiting song away.
LEMMA GuestKeeps ==
  ASSUME IInv, NEW d \in Drivers, call' = call, Joins \/ item' = item
  PROVE  StillTrue(d)'
<1>1. With("playing")' = With("playing") /\ With("pending") \subseteq With("pending")'
  <2>1. CASE Joins
    <3>1. PICK i \in Unused : \A j \in Items :
            item'[j].status = IF j = i THEN "pending" ELSE item[j].status
      BY <2>1 DEF Joins
    <3>2. item[i].status = "none"
      BY DEF Unused, With
    <3> QED BY <3>1, <3>2 DEF With
  <2>2. CASE item' = item
    BY <2>2 DEF With
  <2> QED BY <2>1, <2>2
<1> QED BY <1>1 DEF IInv, StillTrue

\* Every step keeps the invariant.
LEMMA NextInv ==
  ASSUME OneDriver, SkipsInTime, IInv, [Next]_vars
  PROVE  IInv'
<1>1. Rows' /\ AtMostOne'
  BY StepOfSongs, SongsStayInOrder
<1>2. call' \in [Drivers -> DriverCall] /\ \A d \in Drivers : StillTrue(d)'
  <2>1. CASE UNCHANGED vars
    BY <2>1, GuestKeeps DEF vars, IInv
  <2>2. ASSUME NEW d \in Drivers, Drive(d)
        PROVE  call' \in [Drivers -> DriverCall] /\ \A e \in Drivers : StillTrue(e)'
    <3>1. call' \in [Drivers -> DriverCall] /\ StillTrue(d)'
      BY <2>2, DriverKeeps
    <3>2. \A e \in Drivers : e = d
      BY DEF OneDriver
    <3> QED BY <3>1, <3>2
  <2>3. ASSUME NEW g \in Guests,
               ListPending(g) \/ (\E at \in 0 .. Cardinality(Items) : Insert(g, at))
                 \/ GiveUp(g)
        PROVE  call' = call /\ (Joins \/ item' = item)
    BY <2>3, InsertJoins DEF ListPending, GiveUp, Insert
  <2>4. CASE SetPlaying
    BY <2>4, GuestKeeps DEF SetPlaying, IInv
  <2> QED BY <2>1, <2>2, <2>3, <2>4, GuestKeeps DEF Next, IInv
<1> QED BY <1>1, <1>2 DEF IInv

\* The inductive invariant: what the driver's transaction has read still holds
\* and one song plays at most.
THEOREM SingleDriverInvariant ==
  ASSUME OneDriver, SkipsInTime
  PROVE  Spec => []IInv
<1>1. Init => IInv
  BY InitInv
<1>2. IInv /\ [Next]_vars => IInv'
  BY NextInv
<1> QED BY <1>1, <1>2, PTL DEF Spec

\* At most one song is playing when one driver moves the queue, whatever the
\* guests and the losses (the updateMany of advanceToNext retires all that
\* plays before it starts a song).
THEOREM OnePlayingAlways ==
  ASSUME OneDriver, SkipsInTime
  PROVE  Spec => []OnePlaying
<1>1. IInv => OnePlaying
  <2> SUFFICES ASSUME IInv PROVE OnePlaying
    OBVIOUS
  <2>1. CASE With("playing") = {}
    BY <2>1, FS_EmptySet DEF OnePlaying
  <2>2. ASSUME NEW i \in With("playing") PROVE OnePlaying
    <3>1. With("playing") = {i}
      BY <2>2 DEF IInv, AtMostOne, With
    <3> QED BY <3>1, FS_Singleton DEF OnePlaying
  <2> QED BY <2>1, <2>2
<1> QED BY <1>1, SingleDriverInvariant, PTL

\* A song that was played or skipped stays so when one driver moves the queue
\* and skips no song that is over.
THEOREM DoneIsFinalAlways ==
  ASSUME OneDriver, SkipsInTime
  PROVE  Spec => DoneIsFinal
<1> DEFINE Kept == \A i \in Items : item[i].status \in {"played", "skipped"}
                                    => item'[i].status = item[i].status
<1>1. IInv /\ [Next]_vars => [Kept]_vars
  <2> SUFFICES ASSUME IInv, [Next]_vars PROVE Kept
    OBVIOUS
  <2>1. CASE Changes
    <3> PICK next \in With("pending") \cup Unused \cup {None},
             over \in {"played", "skipped"} : MovesOn(next, over)
      BY <2>1 DEF Changes
    <3>1. \A i \in Items : i = next => item[i].status \in {"pending", "none"}
      BY QueueAssumption DEF With, Unused
    <3> QED BY <3>1 DEF MovesOn, With
  <2>2. CASE Drops
    BY <2>2 DEF Drops, With
  <2>3. CASE Joins
    BY <2>3 DEF Joins, Unused, With
  <2>4. CASE item' = item
    BY <2>4
  <2> QED BY <2>1, <2>2, <2>3, <2>4, StepOfSongs
<1> QED BY <1>1, SingleDriverInvariant, PTL DEF Spec, DoneIsFinal

-----------------------------------------------------------------------------
(***************************************************************************)
(* The queue implements the jukebox.                                       *)
(***************************************************************************)
Over == With("played") \cup With("skipped")
On == OneOf(With("playing"))

\* What OneOf picks.
LEMMA OneOfOne ==
  ASSUME NEW i
  PROVE  OneOf({i}) = i /\ OneOf({}) = None
BY DEF OneOf

\* What is on, when one song plays at most.
LEMMA WhatIsOn ==
  ASSUME IInv
  PROVE  /\ {On} \ {None} = With("playing")
         /\ On = None <=> With("playing") = {}
<1>1. None \notin Items
  BY QueueAssumption DEF QueueAssumption
<1>2. CASE With("playing") = {}
  BY <1>2, OneOfOne DEF On
<1>3. ASSUME NEW i \in With("playing")
      PROVE  With("playing") = {i} /\ On = i /\ i # None
  <2>1. With("playing") = {i} /\ i \in Items
    BY <1>3 DEF IInv, AtMostOne, With
  <2> QED BY <1>1, <2>1, OneOfOne DEF On
<1> QED BY <1>2, <1>3

\* Moving on is the jukebox's Change, or nothing when it was silent and stays so.
LEMMA ChangesIsChange ==
  ASSUME IInv, Changes
  PROVE  [Box!JNext]_(Box!jvars)
<1>1. PICK next \in With("pending") \cup Unused \cup {None},
           over \in {"played", "skipped"} : MovesOn(next, over)
  BY DEF Changes
<1>2. None \notin Items
  BY QueueAssumption DEF QueueAssumption
<1>3. /\ With("pending")' = With("pending") \ {next}
      /\ Over' = Over \cup With("playing")
  BY <1>1, <1>2 DEF MovesOn, With, Unused, Over
<1>4. On' = next
  <2>1. CASE next = None
    <3>1. With("playing")' = {}
      BY <1>1, <1>2, <2>1 DEF MovesOn, With
    <3> QED BY <2>1, <3>1, OneOfOne DEF On, OneOf
  <2>2. CASE next # None
    <3>1. With("playing")' = {next}
      BY <1>1, <2>2 DEF MovesOn, With, Unused
    <3>2. OneOf({next}) = next
      BY OneOfOne
    <3>3. On' = OneOf({next})
      BY <3>1 DEF On, OneOf
    <3> QED BY <3>2, <3>3
  <2> QED BY <2>1, <2>2
<1>5. CASE On = None /\ next = None
  <2>1. UNCHANGED <<With("pending"), On, Over>>
    BY <1>2, <1>3, <1>4, <1>5, WhatIsOn DEF With
  <2> QED BY <2>1 DEF Box!jvars, On, Over
<1>6. CASE On # None \/ next # None
  <2>1. next \in With("pending") \cup (Items \ (With("pending") \cup Over \cup {On}))
                   \cup {None}
    <3>1. ASSUME next \in Unused
          PROVE  next \in Items \ (With("pending") \cup Over \cup {On})
      <4>1. next \in Items /\ item[next].status = "none"
        BY <3>1 DEF Unused, With
      <4>2. next \notin With("pending") \cup Over \cup With("playing")
        BY <4>1 DEF With, Over
      <4> QED BY <1>2, <4>1, <4>2, WhatIsOn
    <3> QED BY <1>1, <3>1
  <2>2. Over' = Over \cup ({On} \ {None})
    BY <1>3, WhatIsOn
  <2>3. Box!Change(next)
    BY <1>3, <1>4, <1>6, <2>1, <2>2 DEF Box!Change, Box!Fresh, On, Over
  <2>4. next \in Items \cup {None}
    BY <1>1 DEF With, Unused
  <2> QED BY <2>3, <2>4 DEF Box!JNext
<1> QED BY <1>5, <1>6

\* What is on depends only on the songs that play.
LEMMA OnStays ==
  ASSUME With("playing")' = With("playing")
  PROVE  On' = On
<1> DEFINE S == With("playing")
<1>1. S' = S
  OBVIOUS
<1> HIDE DEF S
<1>2. OneOf(S)' = OneOf(S)
  BY <1>1 DEF OneOf
<1> QED BY <1>2 DEF On, S

\* Taking a waiting song back is the jukebox's Drop.
LEMMA DropsIsDrop ==
  ASSUME IInv, Drops
  PROVE  Box!JNext
<1>1. PICK i \in With("pending") : \A j \in Items :
        item'[j].status = IF j = i THEN "skipped" ELSE item[j].status
  BY DEF Drops
<1>2. /\ With("pending")' = With("pending") \ {i}
      /\ Over' = Over \cup {i}
      /\ With("playing")' = With("playing")
  BY <1>1 DEF With, Over
<1>3. On' = On
  BY <1>2, OnStays
<1>4. Box!Drop(i)
  BY <1>2, <1>3 DEF Box!Drop, On, Over
<1> QED BY <1>4 DEF Box!JNext, With

\* Adding a song is the jukebox's Ask.
LEMMA JoinsIsAsk ==
  ASSUME IInv, Joins
  PROVE  Box!JNext
<1>1. PICK i \in Unused : \A j \in Items :
        item'[j].status = IF j = i THEN "pending" ELSE item[j].status
  BY DEF Joins
<1>2. i \in Items /\ item[i].status = "none"
  BY DEF Unused, With
<1>3. /\ With("pending")' = With("pending") \cup {i}
      /\ Over' = Over
      /\ With("playing")' = With("playing")
  BY <1>1, <1>2 DEF With, Over
<1>4. On' = On
  BY <1>3, OnStays
<1>5. i \notin With("pending") \cup Over \cup {On}
  <2>1. i \notin With("pending") \cup Over \cup With("playing")
    BY <1>2 DEF With, Over
  <2> QED BY <1>2, <2>1, WhatIsOn, QueueAssumption DEF QueueAssumption
<1>6. Box!Ask(i)
  BY <1>2, <1>3, <1>4, <1>5 DEF Box!Ask, Box!Fresh, On, Over
<1> QED BY <1>2, <1>6 DEF Box!JNext

\* Seen through its rows, the queue one driver moves is a jukebox: a song that
\* is over never comes back, one song is on at a time, and a song is on only
\* after it has waited, or as a new one (all of QueueService).
THEOREM PlaysLikeAJukeboxAlways ==
  ASSUME OneDriver, SkipsInTime
  PROVE  Spec => PlaysLikeAJukebox
<1>1. Init => Box!JInit
  <2> SUFFICES ASSUME Init PROVE Box!JInit
    OBVIOUS
  <2>1. \A i \in Items : item[i].status = "none"
    BY DEF Init, NoRow
  <2>2. With("pending") = {} /\ With("playing") = {} /\ Over = {}
    BY <2>1 DEF With, Over
  <2> QED BY <2>2, OneOfOne DEF Box!JInit, Over
<1>2. IInv /\ [Next]_vars => [Box!JNext]_(Box!jvars)
  <2> SUFFICES ASSUME IInv, [Next]_vars PROVE [Box!JNext]_(Box!jvars)
    OBVIOUS
  <2>1. CASE item' = item
    BY <2>1 DEF Box!jvars, With, OneOf
  <2> QED BY <2>1, StepOfSongs, ChangesIsChange, DropsIsDrop, JoinsIsAsk
<1> QED BY <1>1, <1>2, SingleDriverInvariant, PTL DEF Spec, PlaysLikeAJukebox, Box!JSpec

-----------------------------------------------------------------------------
(***************************************************************************)
(* What the player is told.                                                *)
(***************************************************************************)
\* The driver has committed and the player is still to be told: what the call
\* carries is what plays.
AboutToTell(d) ==
  call[d].step = "player" =>
    /\ With("playing") = {call[d].pick} \ {None}
    /\ call[d].op = "finishCurrent" => call[d].pick = None

\* finishCurrent starts nothing.
MovesOnly(d) ==
  call[d].step \in {"retired", "start", "startHouse", "startNothing"} =>
    call[d].op \in Moves

TellInv ==
  /\ IInv
  /\ playback \in PlaybackRow
  /\ \A d \in Drivers : AboutToTell(d) /\ MovesOnly(d)

\* What moves on is what plays next.
LEMMA MovesOnPlays ==
  ASSUME NEW next \in Items \cup {None}, NEW over \in {"played", "skipped"},
         MovesOn(next, over)
  PROVE  With("playing")' = {next} \ {None}
<1>1. \A j \in Items : item'[j].status = "playing" <=> j = next
  BY DEF MovesOn, With
<1> QED BY <1>1, QueueAssumption DEF With

\* A transaction that starts something carries it to the player.
LEMMA StartsTells ==
  ASSUME IInv, NEW d \in Drivers, Starts(d),
         FinishCommit(d) \/ call[d].op # "finishCurrent"
  PROVE  AboutToTell(d)'
<1>1. PICK next \in With("pending") \cup Unused \cup {None},
           over \in {"played", "skipped"} : MovesOn(next, over) /\ ToPlayer(d, next)
  BY DEF Starts
<1>2. next \in Items \cup {None}
  BY DEF With, Unused
<1>3. With("playing")' = {next} \ {None}
  BY <1>1, <1>2, MovesOnPlays
<1>4. call \in [Drivers -> DriverCall]
  BY DEF IInv
<1>5. call'[d].pick = next /\ call'[d].op = call[d].op
  BY <1>1, <1>4 DEF ToPlayer, NoCall
<1>6. FinishCommit(d) => next = None
  <2> SUFFICES ASSUME FinishCommit(d) PROVE next = None
    OBVIOUS
  <2>1. ToPlayer(d, None)
    BY DEF FinishCommit
  <2>2. call'[d].pick = None
    BY <1>4, <2>1 DEF ToPlayer, NoCall
  <2> QED BY <1>5, <2>2
<1> QED BY <1>3, <1>5, <1>6 DEF AboutToTell

\* A call that starts, or goes on with its transaction, tells nothing yet.
LEMMA NothingToTell ==
  ASSUME NEW d, (call[d].step)' # "player"
  PROVE  AboutToTell(d)'
BY DEF AboutToTell

\* A song that joins those that wait, or nothing at all, leaves what plays.
LEMMA OthersTell ==
  ASSUME TellInv, NEW d \in Drivers, call' = call, Joins \/ item' = item
  PROVE  AboutToTell(d)'
<1>1. With("playing")' = With("playing")
  BY DEF Joins, Unused, With
<1> QED BY <1>1 DEF TellInv, AboutToTell

\* A driver's step: its commit brings what it will tell.
LEMMA DriverTells ==
  ASSUME TellInv, NEW d \in Drivers, Drive(d)
  PROVE  AboutToTell(d)' /\ MovesOnly(d)'
<1>1. call \in [Drivers -> DriverCall] /\ IInv /\ MovesOnly(d)
  BY DEF TellInv, IInv
\* A step before the commit.
<1>2. ASSUME (call[d].step)' # "player", MovesOnly(d)'
      PROVE  AboutToTell(d)' /\ MovesOnly(d)'
  BY <1>2, NothingToTell
<1>3. ASSUME call' = [call EXCEPT ![d] = NoCall]
      PROVE  AboutToTell(d)' /\ MovesOnly(d)'
  BY <1>1, <1>2, <1>3 DEF NoCall, MovesOnly
<1>4. ASSUME NEW op \in Moves \cup {"adminPlayNow"}, See(d, op)
      PROVE  AboutToTell(d)' /\ MovesOnly(d)'
  BY <1>1, <1>2, <1>4 DEF See, NoCall, MovesOnly
<1>5. CASE Retire(d)
  <2>1. /\ (call[d].step)' = "retired" /\ (call[d].op)' = call[d].op
        /\ call[d].op \in Moves
    BY <1>1, <1>5 DEF Retire, DriverCall
  <2> QED BY <1>2, <2>1 DEF MovesOnly
<1>6. CASE PickRow(d)
  <2>1. PICK i : call' = [call EXCEPT ![d].step = "start", ![d].pick = i]
    BY <1>6 DEF PickRow
  <2>2. (call[d].step)' = "start" /\ (call[d].op)' = call[d].op
    BY <1>1, <2>1 DEF DriverCall
  <2>3. call[d].op \in Moves
    BY <1>1, <1>6 DEF PickRow, MovesOnly
  <2> QED BY <1>2, <2>2, <2>3 DEF MovesOnly
<1>7. CASE PickNone(d)
  <2>1. PICK step \in {"startHouse", "startNothing"} :
          call' = [call EXCEPT ![d].step = step]
    BY <1>7 DEF PickNone
  <2>2. (call[d].step)' = step /\ (call[d].op)' = call[d].op
    BY <1>1, <2>1 DEF DriverCall
  <2>3. call[d].op \in Moves
    BY <1>1, <1>7 DEF PickNone, MovesOnly
  <2> QED BY <1>2, <2>2, <2>3 DEF MovesOnly
<1>8. CASE FinishRead(d)
  <2>1. PICK i : call' = [call EXCEPT ![d] = [NoCall EXCEPT !.op = "finishCurrent",
                                                !.step = "finish", !.pick = i]]
    BY <1>8 DEF FinishRead
  <2>2. (call[d].step)' = "finish"
    BY <1>1, <2>1 DEF NoCall
  <2> QED BY <1>2, <2>2 DEF MovesOnly
\* A commit.
<1>9. ASSUME Starts(d), FinishCommit(d) \/ call[d].op # "finishCurrent"
      PROVE  AboutToTell(d)' /\ MovesOnly(d)'
  <2>1. PICK next : ToPlayer(d, next)
    BY <1>9 DEF Starts
  <2>2. (call[d].step)' = "player"
    BY <1>1, <2>1 DEF ToPlayer, NoCall
  <2> QED BY <1>1, <1>9, <2>2, StartsTells DEF MovesOnly
<1>10. CASE StartRow(d)
  BY <1>1, <1>9, <1>10, StartRowStarts DEF StartRow, MovesOnly, Moves
<1>11. CASE StartHouse(d)
  BY <1>1, <1>9, <1>11, StartHouseStarts DEF StartHouse, MovesOnly, Moves
<1>12. CASE StartNothing(d)
  BY <1>1, <1>9, <1>12, StartNothingStarts DEF StartNothing, MovesOnly, Moves
<1>13. CASE PlayNowCommit(d)
  BY <1>1, <1>9, <1>13, PlayNowStarts DEF PlayNowCommit
<1>14. CASE FinishCommit(d)
  BY <1>1, <1>9, <1>14, FinishStarts
\* skip and adminCreate, which need no call.
<1>15. ASSUME call[d] = NoCall, call' = call
       PROVE  AboutToTell(d)' /\ MovesOnly(d)'
  BY <1>2, <1>15 DEF NoCall, MovesOnly
<1> QED BY <1>3, <1>4, <1>5, <1>6, <1>7, <1>8, <1>10, <1>11, <1>12, <1>13, <1>14,
           <1>15
        DEF Drive, PickNextPlayable, Skip, AdminCreate, TellPlayer, Lose

\* The playback state stays a row.
LEMMA PlaybackTyped ==
  ASSUME TellInv, [Next]_vars
  PROVE  playback' \in PlaybackRow
<1>1. playback \in PlaybackRow /\ call \in [Drivers -> DriverCall]
  BY DEF TellInv, IInv
<1>2. ASSUME NEW d \in Drivers, TellPlayer(d) PROVE playback' \in PlaybackRow
  <2>1. call[d].pick \in Items \cup {None}
    BY <1>1 DEF DriverCall
  <2> QED BY <1>2, <2>1 DEF TellPlayer, Shown, PlaybackRow
<1>3. ASSUME NEW d \in Drivers, Drive(d), ~ TellPlayer(d)
      PROVE  playback' = playback
  BY <1>3 DEF Drive, See, Retire, PickNextPlayable, PickRow, PickNone, StartRow,
         StartHouse, StartNothing, PlayNowCommit, FinishRead, FinishCommit, Skip,
         AdminCreate, Lose
<1>4. CASE SetPlaying
  BY <1>1, <1>4 DEF SetPlaying, PlaybackRow
<1> QED BY <1>1, <1>2, <1>3, <1>4
        DEF Next, vars, ListPending, Insert, GiveUp

\* Every step of the one driver keeps what the player is about to be told true.
LEMMA TellNext ==
  ASSUME OneDriver, SkipsInTime, TellInv, [Next]_vars
  PROVE  TellInv'
<1>1. IInv' /\ playback' \in PlaybackRow
  BY NextInv, PlaybackTyped DEF TellInv
<1>2. ASSUME NEW d \in Drivers, call' = call, Joins \/ item' = item
      PROVE  AboutToTell(d)' /\ MovesOnly(d)'
  BY <1>2, OthersTell DEF MovesOnly, TellInv
<1>3. ASSUME NEW d \in Drivers PROVE AboutToTell(d)' /\ MovesOnly(d)'
  <2>1. ASSUME NEW e \in Drivers, Drive(e) PROVE AboutToTell(d)' /\ MovesOnly(d)'
    BY <2>1, DriverTells DEF OneDriver
  <2>2. ASSUME NEW g \in Guests,
               ListPending(g) \/ (\E at \in 0 .. Cardinality(Items) : Insert(g, at))
                 \/ GiveUp(g)
        PROVE  call' = call /\ (Joins \/ item' = item)
    BY <2>2, InsertJoins DEF ListPending, GiveUp, Insert, TellInv
  <2>3. CASE SetPlaying
    BY <1>2, <2>3 DEF SetPlaying
  <2>4. CASE UNCHANGED vars
    BY <1>2, <2>4 DEF vars
  <2> QED BY <1>2, <2>1, <2>2, <2>3, <2>4 DEF Next
<1> QED BY <1>1, <1>3 DEF TellInv

\* When the player is pointed at another song that song is the one playing, and
\* when it is told there is none, none is (the update of the playback state after
\* each transaction), for any number of songs and guests and one driver.
THEOREM PlayerToldTheTruthAlways ==
  ASSUME OneDriver, SkipsInTime
  PROVE  Spec => PlayerToldTheTruth
<1> DEFINE Truth == playback'.item # playback.item =>
                      With("playing") = {playback'.item} \ {None}
<1>1. Init => TellInv
  <2> SUFFICES ASSUME Init PROVE TellInv
    OBVIOUS
  <2>1. playback \in PlaybackRow
    BY DEF Init, PlaybackRow
  <2>2. \A d \in Drivers : AboutToTell(d) /\ MovesOnly(d)
    BY DEF Init, NoCall, AboutToTell, MovesOnly
  <2> QED BY <2>1, <2>2, InitInv DEF TellInv
<1>2. TellInv /\ [Next]_vars => TellInv'
  BY TellNext
<1>3. TellInv /\ [Next]_vars => [Truth]_vars
  <2> SUFFICES ASSUME TellInv, [Next]_vars PROVE Truth
    OBVIOUS
  <2>1. ASSUME NEW d \in Drivers, TellPlayer(d) PROVE Truth
    <3>1. playback'.item = IF call[d].op = "finishCurrent" THEN None
                                                           ELSE call[d].pick
      BY <2>1 DEF TellPlayer, Shown
    <3> QED BY <2>1, <3>1 DEF TellPlayer, TellInv, AboutToTell
  <2>2. ASSUME NEW d \in Drivers, Drive(d), ~ TellPlayer(d)
        PROVE  playback' = playback
    BY <2>2 DEF Drive, See, Retire, PickNextPlayable, PickRow, PickNone, StartRow,
           StartHouse, StartNothing, PlayNowCommit, FinishRead, FinishCommit, Skip,
           AdminCreate, Lose
  <2>3. CASE SetPlaying
    BY <2>3 DEF SetPlaying, TellInv, PlaybackRow
  <2> QED BY <2>1, <2>2, <2>3 DEF Next, vars, ListPending, Insert, GiveUp
<1> QED BY <1>1, <1>2, <1>3, PTL DEF Spec, PlayerToldTheTruth

-----------------------------------------------------------------------------
(***************************************************************************)
(* Turns and types, for any number of drivers.  Rows follow the queue when *)
(* they forget no song and put no two waiting songs in each other's place. *)
(***************************************************************************)
Started == {i \in Items : item[i].status # "none"}

Follows(rows) ==
  /\ DOMAIN rows = Items
  /\ \A i \in Items : IsRow(rows[i]) /\ rows[i].status \in Statuses
  /\ \A i \in Items : item[i].status # "none" => rows[i].status # "none"
  /\ \A i \in Items :
       rows[i].status = "pending" => item[i].status \in {"pending", "none"}
  /\ \A i, j \in With("pending") :
       rows[i].status = "pending" /\ rows[j].status = "pending"
         /\ item[i].pos < item[j].pos => rows[i].pos < rows[j].pos

ItemTyped == item \in [Items -> ItemRow]

\* What a step does to the rows, when it follows the queue.
Goes ==
  /\ ItemTyped'
  /\ \A i \in Items : item[i].status # "none" => item'[i].status # "none"
  /\ \A i \in Items :
       item'[i].status = "pending" => item[i].status \in {"pending", "none"}

InTurn ==
  \A i, j \in With("pending") :
    /\ item[i].pos < item[j].pos
    /\ item'[i].status = "pending" /\ item'[j].status = "pending"
    => item'[i].pos < item'[j].pos

\* The rows as they are.
LEMMA ItemFollows == ASSUME ItemTyped PROVE Follows(item)
BY DEF ItemTyped, ItemRow, Follows, IsRow, With

\* Rows that move down do so with all that wait behind them.
LEMMA DownFollows ==
  ASSUME ItemTyped, NEW STATE S,
         \A i \in S, j \in With("pending") : item[i].pos < item[j].pos => j \in S
  PROVE  Follows(Down(S))
<1>1. ASSUME NEW i \in Items
      PROVE  /\ IsRow(Down(S)[i])
             /\ Down(S)[i].status = item[i].status
             /\ Down(S)[i].pos = IF i \in S THEN item[i].pos + 1 ELSE item[i].pos
  <2>1. item[i] \in ItemRow
    BY DEF ItemTyped
  <2> QED BY <2>1 DEF Down, ItemRow, IsRow
<1>2. DOMAIN Down(S) = Items
  BY DEF Down
<1>3. \A i \in Items : item[i].status \in Statuses /\ item[i].pos \in Nat
  BY DEF ItemTyped, ItemRow, Position
<1>4. ASSUME NEW i \in With("pending"), NEW j \in With("pending"),
             item[i].pos < item[j].pos
      PROVE  Down(S)[i].pos < Down(S)[j].pos
  <2>1. i \in Items /\ j \in Items
    BY DEF With
  <2> QED BY <1>1, <1>3, <1>4, <2>1
<1>5. \A i \in Items : Down(S)[i].status = "pending" => item[i].status = "pending"
  BY <1>1
<1> HIDE DEF Down
<1> QED BY <1>1, <1>2, <1>3, <1>4, <1>5 DEF Follows

\* Retiring rows moves none.
LEMMA RetiredFollows ==
  ASSUME NEW STATE rows, Follows(rows), NEW STATE S,
         NEW STATE status, status \in {"played", "skipped"}
  PROVE  Follows(Retired(rows, S, status))
<1> DEFINE new == Retired(rows, S, status)
<1>1. ASSUME NEW i \in Items
      PROVE  /\ IsRow(new[i])
             /\ new[i].status = IF i \in S THEN status ELSE rows[i].status
             /\ new[i].pos = rows[i].pos
  <2>1. rows[i] = [status |-> rows[i].status, pos |-> rows[i].pos]
    BY DEF Follows, IsRow
  <2> DEFINE s == rows[i].status
             p == rows[i].pos
  <2> HIDE DEF s, p
  <2>2. rows[i] = [status |-> s, pos |-> p]
    BY <2>1 DEF s, p
  <2>3. new[i] = [status |-> IF i \in S THEN status ELSE s, pos |-> p]
    BY <2>2 DEF Retired
  <2> QED BY <2>2, <2>3 DEF IsRow
<1>2. DOMAIN new = Items
  BY DEF Retired
<1> HIDE DEF new
<1>3. \A i \in With("pending") : i \in Items
  BY DEF With
<1>4. \A i \in Items : rows[i].status \in Statuses
  BY DEF Follows
<1>5. Follows(new)
  BY <1>1, <1>2, <1>3, <1>4 DEF Follows, Statuses
<1> QED BY <1>5 DEF new

\* A song that starts leaves the others.
LEMMA StartedFollows ==
  ASSUME NEW STATE rows, Follows(rows), NEW STATE i, i \in Items
  PROVE  Follows([rows EXCEPT ![i].status = "playing"])
<1> DEFINE new == [rows EXCEPT ![i].status = "playing"]
<1>1. DOMAIN new = Items /\ \A j \in Items \ {i} : new[j] = rows[j]
  BY DEF Follows
<1>2. IsRow(new[i]) /\ new[i].status = "playing"
  <2>1. rows[i] = [status |-> rows[i].status, pos |-> rows[i].pos]
    BY DEF Follows, IsRow
  <2>2. new[i] = [rows[i] EXCEPT !.status = "playing"]
    BY DEF Follows
  <2>3. new[i] = [status |-> "playing", pos |-> rows[i].pos]
    BY <2>1, <2>2
  <2> QED BY <2>3 DEF IsRow
<1> HIDE DEF new
<1>3. "playing" \in Statuses
  BY DEF Statuses
<1>4. Follows(new)
  BY <1>1, <1>2, <1>3 DEF Follows, With
<1> QED BY <1>4 DEF new

\* So does a song that comes.
LEMMA NewFollows ==
  ASSUME NEW STATE rows, Follows(rows), NEW STATE i, i \in Unused,
         NEW STATE status, status \in {"pending", "playing"}, NEW STATE pos
  PROVE  Follows([rows EXCEPT ![i] = Row(status, pos)])
<1> DEFINE new == [rows EXCEPT ![i] = Row(status, pos)]
<1>1. i \in Items /\ item[i].status = "none"
  BY DEF Unused, With
<1>2. DOMAIN new = Items /\ \A j \in Items \ {i} : new[j] = rows[j]
  BY DEF Follows
<1>3. IsRow(new[i]) /\ new[i].status = status
  <2>1. new[i] = [status |-> status, pos |-> pos]
    BY <1>1 DEF Follows, Row
  <2> QED BY <2>1 DEF IsRow
<1> HIDE DEF new
<1>4. status \in Statuses
  BY DEF Statuses
<1>5. Follows(new)
  BY <1>1, <1>2, <1>3, <1>4 DEF Follows, With
<1> QED BY <1>5 DEF new

\* A part of the songs is a finite set, not larger than all of them.
LEMMA SomeItems ==
  ASSUME NEW S \in SUBSET Items
  PROVE  /\ IsFiniteSet(S) /\ Cardinality(S) \in Nat
         /\ Cardinality(Items) \in Nat /\ Cardinality(S) <= Cardinality(Items)
BY FS_Subset, FS_CardinalityType, QueueAssumption DEF QueueAssumption

\* compactPositions of rows that follow the queue, when it takes all the songs
\* that wait or none of them.
LEMMA CompactedGoes ==
  ASSUME NEW STATE rows, Follows(rows), NEW STATE S, Compacted(rows, S),
         S \subseteq ActiveIn(rows),
         \A i \in ActiveIn(rows) \ S : rows[i].pos \in Position,
         \/ \A i \in With("pending") : rows[i].status = "pending" => i \in S
         \/ \A i \in With("pending") : i \notin S
  PROVE  Goes /\ InTurn
<1>1. PICK rank \in Rankings(rows, S) : item' = Renumbered(rows, rank)
  BY DEF Compacted
<1>2. /\ rank \in [S -> 1 .. Cardinality(S)]
      /\ \A i, j \in S : rows[i].pos < rows[j].pos => rank[i] < rank[j]
  BY <1>1 DEF Rankings
<1>3. S \subseteq Items
  BY DEF ActiveIn
<1>4. ASSUME NEW i \in Items
      PROVE  /\ item'[i] = [status |-> rows[i].status, pos |-> item'[i].pos]
             /\ item'[i].status = rows[i].status
             /\ item'[i].pos = IF i \in S THEN rank[i]
                              ELSE IF i \in ActiveIn(rows) THEN rows[i].pos ELSE 0
  <2> DEFINE p == IF i \in DOMAIN rank THEN rank[i]
                  ELSE IF i \in ActiveIn(rows) THEN rows[i].pos
                  ELSE 0
             s == rows[i].status
  <2>1. item'[i] = [rows[i] EXCEPT !.pos = p]
    BY <1>1 DEF Renumbered
  <2>2. rows[i] = [status |-> s, pos |-> rows[i].pos]
    BY DEF Follows, IsRow
  <2>3. DOMAIN rank = S
    BY <1>2
  <2>4. p = IF i \in S THEN rank[i]
            ELSE IF i \in ActiveIn(rows) THEN rows[i].pos ELSE 0
    BY <2>3
  <2> HIDE DEF p, s
  <2>5. item'[i] = [status |-> s, pos |-> p]
    BY <2>1, <2>2
  <2>6. item'[i].status = s /\ item'[i].pos = p
    BY <2>5
  <2> QED BY <2>4, <2>5, <2>6 DEF s
<1>5. \A i \in Items : item'[i].status = rows[i].status
  BY <1>4
<1>6. Goes
  <2>1. ASSUME NEW i \in Items PROVE item'[i] \in ItemRow
    <3>1. rows[i].status \in Statuses
      BY DEF Follows
    <3>2. item'[i].pos \in Position
      <4>1. CASE i \in S
        <5>1. rank[i] \in 1 .. Cardinality(S)
          BY <1>2, <4>1
        <5>2. rank[i] \in Position
          BY <1>3, <5>1, SomeItems DEF Position
        <5> QED BY <1>4, <4>1, <5>2
      <4>2. CASE i \notin S
        <5>1. 0 \in Position
          BY SomeItems, {} \in SUBSET Items DEF Position
        <5> QED BY <1>4, <4>2, <5>1
      <4> QED BY <4>1, <4>2
    <3>3. \A s \in Statuses, p \in Position : [status |-> s, pos |-> p] \in ItemRow
      BY DEF ItemRow
    <3> QED BY <1>4, <3>1, <3>2, <3>3
  <2>2. item' = [i \in Items |-> item'[i]]
    BY <1>1 DEF Renumbered
  <2>3. ItemTyped'
    BY <2>1, <2>2 DEF ItemTyped
  <2> QED BY <1>5, <2>3 DEF Goes, Follows
<1>7. ASSUME NEW i \in With("pending"), NEW j \in With("pending"),
             item[i].pos < item[j].pos,
             item'[i].status = "pending", item'[j].status = "pending"
      PROVE  item'[i].pos < item'[j].pos
  <2>1. i \in Items /\ j \in Items
    BY DEF With
  <2>2. /\ rows[i].status = "pending" /\ rows[j].status = "pending"
        /\ i \in ActiveIn(rows) /\ j \in ActiveIn(rows)
    BY <1>5, <1>7, <2>1 DEF ActiveIn
  <2>3. rows[i].pos < rows[j].pos
    BY <1>7, <2>2 DEF Follows
  <2>4. CASE i \in S /\ j \in S
    BY <1>2, <1>4, <2>1, <2>3, <2>4
  <2>5. CASE i \notin S /\ j \notin S
    BY <1>4, <2>1, <2>2, <2>3, <2>5
  <2> QED BY <2>2, <2>4, <2>5
<1> QED BY <1>6, <1>7 DEF InTurn

\* compactPositions of all that wait or play.
LEMMA CompactGoes ==
  ASSUME NEW STATE rows, Follows(rows), CompactPositions(rows)
  PROVE  Goes /\ InTurn
<1>1. \A i \in With("pending") : rows[i].status = "pending" => i \in ActiveIn(rows)
  BY DEF ActiveIn, With
<1>2. Compacted(rows, ActiveIn(rows))
  BY DEF CompactPositions
<1> QED BY <1>1, <1>2, CompactedGoes

(***************************************************************************)
(* What calls and drafts remember.                                         *)
(***************************************************************************)
\* A call holds songs that were there when it compacted; it finds nothing to
\* play when none of those waits any more.
CallKnows(d) ==
  /\ call[d].step = "start" => call[d].pick \in Items
  /\ call[d].held \subseteq Started
  /\ call[d].step = "startNothing" => call[d].held \cap With("pending") = {}

\* A draft lists songs that were there, each at its place, and what played then.
Recalls(list, head, songs) ==
  LET listed == {list[k] : k \in DOMAIN list}
  IN /\ listed \subseteq songs
     /\ list \in [1 .. Cardinality(listed) -> listed]
     /\ head \in (songs \ listed) \cup {None}

DraftKnows(g) ==
  draft[g].open => Recalls(draft[g].list, draft[g].head, Started)

QueueInv ==
  /\ TypeOK
  /\ \A d \in Drivers : CallKnows(d)
  /\ \A g \in Guests : DraftKnows(g)

\* The commits of a driver.
LEMMA CommitGoes ==
  ASSUME QueueInv, NEW d \in Drivers,
         \/ StartRow(d) \/ StartHouse(d) \/ StartNothing(d) \/ PlayNowCommit(d)
         \/ FinishCommit(d) /\ call[d].pick # None
         \/ \E i \in Items : Skip(d, i)
         \/ \E p \in 0 .. Cardinality(Active) : AdminCreate(d, p)
  PROVE  Goes /\ InTurn
<1>1. ItemTyped /\ Follows(item) /\ call \in [Drivers -> DriverCall] /\ CallKnows(d)
  BY ItemFollows DEF QueueInv, TypeOK, ItemTyped
<1> DEFINE over == DoneAs(call[d].op)
           old == Retired(item, call[d].see, over)
<1>2. Follows(old)
  <2>1. over \in {"played", "skipped"}
    BY DEF DoneAs
  <2> HIDE DEF over
  <2> QED BY <1>1, <2>1, RetiredFollows
<1>3. CASE StartRow(d)
  <2>1. call[d].pick \in Items /\ CompactPositions([old EXCEPT ![call[d].pick].status = "playing"])
    BY <1>1, <1>3 DEF StartRow, CallKnows
  <2> HIDE DEF old
  <2> QED BY <1>2, <2>1, StartedFollows, CompactGoes
<1>4. CASE StartHouse(d)
  <2>1. PICK i \in Unused :
          CompactPositions([old EXCEPT ![i] = Row("playing", MaxPosition + 1)])
    BY <1>4 DEF StartHouse
  <2> HIDE DEF old
  <2>2. Follows([old EXCEPT ![i] = Row("playing", MaxPosition + 1)])
    BY <1>2, NewFollows
  <2> QED BY <2>1, <2>2, CompactGoes
<1>5. CASE StartNothing(d)
  <2>1. /\ Compacted(old, ActiveIn(old) \cap call[d].held)
        /\ call[d].held \cap With("pending") = {}
    BY <1>1, <1>5 DEF StartNothing, CallKnows
  <2>2. \A i \in ActiveIn(old) : old[i].pos \in Position
    <3>1. \A i \in Items : item[i] \in ItemRow
      BY <1>1 DEF ItemTyped
    <3>2. \A i \in Items : old[i].pos = item[i].pos
      BY <3>1 DEF Retired, ItemRow
    <3> QED BY <3>1, <3>2 DEF ActiveIn, ItemRow
  <2> HIDE DEF old
  <2>3. \A i \in With("pending") : i \notin ActiveIn(old) \cap call[d].held
    BY <2>1
  <2> QED BY <1>2, <2>1, <2>2, <2>3, CompactedGoes
<1>6. CASE PlayNowCommit(d)
  <2> DEFINE down == Down(With("pending"))
             rows == Retired(down, call[d].see \cap With("playing"), "played")
  <2>1. PICK i \in Unused : CompactPositions([rows EXCEPT ![i] = Row("playing", 1)])
    BY <1>6 DEF PlayNowCommit
  <2>2. Follows(down)
    BY <1>1, DownFollows
  <2> HIDE DEF down
  <2>3. Follows(rows)
    BY <2>2, RetiredFollows
  <2> HIDE DEF rows
  <2>4. Follows([rows EXCEPT ![i] = Row("playing", 1)])
    BY <2>3, NewFollows
  <2> QED BY <2>1, <2>4, CompactGoes
<1>7. CASE FinishCommit(d) /\ call[d].pick # None
  <2>1. CompactPositions(Retired(item, {call[d].pick}, "played"))
    BY <1>7 DEF FinishCommit
  <2>2. Follows(Retired(item, {call[d].pick}, "played"))
    BY <1>1, RetiredFollows
  <2> QED BY <2>1, <2>2, CompactGoes
<1>8. ASSUME NEW i \in Items, Skip(d, i) PROVE Goes /\ InTurn
  <2>1. CompactPositions(Retired(item, {i}, "skipped"))
    BY <1>8 DEF Skip
  <2>2. Follows(Retired(item, {i}, "skipped"))
    BY <1>1, RetiredFollows
  <2> QED BY <2>1, <2>2, CompactGoes
<1>9. ASSUME NEW p \in 0 .. Cardinality(Active), AdminCreate(d, p)
      PROVE  Goes /\ InTurn
  <2> DEFINE down == Down(ToShift(p))
             pos == IF p > 0 THEN p ELSE MaxPosition + 1
  <2>1. PICK i \in Unused : CompactPositions([down EXCEPT ![i] = Row("pending", pos)])
    BY <1>9 DEF AdminCreate
  <2>2. Follows(down)
    <3>1. \A a \in Items : item[a].pos \in Nat
      BY <1>1 DEF ItemTyped, ItemRow, Position
    <3>2. \A a \in ToShift(p), b \in With("pending") :
            item[a].pos < item[b].pos => b \in ToShift(p)
      BY <3>1 DEF ToShift, Active, ActiveIn, With
    <3> QED BY <1>1, <3>2, DownFollows
  <2> HIDE DEF down, pos
  <2>3. Follows([down EXCEPT ![i] = Row("pending", pos)])
    BY <2>2, NewFollows
  <2> QED BY <2>1, <2>3, CompactGoes
<1> QED BY <1>3, <1>4, <1>5, <1>6, <1>7, <1>8, <1>9

\* A ranking of a set of songs, read backwards, is the list of them.
LEMMA OrderedIsList ==
  ASSUME NEW S \in SUBSET Items, NEW list \in Ordered(S)
  PROVE  /\ list \in [1 .. Cardinality(S) -> S]
         /\ {list[k] : k \in DOMAIN list} = S
         /\ \E rank \in Rankings(item, S) :
              \A k \in 1 .. Cardinality(S) : rank[list[k]] = k
<1>1. list \in [1 .. Cardinality(S) -> S]
  BY DEF Ordered
<1>2. PICK rank \in Rankings(item, S) : \A i \in S : list[rank[i]] = i
  BY DEF Ordered
<1>3. /\ rank \in [S -> 1 .. Cardinality(S)]
      /\ \A i, j \in S : rank[i] = rank[j] => i = j
  BY <1>2 DEF Rankings
<1>4. {list[k] : k \in DOMAIN list} = S
  BY <1>1, <1>2, <1>3
<1>5. \A k \in 1 .. Cardinality(S) : \E i \in S : rank[i] = k
  <2> DEFINE N == 1 .. Cardinality(S)
  <2>1. rank \in Injection(S, N)
    BY <1>3 DEF Injection, IsInjective
  <2>2. Cardinality(S) \in Nat
    BY SomeItems
  <2>3. IsFiniteSet(N) /\ Cardinality(N) = Cardinality(S)
    BY <2>2, FS_Interval
  <2>4. rank \in Surjection(S, N)
    BY <2>1, <2>3, FS_Injection
  <2> QED BY <2>4 DEF Surjection
<1>6. \A k \in 1 .. Cardinality(S) : rank[list[k]] = k
  BY <1>1, <1>2, <1>5
<1> QED BY <1>1, <1>2, <1>4, <1>6

\* What a create has read is in its draft.
LEMMA ListKnows ==
  ASSUME QueueInv, NEW g \in Guests, ListPending(g)
  PROVE  DOMAIN draft' = Guests /\ \A h \in Guests : DraftKnows(h)'
<1>1. PICK list \in Ordered(With("pending")),
           head \in IF With("playing") = {} THEN {None} ELSE With("playing") :
        draft' = [draft EXCEPT ![g] = [open |-> TRUE, list |-> list, head |-> head]]
  BY DEF ListPending
<1>2. DOMAIN draft = Guests /\ item' = item /\ \A h \in Guests : DraftKnows(h)
  BY DEF QueueInv, TypeOK, ListPending
<1> DEFINE S == With("pending")
<1>3. S \in SUBSET Items /\ S \subseteq Started /\ With("playing") \subseteq Started \ S
  BY DEF With, Started
<1>4. list \in [1 .. Cardinality(S) -> S] /\ {list[k] : k \in DOMAIN list} = S
  BY <1>1, <1>3, OrderedIsList
<1>5. head \in (Started \ S) \cup {None}
  BY <1>3
<1>6. Started' = Started
  BY <1>2 DEF Started
<1> HIDE DEF S
<1>7. DraftKnows(g)'
  <2>1. draft'[g].list = list /\ draft'[g].head = head
    BY <1>1, <1>2
  <2>2. Recalls(list, head, Started)
    BY <1>3, <1>4, <1>5 DEF Recalls
  <2>3. Recalls(draft'[g].list, draft'[g].head, Started')
    BY <1>6, <2>1, <2>2
  <2> QED BY <2>3 DEF DraftKnows
<1>8. ASSUME NEW h \in Guests \ {g} PROVE DraftKnows(h)'
  <2>1. draft'[h] = draft[h] /\ DraftKnows(h)
    BY <1>1, <1>2
  <2> QED BY <1>6, <2>1 DEF DraftKnows
<1> QED BY <1>1, <1>2, <1>7, <1>8

\* A list and what plays leave room for one more song.
LEMMA RoomForOne ==
  ASSUME ItemTyped, NEW list, NEW head, Recalls(list, head, Started), Unused # {}
  PROVE  /\ Len(list) \in Nat /\ DOMAIN list = 1 .. Len(list)
         /\ StartPos(head) \in {1, 2}
         /\ StartPos(head) + Len(list) <= Cardinality(Items)
<1> DEFINE listed == {list[k] : k \in DOMAIN list}
<1>1. listed \subseteq Started /\ head \in (Started \ listed) \cup {None}
  BY DEF Recalls
<1>2. Started \subseteq Items \ Unused
  BY DEF Started, Unused, With
<1>3. Cardinality(listed) \in Nat /\ IsFiniteSet(listed) /\ Cardinality(Items) \in Nat
  BY <1>1, <1>2, SomeItems
<1>4. list \in [1 .. Cardinality(listed) -> listed]
  BY DEF Recalls
<1> HIDE DEF listed
<1>5. Len(list) = Cardinality(listed) /\ DOMAIN list = 1 .. Len(list)
  <2>1. list \in Seq(listed)
    BY <1>3, <1>4
  <2>2. DOMAIN list = 1 .. Cardinality(listed)
    BY <1>4
  <2> QED BY <1>3, <2>1, <2>2
<1>6. PICK i \in Unused : TRUE
  OBVIOUS
<1>7. i \in Items /\ i \notin Started
  BY <1>2, <1>6 DEF Unused, With
<1>8. CASE head = None
  <2>1. Cardinality(listed \cup {i}) = Cardinality(listed) + 1
    BY <1>1, <1>3, <1>7, FS_AddElement
  <2>2. listed \cup {i} \subseteq Items
    BY <1>1, <1>2, <1>7
  <2>3. Cardinality(listed \cup {i}) <= Cardinality(Items)
    BY <2>2, SomeItems
  <2> QED BY <1>3, <1>5, <1>8, <2>1, <2>3 DEF StartPos
<1>9. CASE head # None
  <2>1. head \in Started \ listed
    BY <1>1, <1>9
  <2>2. /\ IsFiniteSet(listed \cup {i})
        /\ Cardinality(listed \cup {i}) = Cardinality(listed) + 1
    BY <1>1, <1>3, <1>7, FS_AddElement
  <2>3. head \notin listed \cup {i}
    BY <1>7, <2>1
  <2>4. Cardinality((listed \cup {i}) \cup {head}) = Cardinality(listed \cup {i}) + 1
    BY <2>2, <2>3, FS_AddElement
  <2>5. (listed \cup {i}) \cup {head} \subseteq Items
    BY <1>1, <1>2, <1>7, <2>1
  <2>6. Cardinality((listed \cup {i}) \cup {head}) <= Cardinality(Items)
    BY <2>5, SomeItems
  <2> QED BY <1>3, <1>5, <1>9, <2>2, <2>4, <2>6 DEF StartPos
<1> QED BY <1>8, <1>9

\* create writes every listed song where it belongs, in their order, and the
\* new one among them.
LEMMA InsertGoes ==
  ASSUME QueueInv, NEW g \in Guests, NEW at, Insert(g, at)
  PROVE  Goes /\ (~ ReadAnOldQueue(g) => InTurn)
<1> DEFINE list == draft[g].list
           head == draft[g].head
           start == StartPos(head)
           listed == {list[k] : k \in DOMAIN list}
           Written(j) ==
             IF j \notin Active THEN 0
             ELSE IF j \in listed
               THEN PosInList(at, start, CHOOSE k \in DOMAIN list : list[k] = j)
             ELSE IF j = head THEN 1
             ELSE item[j].pos
           old == [j \in Items |-> [item[j] EXCEPT !.pos = Written(j)]]
           pos == start + at
<1>1. PICK i \in Unused : item' = [old EXCEPT ![i] = Row("pending", pos)]
  BY DEF Insert
<1>2. i \in Items /\ item[i].status = "none"
  BY DEF Unused, With
<1>3. /\ ItemTyped /\ Recalls(list, head, Started) /\ at \in 0 .. Len(list)
  BY DEF QueueInv, TypeOK, ItemTyped, DraftKnows, Insert
<1>4. /\ Len(list) \in Nat /\ DOMAIN list = 1 .. Len(list) /\ start \in {1, 2}
      /\ start + Len(list) <= Cardinality(Items) /\ Cardinality(Items) \in Nat
  BY <1>2, <1>3, RoomForOne, SomeItems, {} \in SUBSET Items
<1>5. pos \in Position
  BY <1>3, <1>4 DEF Position
<1>6. \A k \in DOMAIN list : PosInList(at, start, k) \in Position
  BY <1>3, <1>4 DEF PosInList, Position
<1>7. ASSUME NEW j \in Items PROVE Written(j) \in Position
  <2>1. CASE j \in Active /\ j \in listed
    <3>1. (CHOOSE k \in DOMAIN list : list[k] = j) \in DOMAIN list
      BY <2>1
    <3> QED BY <1>6, <2>1, <3>1
  <2>2. 0 \in Position /\ 1 \in Position
    BY <1>4 DEF Position
  <2>3. item[j].pos \in Position
    BY <1>3 DEF ItemTyped, ItemRow
  <2> QED BY <2>1, <2>2, <2>3
<1>8. ASSUME NEW j \in Items \ {i}
      PROVE  item'[j].status = item[j].status /\ item'[j].pos = Written(j)
  <2> DEFINE w == Written(j)
  <2>1. item'[j] = [item[j] EXCEPT !.pos = w]
    BY <1>1
  <2> HIDE DEF w
  <2>2. item[j] \in ItemRow
    BY <1>3 DEF ItemTyped
  <2>3. item'[j].status = item[j].status /\ item'[j].pos = w
    BY <2>1, <2>2 DEF ItemRow
  <2> QED BY <2>3 DEF w
<1>9. item'[i] = [status |-> "pending", pos |-> pos]
  BY <1>1, <1>2 DEF Row
<1>10. ItemTyped'
  <2>1. ASSUME NEW j \in Items PROVE item'[j] \in ItemRow
    <3>1. CASE j = i
      BY <1>5, <1>9, <3>1 DEF ItemRow, Statuses
    <3>2. CASE j # i
      <4> DEFINE w == Written(j)
      <4>1. item'[j] = [item[j] EXCEPT !.pos = w]
        BY <1>1, <3>2
      <4>2. w \in Position
        BY <1>7
      <4> HIDE DEF w
      <4>3. item[j] \in ItemRow
        BY <1>3 DEF ItemTyped
      <4> QED BY <4>1, <4>2, <4>3 DEF ItemRow
    <3> QED BY <3>1, <3>2
  <2>2. item' = [j \in Items |-> item'[j]]
    BY <1>1
  <2> QED BY <2>1, <2>2 DEF ItemTyped
<1> HIDE DEF Written, old, pos
<1>11. Goes
  BY <1>2, <1>8, <1>9, <1>10 DEF Goes
<1>12. ASSUME ~ ReadAnOldQueue(g) PROVE InTurn
  <2> DEFINE S == With("pending")
  <2>1. list \in Ordered(S)
    BY <1>12 DEF ReadAnOldQueue, Insert
  <2>2. S \in SUBSET Items /\ S \subseteq Active /\ i \notin S
    BY <1>2 DEF With, Active, ActiveIn
  <2>3. PICK rank \in Rankings(item, S) : \A k \in 1 .. Cardinality(S) : rank[list[k]] = k
    BY <2>1, <2>2, OrderedIsList
  <2>4. listed = S /\ DOMAIN list = 1 .. Cardinality(S)
    BY <2>1, <2>2, OrderedIsList
  <2>5. /\ rank \in [S -> 1 .. Cardinality(S)]
        /\ \A a, b \in S : item[a].pos < item[b].pos => rank[a] < rank[b]
    BY <2>3 DEF Rankings
  <2> HIDE DEF S, listed
  <2>6. ASSUME NEW a \in S PROVE item'[a].pos = PosInList(at, start, rank[a])
    <3>1. a \in Items /\ a # i /\ a \in Active /\ a \in listed
      BY <2>2, <2>4
    <3>2. PICK k \in DOMAIN list : list[k] = a
      BY <3>1 DEF listed
    <3>3. (CHOOSE l \in DOMAIN list : list[l] = a) = rank[a]
      <4> DEFINE c == CHOOSE l \in DOMAIN list : list[l] = a
      <4>1. c \in DOMAIN list /\ list[c] = a
        BY <3>2
      <4> HIDE DEF c
      <4>2. rank[list[c]] = c
        BY <2>3, <2>4, <4>1
      <4>3. c = rank[a]
        BY <4>1, <4>2
      <4> QED BY <4>3 DEF c
    <3> QED BY <1>8, <3>1, <3>3 DEF Written
  <2>7. ASSUME NEW a \in S, NEW b \in S, item[a].pos < item[b].pos
        PROVE  item'[a].pos < item'[b].pos
    <3>1. rank[a] < rank[b] /\ rank[a] \in Int /\ rank[b] \in Int
      BY <2>5, <2>7
    <3>2. start \in Int /\ at \in Int
      BY <1>3, <1>4
    <3>3. PosInList(at, start, rank[a]) < PosInList(at, start, rank[b])
      BY <3>1, <3>2 DEF PosInList
    <3> QED BY <2>6, <3>3
  <2> QED BY <2>7 DEF InTurn, S
<1> QED BY <1>11, <1>12

\* Songs that were there stay, and no song comes back to wait.
LEMMA SongsStay ==
  ASSUME Goes \/ item' = item
  PROVE  /\ Started \subseteq Started'
         /\ With("pending")' \subseteq With("pending") \cup (Items \ Started)
BY DEF Goes, Started, With

\* What a call has seen stays true while others make their steps.
LEMMA OthersCallKnows ==
  ASSUME NEW d \in Drivers, CallKnows(d), call'[d] = call[d], Goes \/ item' = item
  PROVE  CallKnows(d)'
<1>1. /\ Started \subseteq Started'
      /\ With("pending")' \subseteq With("pending") \cup (Items \ Started)
  BY SongsStay
<1>2. /\ (call[d].step)' = call[d].step /\ (call[d].held)' = call[d].held
      /\ (call[d].pick)' = call[d].pick
  OBVIOUS
<1>3. call[d].held \subseteq Started
  BY DEF CallKnows
<1>4. CASE call[d].step = "startNothing"
  <2>1. call[d].held \cap With("pending") = {}
    BY <1>4 DEF CallKnows
  <2>2. call[d].held \cap With("pending")' = {}
    BY <1>1, <1>3, <2>1
  <2> QED BY <1>1, <1>2, <1>3, <1>4, <2>2 DEF CallKnows
<1>5. CASE call[d].step # "startNothing"
  BY <1>1, <1>2, <1>3, <1>5 DEF CallKnows
<1> QED BY <1>4, <1>5

\* More songs can be remembered when more have come.
LEMMA RecallsMore ==
  ASSUME NEW list, NEW head, NEW S, NEW T, S \subseteq T, Recalls(list, head, S)
  PROVE  Recalls(list, head, T)
BY DEF Recalls

\* What a draft has read stays true while others make their steps.
LEMMA OthersDraftKnows ==
  ASSUME NEW g \in Guests, DraftKnows(g), draft'[g] = draft[g], Goes \/ item' = item
  PROVE  DraftKnows(g)'
<1>1. Started \subseteq Started'
  BY SongsStay
<1>2. CASE ~ draft[g].open
  BY <1>2 DEF DraftKnows
<1>3. CASE draft[g].open
  <2>1. Recalls(draft[g].list, draft[g].head, Started)
    BY <1>3 DEF DraftKnows
  <2>2. Recalls(draft[g].list, draft[g].head, Started')
    BY <1>1, <2>1, RecallsMore
  <2>3. Recalls(draft'[g].list, draft'[g].head, Started')
    BY <2>2
  <2> QED BY <2>3 DEF DraftKnows
<1> QED BY <1>2, <1>3

\* A call that holds nothing, and is not about to start a song, knows nothing.
LEMMA NothingKnown ==
  ASSUME NEW d \in Drivers, (call[d].held)' = {}, (call[d].step)' # "start"
  PROVE  CallKnows(d)'
<1>1. (call[d].held)' \subseteq Started'
  OBVIOUS
<1>2. (call[d].held)' \cap With("pending")' = {}
  OBVIOUS
<1> QED BY <1>1, <1>2 DEF CallKnows

\* A driver's own step: either it leaves the songs alone or it follows the
\* queue; a commit leaves a call that holds nothing.
LEMMA DriverCallKnows ==
  ASSUME call \in [Drivers -> DriverCall], NEW d \in Drivers, CallKnows(d), Drive(d)
  PROVE  /\ call' \in [Drivers -> DriverCall]
         /\ CallKnows(d)'
         /\ \A e \in Drivers \ {d} : call'[e] = call[e]
<1> USE DEF DriverCall, CallSteps, Ops, Moves
<1> DEFINE Known == /\ call' \in [Drivers -> DriverCall]
                    /\ CallKnows(d)'
                    /\ \A e \in Drivers \ {d} : call'[e] = call[e]
<1> SUFFICES Known
  OBVIOUS
<1> HIDE DEF Known
<1>1. ASSUME NEW c \in DriverCall, call' = [call EXCEPT ![d] = c],
             c.held = {}, c.step # "start"
      PROVE  Known
  <2>1. call'[d] = c /\ call' \in [Drivers -> DriverCall]
    BY <1>1
  <2>2. (call[d].held)' = {} /\ (call[d].step)' # "start"
    BY <1>1, <2>1
  <2>3. \A e \in Drivers \ {d} : call'[e] = call[e]
    BY <1>1
  <2> QED BY <2>1, <2>2, <2>3, NothingKnown DEF Known
<1>2. /\ With("playing") \subseteq Items /\ Active \subseteq Items
      /\ Active \subseteq Started /\ Unused \subseteq Items
  BY DEF With, Active, ActiveIn, Started, Unused
<1>3. NoCall \in DriverCall
  BY DEF NoCall
<1>4. ASSUME NEW pick \in Items \cup {None}, ToPlayer(d, pick)
      PROVE  Known
  <2> DEFINE c == [NoCall EXCEPT !.op = call[d].op, !.step = "player", !.pick = pick]
  <2>1. c \in DriverCall /\ c.held = {} /\ c.step # "start"
    BY <1>3, <1>4 DEF NoCall
  <2>2. call' = [call EXCEPT ![d] = c]
    BY <1>4 DEF ToPlayer
  <2> HIDE DEF c
  <2> QED BY <1>1, <2>1, <2>2
<1>5. ASSUME NEW op \in Moves \cup {"adminPlayNow"}, See(d, op) PROVE Known
  <2> DEFINE c == [NoCall EXCEPT !.op = op, !.step = "seen", !.see = With("playing")]
  <2>1. c \in DriverCall /\ c.held = {} /\ c.step # "start"
    BY <1>2, <1>3 DEF NoCall
  <2>2. call' = [call EXCEPT ![d] = c]
    BY <1>5 DEF See
  <2> HIDE DEF c
  <2> QED BY <1>1, <2>1, <2>2
<1>6. CASE Retire(d)
  <2> DEFINE c == [call[d] EXCEPT !.step = "retired",
                                  !.see = @ \cap With("playing"), !.held = Active]
  <2>1. c \in DriverCall /\ c.step = "retired" /\ c.held = Active
    BY <1>2
  <2>2. call' = [call EXCEPT ![d] = c] /\ item' = item
    BY <1>6 DEF Retire
  <2> HIDE DEF c
  <2>3. call'[d] = c /\ call' \in [Drivers -> DriverCall]
    BY <2>1, <2>2
  <2>4. Started' = Started
    BY <2>2 DEF Started
  <2>5. (call[d].step)' = "retired" /\ (call[d].held)' = Active
    BY <2>1, <2>3
  <2>6. CallKnows(d)'
    BY <1>2, <2>4, <2>5 DEF CallKnows
  <2> QED BY <2>2, <2>3, <2>6 DEF Known
<1>7. CASE PickRow(d)
  <2>1. PICK i \in Lowest(ToPromote) :
          call' = [call EXCEPT ![d].step = "start", ![d].pick = i]
    BY <1>7 DEF PickRow
  <2>2. i \in Items
    BY DEF Lowest, ToPromote, With
  <2> DEFINE c == [call[d] EXCEPT !.step = "start", !.pick = i]
  <2>3. c \in DriverCall /\ c.step = "start" /\ c.pick = i /\ c.held = call[d].held
    BY <2>2
  <2>4. call' = [call EXCEPT ![d] = c] /\ item' = item
    BY <1>7, <2>1 DEF PickRow
  <2> HIDE DEF c
  <2>5. call'[d] = c /\ call' \in [Drivers -> DriverCall]
    BY <2>3, <2>4
  <2>6. Started' = Started
    BY <2>4 DEF Started
  <2>7. /\ (call[d].step)' = "start" /\ (call[d].pick)' \in Items
        /\ (call[d].held)' = call[d].held
    BY <2>2, <2>3, <2>5
  <2>8. CallKnows(d)'
    BY <2>6, <2>7 DEF CallKnows
  <2> QED BY <2>4, <2>5, <2>8 DEF Known
<1>8. CASE PickNone(d)
  <2>1. PICK step \in {"startHouse", "startNothing"} :
          call' = [call EXCEPT ![d].step = step]
    BY <1>8 DEF PickNone
  <2> DEFINE c == [call[d] EXCEPT !.step = step]
  <2>2. c \in DriverCall /\ c.step = step /\ c.held = call[d].held
    OBVIOUS
  <2>3. call' = [call EXCEPT ![d] = c] /\ item' = item /\ With("pending") = {}
    BY <1>8, <2>1 DEF PickNone
  <2> HIDE DEF c
  <2>4. call'[d] = c /\ call' \in [Drivers -> DriverCall]
    BY <2>2, <2>3
  <2>5. Started' = Started /\ With("pending")' = {}
    BY <2>3 DEF Started, With
  <2>6. (call[d].step)' # "start" /\ (call[d].held)' = call[d].held
    BY <2>2, <2>4
  <2>7. CallKnows(d)'
    BY <2>5, <2>6 DEF CallKnows
  <2> QED BY <2>3, <2>4, <2>7 DEF Known
<1>9. CASE StartRow(d)
  <2>1. call[d].pick \in Items \cup {None} /\ ToPlayer(d, call[d].pick)
    BY <1>9 DEF StartRow
  <2> QED BY <1>4, <2>1
<1>10. CASE StartHouse(d) \/ PlayNowCommit(d)
  <2>1. PICK i \in Unused : ToPlayer(d, i)
    BY <1>10 DEF StartHouse, PlayNowCommit
  <2> QED BY <1>2, <1>4, <2>1
<1>11. CASE StartNothing(d) \/ FinishCommit(d)
  <2>1. ToPlayer(d, None)
    BY <1>11 DEF StartNothing, FinishCommit
  <2> QED BY <1>4, <2>1
<1>12. CASE FinishRead(d)
  <2>1. PICK i \in IF With("playing") = {} THEN {None} ELSE Lowest(With("playing")) :
          call' = [call EXCEPT ![d] = [NoCall EXCEPT !.op = "finishCurrent",
                                         !.step = "finish", !.pick = i]]
    BY <1>12 DEF FinishRead
  <2>2. i \in Items \cup {None}
    BY <1>2, <2>1 DEF Lowest
  <2> DEFINE c == [NoCall EXCEPT !.op = "finishCurrent", !.step = "finish", !.pick = i]
  <2>3. c \in DriverCall /\ c.held = {} /\ c.step # "start"
    BY <1>3, <2>2 DEF NoCall
  <2>4. call' = [call EXCEPT ![d] = c]
    BY <2>1
  <2> HIDE DEF c
  <2> QED BY <1>1, <2>3, <2>4
<1>13. ASSUME call[d] = NoCall, call' = call PROVE Known
  <2>1. (call[d].held)' = {} /\ (call[d].step)' # "start"
    BY <1>13 DEF NoCall
  <2> QED BY <1>13, <2>1, NothingKnown DEF Known
<1>14. CASE TellPlayer(d) \/ Lose(d)
  <2>1. call' = [call EXCEPT ![d] = NoCall] /\ NoCall.held = {} /\ NoCall.step # "start"
    BY <1>14 DEF TellPlayer, Lose, NoCall
  <2> QED BY <1>1, <1>3, <2>1
<1> QED BY <1>5, <1>6, <1>7, <1>8, <1>9, <1>10, <1>11, <1>12, <1>13, <1>14
           DEF Drive, PickNextPlayable, Skip, AdminCreate

\* A driver's step follows the queue or leaves it alone, and no draft changes.
LEMMA DriverGoes ==
  ASSUME QueueInv, NEW d \in Drivers, Drive(d)
  PROVE  /\ draft' = draft
         /\ (Goes /\ InTurn) \/ item' = item
<1>1. CASE StartRow(d) \/ StartHouse(d) \/ StartNothing(d) \/ PlayNowCommit(d)
  BY <1>1, CommitGoes DEF StartRow, StartHouse, StartNothing, PlayNowCommit
<1>2. CASE FinishCommit(d)
  BY <1>2, CommitGoes DEF FinishCommit
<1>3. ASSUME NEW i \in Items, Skip(d, i)
      PROVE  draft' = draft /\ Goes /\ InTurn
  BY <1>3, CommitGoes DEF Skip
<1>4. ASSUME NEW p \in 0 .. Cardinality(Active), AdminCreate(d, p)
      PROVE  draft' = draft /\ Goes /\ InTurn
  BY <1>4, CommitGoes DEF AdminCreate
<1>5. ASSUME \/ \E op \in Moves \cup {"adminPlayNow"} : See(d, op)
             \/ Retire(d) \/ PickRow(d) \/ PickNone(d) \/ FinishRead(d)
             \/ TellPlayer(d) \/ Lose(d)
      PROVE  draft' = draft /\ item' = item
  BY <1>5 DEF See, Retire, PickRow, PickNone, FinishRead, TellPlayer, Lose
<1> QED BY <1>1, <1>2, <1>3, <1>4, <1>5 DEF Drive, PickNextPlayable

\* Songs follow the queue at every step, and wait in turn unless a guest's
\* song was placed in a queue that has changed since.
LEMMA StepGoes ==
  ASSUME QueueInv, [Next]_vars
  PROVE  \/ item' = item
         \/ Goes /\ InTurn
         \/ Goes /\ \E g \in Guests : ReadAnOldQueue(g) /\ draft'[g] # draft[g]
<1>1. ASSUME NEW d \in Drivers, Drive(d)
      PROVE  item' = item \/ (Goes /\ InTurn)
  BY <1>1, DriverGoes
<1>2. ASSUME NEW g \in Guests, NEW at \in 0 .. Cardinality(Items), Insert(g, at)
      PROVE  \/ Goes /\ InTurn
             \/ Goes /\ ReadAnOldQueue(g) /\ draft'[g] # draft[g]
  <2>1. draft'[g] # draft[g]
    BY <1>2 DEF QueueInv, TypeOK, Insert, NoDraft
  <2> QED BY <1>2, <2>1, InsertGoes
<1>3. CASE UNCHANGED vars \/ SetPlaying
  BY <1>3 DEF vars, SetPlaying
<1>4. ASSUME NEW g \in Guests, ListPending(g) \/ GiveUp(g) PROVE item' = item
  BY <1>4 DEF ListPending, GiveUp
<1> QED BY <1>1, <1>2, <1>3, <1>4 DEF Next

\* Drafts, step by step.
LEMMA DraftsKnow ==
  ASSUME QueueInv, [Next]_vars, Goes \/ item' = item
  PROVE  DOMAIN draft' = Guests /\ \A h \in Guests : DraftKnows(h)'
<1>1. DOMAIN draft = Guests /\ \A h \in Guests : DraftKnows(h)
  BY DEF QueueInv, TypeOK
<1>2. ASSUME draft' = draft
      PROVE  DOMAIN draft' = Guests /\ \A h \in Guests : DraftKnows(h)'
  <2>1. \A h \in Guests : draft'[h] = draft[h]
    BY <1>2
  <2> QED BY <1>1, <1>2, <2>1, OthersDraftKnows
<1>3. ASSUME NEW g \in Guests, draft' = [draft EXCEPT ![g] = NoDraft]
      PROVE  DOMAIN draft' = Guests /\ \A h \in Guests : DraftKnows(h)'
  <2>1. ~ (draft[g].open)'
    BY <1>1, <1>3 DEF NoDraft
  <2>2. \A h \in Guests \ {g} : draft'[h] = draft[h]
    BY <1>1, <1>3
  <2>3. DraftKnows(g)'
    BY <2>1 DEF DraftKnows
  <2> QED BY <1>1, <1>3, <2>2, <2>3, OthersDraftKnows
<1>4. ASSUME NEW d \in Drivers, Drive(d) PROVE draft' = draft
  BY <1>4, DriverGoes
<1>5. ASSUME UNCHANGED vars \/ SetPlaying PROVE draft' = draft
  BY <1>5 DEF vars, SetPlaying
<1>6. ASSUME NEW g \in Guests,
             GiveUp(g) \/ \E at \in 0 .. Cardinality(Items) : Insert(g, at)
      PROVE  draft' = [draft EXCEPT ![g] = NoDraft]
  BY <1>6 DEF GiveUp, Insert
<1> QED BY <1>2, <1>3, <1>4, <1>5, <1>6, ListKnows DEF Next

\* Calls, step by step.
LEMMA CallsKnow ==
  ASSUME QueueInv, [Next]_vars, Goes \/ item' = item
  PROVE  call' \in [Drivers -> DriverCall] /\ \A d \in Drivers : CallKnows(d)'
<1>1. call \in [Drivers -> DriverCall] /\ \A d \in Drivers : CallKnows(d)
  BY DEF QueueInv, TypeOK
<1>2. ASSUME NEW d \in Drivers, Drive(d)
      PROVE  call' \in [Drivers -> DriverCall] /\ \A e \in Drivers : CallKnows(e)'
  <2>1. /\ call' \in [Drivers -> DriverCall]
        /\ CallKnows(d)'
        /\ \A e \in Drivers \ {d} : call'[e] = call[e]
    BY <1>1, <1>2, DriverCallKnows
  <2> QED BY <1>1, <2>1, OthersCallKnows
<1>3. ASSUME call' = call
      PROVE  call' \in [Drivers -> DriverCall] /\ \A d \in Drivers : CallKnows(d)'
  <2>1. \A d \in Drivers : call'[d] = call[d]
    BY <1>3
  <2> QED BY <1>1, <1>3, <2>1, OthersCallKnows
<1>4. ASSUME \/ UNCHANGED vars \/ SetPlaying
             \/ \E g \in Guests :
                  \/ ListPending(g) \/ GiveUp(g)
                  \/ \E at \in 0 .. Cardinality(Items) : Insert(g, at)
      PROVE  call' = call
  BY <1>4 DEF vars, SetPlaying, ListPending, GiveUp, Insert
<1> QED BY <1>2, <1>3, <1>4 DEF Next

\* What the player is shown is a song or none.
LEMMA PlaybackStays ==
  ASSUME QueueInv, [Next]_vars
  PROVE  playback' \in PlaybackRow
<1>1. playback \in PlaybackRow /\ call \in [Drivers -> DriverCall]
  BY DEF QueueInv, TypeOK
<1>2. ASSUME NEW d \in Drivers, TellPlayer(d) PROVE playback' \in PlaybackRow
  <2>1. call[d].pick \in Items \cup {None}
    BY <1>1 DEF DriverCall
  <2>2. playback' = Shown(call[d].op, call[d].pick)
    BY <1>2 DEF TellPlayer
  <2> QED BY <2>1, <2>2 DEF Shown, PlaybackRow
<1>3. CASE SetPlaying
  BY <1>1, <1>3 DEF SetPlaying, PlaybackRow
<1>4. ASSUME NEW d \in Drivers, Drive(d), ~ TellPlayer(d) PROVE playback' = playback
  <2> USE <1>4
  <2>1. ASSUME \/ \E op \in Moves \cup {"adminPlayNow"} : See(d, op)
               \/ Retire(d) \/ PickRow(d) \/ PickNone(d) \/ FinishRead(d) \/ Lose(d)
        PROVE  playback' = playback
    BY <2>1 DEF See, Retire, PickRow, PickNone, FinishRead, Lose
  <2>2. ASSUME \/ StartRow(d) \/ StartHouse(d) \/ StartNothing(d)
               \/ PlayNowCommit(d) \/ FinishCommit(d)
               \/ \E i \in Items : Skip(d, i)
               \/ \E p \in 0 .. Cardinality(Active) : AdminCreate(d, p)
        PROVE  playback' = playback
    BY <2>2 DEF StartRow, StartHouse, StartNothing, PlayNowCommit, FinishCommit,
                Skip, AdminCreate
  <2> QED BY <2>1, <2>2 DEF Drive, PickNextPlayable
<1>5. ASSUME NEW g \in Guests,
             \/ ListPending(g) \/ GiveUp(g)
             \/ \E at \in 0 .. Cardinality(Items) : Insert(g, at)
      PROVE  playback' = playback
  BY <1>5 DEF ListPending, GiveUp, Insert
<1>6. CASE UNCHANGED vars
  BY <1>1, <1>6 DEF vars
<1> QED BY <1>1, <1>2, <1>3, <1>4, <1>5, <1>6 DEF Next

\* The queue starts empty.
LEMMA QueueInit == Init => QueueInv
<1> SUFFICES ASSUME Init PROVE QueueInv
  OBVIOUS
<1>1. item \in [Items -> ItemRow] /\ With("pending") = {}
  <2>1. 0 \in Position
    BY SomeItems, {} \in SUBSET Items DEF Position
  <2>2. NoRow \in ItemRow
    BY <2>1 DEF NoRow, ItemRow, Statuses
  <2>3. \A i \in Items : item[i] = NoRow
    BY DEF Init
  <2> QED BY <2>2, <2>3 DEF Init, NoRow, With
<1>2. playback \in PlaybackRow
  BY DEF Init, PlaybackRow
<1>3. call \in [Drivers -> DriverCall] /\ \A d \in Drivers : CallKnows(d)
  <2>1. NoCall \in DriverCall
    BY DEF NoCall, DriverCall, CallSteps, Ops, Moves
  <2>2. \A d \in Drivers : call[d].held = {} /\ call[d].step = "idle"
    BY DEF Init, NoCall
  <2> QED BY <2>1, <2>2 DEF Init, CallKnows
<1>4. DOMAIN draft = Guests /\ \A g \in Guests : DraftKnows(g)
  BY DEF Init, NoDraft, DraftKnows
<1> QED BY <1>1, <1>2, <1>3, <1>4 DEF QueueInv, TypeOK

\* Every step keeps the queue's invariant.
LEMMA QueueNext ==
  ASSUME QueueInv, [Next]_vars
  PROVE  QueueInv'
<1>1. Goes \/ item' = item
  BY StepGoes
<1>2. item' \in [Items -> ItemRow]
  BY <1>1 DEF Goes, ItemTyped, QueueInv, TypeOK
<1> QED BY <1>1, <1>2, DraftsKnow, CallsKnow, PlaybackStays DEF QueueInv, TypeOK

\* What calls and drafts remember were songs of the queue.
THEOREM QueueInvariant == Spec => []QueueInv
<1>1. QueueInv /\ [Next]_vars => QueueInv'
  BY QueueNext
<1> QED BY <1>1, QueueInit, PTL DEF Spec

\* Rows, calls and drafts are of their types, and no position is beyond the
\* number of songs, however many clients move the queue and whatever they skip
\* (compactPositions, create, adminCreate, adminPlayNow).
THEOREM TypeAlways == Spec => []TypeOK
<1>1. QueueInv => TypeOK
  BY DEF QueueInv
<1> QED BY <1>1, QueueInvariant, PTL

\* Songs that wait keep their order, however many clients move the queue: only
\* a guest's song placed in a queue that has changed since it was read can put
\* two others in each other's place (compactPositions, create, adminCreate,
\* adminPlayNow).
THEOREM TurnsKeptAlways == Spec => TurnsKept
<1> DEFINE Kept ==
      \/ \E g \in Guests : ReadAnOldQueue(g) /\ draft'[g] # draft[g]
      \/ \A i, j \in With("pending") :
           /\ item[i].pos < item[j].pos
           /\ item'[i].status = "pending" /\ item'[j].status = "pending"
           => item'[i].pos < item'[j].pos
<1>1. QueueInv /\ [Next]_vars => [Kept]_vars
  <2> SUFFICES ASSUME QueueInv, [Next]_vars PROVE Kept
    OBVIOUS
  <2>1. CASE item' = item
    BY <2>1
  <2>2. CASE InTurn
    BY <2>2 DEF InTurn
  <2> QED BY <2>1, <2>2, StepGoes
<1> QED BY <1>1, QueueInvariant, PTL DEF Spec, TurnsKept
=============================================================================

------------------------ MODULE SongRequests_proofs ------------------------
(***************************************************************************)
(* What the place of a new song promises, for queues of any length and any *)
(* scores, and what the queue promises a table, for any number of tables,  *)
(* phones and songs: the placement is fair in every reachable queue, the   *)
(* button of the customer's page is honest, and a table exceeds its limit  *)
(* and its credits only by requests that overlap or outlive their visit.   *)
(***************************************************************************)
EXTENDS SongRequests, FiniteSetTheorems, SequenceTheorems, TLAPS

(***************************************************************************)
(* The scan of the fairness service.                                       *)
(***************************************************************************)
\* A queue of placeable songs.
Queued(queue) == \E n \in Nat : DOMAIN queue = 1 .. n /\ Len(queue) = n

\* A set of naturals that is not empty has a least element.
LEMMA LeastExists ==
  ASSUME NEW S \in SUBSET Nat, S # {}
  PROVE  \E i \in S : \A j \in S : i <= j
  <1> DEFINE Less == {pair \in Nat \X Nat : pair[1] < pair[2]}
  <1>1. IsWellFoundedOn(Less, Nat)
    BY NatLessThanWellFounded DEF OpToRel
  <1>2. \E i \in S : \A j \in S : ~ (<<j, i>> \in Less)
    <2> HIDE DEF Less
    <2> QED
      BY <1>1, WFMin
  <1>3. \A i, j \in S : <<j, i>> \in Less <=> j < i
    OBVIOUS
  <1>4. \A i, j \in S : ~ (j < i) => i <= j
    OBVIOUS
  <1> QED
    BY <1>2, <1>3, <1>4

\* The prefix of a table's songs is a finite set of places.
LEMMA PassedFinite ==
  ASSUME NEW queue, Queued(queue), NEW n, NEW table
  PROVE  /\ IsFiniteSet(PlacesPassed(queue, n, table))
         /\ Passed(queue, n, table) \in Nat
  <1>1. IsFiniteSet(DOMAIN queue)
    BY FS_Interval DEF Queued
  <1> QED
    BY <1>1, FS_Subset, FS_CardinalityType DEF Passed, PlacesPassed

\* A song that has been passed counts.
LEMMA PassedOne ==
  ASSUME NEW queue, Queued(queue), NEW n, NEW table,
         NEW k \in DOMAIN queue, k <= n, queue[k].table = table
  PROVE  Passed(queue, n, table) >= 1
  <1> DEFINE S == PlacesPassed(queue, n, table)
  <1>1. IsFiniteSet(S) /\ Cardinality(S) \in Nat
    BY PassedFinite DEF Passed
  <1>2. S # {}
    BY DEF PlacesPassed
  <1>3. Cardinality(S) # 0
    BY <1>1, <1>2, FS_EmptySet
  <1> QED
    BY <1>1, <1>3 DEF Passed

\* A table none of whose songs wait is at no place.
LEMMA NoneWaits ==
  ASSUME NEW queue, Queued(queue), NEW table, CountOf(queue, table) = 0,
         NEW k \in DOMAIN queue
  PROVE  queue[k].table # table
  <1>1. k <= Len(queue)
    BY DEF Queued
  <1> QED
    BY <1>1, PassedOne DEF CountOf

\* Two songs that have been passed are in two places.
LEMMA PassedTwo ==
  ASSUME NEW queue, Queued(queue), NEW n, NEW table,
         Passed(queue, n, table) > 1
  PROVE  \E i, k \in DOMAIN queue :
           /\ i < k
           /\ k <= n
           /\ queue[i].table = table
           /\ queue[k].table = table
  <1> DEFINE S == PlacesPassed(queue, n, table)
  <1>1. IsFiniteSet(S) /\ Cardinality(S) > 1 /\ Cardinality(S) \in Nat
    BY PassedFinite DEF Passed
  <1>2. PICK i \in S : TRUE
    BY <1>1, FS_EmptySet
  <1>3. Cardinality(S \ {i}) = Cardinality(S) - 1 /\ IsFiniteSet(S \ {i})
    BY <1>1, <1>2, FS_RemoveElement
  <1>4. PICK k \in S \ {i} : TRUE
    BY <1>1, <1>3, FS_EmptySet
  <1>5. i \in Nat /\ k \in Nat /\ i # k
    BY <1>4 DEF Queued, PlacesPassed
  <1>6. CASE i < k
    BY <1>6 DEF PlacesPassed
  <1>7. CASE k < i
    BY <1>7 DEF PlacesPassed
  <1> QED
    BY <1>5, <1>6, <1>7

Stops(queue, new, score, playing) ==
  {i \in DOMAIN queue : StopsAt(queue, i, new, score, playing)}

\* With two tables in turn, the scan returns its first stop or the end.
LEMMA FirstStop ==
  ASSUME NEW queue, Queued(queue), NEW new, NEW score, NEW playing,
         NEW busy \in Nat \ {0, 1}
  PROVE  LET stops == Stops(queue, new, score, playing)
             place == FindInsertionPosition(queue, new, score, playing, busy)
         IN  /\ place \in 1 .. Len(queue) + 1
             /\ place \in DOMAIN queue => place \in stops
             /\ \A i \in stops : place <= i
  <1> DEFINE stops == Stops(queue, new, score, playing)
             place == FindInsertionPosition(queue, new, score, playing, busy)
  <1>1. PICK n \in Nat : DOMAIN queue = 1 .. n /\ Len(queue) = n
    BY DEF Queued
  <1>2. stops \subseteq 1 .. n
    BY <1>1 DEF Stops
  <1>3. CASE stops = {}
    <2>1. place = n + 1
      BY <1>1, <1>3 DEF FindInsertionPosition, Stops
    <2> QED
      BY <1>1, <1>3, <2>1
  <1>4. CASE stops # {}
    <2>1. place = CHOOSE i \in stops : \A j \in stops : i <= j
      BY <1>4 DEF FindInsertionPosition, Stops
    <2>2. \E i \in stops : \A j \in stops : i <= j
      BY <1>2, <1>4, LeastExists
    <2>3. place \in stops /\ \A j \in stops : place <= j
      BY <2>1, <2>2
    <2> QED
      BY <1>1, <1>2, <2>3
  <1> QED
    BY <1>3, <1>4

\* However many tables take part, the place is one of the queue or its end.
LEMMA PlaceInRange ==
  ASSUME NEW queue, Queued(queue), NEW new, NEW score, NEW playing, NEW busy
  PROVE  FindInsertionPosition(queue, new, score, playing, busy)
           \in 1 .. Len(queue) + 1
  <1>1. FindInsertionPosition(queue, new, score, playing, busy)
          \in {Len(queue) + 1, FindInsertionPosition(queue, new, score, playing, 2)}
    BY DEF FindInsertionPosition
  <1>2. Len(queue) \in Nat
    BY DEF Queued
  <1>3. FindInsertionPosition(queue, new, score, playing, 2) \in 1 .. Len(queue) + 1
    BY FirstStop
  <1> QED
    BY <1>1, <1>2, <1>3

\* A new song that goes before another one never sits next to a song of its
\* own table and never takes a turn of the staff (findInsertionPosition).
THEOREM PlacementAvoidsOwn ==
  ASSUME NEW queue, Queued(queue), NEW new, NEW score, NEW playing,
         NEW busy \in Nat \ {0, 1}
  PROVE  NoNeighbours(queue, new, playing,
           FindInsertionPosition(queue, new, score, playing, busy))
  BY FirstStop DEF NoNeighbours, Stops, StopsAt

\* However long the queue and whatever the scores, a table that has nothing
\* waiting waits for at most one song of every other table.
THEOREM PlacementTakesTurns ==
  ASSUME NEW queue, Queued(queue), NEW new, NEW score, NEW playing,
         NEW busy \in Nat \ {0, 1}
  PROVE  OneSongEach(queue, new,
           FindInsertionPosition(queue, new, score, playing, busy))
  <1> DEFINE place == FindInsertionPosition(queue, new, score, playing, busy)
  <1> SUFFICES ASSUME CountOf(queue, new) = 0, NEW other \in Tables,
                      ~ Passed(queue, place - 1, other) <= 1
               PROVE  FALSE
    BY DEF OneSongEach
  <1>1. PICK n \in Nat : DOMAIN queue = 1 .. n /\ Len(queue) = n
    BY DEF Queued
  <1>2. Passed(queue, place - 1, other) > 1
    BY PassedFinite
  <1>3. PICK i \in DOMAIN queue, k \in DOMAIN queue :
          /\ i < k
          /\ k <= place - 1
          /\ queue[i].table = other
          /\ queue[k].table = other
    BY <1>2, PassedTwo
  <1>4. queue[k].table \notin {Staff, new}
    BY <1>3, NoneWaits, FairnessAssumption
  <1>5. TableBefore(queue, k, playing) # new
    <2>1. k # 1 /\ k - 1 \in DOMAIN queue
      BY <1>1, <1>3
    <2> QED
      BY <2>1, NoneWaits DEF TableBefore
  <1>6. OwesTheTurn(queue, k, new)
    <2>1. i <= k - 1 /\ i <= Len(queue)
      BY <1>1, <1>3
    <2>2. Passed(queue, k - 1, other) >= 1 /\ CountOf(queue, other) >= 1
      BY <1>3, <2>1, PassedOne DEF CountOf
    <2>3. CountOf(queue, other) \in Nat
      BY PassedFinite DEF CountOf
    <2> QED
      BY <1>3, <2>2, <2>3 DEF OwesTheTurn
  <1>7. k \in Stops(queue, new, score, playing)
    BY <1>4, <1>5, <1>6 DEF Stops, StopsAt
  <1>8. place <= k /\ place \in 1 .. n + 1
    BY <1>1, <1>7, FirstStop
  <1> QED
    BY <1>1, <1>3, <1>8

(***************************************************************************)
(* The queue it is used on.                                                *)
(***************************************************************************)
\* The songs that are created are rows.
LEMMA RowsAreTyped ==
  /\ StaffSong \in SongRow
  /\ \A t \in Tables, score \in Int, extra \in BOOLEAN, v \in Nat :
       Song(t, score, extra, v) \in SongRow
  BY DEF StaffSong, Song, SongRow

\* The queue, as the scan of the fairness service needs it.
LEMMA WaitingIsQueued == TypeOK => Queued(waiting)
  BY LenProperties DEF TypeOK, Queued

\* Putting a song into a list of songs, and taking one out.
LEMMA InsertType ==
  ASSUME NEW queue \in Seq(SongRow), NEW song \in SongRow,
         NEW i \in 1 .. Len(queue) + 1
  PROVE  InsertAt(queue, i, song) \in Seq(SongRow)
  <1>1. SubSeq(queue, 1, i - 1) \in Seq(SongRow)
    BY SubSeqProperties, LenProperties
  <1>2. SubSeq(queue, i, Len(queue)) \in Seq(SongRow)
    BY SubSeqProperties, LenProperties
  <1> QED
    BY <1>1, <1>2 DEF InsertAt

\* A song taken out of a list leaves a list of songs.
LEMMA RemoveType ==
  ASSUME NEW queue \in Seq(SongRow), NEW i \in DOMAIN queue
  PROVE  RemoveAt(queue, i) \in Seq(SongRow)
  <1>1. i \in 1 .. Len(queue) /\ Len(queue) \in Nat
    BY LenProperties
  <1>2. SubSeq(queue, 1, i - 1) \in Seq(SongRow)
    BY <1>1, SubSeqProperties, LenProperties
  <1>3. SubSeq(queue, i + 1, Len(queue)) \in Seq(SongRow)
    BY <1>1, SubSeqProperties, LenProperties
  <1> QED
    BY <1>2, <1>3 DEF RemoveAt

\* A start leaves a queue and a song of their types.
LEMMA StartType ==
  ASSUME TypeOK, StartNext
  PROVE  waiting' \in Seq(SongRow) /\ on' \in SongRow \cup {NoSong}
  <1>1. CASE waiting # <<>>
    BY <1>1, HeadTailProperties DEF StartNext, TypeOK
  <1>2. CASE waiting = <<>>
    BY <1>2, RowsAreTyped DEF StartNext, TypeOK
  <1> QED
    BY <1>1, <1>2

\* The songs counted as played stay natural numbers.
LEMMA EndedType == TypeOK => Ended(on) \in [Tables -> Nat]
  <1> SUFFICES ASSUME TypeOK PROVE Ended(on) \in [Tables -> Nat]
    OBVIOUS
  <1>1. CASE on.table \in Tables
    <2>1. played[on.table] + 1 \in Nat
      BY <1>1 DEF TypeOK
    <2> QED
      BY <2>1 DEF TypeOK, Ended
  <1>2. CASE on.table \notin Tables
    BY <1>2 DEF TypeOK, Ended
  <1> QED
    BY <1>1, <1>2

\* The bar opens well typed.
LEMMA TypeInit == Init => TypeOK
  BY RowsAreTyped DEF Init, TypeOK

\* Every step keeps the types.
LEMMA TypeNext == TypeOK /\ [Next]_vars => TypeOK'
  <1> SUFFICES ASSUME TypeOK, [Next]_vars PROVE TypeOK'
    OBVIOUS
  <1>1. ASSUME NEW p \in Phones, NEW t \in Tables, Check(p, t)
        PROVE  TypeOK'
    <2>1. [table |-> t, extra |-> MustPay(t), visit |-> visit[t],
           overlapped |-> {q \in Phones \ {p} : call[q].table = t} # {}]
             \in RequestRow
      BY DEF RequestRow, TypeOK, MustPay
    <2>2. ASSUME NEW q \in Phones, call[q].table = t
          PROVE  [call[q] EXCEPT !.overlapped = TRUE] \in RequestRow
      <3>1. call[q] # Idle
        BY <2>2, FairnessAssumption DEF Idle
      <3>2. call[q] \in RequestRow
        BY <3>1 DEF TypeOK
      <3> QED
        BY <3>2 DEF RequestRow
    <2>3. call' \in [Phones -> RequestRow \cup {Idle}]
      BY <1>1, <2>1, <2>2 DEF Check, TypeOK
    <2> QED
      BY <1>1, <2>3 DEF Check, TypeOK
  <1>2. ASSUME NEW p \in Phones, NEW score \in Scores,
               NEW recent \in {{}, Tables}, Place(p, score, recent)
        PROVE  TypeOK'
    <2> DEFINE t == call[p].table
               place == FindInsertionPosition(waiting, t, score, PlayingTable,
                                              BusyTables(recent))
               song == Song(t, score, call[p].extra, visit[t])
    <2>1. place \in 1 .. Len(waiting) + 1
      BY WaitingIsQueued, PlaceInRange
    <2>2. song \in SongRow
      BY <1>2, RowsAreTyped, SongAssumption DEF Place, TypeOK, RequestRow
    <2>3. InsertAt(waiting, place, song) \in Seq(SongRow)
      BY <2>1, <2>2, InsertType DEF TypeOK
    <2> QED
      BY <1>2, <2>3, RowsAreTyped DEF Place, TypeOK
  <1>3. ASSUME NEW p \in Phones, GiveUp(p) PROVE TypeOK'
    BY <1>3, RowsAreTyped DEF GiveUp, TypeOK
  <1>4. ASSUME NEW t \in Tables,
               DeliverBigOrder(t) \/ OpenVisit(t) \/ CloseVisit(t)
        PROVE  TypeOK'
    <2>1. CASE DeliverBigOrder(t)
      <3>1. earned[t] + 1 \in Nat
        BY DEF TypeOK
      <3> QED
        BY <2>1, <3>1 DEF DeliverBigOrder, TypeOK
    <2>2. CASE OpenVisit(t)
      <3>1. visit[t] + 1 \in Nat
        BY DEF TypeOK
      <3> QED
        BY <2>2, <3>1 DEF OpenVisit, TypeOK
    <2>3. CASE CloseVisit(t)
      BY <2>3 DEF CloseVisit, TypeOK
    <2> QED
      BY <1>4, <2>1, <2>2, <2>3
  <1>5. CASE Advance \/ SkipAndAdvance
    BY <1>5, StartType, EndedType DEF Advance, SkipAndAdvance, TypeOK
  <1>6. CASE FinishCurrent \/ SkipPlaying \/ AdminPlayNow
    BY <1>6, EndedType, RowsAreTyped
       DEF FinishCurrent, SkipPlaying, AdminPlayNow, TypeOK
  <1>7. CASE SkipWaiting
    BY <1>7, RemoveType DEF SkipWaiting, TypeOK
  <1>8. CASE AdminCreate
    BY <1>8, InsertType, RowsAreTyped DEF AdminCreate, TypeOK
  <1>9. CASE UNCHANGED vars
    BY <1>9 DEF vars, TypeOK
  <1> QED
    BY <1>1, <1>2, <1>3, <1>4, <1>5, <1>6, <1>7, <1>8, <1>9 DEF Next

\* Songs and requests are of their types, for any constants.
THEOREM TypeCorrect == Spec => []TypeOK
  BY TypeInit, TypeNext, PTL DEF Spec

\* In every reachable queue, of any length, with any scores, the place of a new
\* song takes turns (findInsertionPosition).
THEOREM PlacementAlwaysFair == Spec => []PlacementIsFair
  <1>1. TypeOK => PlacementIsFair
    BY WaitingIsQueued, PlacementAvoidsOwn, PlacementTakesTurns
       DEF PlacementIsFair
  <1> QED
    BY <1>1, TypeCorrect, PTL

\* The songs of a kind that wait or play are finitely many.
LEMMA SpentType == TypeOK => \A t \in Tables : Spent(t) \in Int
  <1> SUFFICES ASSUME TypeOK, NEW t \in Tables PROVE Spent(t) \in Int
    OBVIOUS
  <1>1. IsFiniteSet(DOMAIN waiting)
    BY LenProperties, FS_Interval DEF TypeOK
  <1>2. Cardinality({k \in DOMAIN waiting :
           /\ waiting[k].table = t
           /\ waiting[k].extra
           /\ waiting[k].visit = visit[t]}) \in Nat
    BY <1>1, FS_Subset, FS_CardinalityType
  <1>3. Active(LAMBDA s : s.table = t /\ s.extra /\ s.visit = visit[t]) \in Int
    BY <1>2 DEF Active, Waits, Plays
  <1>4. played[t] \in Int
    BY DEF TypeOK
  <1> QED
    BY <1>3, <1>4 DEF Spent

\* A table's active songs are counted by a number.
LEMMA ActiveSongsType == TypeOK => \A t \in Tables : ActiveSongs(t) \in Int
  <1> SUFFICES ASSUME TypeOK, NEW t \in Tables PROVE ActiveSongs(t) \in Int
    OBVIOUS
  <1>1. IsFiniteSet(DOMAIN waiting)
    BY LenProperties, FS_Interval DEF TypeOK
  <1>2. Cardinality({k \in DOMAIN waiting : waiting[k].table = t}) \in Nat
    BY <1>1, FS_Subset, FS_CardinalityType
  <1> QED
    BY <1>2 DEF ActiveSongs, Active, Waits, Plays

\* An enabled button means that the server would take the song, for any limit
\* and any credits (effectiveSongLimit against the condition of create).
THEOREM ButtonAlwaysHonest == Spec => []ButtonIsHonest
  <1>1. TypeOK => ButtonIsHonest
    <2> SUFFICES ASSUME TypeOK, NEW t \in Tables, open[t], ButtonEnabled(t),
                        MustPay(t)
                 PROVE  Available(t) > 0
      BY DEF ButtonIsHonest
    <2>1. /\ ActiveSongs(t) \in Int
          /\ Spent(t) \in Int
          /\ earned[t] \in Int
          /\ MaxSongs \in Int
      BY ActiveSongsType, SpentType, SongAssumption DEF TypeOK
    <2> QED
      BY <2>1 DEF ButtonEnabled, EffectiveSongLimit, MustPay, Available
  <1> QED
    BY <1>1, TypeCorrect, PTL

(***************************************************************************)
(* Counting songs.                                                         *)
(***************************************************************************)
\* The songs of a kind among those that wait, and whether the one on is one.
NumIn(queue, kind) == Cardinality({k \in DOMAIN queue : queue[k] \in kind})
OnIn(song, kind) == IF song # NoSong /\ song \in kind THEN 1 ELSE 0

\* They are counted by a number.
LEMMA NumType ==
  ASSUME NEW queue \in Seq(SongRow), NEW kind
  PROVE  /\ NumIn(queue, kind) \in Nat
         /\ IsFiniteSet({k \in DOMAIN queue : queue[k] \in kind})
         /\ \A song : OnIn(song, kind) \in {0, 1}
  <1>1. IsFiniteSet(DOMAIN queue)
    BY LenProperties, FS_Interval
  <1> QED
    BY <1>1, FS_Subset, FS_CardinalityType DEF NumIn, OnIn

\* A list with one song more, in place i: it counts if it is of the kind.
LEMMA OneMore ==
  ASSUME NEW old \in Seq(SongRow), NEW new \in Seq(SongRow),
         NEW i \in 1 .. Len(old) + 1,
         Len(new) = Len(old) + 1,
         \A k \in 1 .. Len(old) : new[IF k < i THEN k ELSE k + 1] = old[k],
         NEW kind
  PROVE  NumIn(new, kind) =
           NumIn(old, kind) + (IF new[i] \in kind THEN 1 ELSE 0)
  <1> DEFINE n == Len(old)
             f == [k \in 1 .. n |-> IF k < i THEN k ELSE k + 1]
             O == {k \in 1 .. n : old[k] \in kind}
             M == {k \in 1 .. n + 1 : new[k] \in kind}
             Moved == M \ {i}
             g == [k \in O |-> f[k]]
  <1>1. /\ n \in Nat
        /\ DOMAIN old = 1 .. n
        /\ DOMAIN new = 1 .. n + 1
    BY LenProperties
  <1>2. IsFiniteSet(O) /\ Cardinality(O) = NumIn(old, kind)
    BY <1>1, NumType DEF NumIn
  <1>3. IsFiniteSet(M) /\ Cardinality(M) = NumIn(new, kind)
    BY <1>1, NumType DEF NumIn
  <1>4. ASSUME NEW k \in 1 .. n
        PROVE  f[k] \in (1 .. n + 1) \ {i} /\ new[f[k]] = old[k]
    BY <1>1, <1>4
  <1>5. ASSUME NEW j \in (1 .. n + 1) \ {i} PROVE \E k \in 1 .. n : f[k] = j
    <2>1. CASE j < i
      <3>1. j \in 1 .. n /\ f[j] = j
        BY <1>1, <2>1
      <3> QED
        BY <3>1
    <2>2. CASE ~ (j < i)
      <3>1. j - 1 \in 1 .. n /\ ~ (j - 1 < i)
        BY <1>1, <1>5, <2>2
      <3>2. f[j - 1] = j
        BY <1>1, <3>1
      <3> QED
        BY <3>1, <3>2
    <2> QED
      BY <2>1, <2>2
  <1>6. \A k, l \in 1 .. n : f[k] = f[l] => k = l
    BY <1>1
  <1> HIDE DEF f
  <1>7. g \in Bijection(O, Moved)
    <2>1. \A k \in O : k \in 1 .. n /\ g[k] = f[k] /\ f[k] \in Moved
      BY <1>4
    <2>2. g \in [O -> Moved]
      BY <2>1
    <2>3. \A k, l \in O : g[k] = g[l] => k = l
      BY <1>6, <2>1
    <2>4. \A j \in Moved : \E k \in O : g[k] = j
      BY <1>4, <1>5, <2>1
    <2> HIDE DEF g, O, Moved
    <2> QED
      BY <2>2, <2>3, <2>4 DEF Bijection, Injection, Surjection, IsInjective
  <1>8. Cardinality(Moved) = Cardinality(O)
    <2> HIDE DEF g, O, Moved
    <2> QED
      BY <1>2, <1>7, FS_Bijection DEF ExistsBijection
  <1>9. i \in M <=> new[i] \in kind
    BY <1>1
  <1>10. Cardinality(Moved) = IF i \in M THEN Cardinality(M) - 1 ELSE Cardinality(M)
    <2> HIDE DEF M
    <2> QED
      BY <1>3, FS_RemoveElement
  <1> HIDE DEF M, O, Moved
  <1>11. NumIn(old, kind) \in Nat /\ NumIn(new, kind) \in Nat
    BY NumType
  <1> QED
    BY <1>2, <1>3, <1>8, <1>9, <1>10, <1>11

\* A song that is put among those that wait.
LEMMA InsertCounts ==
  ASSUME NEW queue \in Seq(SongRow), NEW song \in SongRow,
         NEW i \in 1 .. Len(queue) + 1, NEW kind
  PROVE  NumIn(InsertAt(queue, i, song), kind) =
           NumIn(queue, kind) + (IF song \in kind THEN 1 ELSE 0)
  <1> DEFINE n == Len(queue)
             a == SubSeq(queue, 1, i - 1)
             b == SubSeq(queue, i, n)
             new == InsertAt(queue, i, song)
  <1>1. n \in Nat /\ \A k \in 1 .. n : queue[k] \in SongRow
    BY LenProperties
  <1>2. /\ a \in Seq(SongRow) /\ Len(a) = i - 1
        /\ \A k \in 1 .. i - 1 : a[k] = queue[k]
    BY <1>1, SubSeqProperties
  <1>3. /\ b \in Seq(SongRow) /\ Len(b) = n - i + 1
        /\ \A k \in 1 .. n - i + 1 : b[k] = queue[i + k - 1]
    BY <1>1, SubSeqProperties
  <1>4. new = (a \o <<song>>) \o b
    BY DEF InsertAt
  <1> HIDE DEF a, b, new
  <1>5. <<song>> \in Seq(SongRow) /\ Len(<<song>>) = 1 /\ <<song>>[1] = song
    OBVIOUS
  <1>6. /\ a \o <<song>> \in Seq(SongRow) /\ Len(a \o <<song>>) = i
        /\ \A k \in 1 .. i : (a \o <<song>>)[k] = IF k < i THEN queue[k] ELSE song
    BY <1>1, <1>2, <1>5, ConcatProperties
  <1> DEFINE c == a \o <<song>>
  <1> HIDE DEF c
  <1>7. /\ new \in Seq(SongRow) /\ Len(new) = n + 1
        /\ \A k \in 1 .. n + 1 : new[k] = IF k <= i THEN c[k] ELSE b[k - i]
    <2>1. c \in Seq(SongRow) /\ Len(c) = i /\ new = c \o b
      BY <1>4, <1>6 DEF c
    <2>2. Len(c) + Len(b) = n + 1
      BY <1>1, <1>3, <2>1
    <2> QED
      BY <1>3, <2>1, <2>2, ConcatProperties
  <1>20. \A k \in 1 .. i : c[k] = IF k < i THEN queue[k] ELSE song
    BY <1>6 DEF c
  <1>8. new[i] = song
    BY <1>1, <1>7, <1>20
  <1>9. ASSUME NEW k \in 1 .. n
        PROVE  new[IF k < i THEN k ELSE k + 1] = queue[k]
    <2>1. CASE k < i
      BY <1>1, <1>7, <1>20, <2>1
    <2>2. CASE ~ (k < i)
      <3>1. k + 1 \in 1 .. n + 1 /\ ~ (k + 1 <= i) /\ k + 1 - i \in 1 .. n - i + 1
        BY <1>1, <2>2
      <3>2. new[k + 1] = b[k + 1 - i]
        BY <1>7, <3>1
      <3>3. b[k + 1 - i] = queue[i + (k + 1 - i) - 1]
        BY <1>3, <3>1
      <3>4. i + (k + 1 - i) - 1 = k
        BY <1>1
      <3> QED
        BY <2>2, <3>2, <3>3, <3>4
    <2> QED
      BY <2>1, <2>2
  <1>10. NumIn(new, kind) = NumIn(queue, kind) + (IF new[i] \in kind THEN 1 ELSE 0)
    <2>1. Len(new) = Len(queue) + 1 /\ new \in Seq(SongRow)
      BY <1>7
    <2> QED
      BY <1>9, <2>1, OneMore
  <1> QED
    BY <1>8, <1>10 DEF new

\* A song that is taken out of them.
LEMMA RemoveCounts ==
  ASSUME NEW queue \in Seq(SongRow), NEW i \in DOMAIN queue, NEW kind
  PROVE  /\ NumIn(queue, kind) = NumIn(RemoveAt(queue, i), kind)
                                   + (IF queue[i] \in kind THEN 1 ELSE 0)
         /\ NumIn(RemoveAt(queue, i), kind) <= NumIn(queue, kind)
  <1> DEFINE n == Len(queue)
             a == SubSeq(queue, 1, i - 1)
             b == SubSeq(queue, i + 1, n)
             less == RemoveAt(queue, i)
  <1>1. n \in Nat /\ i \in 1 .. n /\ \A k \in 1 .. n : queue[k] \in SongRow
    BY LenProperties
  <1>2. /\ a \in Seq(SongRow) /\ Len(a) = i - 1
        /\ \A k \in 1 .. i - 1 : a[k] = queue[k]
    BY <1>1, SubSeqProperties
  <1>3. /\ b \in Seq(SongRow) /\ Len(b) = n - i
        /\ \A k \in 1 .. n - i : b[k] = queue[i + k]
    BY <1>1, SubSeqProperties
  <1>4. less = a \o b
    BY DEF RemoveAt
  <1> HIDE DEF a, b, less
  <1>5. /\ less \in Seq(SongRow) /\ Len(less) = n - 1
        /\ \A k \in 1 .. n - 1 : less[k] = IF k <= i - 1 THEN a[k] ELSE b[k - (i - 1)]
    <2>1. Len(a) + Len(b) = n - 1
      BY <1>1, <1>2, <1>3
    <2>2. /\ less \in Seq(SongRow) /\ Len(less) = Len(a) + Len(b)
          /\ \A k \in 1 .. Len(a) + Len(b) :
               less[k] = IF k <= Len(a) THEN a[k] ELSE b[k - Len(a)]
      BY <1>2, <1>3, <1>4, ConcatProperties
    <2>3. Len(a) = i - 1
      BY <1>2
    <2> QED
      BY <2>1, <2>2, <2>3
  <1>6. ASSUME NEW k \in 1 .. n - 1
        PROVE  queue[IF k < i THEN k ELSE k + 1] = less[k]
    <2>1. CASE k < i
      <3>1. k \in 1 .. i - 1 /\ k <= i - 1
        BY <1>1, <2>1
      <3> QED
        BY <1>2, <1>5, <2>1, <3>1
    <2>2. CASE ~ (k < i)
      <3> k \in Int /\ i \in Int
        BY <1>1
      <3>1. k - (i - 1) \in 1 .. n - i /\ ~ (k <= i - 1)
        BY <1>1, <2>2
      <3>2. less[k] = queue[i + (k - (i - 1))]
        BY <1>3, <1>5, <3>1
      <3>3. i + (k - (i - 1)) = k + 1
        BY <1>1
      <3> QED
        BY <2>2, <3>2, <3>3
    <2> QED
      BY <2>1, <2>2
  <1>7. Len(less) = n - 1 /\ i \in 1 .. Len(less) + 1 /\ n = Len(less) + 1
    BY <1>1, <1>5
  <1>8. NumIn(queue, kind) = NumIn(less, kind) + (IF queue[i] \in kind THEN 1 ELSE 0)
    <2>1. less \in Seq(SongRow) /\ Len(queue) = Len(less) + 1
      BY <1>5, <1>7
    <2>2. \A k \in 1 .. Len(less) : queue[IF k < i THEN k ELSE k + 1] = less[k]
      BY <1>6, <1>7
    <2>3. i \in 1 .. Len(less) + 1
      BY <1>7
    <2> HIDE DEF n
    <2> QED
      BY <2>1, <2>2, <2>3, OneMore
  <1>9. NumIn(less, kind) \in Nat
    BY <1>5, NumType
  <1> QED
    BY <1>8, <1>9 DEF less

\* The first of them.
LEMMA TailCounts ==
  ASSUME NEW queue \in Seq(SongRow), queue # <<>>, NEW kind
  PROVE  NumIn(queue, kind) = NumIn(Tail(queue), kind)
                                + (IF Head(queue) \in kind THEN 1 ELSE 0)
  <1>1. /\ Tail(queue) \in Seq(SongRow) /\ Len(Tail(queue)) = Len(queue) - 1
        /\ \A k \in 1 .. Len(Tail(queue)) : Tail(queue)[k] = queue[k + 1]
        /\ Head(queue) = queue[1] /\ Len(queue) \in Nat \ {0}
    BY HeadTailProperties, LenProperties, EmptySeq
  <1> DEFINE tail == Tail(queue)
  <1> HIDE DEF tail
  <1>2. /\ tail \in Seq(SongRow) /\ Len(queue) = Len(tail) + 1 /\ Len(tail) \in Nat
        /\ \A k \in 1 .. Len(tail) : queue[k + 1] = tail[k]
    BY <1>1 DEF tail
  <1>3. 1 \in 1 .. Len(tail) + 1
    BY <1>2
  <1>4. \A k \in 1 .. Len(tail) : queue[IF k < 1 THEN k ELSE k + 1] = tail[k]
    BY <1>2
  <1>5. NumIn(queue, kind) = NumIn(tail, kind) + (IF queue[1] \in kind THEN 1 ELSE 0)
    BY <1>2, <1>3, <1>4, OneMore
  <1> QED
    BY <1>1, <1>5 DEF tail

\* The free songs of a table, and those a visit has paid for with credits.
FreeOf(t) == {s \in SongRow : s.table = t /\ ~ s.extra}
PaidOf(t, v) == {s \in SongRow : s.table = t /\ s.extra /\ s.visit = v}
InQueue(queue, song, kind) == NumIn(queue, kind) + OnIn(song, kind)

FreeCounted ==
  \A t \in Tables : FreeSongs(t) = InQueue(waiting, on, FreeOf(t))
SpentCounted ==
  \A t \in Tables :
    Spent(t) = played[t] + InQueue(waiting, on, PaidOf(t, visit[t]))
CountsAreNumbers ==
  \A t \in Tables : Spent(t) \in Int /\ FreeSongs(t) \in Int

\* Free songs, counted by their kind.
LEMMA FreeIs == TypeOK => FreeCounted
  <1> SUFFICES ASSUME TypeOK, NEW t \in Tables
               PROVE  FreeSongs(t) = InQueue(waiting, on, FreeOf(t))
    BY DEF FreeCounted
  <1>1. \A k \in DOMAIN waiting : waiting[k] \in SongRow
    BY LenProperties DEF TypeOK
  <1>2. {k \in DOMAIN waiting : waiting[k] \in FreeOf(t)}
          = {k \in DOMAIN waiting : waiting[k].table = t /\ ~ waiting[k].extra}
    BY <1>1 DEF FreeOf
  <1>3. OnIn(on, FreeOf(t))
          = IF on # NoSong /\ (on.table = t /\ ~ on.extra) THEN 1 ELSE 0
    BY DEF OnIn, FreeOf, TypeOK
  <1> QED
    BY <1>2, <1>3 DEF FreeSongs, Active, Waits, Plays, InQueue, NumIn

\* Credits spent, counted by the songs they paid for.
LEMMA SpentIs == TypeOK => SpentCounted
  <1> SUFFICES ASSUME TypeOK, NEW t \in Tables
               PROVE  Spent(t) = played[t] + InQueue(waiting, on, PaidOf(t, visit[t]))
    BY DEF SpentCounted
  <1> DEFINE v == visit[t]
  <1>1. \A k \in DOMAIN waiting : waiting[k] \in SongRow
    BY LenProperties DEF TypeOK
  <1>2. {k \in DOMAIN waiting : waiting[k] \in PaidOf(t, v)}
          = {k \in DOMAIN waiting :
               waiting[k].table = t /\ waiting[k].extra /\ waiting[k].visit = v}
    BY <1>1 DEF PaidOf
  <1>3. OnIn(on, PaidOf(t, v))
          = IF on # NoSong /\ (on.table = t /\ on.extra /\ on.visit = v) THEN 1 ELSE 0
    BY DEF OnIn, PaidOf, TypeOK
  <1> QED
    BY <1>2, <1>3 DEF Spent, Active, Waits, Plays, InQueue, NumIn

\* Both are numbers.
LEMMA CountsType == TypeOK => CountsAreNumbers
  <1> SUFFICES ASSUME TypeOK, NEW t \in Tables
               PROVE  Spent(t) \in Int /\ FreeSongs(t) \in Int
    BY DEF CountsAreNumbers
  <1>1. InQueue(waiting, on, FreeOf(t)) \in Int
    <2>1. NumIn(waiting, FreeOf(t)) \in Nat /\ OnIn(on, FreeOf(t)) \in {0, 1}
      BY NumType DEF TypeOK, OnIn
    <2> QED
      BY <2>1 DEF InQueue
  <1> QED
    BY <1>1, FreeIs, SpentType DEF FreeCounted

\* The same of the next state.
LEMMA CountsNext ==
  TypeOK' => FreeCounted' /\ SpentCounted' /\ CountsAreNumbers'
  BY FreeIs, SpentIs, CountsType, PTL

\* A start takes what was on away, and adds nothing but a song of the staff.
LEMMA StartCounts ==
  ASSUME TypeOK, StartNext, NEW kind, StaffSong \notin kind
  PROVE  InQueue(waiting', on', kind) <= NumIn(waiting, kind)
  <1>1. waiting \in Seq(SongRow)
    BY DEF TypeOK
  <1>2. NumIn(waiting, kind) \in Nat
    BY <1>1, NumType
  <1>3. CASE waiting # <<>>
    <2>1. on' = Head(waiting) /\ waiting' = Tail(waiting)
      BY <1>3 DEF StartNext
    <2>2. NumIn(waiting, kind) = NumIn(Tail(waiting), kind)
                                   + (IF Head(waiting) \in kind THEN 1 ELSE 0)
      BY <1>1, <1>3, TailCounts
    <2>3. NumIn(Tail(waiting), kind) \in Nat
      BY <1>1, <1>3, HeadTailProperties, NumType
    <2>4. OnIn(Head(waiting), kind) <= IF Head(waiting) \in kind THEN 1 ELSE 0
      BY DEF OnIn
    <2>5. OnIn(Head(waiting), kind) \in {0, 1}
      BY DEF OnIn
    <2>6. InQueue(Tail(waiting), Head(waiting), kind) <= NumIn(waiting, kind)
      BY <2>2, <2>3, <2>4, <2>5 DEF InQueue
    <2> QED
      BY <2>1, <2>6
  <1>4. CASE waiting = <<>>
    <2>1. on' \in {NoSong, StaffSong} /\ waiting' = waiting
      BY <1>4 DEF StartNext
    <2>2. OnIn(on', kind) = 0
      BY <2>1 DEF OnIn
    <2> QED
      BY <1>2, <2>1, <2>2 DEF InQueue
  <1> QED
    BY <1>3, <1>4

\* A request that is placed adds one song, where its table is owed one more.
LEMMA PlaceCounts ==
  ASSUME TypeOK, NEW p \in Phones, NEW score \in Scores,
         NEW recent \in {{}, Tables}, Place(p, score, recent), NEW kind
  PROVE  InQueue(waiting', on', kind) = InQueue(waiting, on, kind)
           + (IF Song(call[p].table, score, call[p].extra, visit[call[p].table])
                   \in kind THEN 1 ELSE 0)
  <1> DEFINE t == call[p].table
             place == FindInsertionPosition(waiting, t, score, PlayingTable,
                                            BusyTables(recent))
             song == Song(t, score, call[p].extra, visit[t])
  <1>1. waiting \in Seq(SongRow)
    BY DEF TypeOK
  <1>2. place \in 1 .. Len(waiting) + 1
    BY WaitingIsQueued, PlaceInRange
  <1>3. song \in SongRow
    BY RowsAreTyped, SongAssumption DEF Place, TypeOK, RequestRow
  <1>4. waiting' = InsertAt(waiting, place, song) /\ on' = on
    BY DEF Place
  <1> HIDE DEF place, song
  <1>5. NumIn(waiting', kind) =
          NumIn(waiting, kind) + (IF song \in kind THEN 1 ELSE 0)
    BY <1>1, <1>2, <1>3, <1>4, InsertCounts
  <1>6. NumIn(waiting, kind) \in Nat /\ OnIn(on, kind) \in {0, 1}
    BY <1>1, NumType DEF OnIn
  <1> QED
    BY <1>4, <1>5, <1>6 DEF InQueue, song

\* What the other steps do to the songs of a kind the staff has none of: they
\* add none, and what is counted as played is no longer on.
LEMMA StepCounts ==
  ASSUME TypeOK, [Next]_vars, NEW kind, StaffSong \notin kind,
         ~ \E p \in Phones, score \in Scores, recent \in {{}, Tables} :
             Place(p, score, recent)
  PROVE  /\ InQueue(waiting', on', kind) <= InQueue(waiting, on, kind)
         /\ \/ played' = played
            \/ /\ played' = Ended(on)
               /\ visit' = visit
               /\ InQueue(waiting', on', kind) <= NumIn(waiting, kind)
            \/ \E t \in Tables : OpenVisit(t)
  <1> DEFINE Counted ==
        /\ InQueue(waiting', on', kind) <= InQueue(waiting, on, kind)
        /\ \/ played' = played
           \/ /\ played' = Ended(on)
              /\ visit' = visit
              /\ InQueue(waiting', on', kind) <= NumIn(waiting, kind)
           \/ \E t \in Tables : OpenVisit(t)
  <1> SUFFICES Counted
    OBVIOUS
  <1>1. waiting \in Seq(SongRow) /\ NumIn(waiting, kind) \in Nat
    BY NumType DEF TypeOK
  <1>2. OnIn(on, kind) \in {0, 1}
    BY DEF OnIn
  <1>3. ASSUME UNCHANGED <<waiting, on>>
        PROVE  InQueue(waiting', on', kind) <= InQueue(waiting, on, kind)
    BY <1>1, <1>2, <1>3 DEF InQueue
  <1>4. ASSUME waiting' = waiting, on' = NoSong \/ on' = StaffSong
        PROVE  /\ InQueue(waiting', on', kind) <= InQueue(waiting, on, kind)
               /\ InQueue(waiting', on', kind) <= NumIn(waiting, kind)
    <2>1. OnIn(on', kind) = 0
      BY <1>4 DEF OnIn
    <2> QED
      BY <1>1, <1>2, <1>4, <2>1 DEF InQueue
  <1>5. ASSUME StartNext
        PROVE  /\ InQueue(waiting', on', kind) <= InQueue(waiting, on, kind)
               /\ InQueue(waiting', on', kind) <= NumIn(waiting, kind)
    <2>1. InQueue(waiting', on', kind) <= NumIn(waiting, kind)
      BY <1>5, StartCounts
    <2>2. waiting' \in Seq(SongRow)
      BY <1>5, StartType
    <2>3. NumIn(waiting', kind) \in Nat /\ OnIn(on', kind) \in {0, 1}
      BY <2>2, NumType
    <2> QED
      BY <1>1, <1>2, <2>1, <2>3 DEF InQueue
  <1>6. CASE Advance \/ SkipAndAdvance
    BY <1>5, <1>6 DEF Advance, SkipAndAdvance
  <1>7. CASE FinishCurrent \/ AdminPlayNow \/ SkipPlaying
    BY <1>4, <1>7 DEF FinishCurrent, AdminPlayNow, SkipPlaying
  <1>8. CASE SkipWaiting
    <2>1. PICK k \in DOMAIN waiting : waiting' = RemoveAt(waiting, k)
      BY <1>8 DEF SkipWaiting
    <2>2. NumIn(RemoveAt(waiting, k), kind) <= NumIn(waiting, kind)
      BY <1>1, RemoveCounts
    <2>3. NumIn(RemoveAt(waiting, k), kind) \in Nat
      BY <1>1, RemoveType, NumType
    <2>4. UNCHANGED <<on, played>>
      BY <1>8 DEF SkipWaiting
    <2> QED
      BY <1>1, <1>2, <2>1, <2>2, <2>3, <2>4 DEF InQueue
  <1>9. CASE AdminCreate
    <2>1. PICK k \in 1 .. Len(waiting) + 1 :
            waiting' = InsertAt(waiting, k, StaffSong)
      BY <1>9 DEF AdminCreate
    <2>2. NumIn(waiting', kind) = NumIn(waiting, kind) + 0
      BY <1>1, <2>1, InsertCounts, RowsAreTyped
    <2>3. UNCHANGED <<on, played>>
      BY <1>9 DEF AdminCreate
    <2> QED
      BY <1>1, <1>2, <2>2, <2>3 DEF InQueue
  <1>10. ASSUME NEW p \in Phones, GiveUp(p) \/ \E t \in Tables : Check(p, t)
         PROVE  Counted
    BY <1>3, <1>10 DEF GiveUp, Check
  <1>11. ASSUME NEW t \in Tables,
                DeliverBigOrder(t) \/ OpenVisit(t) \/ CloseVisit(t)
         PROVE  Counted
    <2>1. UNCHANGED <<waiting, on>>
      BY <1>11 DEF DeliverBigOrder, OpenVisit, CloseVisit
    <2>2. played' = played \/ OpenVisit(t)
      BY <1>11 DEF DeliverBigOrder, CloseVisit
    <2> QED
      BY <1>3, <2>1, <2>2
  <1>12. CASE UNCHANGED vars
    BY <1>3, <1>12 DEF vars
  <1> QED
    BY <1>6, <1>7, <1>8, <1>9, <1>10, <1>11, <1>12 DEF Next

(***************************************************************************)
(* What a request holds between its check and its transaction.             *)
(***************************************************************************)
\* The songs of a table for the visits after v.
Ahead(t, v) == {s \in SongRow : s.table = t /\ s.visit > v}

\* A request that was alone since its check still has the place it was given,
\* and its credit for as long as its visit lasts.
RequestHolds(p) ==
  LET t == call[p].table IN
  call[p] # Idle =>
    /\ call[p].visit <= visit[t]
    /\ ~ call[p].overlapped =>
         /\ \A q \in Phones \ {p} : call[q].table # t
         /\ ~ call[p].extra => FreeSongs(t) < MaxSongs
         /\ call[p].extra /\ call[p].visit = visit[t] => Spent(t) < earned[t]

\* No song is of a visit to come.
AllStamped == \A t \in Tables : InQueue(waiting, on, Ahead(t, visit[t])) = 0

SongInv ==
  /\ TypeOK
  /\ AllStamped
  /\ \A p \in Phones : RequestHolds(p)

\* The phone's request is placed in the queue of its table.
PlacedBy(p, t) ==
  /\ p \in Phones
  /\ call[p].table = t
  /\ call[p] # Idle
  /\ call'[p] = Idle

\* Free songs are only added by requests, one at a time.
LEMMA FreeStep ==
  ASSUME TypeOK, TypeOK', [Next]_vars, NEW t \in Tables
  PROVE  /\ FreeSongs(t) \in Int /\ (FreeSongs(t))' \in Int
         /\ \/ (FreeSongs(t))' <= FreeSongs(t)
            \/ \E p : /\ PlacedBy(p, t) /\ ~ call[p].extra
                      /\ (FreeSongs(t))' = FreeSongs(t) + 1
  <1> DEFINE kind == FreeOf(t)
  <1>1. FreeSongs(t) = InQueue(waiting, on, kind)
    BY FreeIs DEF FreeCounted
  <1>2. (FreeSongs(t))' = InQueue(waiting', on', kind)
    BY CountsNext DEF FreeCounted
  <1>3. StaffSong \notin kind
    BY FairnessAssumption DEF StaffSong, Song, FreeOf
  <1>4. InQueue(waiting, on, kind) \in Int /\ InQueue(waiting', on', kind) \in Int
    <2>1. waiting \in Seq(SongRow) /\ waiting' \in Seq(SongRow)
      BY DEF TypeOK
    <2>2. NumIn(waiting, kind) \in Nat /\ NumIn(waiting', kind) \in Nat
      BY <2>1, NumType
    <2>3. OnIn(on, kind) \in {0, 1} /\ OnIn(on', kind) \in {0, 1}
      BY DEF OnIn
    <2> QED
      BY <2>2, <2>3 DEF InQueue
  <1>5. ASSUME NEW p \in Phones, NEW score \in Scores, NEW recent \in {{}, Tables},
               Place(p, score, recent)
        PROVE  \/ InQueue(waiting', on', kind) <= InQueue(waiting, on, kind)
               \/ /\ PlacedBy(p, t) /\ ~ call[p].extra
                  /\ InQueue(waiting', on', kind) = InQueue(waiting, on, kind) + 1
    <2> DEFINE song == Song(call[p].table, score, call[p].extra, visit[call[p].table])
    <2>1. InQueue(waiting', on', kind) =
            InQueue(waiting, on, kind) + (IF song \in kind THEN 1 ELSE 0)
      BY <1>5, PlaceCounts
    <2>2. song \in kind => call[p].table = t /\ ~ call[p].extra
      BY DEF Song, FreeOf
    <2> HIDE DEF song, kind
    <2>3. call[p] # Idle /\ call'[p] = Idle
      BY <1>5 DEF Place, TypeOK
    <2> QED
      BY <1>4, <2>1, <2>2, <2>3 DEF PlacedBy
  <1>6. ASSUME ~ \E p \in Phones, score \in Scores, recent \in {{}, Tables} :
                   Place(p, score, recent)
        PROVE  InQueue(waiting', on', kind) <= InQueue(waiting, on, kind)
    <2> HIDE DEF kind
    <2> QED
      BY <1>3, <1>6, StepCounts
  <1> HIDE DEF kind
  <1> QED
    BY <1>1, <1>2, <1>4, <1>5, <1>6

\* A song that ends as played is one of the visit, if it is counted.
LEMMA EndedCounts ==
  ASSUME TypeOK, NEW t \in Tables
  PROVE  Ended(on)[t] = played[t] + OnIn(on, PaidOf(t, visit[t]))
  <1>1. DOMAIN played = Tables /\ played[t] \in Nat
    BY DEF TypeOK
  <1>2. CASE on # NoSong /\ on.table = t /\ on.extra /\ on.visit = visit[t]
    <2>1. on \in PaidOf(t, visit[t])
      BY <1>2 DEF TypeOK, PaidOf
    <2> QED
      BY <1>1, <1>2, <2>1 DEF Ended, OnIn
  <1>3. CASE ~ (on # NoSong /\ on.table = t /\ on.extra /\ on.visit = visit[t])
    <2>1. OnIn(on, PaidOf(t, visit[t])) = 0
      BY <1>3 DEF OnIn, PaidOf
    <2>2. Ended(on)[t] = played[t]
      BY <1>1, <1>3 DEF Ended
    <2> QED
      BY <1>1, <2>1, <2>2
  <1> QED
    BY <1>2, <1>3

\* Fewer kinds, fewer songs.
LEMMA FewerCounted ==
  ASSUME NEW queue \in Seq(SongRow), NEW song, NEW less, NEW kind,
         less \subseteq kind
  PROVE  /\ InQueue(queue, song, less) \in Nat /\ InQueue(queue, song, kind) \in Nat
         /\ InQueue(queue, song, less) <= InQueue(queue, song, kind)
  <1> DEFINE L == {k \in DOMAIN queue : queue[k] \in less}
             K == {k \in DOMAIN queue : queue[k] \in kind}
  <1>1. IsFiniteSet(K) /\ L \subseteq K
    BY NumType
  <1>2. Cardinality(L) <= Cardinality(K)
    BY <1>1, FS_Subset
  <1>3. NumIn(queue, less) \in Nat /\ NumIn(queue, kind) \in Nat
    BY NumType
  <1>4. OnIn(song, less) \in {0, 1} /\ OnIn(song, kind) \in {0, 1}
        /\ OnIn(song, less) <= OnIn(song, kind)
    BY DEF OnIn
  <1>5. NumIn(queue, less) <= NumIn(queue, kind)
    BY <1>2 DEF NumIn
  <1> QED
    BY <1>3, <1>4, <1>5 DEF InQueue

\* No song has been paid for in a visit to come.
LEMMA NoneAhead ==
  ASSUME TypeOK, AllStamped, NEW t \in Tables
  PROVE  InQueue(waiting, on, PaidOf(t, visit[t] + 1)) = 0
  <1>1. visit[t] \in Nat /\ waiting \in Seq(SongRow)
    BY DEF TypeOK
  <1>2. PaidOf(t, visit[t] + 1) \subseteq Ahead(t, visit[t])
    BY <1>1 DEF PaidOf, Ahead
  <1> QED
    BY <1>1, <1>2, FewerCounted DEF AllStamped

\* Credits are only spent by requests, one at a time, until the next visit
\* begins anew.
LEMMA SpentStep ==
  ASSUME TypeOK, TypeOK', AllStamped, [Next]_vars, NEW t \in Tables
  PROVE  /\ Spent(t) \in Int /\ (Spent(t))' \in Int
         /\ \/ visit'[t] = visit[t] + 1 /\ (Spent(t))' = 0
            \/ /\ visit'[t] = visit[t] /\ earned[t] <= earned'[t]
               /\ (Spent(t))' <= Spent(t)
            \/ \E p : /\ PlacedBy(p, t) /\ call[p].extra
                      /\ visit'[t] = visit[t] /\ earned'[t] = earned[t]
                      /\ (Spent(t))' = Spent(t) + 1
  <1>1. PICK v \in Nat : v = visit[t]
    BY DEF TypeOK
  <1> DEFINE kind == PaidOf(t, v)
             now == InQueue(waiting, on, kind)
             then == InQueue(waiting', on', kind)
  <1>2. Spent(t) = played[t] + now
    BY <1>1, SpentIs DEF SpentCounted
  <1>3. (Spent(t))' = played'[t] + InQueue(waiting', on', PaidOf(t, visit'[t]))
    BY CountsNext DEF SpentCounted
  <1>4. StaffSong \notin kind
    BY FairnessAssumption DEF StaffSong, Song, PaidOf
  <1>5. waiting \in Seq(SongRow) /\ waiting' \in Seq(SongRow)
    BY DEF TypeOK
  <1>6. /\ NumIn(waiting, kind) \in Nat /\ NumIn(waiting', kind) \in Nat
        /\ OnIn(on, kind) \in {0, 1} /\ OnIn(on', kind) \in {0, 1}
    <2>1. OnIn(on, kind) \in {0, 1} /\ OnIn(on', kind) \in {0, 1}
      BY DEF OnIn
    <2> HIDE DEF kind
    <2> QED
      BY <1>5, <2>1, NumType
  <1>7. now \in Int /\ then \in Int
    BY <1>6 DEF InQueue
  <1>8. /\ played[t] \in Nat /\ played'[t] \in Nat
        /\ earned[t] \in Nat /\ earned'[t] \in Nat
    BY DEF TypeOK
  <1>9. Spent(t) \in Int /\ (Spent(t))' \in Int
    BY CountsType, CountsNext DEF CountsAreNumbers
  <1>10. ASSUME NEW p \in Phones, NEW score \in Scores, NEW recent \in {{}, Tables},
                Place(p, score, recent)
         PROVE  /\ visit'[t] = visit[t] /\ earned'[t] = earned[t]
                /\ \/ (Spent(t))' <= Spent(t)
                   \/ PlacedBy(p, t) /\ call[p].extra /\ (Spent(t))' = Spent(t) + 1
    <2> DEFINE song == Song(call[p].table, score, call[p].extra, visit[call[p].table])
    <2>1. then = now + (IF song \in kind THEN 1 ELSE 0)
      <3> HIDE DEF kind
      <3> QED
        BY <1>10, PlaceCounts
    <2>2. song \in kind => call[p].table = t /\ call[p].extra
      BY DEF Song, PaidOf
    <2> HIDE DEF song, now, then
    <2>3. /\ call[p] # Idle /\ call'[p] = Idle
          /\ played' = played /\ visit' = visit /\ earned' = earned
      BY <1>10 DEF Place, TypeOK
    <2>4. (Spent(t))' = played[t] + then
      BY <1>1, <1>3, <2>3 DEF then
    <2> QED
      BY <1>2, <1>7, <1>8, <2>1, <2>2, <2>3, <2>4 DEF PlacedBy
  <1>11. CASE OpenVisit(t)
    <2>1. /\ visit'[t] = visit[t] + 1 /\ played'[t] = 0
          /\ waiting' = waiting /\ on' = on
      BY <1>11 DEF OpenVisit, TypeOK
    <2>2. InQueue(waiting, on, PaidOf(t, visit[t] + 1)) = 0
      BY NoneAhead
    <2> QED
      BY <1>3, <1>9, <2>1, <2>2
  <1>12. ASSUME ~ OpenVisit(t),
                ~ \E p \in Phones, score \in Scores, recent \in {{}, Tables} :
                    Place(p, score, recent)
         PROVE  /\ visit'[t] = visit[t] /\ earned[t] <= earned'[t]
                /\ (Spent(t))' <= Spent(t)
    <2>1. visit'[t] = visit[t] /\ earned[t] <= earned'[t]
      <3>1. ASSUME NEW u \in Tables, OpenVisit(u)
            PROVE  visit'[t] = visit[t] /\ earned[t] <= earned'[t]
        <4>1. u # t
          BY <1>12, <3>1
        <4> QED
          BY <1>8, <3>1, <4>1 DEF OpenVisit, TypeOK
      <3>2. ASSUME NEW u \in Tables, DeliverBigOrder(u)
            PROVE  visit'[t] = visit[t] /\ earned[t] <= earned'[t]
        BY <1>8, <3>2 DEF DeliverBigOrder, TypeOK
      <3>3. ASSUME UNCHANGED <<visit, earned>>
            PROVE  visit'[t] = visit[t] /\ earned[t] <= earned'[t]
        BY <1>8, <3>3
      <3>4. ASSUME NEW p \in Phones, GiveUp(p) \/ \E u \in Tables : Check(p, u)
            PROVE  UNCHANGED <<visit, earned>>
        BY <3>4 DEF GiveUp, Check
      <3>5. ASSUME NEW u \in Tables, CloseVisit(u)
            PROVE  UNCHANGED <<visit, earned>>
        BY <3>5 DEF CloseVisit
      <3>6. ASSUME \/ Advance \/ SkipAndAdvance \/ FinishCurrent \/ SkipPlaying
                   \/ SkipWaiting \/ AdminPlayNow \/ AdminCreate
                   \/ UNCHANGED vars
            PROVE  UNCHANGED <<visit, earned>>
        BY <3>6 DEF Advance, SkipAndAdvance,
                    FinishCurrent, SkipPlaying, SkipWaiting, AdminPlayNow,
                    AdminCreate, vars
      <3> QED
        BY <1>12, <3>1, <3>2, <3>3, <3>4, <3>5, <3>6 DEF Next
    <2>2. (Spent(t))' = played'[t] + then
      BY <1>1, <1>3, <2>1
    <2>3. /\ then <= now
          /\ \/ played' = played
             \/ played' = Ended(on) /\ then <= NumIn(waiting, kind)
             \/ \E u \in Tables : OpenVisit(u)
      <3> HIDE DEF kind
      <3> QED
        BY <1>4, <1>12, StepCounts
    <2>4. CASE played'[t] = played[t]
      BY <1>2, <1>7, <1>8, <2>1, <2>2, <2>3, <2>4
    <2>5. CASE played' = Ended(on) /\ then <= NumIn(waiting, kind)
      <3>1. played'[t] = played[t] + OnIn(on, kind)
        BY <1>1, <2>5, EndedCounts
      <3>2. now = NumIn(waiting, kind) + OnIn(on, kind)
        BY DEF InQueue
      <3> HIDE DEF now, then, kind
      <3> QED
        BY <1>2, <1>6, <1>7, <1>8, <2>1, <2>2, <2>5, <3>1, <3>2
    <2>6. ASSUME NEW u \in Tables, OpenVisit(u) PROVE played'[t] = played[t]
      <3>1. u # t
        BY <1>12, <2>6
      <3> QED
        BY <2>6, <3>1 DEF OpenVisit, TypeOK
    <2> QED
      BY <2>1, <2>3, <2>4, <2>5, <2>6
  <1> QED
    BY <1>9, <1>10, <1>11, <1>12, <1>8

\* No step puts a song of a visit to come into the queue.
LEMMA StampedStep ==
  ASSUME TypeOK, TypeOK', AllStamped, [Next]_vars
  PROVE  AllStamped'
  <1> SUFFICES ASSUME NEW t \in Tables
               PROVE  InQueue(waiting', on', Ahead(t, visit'[t])) = 0
    BY DEF AllStamped
  <1>1. PICK v \in Nat : v = visit[t]
    BY DEF TypeOK
  <1>2. PICK w \in Nat : w = visit'[t]
    BY DEF TypeOK
  <1> DEFINE kind == Ahead(t, v)
  <1>3. waiting \in Seq(SongRow) /\ waiting' \in Seq(SongRow)
    BY DEF TypeOK
  <1>4. InQueue(waiting, on, kind) = 0
    BY <1>1 DEF AllStamped
  <1>5. v <= w
    BY <1>1, <1>2, SpentStep
  <1>6. Ahead(t, w) \subseteq kind
    BY <1>5 DEF Ahead, SongRow
  <1>7. StaffSong \notin kind
    BY FairnessAssumption DEF StaffSong, Song, Ahead
  <1>8. ASSUME NEW p \in Phones, NEW score \in Scores, NEW recent \in {{}, Tables},
               Place(p, score, recent)
        PROVE  InQueue(waiting', on', kind) = 0
    <2> DEFINE song == Song(call[p].table, score, call[p].extra, visit[call[p].table])
    <2>1. song \notin kind
      BY <1>1 DEF Song, Ahead
    <2>2. InQueue(waiting', on', kind) =
            InQueue(waiting, on, kind) + (IF song \in kind THEN 1 ELSE 0)
      <3> HIDE DEF kind
      <3> QED
        BY <1>8, PlaceCounts
    <2> QED
      BY <1>4, <2>1, <2>2
  <1>9. ASSUME ~ \E p \in Phones, score \in Scores, recent \in {{}, Tables} :
                   Place(p, score, recent)
        PROVE  InQueue(waiting', on', kind) <= 0
    <2> HIDE DEF kind
    <2> QED
      BY <1>4, <1>7, <1>9, StepCounts
  <1>10. /\ InQueue(waiting', on', Ahead(t, w)) \in Nat
         /\ InQueue(waiting', on', Ahead(t, w)) <= InQueue(waiting', on', kind)
         /\ InQueue(waiting', on', kind) \in Nat
    <2> HIDE DEF kind
    <2> QED
      BY <1>3, <1>6, FewerCounted
  <1> HIDE DEF kind
  <1>11. InQueue(waiting', on', Ahead(t, w)) = 0
    BY <1>8, <1>9, <1>10
  <1> QED
    BY <1>2, <1>11

\* A table has at most as many free songs as songs.
LEMMA FreeAreActive ==
  ASSUME TypeOK, NEW t \in Tables
  PROVE  FreeSongs(t) <= ActiveSongs(t)
  <1> DEFINE A == {k \in DOMAIN waiting : waiting[k].table = t}
             F == {k \in DOMAIN waiting : waiting[k].table = t /\ ~ waiting[k].extra}
  <1>1. IsFiniteSet(A) /\ F \subseteq A
    <2>1. IsFiniteSet(DOMAIN waiting)
      BY LenProperties, FS_Interval DEF TypeOK
    <2> QED
      BY <2>1, FS_Subset
  <1>2. /\ Cardinality(F) \in Nat /\ Cardinality(A) \in Nat
        /\ Cardinality(F) <= Cardinality(A)
    BY <1>1, FS_Subset, FS_CardinalityType
  <1> QED
    BY <1>2 DEF FreeSongs, ActiveSongs, Active, Waits, Plays

\* What a checked request holds, it holds until it is placed or given up:
\* while it is alone, nothing else uses the places and credits of its table.
LEMMA RequestKeeps ==
  ASSUME SongInv, TypeOK', [Next]_vars, NEW p \in Phones, NEW t \in Tables,
         call[p] # Idle, call'[p] # Idle,
         call[p].table = t, call'[p].table = t,
         call'[p].extra = call[p].extra, call'[p].visit = call[p].visit,
         ~ call'[p].overlapped =>
            /\ ~ call[p].overlapped
            /\ \A q \in Phones \ {p} : call'[q].table # t
  PROVE  RequestHolds(p)'
  <1>1. TypeOK /\ AllStamped /\ RequestHolds(p)
    BY DEF SongInv
  <1>2. call[p].visit \in Nat /\ visit[t] \in Nat
    BY <1>1 DEF TypeOK, RequestRow
  <1>3. \/ visit'[t] = visit[t] + 1
        \/ /\ visit'[t] = visit[t] /\ earned[t] <= earned'[t]
           /\ (Spent(t))' <= Spent(t)
        \/ \E q : PlacedBy(q, t)
                  /\ visit'[t] = visit[t] /\ earned'[t] = earned[t]
    BY <1>1, SpentStep
  <1>4. (FreeSongs(t))' <= FreeSongs(t) \/ \E q : PlacedBy(q, t)
    BY <1>1, FreeStep
  <1>5. call[p].visit <= visit[t]
    BY <1>1 DEF RequestHolds
  <1>6. call[p].visit <= visit'[t]
    BY <1>2, <1>3, <1>5
  <1>7. ASSUME ~ call'[p].overlapped
        PROVE  /\ ~ call[p].extra => (FreeSongs(t))' < MaxSongs
               /\ call[p].extra /\ call[p].visit = visit'[t]
                    => (Spent(t))' < earned'[t]
    <2>1. /\ ~ call[p].overlapped
          /\ \A q \in Phones \ {p} : call[q].table # t
          /\ ~ call[p].extra => FreeSongs(t) < MaxSongs
          /\ call[p].extra /\ call[p].visit = visit[t] => Spent(t) < earned[t]
      BY <1>1, <1>7 DEF RequestHolds
    <2>2. \A q : ~ PlacedBy(q, t)
      BY <2>1 DEF PlacedBy
    <2>3. /\ FreeSongs(t) \in Int /\ (FreeSongs(t))' \in Int
          /\ Spent(t) \in Int /\ (Spent(t))' \in Int
      BY <1>1, CountsType, CountsNext DEF CountsAreNumbers
    <2>4. MaxSongs \in Int /\ earned[t] \in Int /\ earned'[t] \in Int
      BY <1>1, SongAssumption DEF TypeOK
    <2>5. ~ call[p].extra => (FreeSongs(t))' < MaxSongs
      BY <1>4, <2>1, <2>2, <2>3, <2>4
    <2>6. ASSUME call[p].extra, call[p].visit = visit'[t]
          PROVE  (Spent(t))' < earned'[t]
      <3>1. visit'[t] # visit[t] + 1
        BY <1>2, <1>5, <2>6
      <3>2. /\ visit'[t] = visit[t] /\ earned[t] <= earned'[t]
            /\ (Spent(t))' <= Spent(t)
        BY <1>3, <2>2, <3>1
      <3> QED
        BY <2>1, <2>3, <2>4, <2>6, <3>2
    <2> QED
      BY <2>5, <2>6
  <1>8. (FreeSongs(call[p].table))' = (FreeSongs(t))'
        /\ (Spent(call[p].table))' = (Spent(t))'
    OBVIOUS
  <1> QED
    BY <1>6, <1>7, <1>8 DEF RequestHolds

\* A request that passes its checks holds what it was shown.
LEMMA CheckHolds ==
  ASSUME SongInv, TypeOK', NEW p \in Phones, NEW t \in Tables, Check(p, t)
  PROVE  RequestHolds(p)'
  <1> DEFINE others == {q \in Phones \ {p} : call[q].table = t}
  <1>1. TypeOK /\ call[p] = Idle /\ open[t] /\ (MustPay(t) => Available(t) > 0)
    BY DEF SongInv, Check
  <1>2. /\ call'[p] = [table |-> t, extra |-> MustPay(t), visit |-> visit[t],
                       overlapped |-> others # {}]
        /\ \A q \in Phones \ {p} : q \notin others => call'[q] = call[q]
    BY DEF Check
  <1>3. UNCHANGED <<waiting, on, visit, open, earned, played>>
    BY DEF Check
  <1>4. (FreeSongs(t))' = FreeSongs(t) /\ (Spent(t))' = Spent(t)
    BY <1>3 DEF FreeSongs, Spent, Active, Waits, Plays
  <1>5. /\ ActiveSongs(t) \in Int /\ FreeSongs(t) \in Int /\ Spent(t) \in Int
        /\ MaxSongs \in Int /\ earned[t] \in Int /\ visit[t] \in Int
    BY <1>1, ActiveSongsType, CountsType, SongAssumption
       DEF TypeOK, CountsAreNumbers
  <1>6. ~ MustPay(t) => FreeSongs(t) < MaxSongs
    <2>1. FreeSongs(t) <= ActiveSongs(t)
      BY <1>1, FreeAreActive
    <2> QED
      BY <1>5, <2>1 DEF MustPay
  <1>7. MustPay(t) => Spent(t) < earned[t]
    BY <1>1, <1>5 DEF Available
  <1>8. others = {} => \A q \in Phones \ {p} : call'[q].table # t
    BY <1>2
  <1> HIDE DEF others
  <1>9. /\ call'[p].table = t /\ call'[p].visit = visit[t]
        /\ call'[p].extra <=> MustPay(t)
        /\ call'[p].overlapped <=> others # {}
    <2>1. MustPay(t) \in BOOLEAN /\ (others # {}) \in BOOLEAN
      BY DEF MustPay
    <2>2. /\ call'[p].extra = MustPay(t)
          /\ call'[p].overlapped = (others # {})
          /\ call'[p].table = t /\ call'[p].visit = visit[t]
      BY <1>2
    <2> QED
      BY <2>1, <2>2, Zenon
  <1>10. (FreeSongs(call[p].table))' = (FreeSongs(t))'
         /\ (Spent(call[p].table))' = (Spent(t))'
    BY <1>9
  <1>11. ASSUME ~ call'[p].overlapped
         PROVE  /\ \A q \in Phones \ {p} : call'[q].table # t
                /\ ~ call'[p].extra => (FreeSongs(t))' < MaxSongs
                /\ call'[p].extra => (Spent(t))' < earned'[t]
    BY <1>3, <1>4, <1>6, <1>7, <1>8, <1>9, <1>11
  <1>12. call'[p].visit <= visit'[t]
    BY <1>3, <1>5, <1>9
  <1> QED
    BY <1>9, <1>10, <1>11, <1>12 DEF RequestHolds

\* Every step keeps what the requests hold.
LEMMA RequestsStep ==
  ASSUME SongInv, TypeOK', [Next]_vars, NEW p \in Phones
  PROVE  RequestHolds(p)'
  <1>1. TypeOK
    BY DEF SongInv
  <1>2. CASE call'[p] = Idle
    BY <1>2 DEF RequestHolds
  <1>3. ASSUME call'[p] = call[p], call[p] # Idle,
               \A q \in Phones \ {p} : call'[q].table \in {call[q].table, Staff}
        PROVE  RequestHolds(p)'
    <2>1. PICK t \in Tables : t = call[p].table
      BY <1>1, <1>3 DEF TypeOK, RequestRow
    <2>2. ~ call[p].overlapped => \A q \in Phones \ {p} : call[q].table # t
      BY <1>3, <2>1 DEF SongInv, RequestHolds
    <2>3. ~ call'[p].overlapped => \A q \in Phones \ {p} : call'[q].table # t
      BY <1>3, <2>2, FairnessAssumption
    <2> QED
      BY <1>3, <2>1, <2>3, RequestKeeps
  <1>4. ASSUME NEW q \in Phones, NEW t \in Tables, Check(q, t), call'[p] # Idle
        PROVE  RequestHolds(p)'
    <2> DEFINE others == {r \in Phones \ {q} : call[r].table = t}
    <2>1. CASE p = q
      BY <1>4, <2>1, CheckHolds
    <2>2. CASE p # q
      <3>1. /\ call'[q].table = t /\ call[q] = Idle
            /\ \A r \in Phones \ {q} :
                 call'[r] = IF r \in others THEN [call[r] EXCEPT !.overlapped = TRUE]
                                            ELSE call[r]
        BY <1>4 DEF Check
      <3>2. call[p] # Idle
        <4>1. call[p] = Idle => p \notin others
          BY FairnessAssumption DEF Idle
        <4> HIDE DEF others
        <4> QED
          BY <1>4, <2>2, <3>1, <4>1
      <3>3. PICK u \in Tables : u = call[p].table
        BY <1>1, <3>2 DEF TypeOK, RequestRow
      <3>4. /\ call'[p].table = u /\ call'[p].extra = call[p].extra
            /\ call'[p].visit = call[p].visit
        BY <1>1, <2>2, <3>1, <3>2, <3>3 DEF TypeOK, RequestRow
      <3>5. ASSUME ~ call'[p].overlapped
            PROVE  /\ ~ call[p].overlapped
                   /\ \A r \in Phones \ {p} : call'[r].table # u
        <4>1. p \notin others
          BY <1>1, <2>2, <3>1, <3>2, <3>5 DEF TypeOK, RequestRow
        <4>2. call'[p] = call[p] /\ u # t
          BY <2>2, <3>1, <3>3, <4>1
        <4>3. \A r \in Phones \ {p} : call[r].table # u
          BY <3>2, <3>3, <3>5, <4>2 DEF SongInv, RequestHolds
        <4>4. ASSUME NEW r \in Phones \ {p}, r # q, call'[r].table = u PROVE FALSE
          <5>1. r \notin others
            <6>1. ASSUME r \in others PROVE call'[r].table = t
              <7>1. call[r].table = t
                BY <6>1
              <7>2. call[r] # Idle
                BY <7>1, FairnessAssumption DEF Idle
              <7>3. call[r] \in RequestRow
                BY <1>1, <7>2 DEF TypeOK
              <7>4. call'[r] = [call[r] EXCEPT !.overlapped = TRUE]
                BY <3>1, <4>4, <6>1
              <7> QED
                BY <7>1, <7>3, <7>4 DEF RequestRow
            <6> QED
              BY <4>2, <4>4, <6>1
          <5>2. call'[r] = call[r]
            BY <3>1, <4>4, <5>1
          <5> QED
            BY <4>3, <4>4, <5>2
        <4> QED
          BY <3>1, <3>5, <4>2, <4>4
      <3> QED
        BY <1>4, <3>2, <3>3, <3>4, <3>5, RequestKeeps
    <2> QED
      BY <2>1, <2>2
  <1>5. ASSUME NEW q \in Phones, call' = [call EXCEPT ![q] = Idle], call'[p] # Idle
        PROVE  RequestHolds(p)'
    <2>1. DOMAIN call = Phones /\ Idle.table = Staff
      BY <1>1 DEF TypeOK, Idle
    <2>2. call'[p] = call[p] /\ call[p] # Idle
      BY <1>5, <2>1
    <2>3. \A r \in Phones \ {p} : call'[r].table \in {call[r].table, Staff}
      BY <1>5, <2>1
    <2> QED
      BY <1>3, <2>2, <2>3
  <1>6. ASSUME call' = call, call'[p] # Idle PROVE RequestHolds(p)'
    BY <1>3, <1>6
  <1>7. ASSUME NEW q \in Phones,
               \/ GiveUp(q)
               \/ \E score \in Scores, recent \in {{}, Tables} : Place(q, score, recent)
        PROVE  call' = [call EXCEPT ![q] = Idle]
    BY <1>7 DEF GiveUp, Place
  <1>8. ASSUME NEW t \in Tables, DeliverBigOrder(t) \/ OpenVisit(t) \/ CloseVisit(t)
        PROVE  call' = call
    BY <1>8 DEF DeliverBigOrder, OpenVisit, CloseVisit
  <1>9. ASSUME \/ Advance \/ SkipAndAdvance \/ FinishCurrent \/ SkipPlaying
               \/ SkipWaiting \/ AdminPlayNow \/ AdminCreate \/ UNCHANGED vars
        PROVE  call' = call
    BY <1>9 DEF Advance, SkipAndAdvance, FinishCurrent, SkipPlaying, SkipWaiting,
                AdminPlayNow, AdminCreate, vars
  <1> QED
    BY <1>2, <1>4, <1>5, <1>6, <1>7, <1>8, <1>9 DEF Next

\* The bar opens with no song and no request.
LEMMA SongInit == Init => SongInv
  <1> SUFFICES ASSUME Init PROVE SongInv
    OBVIOUS
  <1>1. TypeOK
    BY TypeInit
  <1>2. \A p \in Phones : RequestHolds(p)
    BY DEF Init, RequestHolds
  <1>3. ASSUME NEW kind PROVE InQueue(waiting, on, kind) = 0
    <2>1. {k \in DOMAIN waiting : waiting[k] \in kind} = {}
      BY DEF Init
    <2>2. NumIn(waiting, kind) = 0
      BY <2>1, FS_EmptySet DEF NumIn
    <2>3. OnIn(on, kind) = 0
      BY DEF Init, OnIn
    <2> QED
      BY <2>2, <2>3 DEF InQueue
  <1> QED
    BY <1>1, <1>2, <1>3 DEF SongInv, AllStamped

\* A request that is alone keeps its place and its credit, and no song is of a
\* visit to come.
THEOREM RequestsHoldTheirPlace == Spec => []SongInv
  <1>1. SongInv /\ [Next]_vars => SongInv'
    <2> SUFFICES ASSUME SongInv, [Next]_vars PROVE SongInv'
      OBVIOUS
    <2>1. TypeOK'
      BY TypeNext DEF SongInv
    <2>2. AllStamped'
      BY <2>1, StampedStep DEF SongInv
    <2> QED
      BY <2>1, <2>2, RequestsStep DEF SongInv
  <1> QED
    BY <1>1, SongInit, PTL DEF Spec

\* However many tables and phones, a table gets more free songs into the queue
\* than its limit only by requests that overlapped (create checks before its
\* transaction).
THEOREM LimitAlwaysKept == Spec => LimitKept
  <1> DEFINE Kept == \A t \in Tables :
               Above((FreeSongs(t))', MaxSongs) > Above(FreeSongs(t), MaxSongs)
                 => \E p \in Phones : Places(p, t) /\ call[p].overlapped
  <1>1. SongInv /\ TypeOK' /\ [Next]_vars => [Kept]_vars
    <2> SUFFICES ASSUME SongInv, TypeOK', [Next]_vars, NEW t \in Tables,
                        Above((FreeSongs(t))', MaxSongs) > Above(FreeSongs(t), MaxSongs)
                 PROVE  \E p \in Phones : Places(p, t) /\ call[p].overlapped
      OBVIOUS
    <2>1. /\ FreeSongs(t) \in Int /\ (FreeSongs(t))' \in Int /\ MaxSongs \in Int
          /\ \/ (FreeSongs(t))' <= FreeSongs(t)
             \/ \E p : /\ PlacedBy(p, t) /\ ~ call[p].extra
                       /\ (FreeSongs(t))' = FreeSongs(t) + 1
      BY FreeStep, SongAssumption DEF SongInv
    <2>2. (FreeSongs(t))' > MaxSongs /\ ~ ((FreeSongs(t))' <= FreeSongs(t))
      BY <2>1 DEF Above
    <2>3. PICK p : /\ PlacedBy(p, t) /\ ~ call[p].extra
                   /\ (FreeSongs(t))' = FreeSongs(t) + 1
      BY <2>1, <2>2
    <2>4. ~ call[p].overlapped => FreeSongs(t) < MaxSongs
      BY <2>3 DEF SongInv, RequestHolds, PlacedBy
    <2> QED
      BY <2>1, <2>2, <2>3, <2>4 DEF PlacedBy, Places
  <1> QED
    BY <1>1, RequestsHoldTheirPlace, TypeCorrect, PTL DEF Spec, LimitKept

\* However many tables and phones, a visit overdraws its credits only by a
\* request that overlapped or that was checked in the visit before
\* (computeSongCreditsForTable).
THEOREM CreditsAlwaysKept == Spec => CreditsKept
  <1> DEFINE Kept == \A t \in Tables :
               Above((Spent(t))', earned'[t]) > Above(Spent(t), earned[t])
                 => \E p \in Phones :
                      /\ Places(p, t)
                      /\ call[p].overlapped \/ call[p].visit # visit[t]
  <1>1. SongInv /\ TypeOK' /\ [Next]_vars => [Kept]_vars
    <2> SUFFICES ASSUME SongInv, TypeOK', [Next]_vars, NEW t \in Tables,
                        Above((Spent(t))', earned'[t]) > Above(Spent(t), earned[t])
                 PROVE  \E p \in Phones :
                          /\ Places(p, t)
                          /\ call[p].overlapped \/ call[p].visit # visit[t]
      OBVIOUS
    <2>1. /\ Spent(t) \in Int /\ (Spent(t))' \in Int
          /\ \/ visit'[t] = visit[t] + 1 /\ (Spent(t))' = 0
             \/ /\ visit'[t] = visit[t] /\ earned[t] <= earned'[t]
                /\ (Spent(t))' <= Spent(t)
             \/ \E p : /\ PlacedBy(p, t) /\ call[p].extra
                       /\ visit'[t] = visit[t] /\ earned'[t] = earned[t]
                       /\ (Spent(t))' = Spent(t) + 1
      BY SpentStep DEF SongInv
    <2>2. earned[t] \in Nat /\ earned'[t] \in Nat
      BY DEF SongInv, TypeOK
    <2>3. (Spent(t))' > earned'[t]
      BY <2>1, <2>2 DEF Above
    <2>4. ~ (earned[t] <= earned'[t] /\ (Spent(t))' <= Spent(t))
      BY <2>1, <2>2 DEF Above
    <2>5. PICK p : /\ PlacedBy(p, t) /\ call[p].extra
                   /\ visit'[t] = visit[t] /\ earned'[t] = earned[t]
                   /\ (Spent(t))' = Spent(t) + 1
      BY <2>1, <2>2, <2>3, <2>4
    <2>6. ~ call[p].overlapped /\ call[p].visit = visit[t] => Spent(t) < earned[t]
      BY <2>5 DEF SongInv, RequestHolds, PlacedBy
    <2> QED
      BY <2>1, <2>2, <2>3, <2>5, <2>6 DEF PlacedBy, Places
  <1> QED
    BY <1>1, RequestsHoldTheirPlace, TypeCorrect, PTL DEF Spec, CreditsKept
=============================================================================

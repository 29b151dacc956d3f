--------------------------- MODULE PlaybackQueue ---------------------------
(***************************************************************************)
(* QueueService and PlaybackService: the songs that wait, the one on the   *)
(* speakers and the singleton row PlaybackState the player follows.        *)
(*                                                                         *)
(* Drivers are the clients that move the queue (the player page and the    *)
(* staff's panel), one call at a time each; guests add songs.  The         *)
(* transactions run at READ COMMITTED and their statements are modelled as *)
(* PostgreSQL runs them: a SELECT sees what is committed; an updateMany    *)
(* picks its rows in the snapshot it starts with, waits for the rows other *)
(* transactions have written and then drops those that no longer match; an *)
(* update by id waits for its row and writes whatever it finds.            *)
(* compactPositions updates every active row, so a transaction that has    *)
(* compacted holds them all until it commits (held).                       *)
(***************************************************************************)
EXTENDS Integers, FiniteSets, Sequences

CONSTANTS
  Items,         \* pool of QueueItem rows; bounds the songs ever queued
  Drivers,       \* callers of the staff's and the player's endpoints
  Guests,        \* callers of POST /queue
  SkipStatuses,  \* statuses of the rows for which a client calls skip(id)
  None

Statuses == {"none", "pending", "playing", "played", "skipped"}

ASSUME QueueAssumption ==
  /\ IsFiniteSet(Items)
  /\ None \notin Items
  /\ SkipStatuses \subseteq Statuses \ {"none"}

VARIABLES
  item,      \* QueueItem
  playback,  \* PlaybackState
  call,      \* the call each driver has in flight
  draft      \* what the transaction of each guest has read

vars == <<item, playback, call, draft>>

\* Transactions that retire what is playing and start something else.
Moves == {"playNext", "advanceToNext", "skipAndAdvance"}
Ops == Moves \cup {"adminPlayNow", "finishCurrent"}

\* Where a call stands: its next statement.  "player" is the update of the
\* playback state, after the transaction.
CallSteps == {"idle", "seen", "retired", "start", "startHouse", "startNothing",
              "finish", "player"}

Position == 0 .. Cardinality(Items)
ItemRow == [status: Statuses, pos: Position]
PlaybackRow == [status: {"idle", "buffering", "playing", "paused"},
                item: Items \cup {None}]
DriverCall == [op: Ops \cup {"none"}, step: CallSteps, see: SUBSET Items,
               held: SUBSET Items, pick: Items \cup {None}]
NoCall == [op |-> "none", step |-> "idle", see |-> {}, held |-> {},
           pick |-> None]
NoDraft == [open |-> FALSE, list |-> <<>>, head |-> None]
NoRow == [status |-> "none", pos |-> 0]

Init ==
  /\ item = [i \in Items |-> NoRow]
  /\ playback = [status |-> "idle", item |-> None]
  /\ call = [d \in Drivers |-> NoCall]
  /\ draft = [g \in Guests |-> NoDraft]

(***************************************************************************)
(* Rows.                                                                   *)
(***************************************************************************)
With(status) == {i \in Items : item[i].status = status}
ActiveIn(rows) == {i \in Items : rows[i].status \in {"pending", "playing"}}
Active == ActiveIn(item)
Unused == With("none")
ToPromote_NotPlayed == With("pending") \cup With("skipped")
ToPromote == With("pending")

\* ORDER BY position: equal positions come in any order.
Lowest(S) == {i \in S : \A j \in S : item[i].pos <= item[j].pos}
Rankings(rows, S) ==
  {rank \in [S -> 1 .. Cardinality(S)] :
     \A i, j \in S : /\ rows[i].pos < rows[j].pos => rank[i] < rank[j]
                     /\ rank[i] = rank[j] => i = j}
Ordered(S) ==
  {q \in [1 .. Cardinality(S) -> S] :
     \E rank \in Rankings(item, S) : \A i \in S : q[rank[i]] = i}

\* compactPositions: the active rows S it has found are numbered from 1 in
\* their order.  The position of a row that is over is read by nobody and is
\* kept at 0.
Renumbered(rows, rank) ==
  [i \in Items |-> [rows[i] EXCEPT !.pos = IF i \in DOMAIN rank THEN rank[i]
                                           ELSE IF i \in ActiveIn(rows) THEN @
                                           ELSE 0]]
Compacted(rows, S) ==
  \E rank \in Rankings(rows, S) : item' = Renumbered(rows, rank)
CompactPositions(rows) == Compacted(rows, ActiveIn(rows))

\* The rows S move down by one.
Down(S) ==
  [i \in Items |-> IF i \in S THEN [item[i] EXCEPT !.pos = @ + 1] ELSE item[i]]

Row(status, pos) == [status |-> status, pos |-> pos]
MaxPosition == IF Active = {} THEN 0
               ELSE CHOOSE p \in {item[i].pos : i \in Active} :
                      \A i \in Active : item[i].pos <= p

\* No other call holds the rows this one is about to write.
Writable(d, S) == \A e \in Drivers \ {d} : call[e].held \cap S = {}

(***************************************************************************)
(* playNext, advanceToNext, skipAndAdvance.                                *)
(***************************************************************************)
\* The updateMany takes its snapshot of the playing rows.
See(d, op) ==
  /\ call[d] = NoCall
  /\ call' = [call EXCEPT ![d] = [NoCall EXCEPT !.op = op, !.step = "seen",
                                                !.see = With("playing")]]
  /\ UNCHANGED <<item, playback, draft>>

\* It has the rows that are still playing; compactPositions takes the others.
Retire(d) ==
  /\ call[d].step = "seen"
  /\ call[d].op \in Moves
  /\ Writable(d, call[d].see \cup Active)
  /\ call' = [call EXCEPT ![d].step = "retired",
                          ![d].see = @ \cap With("playing"),
                          ![d].held = Active]
  /\ UNCHANGED <<item, playback, draft>>

\* pickNextPlayable: the first of the waiting songs; if there is none, a new
\* one of the house playlist, if it has any.  A song of the house is created
\* and started in one transaction, so all the songs that wait are of
\* customers or the staff and its case for waiting songs of the house is dead.
PickRow(d) ==
  /\ call[d].step = "retired"
  /\ \E i \in Lowest(ToPromote) :
       call' = [call EXCEPT ![d].step = "start", ![d].pick = i]
  /\ UNCHANGED <<item, playback, draft>>

PickNone(d) ==
  /\ call[d].step = "retired"
  /\ With("pending") = {}
  /\ \E step \in {"startHouse", "startNothing"} :
       call' = [call EXCEPT ![d].step = step]
  /\ UNCHANGED <<item, playback, draft>>

PickNextPlayable(d) == PickRow(d) \/ PickNone(d)

\* The rows once those in S are over.
DoneAs(op) == IF op = "skipAndAdvance" THEN "skipped" ELSE "played"
Retired_Forgotten(rows, S, status) == rows
Retired(rows, S, status) ==
  [i \in Items |-> IF i \in S THEN [rows[i] EXCEPT !.status = status]
                              ELSE rows[i]]

\* The transaction has made its writes; what is on is for the player to learn.
ToPlayer_ItsPick(d, pick) ==
  call' = [call EXCEPT ![d] = [NoCall EXCEPT !.op = call[d].op,
                                 !.step = "player", !.pick = call[d].pick]]
ToPlayer(d, pick) ==
  call' = [call EXCEPT ![d] = [NoCall EXCEPT !.op = call[d].op,
                                 !.step = "player", !.pick = pick]]

StartRow(d) ==
  LET i == call[d].pick IN
  /\ call[d].step = "start"
  /\ Writable(d, Active \cup {i})
  /\ CompactPositions([Retired(item, call[d].see, DoneAs(call[d].op))
                         EXCEPT ![i].status = "playing"])
  /\ ToPlayer(d, i)
  /\ UNCHANGED <<playback, draft>>

StartHouse(d) ==
  /\ call[d].step = "startHouse"
  /\ Writable(d, Active)
  /\ \E i \in Unused :
       /\ CompactPositions([Retired(item, call[d].see, DoneAs(call[d].op))
                              EXCEPT ![i] = Row("playing", MaxPosition + 1)])
       /\ ToPlayer(d, i)
  /\ UNCHANGED <<playback, draft>>

StartNothing(d) ==
  /\ call[d].step = "startNothing"
  /\ Writable(d, Active)
  /\ LET rows == Retired(item, call[d].see, DoneAs(call[d].op))
     IN Compacted(rows, ActiveIn(rows) \cap call[d].held)
  /\ ToPlayer(d, None)
  /\ UNCHANGED <<playback, draft>>

(***************************************************************************)
(* adminPlayNow: the pending rows move down by one, the new one starts at  *)
(* position 1.                                                             *)
(***************************************************************************)
PlayNowCommit(d) ==
  /\ call[d].step = "seen"
  /\ call[d].op = "adminPlayNow"
  /\ Writable(d, call[d].see \cup Active)
  /\ \E i \in Unused :
       /\ CompactPositions(
            [Retired(Down(With("pending")), call[d].see \cap With("playing"), "played")
               EXCEPT ![i] = Row("playing", 1)])
       /\ ToPlayer(d, i)
  /\ UNCHANGED <<playback, draft>>

(***************************************************************************)
(* finishCurrent: stop after the current song.                             *)
(***************************************************************************)
FinishRead(d) ==
  /\ call[d] = NoCall
  /\ \E i \in IF With("playing") = {} THEN {None} ELSE Lowest(With("playing")) :
       call' = [call EXCEPT ![d] = [NoCall EXCEPT !.op = "finishCurrent",
                                      !.step = "finish", !.pick = i]]
  /\ UNCHANGED <<item, playback, draft>>

FinishCommit(d) ==
  LET i == call[d].pick IN
  /\ call[d].step = "finish"
  /\ IF i = None THEN UNCHANGED item
     ELSE /\ Writable(d, Active \cup {i})
          /\ CompactPositions(Retired(item, {i}, "played"))
  /\ ToPlayer(d, None)
  /\ UNCHANGED <<playback, draft>>

\* skip(id) tests nothing but that the row exists, and leaves the player alone.
Skip(d, i) ==
  /\ call[d] = NoCall
  /\ item[i].status \in SkipStatuses
  /\ Writable(d, Active \cup {i})
  /\ CompactPositions(Retired(item, {i}, "skipped"))
  /\ UNCHANGED <<playback, call, draft>>

\* adminCreate: at a position the staff chooses (0: at the end).
ToShift_ThatOne(p) == {i \in Active : p > 0 /\ item[i].pos = p}
ToShift(p) == {i \in Active : p > 0 /\ item[i].pos >= p}

AdminCreate(d, p) ==
  /\ call[d] = NoCall
  /\ Writable(d, Active)
  /\ \E i \in Unused :
       CompactPositions([Down(ToShift(p)) EXCEPT ![i] =
         Row("pending", IF p > 0 THEN p ELSE MaxPosition + 1)])
  /\ UNCHANGED <<playback, call, draft>>

(***************************************************************************)
(* create: a guest's song is spliced into the pending rows the transaction *)
(* has read, and all of them are written back.  Where it goes is the       *)
(* fairness algorithm's choice; the limits a table must respect only make  *)
(* the call fail.                                                          *)
(***************************************************************************)
ListPending(g) ==
  /\ ~ draft[g].open
  /\ \E list \in Ordered(With("pending")),
        head \in IF With("playing") = {} THEN {None} ELSE With("playing") :
       draft' = [draft EXCEPT ![g] = [open |-> TRUE, list |-> list, head |-> head]]
  /\ UNCHANGED <<item, playback, call>>

\* What plays is at position 1.
StartPos_Second(head) == 2
StartPos(head) == IF head = None THEN 1 ELSE 2

\* Rows at index `at` of the list and after it make room for the new one.
PosInList(at, start, k) == start + k - (IF k <= at THEN 1 ELSE 0)

Insert(g, at) ==
  LET list == draft[g].list
      head == draft[g].head
      start == StartPos(head)
      listed == {list[k] : k \in DOMAIN list}
      Written(j) ==
        IF j \notin Active THEN 0
        ELSE IF j \in listed
          THEN PosInList(at, start, CHOOSE k \in DOMAIN list : list[k] = j)
        ELSE IF j = head THEN 1
        ELSE item[j].pos
  IN
  /\ draft[g].open
  /\ at \in 0 .. Len(list)
  /\ \A d \in Drivers : call[d].held \cap (listed \cup {head}) = {}
  /\ \E i \in Unused :
       item' = [[j \in Items |-> [item[j] EXCEPT !.pos = Written(j)]]
                  EXCEPT ![i] = Row("pending", start + at)]
  /\ draft' = [draft EXCEPT ![g] = NoDraft]
  /\ UNCHANGED <<playback, call>>

(***************************************************************************)
(* The playback state.                                                     *)
(***************************************************************************)
\* setFromQueueItem, setBuffering, setIdle or setPaused, after the commit.
Shown(op, pick) ==
  [status |-> IF op = "finishCurrent" THEN "paused"
              ELSE IF pick = None THEN "idle"
              ELSE IF op = "playNext" THEN "playing"
              ELSE "buffering",
   item |-> IF op = "finishCurrent" THEN None ELSE pick]

TellPlayer(d) ==
  /\ call[d].step = "player"
  /\ playback' = Shown(call[d].op, call[d].pick)
  /\ call' = [call EXCEPT ![d] = NoCall]
  /\ UNCHANGED <<item, draft>>

\* setPlaying, sent by a player whenever it thinks so and by getCurrent when
\* the state has been buffering for too long.
SetPlaying ==
  /\ playback' = [playback EXCEPT !.status = "playing"]
  /\ UNCHANGED <<item, call, draft>>

\* The transaction is rolled back (an error, a deadlock PostgreSQL breaks, a
\* crash), or the process dies between the commit and the player.
Lose(d) ==
  /\ call[d] # NoCall
  /\ call' = [call EXCEPT ![d] = NoCall]
  /\ UNCHANGED <<item, playback, draft>>

GiveUp(g) ==
  /\ draft[g].open
  /\ draft' = [draft EXCEPT ![g] = NoDraft]
  /\ UNCHANGED <<item, playback, call>>

Drive(d) ==
  \/ \E op \in Moves \cup {"adminPlayNow"} : See(d, op)
  \/ Retire(d)
  \/ PickNextPlayable(d)
  \/ StartRow(d)
  \/ StartHouse(d)
  \/ StartNothing(d)
  \/ PlayNowCommit(d)
  \/ FinishRead(d)
  \/ FinishCommit(d)
  \/ \E i \in Items : Skip(d, i)
  \/ \E p \in 0 .. Cardinality(Active) : AdminCreate(d, p)
  \/ TellPlayer(d)
  \/ Lose(d)

Next ==
  \/ \E d \in Drivers : Drive(d)
  \/ \E g \in Guests :
       \/ ListPending(g)
       \/ \E at \in 0 .. Cardinality(Items) : Insert(g, at)
       \/ GiveUp(g)
  \/ SetPlaying

Spec == Init /\ [][Next]_vars

(***************************************************************************)
(* Properties.                                                             *)
(***************************************************************************)
\* Rows, calls and drafts are of their types, and no song is at a position
\* beyond the number of songs (compactPositions, create).
TypeOK ==
  /\ item \in [Items -> ItemRow]
  /\ playback \in PlaybackRow
  /\ call \in [Drivers -> DriverCall]
  /\ DOMAIN draft = Guests

\* At most one song is playing, whoever adds songs, skips waiting ones, moves
\* the queue or interrupts it (the atomic transition of advanceToNext).  It
\* takes a single driver: two of them break it.
OnePlaying == Cardinality(With("playing")) <= 1

\* When the player is pointed at another song, that song is the one playing;
\* when it is told there is none, none is (the update of the playback state
\* after each transaction).
PlayerToldTheTruth ==
  [][playback'.item # playback.item =>
       With("playing") = {playback'.item} \ {None}]_vars

\* Songs that wait keep their order: a guest's song and the staff's are put
\* between the others, and moving on, skipping or playing a song at once
\* changes nothing for the rest (compactPositions, create, adminCreate,
\* adminPlayNow).  Only a create that read a queue that has changed since may
\* put two songs in each other's place.
ReadAnOldQueue(g) ==
  draft[g].open /\ draft[g].list \notin Ordered(With("pending"))

TurnsKept ==
  [][\/ \E g \in Guests : ReadAnOldQueue(g) /\ draft'[g] # draft[g]
     \/ \A i, j \in With("pending") :
          /\ item[i].pos < item[j].pos
          /\ item'[i].status = "pending" /\ item'[j].status = "pending"
          => item'[i].pos < item'[j].pos]_vars

\* The test "valid state transitions": played and skipped are final, as long
\* as one driver moves the queue and skips no song that is over (SkipStatuses:
\* skip itself does not look).
DoneIsFinal ==
  [][\A i \in Items : item[i].status \in {"played", "skipped"}
                        => item'[i].status = item[i].status]_vars

\* The queue implements the jukebox.
OneOf(S) == IF S = {} THEN None ELSE CHOOSE i \in S : TRUE

Box == INSTANCE Jukebox WITH
  waiting <- With("pending"),
  on <- OneOf(With("playing")),
  over <- With("played") \cup With("skipped")

\* Every step, seen through the rows, is a step of the jukebox (all of
\* QueueService, one driver).
PlaysLikeAJukebox == Box!JSpec
=============================================================================

---------------------------- MODULE SongRequests ----------------------------
(***************************************************************************)
(* QueueService.create: a table asks for a song.  Its limits (free songs,  *)
(* and credits for more) are checked before the transaction that places    *)
(* the song; in between, songs end or are skipped, orders are delivered,   *)
(* the visit ends, and another phone of the table passes the same checks.  *)
(*                                                                         *)
(* The other moves of the queue are whole transactions here: PlaybackQueue *)
(* takes them apart.  The checks that a song is in the catalogue, is not   *)
(* too long, already queued or recently played only refuse a call.         *)
(***************************************************************************)
EXTENDS Fairness, SequencesExt

CONSTANTS
  Phones,       \* each sends one request at a time, for any table
  Scores,       \* what calculatePriorityScore may return
  MaxSongs,     \* MAX_SONGS_PER_TABLE
  MaxEarned,    \* bound on the credits a visit earns
  MaxVisits,    \* bound on the visits of all tables together
  MaxWaiting,   \* bound on the waiting songs
  NoSong

ASSUME SongAssumption ==
  /\ Scores \subseteq Int
  /\ {MaxSongs, MaxEarned, MaxVisits, MaxWaiting} \subseteq Nat

VARIABLES
  waiting,   \* the pending QueueItems, by position
  on,        \* the playing one
  visit,     \* the current session of each table, as a number; 0: none yet
  open,      \* whether it is open (Table.status occupied)
  earned,    \* its delivered orders above the threshold
  played,    \* its extra songs that are played
  call       \* the create() of each phone that passed its checks

vars == <<waiting, on, visit, open, earned, played, call>>

Song(table, score, extra, v) ==
  [table |-> table, score |-> score, extra |-> extra, visit |-> v]

\* adminCreate and adminPlayNow; the score of a staff song is never compared.
StaffSong == Song(Staff, 9999, FALSE, 0)

\* `overlapped` is history: another request of the table was between its
\* check and its transaction at the same time.
Idle == [table |-> Staff, extra |-> FALSE, visit |-> 0, overlapped |-> FALSE]

Init ==
  /\ waiting = <<>>
  /\ on = NoSong
  /\ visit = [t \in Tables |-> 0]
  /\ open = [t \in Tables |-> FALSE]
  /\ earned = [t \in Tables |-> 0]
  /\ played = [t \in Tables |-> 0]
  /\ call = [p \in Phones |-> Idle]

(***************************************************************************)
(* Counting.                                                               *)
(***************************************************************************)
Waits(Test(_)) == Cardinality({k \in DOMAIN waiting : Test(waiting[k])})
Plays(Test(_)) == IF on # NoSong /\ Test(on) THEN 1 ELSE 0
Active(Test(_)) == Waits(Test) + Plays(Test)

ActiveSongs(t) == Active(LAMBDA s : s.table = t)
FreeSongs(t) == Active(LAMBDA s : s.table = t /\ ~ s.extra)

\* computeSongCreditsForTable; a skipped song is in none of the counts.
Spent(t) ==
  played[t] + Active(LAMBDA s : s.table = t /\ s.extra /\ s.visit = visit[t])
Available(t) == IF open[t] /\ earned[t] > Spent(t) THEN earned[t] - Spent(t)
                                                   ELSE 0

\* effectiveSongLimit, and the button of the customer's page.
EffectiveSongLimit_Optimistic(t) == MaxSongs + earned[t]
EffectiveSongLimit(t) == IF open[t] THEN MaxSongs + earned[t] - Spent(t)
                                    ELSE MaxSongs
ButtonEnabled(t) == ActiveSongs(t) < EffectiveSongLimit(t)

\* buildContext: tables with songs or recent orders.  Songs of the staff count
\* as a table of their own.
PlayingTable == IF on = NoSong THEN Staff ELSE on.table
BusyTables(recent) ==
  Cardinality({waiting[k].table : k \in DOMAIN waiting} \cup recent
                \cup IF on = NoSong THEN {} ELSE {on.table})

(***************************************************************************)
(* create(): the checks, then the transaction.                             *)
(***************************************************************************)
MustPay_WithinLimit(t) == ActiveSongs(t) > MaxSongs
MustPay(t) == ActiveSongs(t) >= MaxSongs

Check(p, t) ==
  LET others == {q \in Phones \ {p} : call[q].table = t} IN
  /\ call[p] = Idle
  /\ open[t]
  /\ MustPay(t) => Available(t) > 0
  /\ call' = [q \in Phones |->
       IF q = p THEN [table |-> t, extra |-> MustPay(t), visit |-> visit[t],
                      overlapped |-> others # {}]
       ELSE IF q \in others THEN [call[q] EXCEPT !.overlapped = TRUE]
       ELSE call[q]]
  /\ UNCHANGED <<waiting, on, visit, open, earned, played>>

Place(p, score, recent) ==
  LET t == call[p].table
      place == FindInsertionPosition(waiting, t, score, PlayingTable,
                                     BusyTables(recent))
  IN
  /\ call[p] # Idle
  /\ Len(waiting) < MaxWaiting
  /\ waiting' = InsertAt(waiting, place,
                         Song(t, score, call[p].extra, visit[t]))
  /\ call' = [call EXCEPT ![p] = Idle]
  /\ UNCHANGED <<on, visit, open, earned, played>>

GiveUp(p) ==     \* the transaction fails, or the server stops
  /\ call[p] # Idle
  /\ call' = [call EXCEPT ![p] = Idle]
  /\ UNCHANGED <<waiting, on, visit, open, earned, played>>

(***************************************************************************)
(* The queue moves on.                                                     *)
(***************************************************************************)
\* What plays ends as played: an extra song of this visit stays paid for.
Ended(song) ==
  IF song # NoSong /\ song.extra /\ song.visit = visit[song.table]
    THEN [played EXCEPT ![song.table] = @ + 1]
    ELSE played

\* pickNextPlayable: the first that waits, else a house song, if there is any.
StartNext ==
  IF waiting # <<>> THEN on' = Head(waiting) /\ waiting' = Tail(waiting)
                    ELSE on' \in {NoSong, StaffSong} /\ UNCHANGED waiting

Advance ==     \* playNext, advanceToNext
  /\ StartNext
  /\ played' = Ended(on)
  /\ UNCHANGED <<visit, open, earned, call>>

SkipAndAdvance ==
  /\ StartNext
  /\ UNCHANGED <<visit, open, earned, played, call>>

FinishCurrent ==
  /\ on' = NoSong
  /\ played' = Ended(on)
  /\ UNCHANGED <<waiting, visit, open, earned, call>>

SkipPlaying ==    \* skip(id)
  /\ on # NoSong
  /\ on' = NoSong
  /\ UNCHANGED <<waiting, visit, open, earned, played, call>>

SkipWaiting ==
  /\ \E k \in DOMAIN waiting : waiting' = RemoveAt(waiting, k)
  /\ UNCHANGED <<on, visit, open, earned, played, call>>

AdminPlayNow ==
  /\ on' = StaffSong
  /\ played' = Ended(on)
  /\ UNCHANGED <<waiting, visit, open, earned, call>>

AdminCreate ==
  /\ Len(waiting) < MaxWaiting
  /\ \E k \in 1 .. Len(waiting) + 1 : waiting' = InsertAt(waiting, k, StaffSong)
  /\ UNCHANGED <<on, visit, open, earned, played, call>>

(***************************************************************************)
(* The ledger, as far as songs depend on it.                               *)
(***************************************************************************)
DeliverBigOrder(t) ==
  /\ open[t]
  /\ earned[t] < MaxEarned
  /\ earned' = [earned EXCEPT ![t] = @ + 1]
  /\ UNCHANGED <<waiting, on, visit, open, played, call>>

Visits == MapThenSumSet(LAMBDA t : visit[t], Tables)

\* Credits are counted from the session's opened_at: those of the last visit
\* and the songs paid with them are over.
OpenVisit_KeepsSpent(t) ==
  /\ ~ open[t]
  /\ Visits < MaxVisits
  /\ visit' = [visit EXCEPT ![t] = @ + 1]
  /\ open' = [open EXCEPT ![t] = TRUE]
  /\ earned' = [earned EXCEPT ![t] = 0]
  /\ UNCHANGED <<waiting, on, played, call>>

OpenVisit(t) ==
  /\ ~ open[t]
  /\ Visits < MaxVisits
  /\ visit' = [visit EXCEPT ![t] = @ + 1]
  /\ open' = [open EXCEPT ![t] = TRUE]
  /\ earned' = [earned EXCEPT ![t] = 0]
  /\ played' = [played EXCEPT ![t] = 0]
  /\ UNCHANGED <<waiting, on, call>>

CloseVisit(t) ==
  /\ open[t]
  /\ open' = [open EXCEPT ![t] = FALSE]
  /\ UNCHANGED <<waiting, on, visit, earned, played, call>>

Next ==
  \/ \E p \in Phones :
       \/ \E t \in Tables : Check(p, t)
       \/ \E score \in Scores, recent \in {{}, Tables} : Place(p, score, recent)
       \/ GiveUp(p)
  \/ \E t \in Tables : DeliverBigOrder(t) \/ OpenVisit(t) \/ CloseVisit(t)
  \/ Advance
  \/ SkipAndAdvance
  \/ FinishCurrent
  \/ SkipPlaying
  \/ SkipWaiting
  \/ AdminPlayNow
  \/ AdminCreate

Spec == Init /\ [][Next]_vars

(***************************************************************************)
(* Properties.                                                             *)
(***************************************************************************)
SongRow == [table : Tables \cup {Staff}, score : Int, extra : BOOLEAN,
            visit : Nat]
RequestRow == [table : Tables, extra : BOOLEAN, visit : Nat,
               overlapped : BOOLEAN]

\* Songs and requests are of their types; who asks for a song is a table.
TypeOK ==
  /\ waiting \in Seq(SongRow)
  /\ on \in SongRow \cup {NoSong}
  /\ visit \in [Tables -> Nat]
  /\ open \in [Tables -> BOOLEAN]
  /\ earned \in [Tables -> Nat]
  /\ played \in [Tables -> Nat]
  /\ call \in [Phones -> RequestRow \cup {Idle}]

Above(x, limit) == IF x > limit THEN x - limit ELSE 0

\* The phone places the song it asked for in this step.
Places(p, t) == call[p].table = t /\ call'[p] = Idle

\* A table gets more songs into the queue for free than its limit only by
\* requests that overlapped: create checks before its transaction, and nothing
\* else that goes on meanwhile can make a checked request exceed the limit.
LimitKept ==
  [][\A t \in Tables :
       Above(FreeSongs(t)', MaxSongs) > Above(FreeSongs(t), MaxSongs)
         => \E p \in Phones : Places(p, t) /\ call[p].overlapped]_vars

\* A visit overdraws the credits its orders earned only by a request that
\* overlapped or that was checked in the visit before, whatever is skipped,
\* played or delivered in between (computeSongCreditsForTable).
CreditsKept ==
  [][\A t \in Tables :
       Above(Spent(t)', earned'[t]) > Above(Spent(t), earned[t])
         => \E p \in Phones :
              /\ Places(p, t)
              /\ call[p].overlapped \/ call[p].visit # visit[t]]_vars

\* The customer's page only offers a song the server would take: an enabled
\* button means that the check passes (effectiveSongLimit against create's
\* condition).  The converse fails: with six songs in the queue, two credits
\* and one of them spent the button is disabled and the server would accept.
ButtonIsHonest ==
  \A t \in Tables : open[t] /\ ButtonEnabled(t) =>
                      (MustPay(t) => Available(t) > 0)

\* Wherever a table asks for a song, whatever its score, the place found for
\* it keeps the promises of Fairness (findInsertionPosition).
PlacementIsFair ==
  \A t \in Tables, score \in Scores :
    LET place == FindInsertionPosition(waiting, t, score, PlayingTable, 2) IN
    /\ NoNeighbours(waiting, t, PlayingTable, place)
    /\ OneSongEach(waiting, t, place)
=============================================================================

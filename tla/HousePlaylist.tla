--------------------------- MODULE HousePlaylist ----------------------------
(***************************************************************************)
(* HousePlaylistService: the songs the bar plays when nobody's are left.   *)
(* The admin edits songs and categories and says which category is active; *)
(* meanwhile the queue picks songs, at random but for the last COOLDOWN    *)
(* played.  Neither side uses a transaction: each statement is a step of   *)
(* its own wherever another may come between.                              *)
(*                                                                         *)
(* One pick is under way at a time (PlaybackQueue's driver).  Titles, sort *)
(* order and the validation of a new song against YouTube are left out.    *)
(***************************************************************************)
EXTENDS Integers, FiniteSets

CONSTANTS
  Items,       \* pool of HousePlaylistItem rows
  Categories,  \* pool of HousePlaylistCategory rows
  Admins,      \* calls of the admin panel served at the same time
  COOLDOWN,
  None         \* stands for null

ASSUME HouseAssumption ==
  /\ COOLDOWN \in Nat
  /\ None \notin Items \cup Categories

VARIABLES
  item,        \* HousePlaylistItem
  categories,  \* the categories there are
  active,      \* Setting house_playlist_active_category_id
  played,      \* the items with a last_played_at
  newer,       \* the items with a later last_played_at than an item's
  call,        \* activations and deletions of categories under way
  pick,        \* the pick under way
  later,       \* history: the items played since an item's last turn
  crossed      \* history: categories activated while they were deleted

vars == <<item, categories, active, played, newer, later, call, pick, crossed>>

NoItem == [exists |-> FALSE, active |-> FALSE, categories |-> {}]
NoCall == [kind |-> "none", category |-> None, step |-> "idle"]

\* `sure` and `seen` are history: the songs that could be played at every step
\* of the pick, and at some step of it.
NoPick == [step |-> "idle", category |-> None, recent |-> {}, song |-> None,
           sure |-> {}, seen |-> {}]

Init ==
  /\ item = [i \in Items |-> NoItem]
  /\ categories = {}
  /\ active = None
  /\ played = {}
  /\ newer = [i \in Items |-> {}]
  /\ call = [a \in Admins |-> NoCall]
  /\ pick = NoPick
  /\ later = [i \in Items |-> {}]
  /\ crossed = {}

\* baseWhere: the active songs of a category, or all of them without one.
Playable(rows, category) ==
  {i \in Items : /\ rows[i].exists /\ rows[i].active
                 /\ category # None => category \in rows[i].categories}

(***************************************************************************)
(* The list.  An update or a deletion of a row that has gone fails.        *)
(***************************************************************************)
\* A change of the list, as the pick that is under way will see it.
Write(rows) ==
  /\ item' = rows
  /\ pick' = IF pick = NoPick THEN pick
             ELSE [pick EXCEPT !.sure = @ \cap Playable(rows, pick.category),
                               !.seen = @ \cup Playable(rows, pick.category)]

\* A row is the slot of a new one when nothing speaks of it any more.
Create(i) ==
  /\ item[i] = NoItem
  /\ i \notin pick.seen \cup pick.recent \cup {pick.song}
  /\ Write([item EXCEPT ![i] = [exists |-> TRUE, active |-> TRUE,
                                categories |-> {}]])
  /\ later' = [j \in Items |-> IF j = i THEN {} ELSE later[j] \ {i}]
  /\ UNCHANGED <<categories, active, played, newer, call, crossed>>

Update(i, on) ==
  /\ item[i].exists
  /\ Write([item EXCEPT ![i].active = on])
  /\ UNCHANGED <<categories, active, played, newer, later, call, crossed>>

RemoveItem(i) ==
  /\ item[i].exists
  /\ Write([item EXCEPT ![i] = NoItem])
  /\ played' = played \ {i}
  /\ newer' = [j \in Items |-> IF j = i THEN {} ELSE newer[j] \ {i}]
  /\ UNCHANGED <<categories, active, later, call, crossed>>

SetItemCategories(i, cs) ==
  /\ item[i].exists
  /\ cs \subseteq categories
  /\ Write([item EXCEPT ![i].categories = cs])
  /\ UNCHANGED <<categories, active, played, newer, later, call, crossed>>

CreateCategory(c) ==
  /\ c \notin categories \cup {active, pick.category}
  /\ \A a \in Admins : call[a].category # c
  /\ categories' = categories \cup {c}
  /\ crossed' = crossed \ {c}
  /\ UNCHANGED <<item, active, played, newer, later, call, pick>>

(***************************************************************************)
(* The active category.                                                    *)
(***************************************************************************)
Crossed(calls) ==
  {c \in Categories : \E a, b \in Admins :
     calls[a].category = c /\ calls[a].kind = "activate"
     /\ calls[b].category = c /\ calls[b].kind = "delete"}

Step(a, c, kind, step) ==
  /\ call' = [call EXCEPT ![a] = [kind |-> kind, category |-> c, step |-> step]]
  /\ crossed' = crossed \cup Crossed(call')

Done(a) == call' = [call EXCEPT ![a] = NoCall] /\ UNCHANGED crossed

\* setActiveCategoryId: counts the songs, then writes.
ActivateRead_Uncounted(a, c) ==
  /\ call[a] = NoCall
  /\ Step(a, c, "activate", "counted")
  /\ UNCHANGED <<item, categories, active, played, newer, later, pick>>

ActivateRead(a, c) ==
  /\ call[a] = NoCall
  /\ Playable(item, c) # {}
  /\ Step(a, c, "activate", "counted")
  /\ UNCHANGED <<item, categories, active, played, newer, later, pick>>

ActivateWrite(a) ==
  /\ call[a].kind = "activate"
  /\ active' = call[a].category
  /\ Done(a)
  /\ UNCHANGED <<item, categories, played, newer, later, pick>>

Deactivate ==       \* setActiveCategoryId(null)
  /\ active' = None
  /\ UNCHANGED <<item, categories, played, newer, later, call, pick, crossed>>

\* deleteCategory: reads the active one, clears it, deletes.
DeleteRead(a, c) ==
  /\ call[a] = NoCall
  /\ Step(a, c, "delete", IF active = c THEN "mustClear" ELSE "clear")
  /\ UNCHANGED <<item, categories, active, played, newer, later, pick>>

DeleteClear(a) ==
  /\ call[a].step = "mustClear"
  /\ active' = None
  /\ Step(a, call[a].category, "delete", "clear")
  /\ UNCHANGED <<item, categories, played, newer, later, pick>>

DeleteCommit(a) ==
  /\ call[a].step = "clear"
  /\ call[a].category \in categories
  /\ categories' = categories \ {call[a].category}
  /\ Write([i \in Items |->
              [item[i] EXCEPT !.categories = @ \ {call[a].category}]])
  /\ Done(a)
  /\ UNCHANGED <<active, played, newer, later>>

Fail(a) ==          \* refused, gone, or the server stops
  /\ call[a] # NoCall
  /\ Done(a)
  /\ UNCHANGED <<item, categories, active, played, newer, later, pick>>

(***************************************************************************)
(* pickNextHouseSong, and stampPlayed after it.                            *)
(***************************************************************************)
PickCategory ==
  /\ pick = NoPick
  /\ pick' = [NoPick EXCEPT !.step = "category", !.category = active,
                            !.sure = Playable(item, active),
                            !.seen = Playable(item, active)]
  /\ UNCHANGED <<item, categories, active, played, newer, later, call, crossed>>

\* The COOLDOWN latest of them.
Recent(category) ==
  LET eligible == played \cap Playable(item, category)
  IN {i \in eligible : Cardinality(newer[i] \cap eligible) < COOLDOWN}

PickRecent ==
  /\ pick.step = "category"
  /\ pick' = [pick EXCEPT !.step = "recent", !.recent = Recent(pick.category)]
  /\ UNCHANGED <<item, categories, active, played, newer, later, call, crossed>>

Choose(pool) ==
  \E i \in pool : pick' = [pick EXCEPT !.step = "chosen", !.song = i,
                                       !.recent = {}]

\* The songs that have not been played lately.
PickPool_Strict ==
  /\ pick.step = "recent"
  /\ LET pool == Playable(item, pick.category) \ pick.recent IN
       IF pool # {} THEN Choose(pool)
                    ELSE pick' = [pick EXCEPT !.step = "silent"]
  /\ UNCHANGED <<item, categories, active, played, newer, later, call, crossed>>

PickPool ==
  /\ pick.step = "recent"
  /\ LET pool == Playable(item, pick.category) \ pick.recent IN
       IF pool # {} THEN Choose(pool)
                    ELSE pick' = [pick EXCEPT !.step = "relaxed", !.recent = {}]
  /\ UNCHANGED <<item, categories, active, played, newer, later, call, crossed>>

\* If there are none, all of them.
PickAny ==
  /\ pick.step = "relaxed"
  /\ LET pool == Playable(item, pick.category) IN
       IF pool # {} THEN Choose(pool)
                    ELSE pick' = [pick EXCEPT !.step = "silent"]
  /\ UNCHANGED <<item, categories, active, played, newer, later, call, crossed>>

\* findUnique: the song may have been removed since.
Load ==
  /\ pick.step = "chosen"
  /\ pick' = [pick EXCEPT !.step = IF item[pick.song].exists THEN "loaded"
                                                             ELSE "silent"]
  /\ UNCHANGED <<item, categories, active, played, newer, later, call, crossed>>

\* The song has its turn: a fact, whatever the rows say of it.
Turn(i) ==
  later' = [j \in Items |-> IF j = i THEN {}
                            ELSE IF j \in played THEN later[j] \cup {i}
                            ELSE {}]

\* stampPlayed, once the song is in the queue.
Stamp_Once ==
  /\ pick.step = "loaded"
  /\ item[pick.song].exists
  /\ played' = played \cup {pick.song}
  /\ newer' = [j \in Items |->
                 IF j \in played /\ pick.song \notin played
                 THEN newer[j] \cup {pick.song} ELSE newer[j]]
  /\ pick' = NoPick
  /\ Turn(pick.song)
  /\ UNCHANGED <<item, categories, active, call, crossed>>

Stamp ==
  /\ pick.step = "loaded"
  /\ item[pick.song].exists
  /\ played' = played \cup {pick.song}
  /\ newer' = [j \in Items |-> IF j = pick.song THEN {}
                               ELSE IF j \in played THEN newer[j] \cup {pick.song}
                               ELSE {}]
  /\ pick' = NoPick
  /\ Turn(pick.song)
  /\ UNCHANGED <<item, categories, active, call, crossed>>

\* The queue has taken the silence, its transaction has failed, or the server
\* has stopped.
EndPick ==
  /\ pick # NoPick
  /\ pick' = NoPick
  /\ UNCHANGED <<item, categories, active, played, newer, later, call, crossed>>

Edit ==
  \/ \E i \in Items :
       \/ Create(i) \/ RemoveItem(i)
       \/ \E on \in BOOLEAN : Update(i, on)
       \/ \E cs \in SUBSET Categories : SetItemCategories(i, cs)
  \/ \E c \in Categories : CreateCategory(c)
  \/ Deactivate

Administer ==
  \E a \in Admins :
    \/ \E c \in Categories : ActivateRead(a, c) \/ DeleteRead(a, c)
    \/ ActivateWrite(a)
    \/ DeleteClear(a)
    \/ DeleteCommit(a)
    \/ Fail(a)

Pick == \/ PickCategory \/ PickRecent \/ PickPool \/ PickAny
        \/ Load \/ Stamp \/ EndPick

Next == Edit \/ Administer \/ Pick

Spec == Init /\ [][Next]_vars

(***************************************************************************)
(* Properties.                                                             *)
(***************************************************************************)
\* The rows, the calls and the pick are well typed, and only songs that exist have
\* a time of play (HousePlaylistItem.last_played_at).
TypeOK ==
  /\ item \in [Items -> [exists : BOOLEAN, active : BOOLEAN,
                         categories : SUBSET categories]]
  /\ categories \subseteq Categories
  /\ active \in Categories \cup {None}
  /\ played \subseteq {i \in Items : item[i].exists}
  /\ newer \in [Items -> SUBSET played]
  /\ call \in [Admins -> [kind : {"none", "activate", "delete"},
                          category : Categories \cup {None},
                          step : {"idle", "counted", "mustClear", "clear"}]]
  /\ pick \in [step : {"idle", "category", "recent", "relaxed", "chosen",
                      "loaded", "silent"},
               category : Categories \cup {None}, recent : SUBSET Items,
               song : Items \cup {None}, sure : SUBSET Items,
               seen : SUBSET Items]
  /\ later \in [Items -> SUBSET Items]
  /\ crossed \subseteq Categories

\* The room falls silent only if no song could be played all through the pick,
\* or the one just chosen was removed: the cooldown never silences it ("better
\* a near-repeat than silence", pickNextHouseSong).
SilenceMeansNothing ==
  pick.step = "silent" =>
    \/ pick.sure = {}
    \/ pick.song # None /\ ~ item[pick.song].exists

\* Fewer than COOLDOWN of these songs have been played since i was.
PlayedLately(i, songs) ==
  i \in played /\ Cardinality(later[i] \cap songs) < COOLDOWN

\* A song of the last COOLDOWN comes again only if every song that could be
\* played all through the pick is one of them, whatever was edited, removed or
\* played from another category in between (pickNextHouseSong, stampPlayed).
NoEarlyRepeat ==
  /\ pick.step \in {"chosen", "loaded"}
  /\ pick.song \in pick.sure
  /\ PlayedLately(pick.song, pick.seen)
  => \A i \in pick.sure : PlayedLately(i, pick.sure)

\* The active category is one there is, unless its activation and its deletion
\* overlapped: no other order of the two leaves the house player on a category
\* that has gone (deleteCategory, setActiveCategoryId).
ActiveIsReal == active \in categories \cup crossed \cup {None}

============================================================================

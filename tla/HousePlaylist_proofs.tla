------------------------ MODULE HousePlaylist_proofs ------------------------
(***************************************************************************)
(* HousePlaylist's invariants for any number of songs, categories and      *)
(* admins, and any cooldown: the room is not silent in vain, the active    *)
(* category exists, and no song comes back too soon.                       *)
(***************************************************************************)
EXTENDS HousePlaylist, FiniteSetTheorems, TLAPS

Rows == [exists : BOOLEAN, active : BOOLEAN, categories : SUBSET Categories]

Calls == [kind : {"none", "activate", "delete"},
          category : Categories \cup {None},
          step : {"idle", "counted", "mustClear", "clear"}]

\* The pick is a record of its fields, whatever is in them.
PickShape ==
  pick = [step |-> pick.step, category |-> pick.category,
          recent |-> pick.recent, song |-> pick.song,
          sure |-> pick.sure, seen |-> pick.seen]

(***************************************************************************)
(* Silence.  The songs that could be played all along can be played now.   *)
(***************************************************************************)
SilenceInv ==
  /\ item \in [Items -> [exists : BOOLEAN, active : BOOLEAN,
                         categories : SUBSET Categories]]
  /\ PickShape
  /\ pick # NoPick => pick.sure \subseteq Playable(item, pick.category)
  /\ pick.song \in Items \cup {None}
  /\ pick.step \in {"chosen", "loaded"} => pick.song # None
  /\ SilenceMeansNothing

\* Nothing is being picked at the start.
LEMMA SilenceInit == Init => SilenceInv
  BY HouseAssumption
  DEF Init, NoItem, NoPick, SilenceInv, PickShape, SilenceMeansNothing

\* A change of the rows that creates no song that has just gone.
LEMMA WriteKeepsSilence ==
  ASSUME SilenceInv, NEW rows \in [Items -> Rows], Write(rows),
         \A i \in Items : rows[i].exists => item[i].exists \/ i # pick.song
  PROVE  SilenceInv'
  <1>1. CASE pick = NoPick
    <2>1. pick' = NoPick
      BY <1>1 DEF Write
    <2> QED
      BY <1>1, <2>1, HouseAssumption
      DEF Write, SilenceInv, Rows, NoPick, PickShape, SilenceMeansNothing
  <1>2. CASE pick # NoPick
    <2>1. pick' = [pick EXCEPT
                     !.sure = @ \cap Playable(rows, pick.category),
                     !.seen = @ \cup Playable(rows, pick.category)]
      BY <1>2 DEF Write
    <2>2. /\ pick'.step = pick.step
          /\ pick'.category = pick.category
          /\ pick'.song = pick.song
          /\ pick'.sure = pick.sure \cap Playable(rows, pick.category)
          /\ PickShape'
      BY <2>1 DEF SilenceInv, PickShape
    <2>3. pick'.sure \subseteq Playable(item', pick'.category)
      BY <2>2 DEF Write
    <2>4. SilenceMeansNothing'
      <3> SUFFICES ASSUME pick.step = "silent"
                   PROVE  \/ pick'.sure = {}
                          \/ pick'.song # None /\ ~ item'[pick'.song].exists
        BY <2>2 DEF SilenceMeansNothing
      <3>1. CASE pick.sure = {}
        BY <3>1, <2>2
      <3>2. CASE pick.song # None /\ ~ item[pick.song].exists
        BY <3>2, <2>2 DEF Write, SilenceInv
      <3> QED
        BY <3>1, <3>2 DEF SilenceInv, SilenceMeansNothing
    <2> QED
      BY <2>2, <2>3, <2>4 DEF Write, SilenceInv, Rows
  <1> QED
    BY <1>1, <1>2

\* A step that leaves the rows and the pick alone.
LEMMA OtherKeepsSilence ==
  ASSUME SilenceInv, UNCHANGED <<item, pick>>
  PROVE  SilenceInv'
  BY DEF SilenceInv, PickShape, SilenceMeansNothing, Playable

\* The admin's edits keep what the pick knows of silence.
LEMMA EditKeepsSilence == ASSUME SilenceInv, Edit PROVE SilenceInv'
  <1>1. ASSUME NEW i \in Items, Create(i) PROVE SilenceInv'
    <2> DEFINE rows == [item EXCEPT ![i] = [exists |-> TRUE, active |-> TRUE,
                                            categories |-> {}]]
    <2>1. rows \in [Items -> Rows]
      BY DEF SilenceInv, Rows
    <2>2. \A j \in Items : rows[j].exists => item[j].exists \/ j # pick.song
      BY <1>1 DEF Create, SilenceInv
    <2>3. Write(rows)
      BY <1>1 DEF Create
    <2> HIDE DEF rows
    <2> QED
      BY <2>1, <2>2, <2>3, WriteKeepsSilence
  <1>2. ASSUME NEW i \in Items, NEW on \in BOOLEAN, Update(i, on)
        PROVE  SilenceInv'
    <2> DEFINE rows == [item EXCEPT ![i].active = on]
    <2>1. rows \in [Items -> Rows]
      BY DEF SilenceInv, Rows
    <2>2. \A j \in Items : rows[j].exists => item[j].exists \/ j # pick.song
      BY <1>2 DEF Update, SilenceInv
    <2>3. Write(rows)
      BY <1>2 DEF Update
    <2> HIDE DEF rows
    <2> QED
      BY <2>1, <2>2, <2>3, WriteKeepsSilence
  <1>3. ASSUME NEW i \in Items, RemoveItem(i) PROVE SilenceInv'
    <2> DEFINE rows == [item EXCEPT ![i] = NoItem]
    <2>1. rows \in [Items -> Rows]
      BY DEF SilenceInv, Rows, NoItem
    <2>2. \A j \in Items : rows[j].exists => item[j].exists \/ j # pick.song
      BY DEF NoItem, SilenceInv
    <2>3. Write(rows)
      BY <1>3 DEF RemoveItem
    <2> HIDE DEF rows
    <2> QED
      BY <2>1, <2>2, <2>3, WriteKeepsSilence
  <1>4. ASSUME NEW i \in Items, NEW cs \in SUBSET Categories,
               SetItemCategories(i, cs)
        PROVE  SilenceInv'
    <2> DEFINE rows == [item EXCEPT ![i].categories = cs]
    <2>1. rows \in [Items -> Rows]
      BY DEF SilenceInv, Rows
    <2>2. \A j \in Items : rows[j].exists => item[j].exists \/ j # pick.song
      BY DEF SilenceInv
    <2>3. Write(rows)
      BY <1>4 DEF SetItemCategories
    <2> HIDE DEF rows
    <2> QED
      BY <2>1, <2>2, <2>3, WriteKeepsSilence
  <1>5. ASSUME NEW c \in Categories, CreateCategory(c) PROVE SilenceInv'
    BY <1>5, OtherKeepsSilence DEF CreateCategory
  <1>6. CASE Deactivate
    BY <1>6, OtherKeepsSilence DEF Deactivate
  <1> QED
    BY <1>1, <1>2, <1>3, <1>4, <1>5, <1>6 DEF Edit

\* So do the calls about categories: only the deletion writes the rows.
LEMMA AdministerKeepsSilence == ASSUME SilenceInv, Administer PROVE SilenceInv'
  <1> SUFFICES ASSUME NEW a \in Admins,
                      \/ \E c \in Categories : ActivateRead(a, c) \/ DeleteRead(a, c)
                      \/ ActivateWrite(a)
                      \/ DeleteClear(a)
                      \/ DeleteCommit(a)
                      \/ Fail(a)
               PROVE  SilenceInv'
    BY DEF Administer
  <1>1. CASE DeleteCommit(a)
    <2> DEFINE rows == [i \in Items |->
                          [item[i] EXCEPT !.categories = @ \ {call[a].category}]]
    <2>1. rows \in [Items -> Rows]
      BY DEF SilenceInv, Rows
    <2>2. \A j \in Items : rows[j].exists => item[j].exists \/ j # pick.song
      BY DEF SilenceInv
    <2>3. Write(rows)
      BY <1>1 DEF DeleteCommit
    <2> HIDE DEF rows
    <2> QED
      BY <2>1, <2>2, <2>3, WriteKeepsSilence
  <1>2. CASE ~ DeleteCommit(a)
    BY <1>2, OtherKeepsSilence
    DEF ActivateRead, DeleteRead, ActivateWrite, DeleteClear, Fail
  <1> QED
    BY <1>1, <1>2

\* A step of the pick itself, which keeps its category and its songs.
LEMMA StepKeepsSilence ==
  ASSUME SilenceInv, pick # NoPick, item' = item, PickShape',
         pick'.category = pick.category, pick'.sure = pick.sure,
         pick'.song \in Items \cup {None},
         pick'.step \in {"chosen", "loaded"} => pick'.song # None,
         SilenceMeansNothing'
  PROVE  SilenceInv'
  BY DEF SilenceInv, Playable

\* So does the pick: it falls silent where its own read of the rows said so.
LEMMA PickKeepsSilence == ASSUME SilenceInv, Pick PROVE SilenceInv'
  <1>0. pick.step # "idle" => pick # NoPick
    BY DEF NoPick
  <1>1. CASE PickCategory
    <2>1. /\ PickShape'
          /\ pick'.step = "category"
          /\ pick'.category = active
          /\ pick'.sure = Playable(item, active)
          /\ pick'.song = None
      BY <1>1 DEF PickCategory, NoPick, PickShape
    <2>2. pick'.sure \subseteq Playable(item', pick'.category)
      BY <1>1, <2>1 DEF PickCategory, Playable
    <2>3. item' = item
      BY <1>1 DEF PickCategory
    <2> QED
      BY <2>1, <2>2, <2>3 DEF SilenceInv, SilenceMeansNothing
  <1>2. CASE PickRecent
    <2> DEFINE r == Recent(pick.category)
    <2>1. pick' = [pick EXCEPT !.step = "recent", !.recent = r]
      BY <1>2 DEF PickRecent
    <2> HIDE DEF r
    <2>2. /\ PickShape'
          /\ pick'.step = "recent"
          /\ pick'.category = pick.category
          /\ pick'.sure = pick.sure
          /\ pick'.song = pick.song
      BY <2>1 DEF SilenceInv, PickShape
    <2>3. item' = item /\ pick.step = "category"
      BY <1>2 DEF PickRecent
    <2> QED
      BY <1>0, <2>2, <2>3, StepKeepsSilence DEF SilenceInv, SilenceMeansNothing
  <1>3. ASSUME NEW pool \in SUBSET Items, Choose(pool), item' = item,
               pick.step # "idle"
        PROVE  SilenceInv'
    <2>1. PICK i \in pool : pick' = [pick EXCEPT !.step = "chosen", !.song = i,
                                               !.recent = {}]
      BY <1>3 DEF Choose
    <2>2. /\ PickShape'
          /\ pick'.step = "chosen"
          /\ pick'.category = pick.category
          /\ pick'.sure = pick.sure
          /\ pick'.song = i
      BY <2>1 DEF SilenceInv, PickShape
    <2> QED
      BY <1>0, <1>3, <2>2, StepKeepsSilence, HouseAssumption
      DEF SilenceMeansNothing
  <1>4. CASE PickPool
    <2>1. item' = item /\ pick.step = "recent"
      BY <1>4 DEF PickPool
    <2>2. Playable(item, pick.category) \ pick.recent \in SUBSET Items
      BY DEF Playable
    <2>3. CASE Choose(Playable(item, pick.category) \ pick.recent)
      BY <2>1, <2>2, <2>3, <1>3
    <2>4. CASE pick' = [pick EXCEPT !.step = "relaxed", !.recent = {}]
      <3>1. /\ PickShape'
            /\ pick'.step = "relaxed"
            /\ pick'.category = pick.category
            /\ pick'.sure = pick.sure
            /\ pick'.song = pick.song
        BY <2>4 DEF SilenceInv, PickShape
      <3> QED
        BY <1>0, <2>1, <3>1, StepKeepsSilence DEF SilenceInv, SilenceMeansNothing
    <2> QED
      BY <1>4, <2>3, <2>4 DEF PickPool
  <1>5. CASE PickAny
    <2>1. item' = item /\ pick.step = "relaxed"
      BY <1>5 DEF PickAny
    <2>2. Playable(item, pick.category) \in SUBSET Items
      BY DEF Playable
    <2>3. CASE Choose(Playable(item, pick.category))
      BY <2>1, <2>2, <2>3, <1>3
    <2>4. CASE /\ Playable(item, pick.category) = {}
               /\ pick' = [pick EXCEPT !.step = "silent"]
      <3>1. /\ PickShape'
            /\ pick'.step = "silent"
            /\ pick'.category = pick.category
            /\ pick'.sure = pick.sure
            /\ pick'.song = pick.song
        BY <2>4 DEF SilenceInv, PickShape
      <3>2. pick.sure = {}
        BY <1>0, <2>1, <2>4 DEF SilenceInv
      <3> QED
        BY <1>0, <2>1, <3>1, <3>2, StepKeepsSilence
        DEF SilenceInv, SilenceMeansNothing
    <2> QED
      BY <1>5, <2>3, <2>4 DEF PickAny
  <1>6. CASE Load
    <2>1. item' = item /\ pick.step = "chosen"
      BY <1>6 DEF Load
    <2>2. pick' = [pick EXCEPT !.step = IF item[pick.song].exists THEN "loaded"
                                                                 ELSE "silent"]
      BY <1>6 DEF Load
    <2>3. /\ PickShape'
          /\ pick'.category = pick.category
          /\ pick'.sure = pick.sure
          /\ pick'.song = pick.song
          /\ pick'.step = IF item[pick.song].exists THEN "loaded" ELSE "silent"
      BY <2>2 DEF SilenceInv, PickShape
    <2> QED
      BY <1>0, <2>1, <2>3, StepKeepsSilence DEF SilenceInv, SilenceMeansNothing
  <1>7. ASSUME pick' = NoPick, item' = item PROVE SilenceInv'
    BY <1>7, HouseAssumption
    DEF NoPick, SilenceInv, PickShape, SilenceMeansNothing
  <1> QED
    BY <1>1, <1>2, <1>4, <1>5, <1>6, <1>7 DEF Pick, Stamp, EndPick

\* The house player falls silent only if no song could be played all through
\* the pick, or the one chosen was removed (pickNextHouseSong), however many
\* songs, categories and admins there are and however long the cooldown is.
THEOREM NeverSilentInVain == Spec => []SilenceMeansNothing
  <1>1. SilenceInv /\ [Next]_vars => SilenceInv'
    BY EditKeepsSilence, AdministerKeepsSilence, PickKeepsSilence,
       OtherKeepsSilence DEF Next, vars
  <1>2. SilenceInv => SilenceMeansNothing
    BY DEF SilenceInv
  <1> QED
    BY <1>1, <1>2, SilenceInit, PTL DEF Spec

(***************************************************************************)
(* The active category.  A category that is being activated, or that is    *)
(* active while it is being deleted, is there or has been crossed.         *)
(***************************************************************************)
CategoryType ==
  /\ item \in [Items -> Rows]
  /\ call \in [Admins -> Calls]
  /\ categories \subseteq Categories
  /\ crossed \subseteq Categories
  /\ active \in Categories \cup {None}
  /\ \A i \in Items : item[i].categories \subseteq categories
  /\ \A a \in Admins :
       /\ call[a].kind # "none" => call[a].category \in Categories
       /\ call[a].step \in {"mustClear", "clear"} => call[a].kind = "delete"

CategoryInv ==
  /\ CategoryType
  /\ Crossed(call) \subseteq crossed
  /\ \A a \in Admins :
       /\ call[a].kind = "activate" => call[a].category \in categories \cup crossed
       /\ call[a].step = "clear" /\ call[a].category = active => active \in crossed
  /\ ActiveIsReal

\* There are no categories and no calls at the start.
LEMMA CategoryInit == Init => CategoryInv
  BY DEF Init, NoItem, NoCall, CategoryInv, CategoryType, Rows, Calls, Crossed,
         ActiveIsReal

\* A new call, or the next step of one.
LEMMA StepKeepsCategory ==
  ASSUME CategoryInv, NEW a \in Admins, NEW c \in Categories,
         NEW kind \in {"activate", "delete"},
         NEW step \in {"counted", "mustClear", "clear"}, Step(a, c, kind, step),
         kind = "activate" <=> step = "counted",
         kind = "activate" => c \in categories,
         active' \in {active, None}, step = "clear" => active' # c,
         UNCHANGED <<item, categories>>
  PROVE  CategoryInv'
  <1>0. None \notin Categories
    BY HouseAssumption
  <1>1. /\ call' \in [Admins -> Calls]
        /\ call'[a] = [kind |-> kind, category |-> c, step |-> step]
        /\ \A b \in Admins : b # a => call'[b] = call[b]
    BY DEF Step, CategoryInv, CategoryType, Calls
  <1>2. crossed' = crossed \cup Crossed(call') /\ Crossed(call') \subseteq Categories
    BY DEF Step, Crossed
  <1>3. CategoryType'
    BY <1>1, <1>2 DEF CategoryInv, CategoryType
  <1>4. (Crossed(call))' = Crossed(call')
    BY DEF Crossed
  <1>5. ActiveIsReal'
    BY <1>2 DEF CategoryInv, ActiveIsReal
  <1>6. \A b \in Admins :
          /\ call'[b].kind = "activate" => call'[b].category \in categories' \cup crossed'
          /\ call'[b].step = "clear" /\ call'[b].category = active' => active' \in crossed'
    <2> TAKE b \in Admins
    <2>1. CASE b = a
      BY <1>1, <2>1
    <2>2. CASE b # a
      <3>1. call'[b] = call[b]
        BY <1>1, <2>2
      <3>2. ASSUME call[b].step = "clear", call[b].category = active' 
            PROVE  active' \in crossed'
        <4>1. call[b].category \in Categories
          BY <3>2 DEF CategoryInv, CategoryType
        <4>2. active' = active
          BY <3>2, <4>1, <1>0
        <4> QED
          BY <3>2, <4>2, <1>2 DEF CategoryInv
      <3> QED
        BY <3>1, <3>2, <1>2 DEF CategoryInv
    <2> QED
      BY <2>1, <2>2
  <1> QED
    BY <1>2, <1>3, <1>4, <1>5, <1>6 DEF CategoryInv

\* A call that ends.
LEMMA DoneKeepsCalls ==
  ASSUME CategoryInv, NEW a \in Admins, Done(a)
  PROVE  /\ call' \in [Admins -> Calls]
         /\ call'[a].kind = "none" /\ call'[a].step = "idle"
         /\ \A b \in Admins : b # a => call'[b] = call[b]
         /\ crossed' = crossed
         /\ Crossed(call') \subseteq crossed
  <1>1. /\ call' \in [Admins -> Calls]
        /\ call'[a].kind = "none" /\ call'[a].step = "idle"
        /\ \A b \in Admins : b # a => call'[b] = call[b]
        /\ crossed' = crossed
    BY DEF Done, NoCall, CategoryInv, CategoryType, Calls
  <1>2. Crossed(call') \subseteq Crossed(call)
    BY <1>1 DEF Crossed
  <1> QED
    BY <1>1, <1>2 DEF CategoryInv

\* Activations and deletions, statement by statement, keep CategoryInv.
LEMMA AdministerKeepsCategory ==
  ASSUME CategoryInv, Administer PROVE CategoryInv'
  <1>0. (Crossed(call))' = Crossed(call') /\ None \notin Categories
    BY HouseAssumption DEF Crossed
  <1>1. ASSUME NEW a \in Admins, NEW c \in Categories, ActivateRead(a, c)
        PROVE  CategoryInv'
    <2>1. c \in categories
      BY <1>0, <1>1 DEF ActivateRead, Playable, CategoryInv, CategoryType
    <2> QED
      BY <1>1, <2>1, StepKeepsCategory DEF ActivateRead
  <1>2. ASSUME NEW a \in Admins, NEW c \in Categories, DeleteRead(a, c)
        PROVE  CategoryInv'
    <2>1. CASE active = c
      BY <1>2, <2>1, StepKeepsCategory DEF DeleteRead
    <2>2. CASE active # c
      BY <1>2, <2>2, StepKeepsCategory DEF DeleteRead
    <2> QED
      BY <2>1, <2>2
  <1>3. ASSUME NEW a \in Admins, DeleteClear(a) PROVE CategoryInv'
    <2>1. call[a].category \in Categories
      BY <1>3 DEF DeleteClear, CategoryInv, CategoryType
    <2> QED
      BY <1>0, <1>3, <2>1, StepKeepsCategory DEF DeleteClear
  <1>4. ASSUME NEW a \in Admins, ActivateWrite(a) PROVE CategoryInv'
    <2>1. /\ call[a].category \in Categories
          /\ call[a].category \in categories \cup crossed
          /\ active' = call[a].category
          /\ UNCHANGED <<item, categories>>
      BY <1>4 DEF ActivateWrite, CategoryInv, CategoryType
    <2>2. Done(a)
      BY <1>4 DEF ActivateWrite
    <2>3. \A b \in Admins :
            call[b].kind = "delete" /\ call[b].category = active' => active' \in crossed
      BY <1>4, <2>1 DEF ActivateWrite, Crossed, CategoryInv
    <2>4. CategoryType'
      BY <2>1, <2>2, DoneKeepsCalls DEF CategoryInv, CategoryType
    <2>5. \A b \in Admins :
            call'[b].step = "clear" /\ call'[b].category = active' => active' \in crossed'
      BY <2>2, <2>3, DoneKeepsCalls DEF CategoryInv, CategoryType
    <2> QED
      BY <1>0, <2>1, <2>2, <2>4, <2>5, DoneKeepsCalls DEF CategoryInv, ActiveIsReal
  <1>5. ASSUME NEW a \in Admins, DeleteCommit(a) PROVE CategoryInv'
    <2> DEFINE c == call[a].category
    <2>1. /\ call[a].step = "clear" /\ call[a].kind = "delete"
          /\ c \in Categories
          /\ categories' = categories \ {c}
          /\ item' = [i \in Items |-> [item[i] EXCEPT !.categories = @ \ {c}]]
          /\ active' = active
          /\ Done(a)
      BY <1>5 DEF DeleteCommit, Write, CategoryInv, CategoryType
    <2>2. CategoryType'
      <3>1. item' \in [Items -> Rows]
        BY <2>1 DEF CategoryInv, CategoryType, Rows
      <3>2. \A i \in Items : item'[i].categories \subseteq categories'
        BY <2>1 DEF CategoryInv, CategoryType, Rows
      <3> QED
        BY <2>1, <3>1, <3>2, DoneKeepsCalls DEF CategoryInv, CategoryType
    <2>3. ASSUME NEW b \in Admins, call[b].kind = "activate"
          PROVE  call[b].category \in categories' \cup crossed
      <3>1. CASE call[b].category = c
        BY <2>1, <2>3, <3>1 DEF CategoryInv, Crossed
      <3>2. CASE call[b].category # c
        BY <2>1, <2>3, <3>2 DEF CategoryInv
      <3> QED
        BY <3>1, <3>2
    <2>4. active \in categories' \cup crossed \cup {None}
      BY <2>1 DEF CategoryInv, ActiveIsReal
    <2>5. \A b \in Admins :
            call'[b].kind = "activate" => call'[b].category \in categories' \cup crossed'
      BY <2>1, <2>3, DoneKeepsCalls
    <2>6. \A b \in Admins :
            call'[b].step = "clear" /\ call'[b].category = active' => active' \in crossed'
      BY <2>1, DoneKeepsCalls DEF CategoryInv
    <2> QED
      BY <1>0, <2>1, <2>2, <2>4, <2>5, <2>6, DoneKeepsCalls
      DEF CategoryInv, ActiveIsReal
  <1>6. ASSUME NEW a \in Admins, Fail(a) PROVE CategoryInv'
    <2>1. Done(a) /\ UNCHANGED <<item, categories, active>>
      BY <1>6 DEF Fail
    <2>2. CategoryType'
      BY <2>1, DoneKeepsCalls DEF CategoryInv, CategoryType
    <2>3. \A b \in Admins :
            /\ call'[b].kind = "activate" =>
                 call'[b].category \in categories' \cup crossed'
            /\ call'[b].step = "clear" /\ call'[b].category = active' =>
                 active' \in crossed'
      BY <2>1, DoneKeepsCalls DEF CategoryInv
    <2> QED
      BY <1>0, <2>1, <2>2, <2>3, DoneKeepsCalls DEF CategoryInv, ActiveIsReal
  <1> QED
    BY <1>1, <1>2, <1>3, <1>4, <1>5, <1>6 DEF Administer

\* The songs' rows may change as long as they name categories there are.
LEMMA RowsKeepCategory ==
  ASSUME CategoryInv, UNCHANGED <<categories, active, call, crossed>>,
         item' \in [Items -> Rows],
         \A i \in Items : item'[i].categories \subseteq categories
  PROVE  CategoryInv'
  BY DEF CategoryInv, CategoryType, Crossed, ActiveIsReal

\* The edits keep it: they name only categories there are.
LEMMA EditKeepsCategory == ASSUME CategoryInv, Edit PROVE CategoryInv'
  <1> USE DEF CategoryInv, CategoryType
  <1>1. ASSUME NEW i \in Items, Create(i) PROVE CategoryInv'
    <2>1. UNCHANGED <<categories, active, call, crossed>>
      BY <1>1 DEF Create
    <2>2. item' = [item EXCEPT ![i] = [exists |-> TRUE, active |-> TRUE,
                                       categories |-> {}]]
      BY <1>1 DEF Create, Write
    <2> QED
      BY <2>1, <2>2, RowsKeepCategory DEF Rows
  <1>2. ASSUME NEW i \in Items, NEW on \in BOOLEAN, Update(i, on)
        PROVE  CategoryInv'
    <2>1. UNCHANGED <<categories, active, call, crossed>>
      BY <1>2 DEF Update
    <2>2. item' = [item EXCEPT ![i].active = on]
      BY <1>2 DEF Update, Write
    <2> QED
      BY <2>1, <2>2, RowsKeepCategory DEF Rows
  <1>3. ASSUME NEW i \in Items, RemoveItem(i) PROVE CategoryInv'
    <2>1. UNCHANGED <<categories, active, call, crossed>>
      BY <1>3 DEF RemoveItem
    <2>2. item' = [item EXCEPT ![i] = NoItem]
      BY <1>3 DEF RemoveItem, Write
    <2> QED
      BY <2>1, <2>2, RowsKeepCategory DEF Rows, NoItem
  <1>4. ASSUME NEW i \in Items, NEW cs \in SUBSET Categories,
               SetItemCategories(i, cs)
        PROVE  CategoryInv'
    <2>1. UNCHANGED <<categories, active, call, crossed>> /\ cs \subseteq categories
      BY <1>4 DEF SetItemCategories
    <2>2. item' = [item EXCEPT ![i].categories = cs]
      BY <1>4 DEF SetItemCategories, Write
    <2> QED
      BY <2>1, <2>2, RowsKeepCategory DEF Rows
  <1>5. ASSUME NEW c \in Categories, CreateCategory(c) PROVE CategoryInv'
    BY <1>5 DEF CreateCategory, Crossed, ActiveIsReal
  <1>6. CASE Deactivate
    BY <1>6, HouseAssumption DEF Deactivate, Crossed, ActiveIsReal
  <1> QED
    BY <1>1, <1>2, <1>3, <1>4, <1>5, <1>6 DEF Edit

\* The pick reads the rows and the active category, and writes neither.
LEMMA PickKeepsCategory == ASSUME CategoryInv, Pick PROVE CategoryInv'
  <1>1. UNCHANGED <<item, categories, active, call, crossed>>
    BY DEF Pick, PickCategory, PickRecent, PickPool, PickAny, Load, Stamp, EndPick
  <1> QED
    BY <1>1, RowsKeepCategory DEF CategoryInv, CategoryType

\* The active category is one there is unless its activation and its deletion
\* overlapped (setActiveCategoryId, deleteCategory), for any number of admins.
THEOREM ActiveStaysReal == Spec => []ActiveIsReal
  <1>1. CategoryInv /\ [Next]_vars => CategoryInv'
    <2>1. ASSUME CategoryInv, UNCHANGED vars PROVE CategoryInv'
      BY <2>1, RowsKeepCategory DEF vars, CategoryInv, CategoryType
    <2> QED
      BY <2>1, EditKeepsCategory, AdministerKeepsCategory, PickKeepsCategory
      DEF Next
  <1>2. CategoryInv => ActiveIsReal
    BY DEF CategoryInv
  <1> QED
    BY <1>1, <1>2, CategoryInit, PTL DEF Spec

(***************************************************************************)
(* Types.  The step of the pick that has a song names one.                 *)
(***************************************************************************)
Picks == [step : {"idle", "category", "recent", "relaxed", "chosen", "loaded",
                  "silent"},
          category : Categories \cup {None}, recent : SUBSET Items,
          song : Items \cup {None}, sure : SUBSET Items, seen : SUBSET Items]

SongNamed == pick.step \in {"chosen", "loaded"} => pick.song \in Items

TypeInv == TypeOK /\ SongNamed

\* The first state is well typed.
LEMMA TypeInit == Init => TypeInv
  BY DEF Init, NoItem, NoCall, NoPick, TypeInv, TypeOK, SongNamed

\* A change of the rows keeps the pick in its type and at its song.
LEMMA WriteKeepsPick ==
  ASSUME TypeInv, NEW rows, Write(rows)
  PROVE  /\ pick' \in Picks
         /\ SongNamed'
         /\ item' = rows
  <1>1. Playable(rows, pick.category) \subseteq Items
    BY DEF Playable
  <1>2. pick \in Picks /\ SongNamed
    BY DEF TypeInv, TypeOK, Picks
  <1>3. CASE pick = NoPick
    BY <1>2, <1>3 DEF Write, SongNamed
  <1>4. CASE pick # NoPick
    <2>1. pick' = [pick EXCEPT
                     !.sure = @ \cap Playable(rows, pick.category),
                     !.seen = @ \cup Playable(rows, pick.category)]
      BY <1>4 DEF Write
    <2>2. pick' \in Picks /\ pick'.step = pick.step /\ pick'.song = pick.song
      BY <1>1, <1>2, <2>1 DEF Picks
    <2> QED
      BY <1>2, <2>2 DEF SongNamed, Write
  <1> QED
    BY <1>3, <1>4 DEF Write

\* The rows may change as long as they name categories there are, and the songs
\* with a time of play stay.
LEMMA WriteKeepsType ==
  ASSUME TypeInv, NEW rows, Write(rows), NEW left \in SUBSET Categories,
         rows \in [Items -> [exists : BOOLEAN, active : BOOLEAN,
                             categories : SUBSET left]],
         categories' = left, active' = active,
         played' \subseteq {i \in Items : rows[i].exists},
         newer' \in [Items -> SUBSET played'],
         later' \in [Items -> SUBSET Items],
         call' \in [Admins -> Calls], crossed' \subseteq Categories
  PROVE  TypeInv'
  <1>1. pick' \in Picks /\ SongNamed' /\ item' = rows
    BY WriteKeepsPick
  <1> QED
    BY <1>1 DEF TypeInv, TypeOK, Picks, Calls

\* The admin's edits keep every row typed, and the times of play with their songs.
LEMMA EditKeepsType == ASSUME TypeInv, Edit PROVE TypeInv'
  <1> USE DEF TypeInv, TypeOK
  <1>1. ASSUME NEW i \in Items, Create(i) PROVE TypeInv'
    <2> DEFINE rows == [item EXCEPT ![i] = [exists |-> TRUE, active |-> TRUE,
                                            categories |-> {}]]
    <2>1. rows \in [Items -> [exists : BOOLEAN, active : BOOLEAN,
                              categories : SUBSET categories]]
      OBVIOUS
    <2>2. played \subseteq {j \in Items : rows[j].exists}
      OBVIOUS
    <2>3. later' \in [Items -> SUBSET Items]
      BY <1>1 DEF Create
    <2>4. Write(rows) /\ UNCHANGED <<categories, active, played, newer, call, crossed>>
      BY <1>1 DEF Create
    <2> HIDE DEF rows
    <2> QED
      BY <2>1, <2>2, <2>3, <2>4, WriteKeepsType DEF Calls
  <1>2. ASSUME NEW i \in Items, NEW on \in BOOLEAN, Update(i, on)
        PROVE  TypeInv'
    <2> DEFINE rows == [item EXCEPT ![i].active = on]
    <2>1. rows \in [Items -> [exists : BOOLEAN, active : BOOLEAN,
                              categories : SUBSET categories]]
      OBVIOUS
    <2>2. played \subseteq {j \in Items : rows[j].exists}
      OBVIOUS
    <2>3. /\ Write(rows)
          /\ UNCHANGED <<categories, active, played, newer, later, call, crossed>>
      BY <1>2 DEF Update
    <2> HIDE DEF rows
    <2> QED
      BY <2>1, <2>2, <2>3, WriteKeepsType DEF Calls
  <1>3. ASSUME NEW i \in Items, RemoveItem(i) PROVE TypeInv'
    <2> DEFINE rows == [item EXCEPT ![i] = NoItem]
    <2>1. rows \in [Items -> [exists : BOOLEAN, active : BOOLEAN,
                              categories : SUBSET categories]]
      BY DEF NoItem
    <2>2. played' \subseteq {j \in Items : rows[j].exists}
      BY <1>3 DEF RemoveItem
    <2>3. newer' \in [Items -> SUBSET played']
      <3>1. \A j \in Items : newer[j] \subseteq played
        OBVIOUS
      <3> QED
        BY <1>3, <3>1 DEF RemoveItem
    <2>4. Write(rows) /\ UNCHANGED <<categories, active, later, call, crossed>>
      BY <1>3 DEF RemoveItem
    <2> HIDE DEF rows
    <2> QED
      BY <2>1, <2>2, <2>3, <2>4, WriteKeepsType DEF Calls
  <1>4. ASSUME NEW i \in Items, NEW cs \in SUBSET Categories,
               SetItemCategories(i, cs)
        PROVE  TypeInv'
    <2> DEFINE rows == [item EXCEPT ![i].categories = cs]
    <2>1. rows \in [Items -> [exists : BOOLEAN, active : BOOLEAN,
                              categories : SUBSET categories]]
      BY <1>4 DEF SetItemCategories
    <2>2. played \subseteq {j \in Items : rows[j].exists}
      OBVIOUS
    <2>3. /\ Write(rows)
          /\ UNCHANGED <<categories, active, played, newer, later, call, crossed>>
      BY <1>4 DEF SetItemCategories
    <2> HIDE DEF rows
    <2> QED
      BY <2>1, <2>2, <2>3, WriteKeepsType DEF Calls
  <1>5. ASSUME NEW c \in Categories, CreateCategory(c) PROVE TypeInv'
    <2>1. /\ categories' = categories \cup {c}
          /\ crossed' = crossed \ {c}
          /\ UNCHANGED <<item, active, played, newer, later, call, pick>>
      BY <1>5 DEF CreateCategory
    <2>2. item \in [Items -> [exists : BOOLEAN, active : BOOLEAN,
                              categories : SUBSET categories']]
      BY <2>1
    <2> QED
      BY <2>1, <2>2 DEF SongNamed
  <1>6. CASE Deactivate
    BY <1>6 DEF Deactivate, SongNamed
  <1> QED
    BY <1>1, <1>2, <1>3, <1>4, <1>5, <1>6 DEF Edit

\* A step of an admin's call that changes at most the active category.
LEMMA CallKeepsType ==
  ASSUME TypeInv, UNCHANGED <<item, categories, played, newer, later, pick>>,
         active' \in Categories \cup {None}, call' \in [Admins -> Calls],
         crossed' \subseteq Categories
  PROVE  TypeInv'
  BY DEF TypeInv, TypeOK, SongNamed, Calls

\* A call that starts or goes on stays a call.
LEMMA StepTyped ==
  ASSUME TypeInv, NEW a \in Admins, NEW c \in Categories \cup {None},
         NEW kind \in {"activate", "delete"},
         NEW step \in {"counted", "mustClear", "clear"}, Step(a, c, kind, step)
  PROVE  call' \in [Admins -> Calls] /\ crossed' \subseteq Categories
  <1>1. Crossed(call') \subseteq Categories
    BY DEF Crossed
  <1> QED
    BY <1>1 DEF Step, TypeInv, TypeOK, Calls

\* A call that ends leaves none behind.
LEMMA DoneTyped ==
  ASSUME TypeInv, NEW a \in Admins, Done(a)
  PROVE  call' \in [Admins -> Calls] /\ crossed' \subseteq Categories
  BY DEF Done, NoCall, TypeInv, TypeOK, Calls

\* The calls about categories keep the types.
LEMMA AdministerKeepsType == ASSUME TypeInv, Administer PROVE TypeInv'
  <1>0. active \in Categories \cup {None}
    BY DEF TypeInv, TypeOK
  <1>1. ASSUME NEW a \in Admins, NEW c \in Categories, ActivateRead(a, c)
        PROVE  TypeInv'
    <2>1. /\ Step(a, c, "activate", "counted")
          /\ UNCHANGED <<item, categories, active, played, newer, later, pick>>
      BY <1>1 DEF ActivateRead
    <2> QED
      BY <1>0, <2>1, StepTyped, CallKeepsType
  <1>2. ASSUME NEW a \in Admins, NEW c \in Categories, DeleteRead(a, c)
        PROVE  TypeInv'
    <2> DEFINE step == IF active = c THEN "mustClear" ELSE "clear"
    <2>1. /\ Step(a, c, "delete", step)
          /\ UNCHANGED <<item, categories, active, played, newer, later, pick>>
      BY <1>2 DEF DeleteRead
    <2>2. step \in {"counted", "mustClear", "clear"}
      OBVIOUS
    <2> HIDE DEF step
    <2> QED
      BY <1>0, <2>1, <2>2, StepTyped, CallKeepsType
  <1>3. ASSUME NEW a \in Admins, ActivateWrite(a) PROVE TypeInv'
    <2>1. /\ active' = call[a].category
          /\ Done(a)
          /\ UNCHANGED <<item, categories, played, newer, later, pick>>
      BY <1>3 DEF ActivateWrite
    <2>2. active' \in Categories \cup {None}
      BY <2>1 DEF TypeInv, TypeOK
    <2> QED
      BY <2>1, <2>2, DoneTyped, CallKeepsType
  <1>4. ASSUME NEW a \in Admins, DeleteClear(a) PROVE TypeInv'
    <2>1. /\ active' = None
          /\ Step(a, call[a].category, "delete", "clear")
          /\ UNCHANGED <<item, categories, played, newer, later, pick>>
      BY <1>4 DEF DeleteClear
    <2>2. call[a].category \in Categories \cup {None}
      BY DEF TypeInv, TypeOK
    <2> QED
      BY <2>1, <2>2, StepTyped, CallKeepsType
  <1>5. ASSUME NEW a \in Admins, DeleteCommit(a) PROVE TypeInv'
    <2> DEFINE rows == [i \in Items |->
                          [item[i] EXCEPT !.categories = @ \ {call[a].category}]]
               left == categories \ {call[a].category}
    <2>1. rows \in [Items -> [exists : BOOLEAN, active : BOOLEAN,
                              categories : SUBSET left]]
      BY DEF TypeInv, TypeOK
    <2>2. played \subseteq {j \in Items : rows[j].exists}
      BY DEF TypeInv, TypeOK
    <2>3. /\ Write(rows)
          /\ categories' = left
          /\ Done(a)
          /\ UNCHANGED <<active, played, newer, later>>
      BY <1>5 DEF DeleteCommit
    <2>4. left \in SUBSET Categories
      BY DEF TypeInv, TypeOK
    <2>5. newer \in [Items -> SUBSET played] /\ later \in [Items -> SUBSET Items]
      BY DEF TypeInv, TypeOK
    <2> HIDE DEF rows, left
    <2> QED
      BY <2>1, <2>2, <2>3, <2>4, <2>5, DoneTyped, WriteKeepsType
  <1>6. ASSUME NEW a \in Admins, Fail(a) PROVE TypeInv'
    <2>1. Done(a) /\ UNCHANGED <<item, categories, active, played, newer, later, pick>>
      BY <1>6 DEF Fail
    <2> QED
      BY <1>0, <2>1, DoneTyped, CallKeepsType
  <1> QED
    BY <1>1, <1>2, <1>3, <1>4, <1>5, <1>6 DEF Administer

\* The pick keeps the types: what it plays is a song that exists.
LEMMA PickKeepsType == ASSUME TypeInv, Pick PROVE TypeInv'
  <1>0. /\ pick \in Picks
        /\ \A category : Playable(item, category) \subseteq Items
        /\ \A category : Recent(category) \subseteq Items
    BY DEF TypeInv, TypeOK, Picks, Playable, Recent
  <1>1. ASSUME UNCHANGED <<item, categories, active, played, newer, later, call,
                           crossed>>,
               pick' \in Picks, SongNamed'
        PROVE  TypeInv'
    BY <1>1 DEF TypeInv, TypeOK, Picks
  <1>2. NoPick \in Picks
    BY DEF NoPick, Picks
  <1>3. CASE PickCategory
    <2>1. active \in Categories \cup {None}
      BY DEF TypeInv, TypeOK
    <2> QED
      BY <1>0, <1>1, <1>3, <2>1 DEF PickCategory, NoPick, Picks, SongNamed
  <1>4. CASE PickRecent
    BY <1>0, <1>1, <1>4 DEF PickRecent, Picks, SongNamed
  <1>5. ASSUME NEW pool \in SUBSET Items, Choose(pool)
        PROVE  pick' \in Picks /\ SongNamed'
    BY <1>0, <1>5 DEF Choose, Picks, SongNamed
  <1>6. CASE PickPool
    <2> DEFINE pool == Playable(item, pick.category) \ pick.recent
    <2>1. UNCHANGED <<item, categories, active, played, newer, later, call, crossed>>
      BY <1>6 DEF PickPool
    <2>2. CASE Choose(pool)
      BY <1>0, <1>1, <1>5, <2>1, <2>2
    <2>3. CASE pick' = [pick EXCEPT !.step = "relaxed", !.recent = {}]
      BY <1>0, <1>1, <2>1, <2>3 DEF Picks, SongNamed
    <2> QED
      BY <1>6, <2>2, <2>3 DEF PickPool
  <1>7. CASE PickAny
    <2> DEFINE pool == Playable(item, pick.category)
    <2>1. UNCHANGED <<item, categories, active, played, newer, later, call, crossed>>
      BY <1>7 DEF PickAny
    <2>2. CASE Choose(pool)
      BY <1>0, <1>1, <1>5, <2>1, <2>2
    <2>3. CASE pick' = [pick EXCEPT !.step = "silent"]
      BY <1>0, <1>1, <2>1, <2>3 DEF Picks, SongNamed
    <2> QED
      BY <1>7, <2>2, <2>3 DEF PickAny
  <1>8. CASE Load
    BY <1>0, <1>1, <1>8 DEF Load, Picks, SongNamed, TypeInv
  <1>9. CASE Stamp
    <2>1. pick.song \in Items /\ item[pick.song].exists /\ pick' = NoPick
      BY <1>9 DEF Stamp, TypeInv, SongNamed
    <2>2. /\ UNCHANGED <<item, categories, active, call, crossed>>
          /\ played' = played \cup {pick.song}
      BY <1>9 DEF Stamp
    <2>3. played' \subseteq {i \in Items : item[i].exists}
      BY <2>1, <2>2 DEF TypeInv, TypeOK
    <2>4. newer' \in [Items -> SUBSET played']
      <3>1. \A j \in Items : newer[j] \subseteq played
        BY DEF TypeInv, TypeOK
      <3> QED
        BY <1>9, <2>2, <3>1 DEF Stamp
    <2>5. later' \in [Items -> SUBSET Items]
      BY <1>9, <2>1 DEF Stamp, Turn, TypeInv, TypeOK
    <2> QED
      BY <1>2, <2>1, <2>2, <2>3, <2>4, <2>5
      DEF TypeInv, TypeOK, SongNamed, NoPick, Picks
  <1>10. CASE EndPick
    BY <1>1, <1>2, <1>10 DEF EndPick, SongNamed, NoPick
  <1> QED
    BY <1>3, <1>4, <1>6, <1>7, <1>8, <1>9, <1>10 DEF Pick

\* TypeInv is inductive.
LEMMA TypeNext == TypeInv /\ [Next]_vars => TypeInv'
  <1>1. ASSUME TypeInv, UNCHANGED vars PROVE TypeInv'
    BY <1>1 DEF vars, TypeInv, TypeOK, SongNamed
  <1> QED
    BY <1>1, EditKeepsType, AdministerKeepsType, PickKeepsType DEF Next

\* The rows, the calls and the pick stay well typed, and only songs that exist
\* have a time of play (remove, stampPlayed), for any songs, categories, admins
\* and cooldown.
THEOREM TypeAlways == Spec => []TypeOK
  <1>1. TypeInv => TypeOK
    BY DEF TypeInv
  <1> QED
    BY <1>1, TypeInit, TypeNext, PTL DEF Spec

(***************************************************************************)
(* Repeats.  `newer` is what is left of `later`, the songs played since a  *)
(* song's last turn; what the pick has read bounds it from both sides.     *)
(***************************************************************************)
LaterInv ==
  /\ \A i \in Items : IsFiniteSet(later[i])
  /\ \A i \in played : i \notin later[i] /\ newer[i] = later[i] \cap played

\* What the pick knows of the songs that could be played all along.
PickInv ==
  /\ pick.sure \subseteq pick.seen
  /\ pick # NoPick => Playable(item, pick.category) \subseteq pick.seen
  /\ pick.step = "recent" =>
       /\ \A i \in pick.sure \ pick.recent : ~ PlayedLately(i, pick.seen)
       /\ \A i \in pick.sure \cap pick.recent :
            PlayedLately(i, pick.sure \cap pick.recent)
  /\ pick.step = "relaxed" => \A i \in pick.sure : PlayedLately(i, pick.sure)
  /\ NoEarlyRepeat

RepeatInv == TypeInv /\ SilenceInv /\ LaterInv /\ PickInv

\* Nothing has been played at the start.
LEMMA RepeatInit == Init => LaterInv /\ PickInv
  BY FS_EmptySet DEF Init, NoPick, LaterInv, PickInv, NoEarlyRepeat

\* A smaller finite set of songs has no more members, and the comparison with
\* COOLDOWN follows it.
LEMMA FewerStill ==
  ASSUME NEW S, NEW T, IsFiniteSet(S), T \subseteq S,
         Cardinality(S) < COOLDOWN
  PROVE  Cardinality(T) < COOLDOWN
  <1>1. IsFiniteSet(T) /\ Cardinality(T) <= Cardinality(S)
    BY FS_Subset
  <1>2. Cardinality(S) \in Nat /\ Cardinality(T) \in Nat
    BY <1>1, FS_CardinalityType
  <1> QED
    BY <1>1, <1>2, HouseAssumption

\* Parts of a finite set are finite.
LEMMA FinitePart ==
  ASSUME NEW S, NEW T, IsFiniteSet(S)
  PROVE  IsFiniteSet(S \cap T) /\ IsFiniteSet(S \ T)
  BY FS_Subset, S \cap T \subseteq S, S \ T \subseteq S

(***************************************************************************)
(* An edit of the rows.                                                    *)
(***************************************************************************)
\* A change of the rows during a pick: fewer songs could be played all along,
\* more could at some step, and what has been played since a song's turn loses
\* none of those the pick has seen.
LEMMA WriteKeepsPickInv ==
  ASSUME RepeatInv, NEW rows, Write(rows), 
         played' \subseteq played, later' \in [Items -> SUBSET Items],
         \A i \in played \ played' : ~ rows[i].exists,
         \A i \in pick.sure : /\ later'[i] \subseteq later[i]
                              /\ later[i] \cap pick.seen \subseteq later'[i]
  PROVE  PickInv'
  <1>1. CASE pick = NoPick
    BY <1>1 DEF Write, RepeatInv, PickInv, NoPick, NoEarlyRepeat
  <1>2. CASE pick # NoPick
    <2>1. pick' = [pick EXCEPT
                     !.sure = @ \cap Playable(rows, pick.category),
                     !.seen = @ \cup Playable(rows, pick.category)]
      BY <1>2 DEF Write
    <2>2. /\ pick'.step = pick.step
          /\ pick'.category = pick.category
          /\ pick'.recent = pick.recent
          /\ pick'.song = pick.song
          /\ pick'.sure = pick.sure \cap Playable(rows, pick.category)
          /\ pick'.seen = pick.seen \cup Playable(rows, pick.category)
          /\ item' = rows
      BY <2>1 DEF Write, RepeatInv, TypeInv, TypeOK
    <2>3. pick'.sure \subseteq pick.sure /\ pick.seen \subseteq pick'.seen
      BY <2>2
    <2>4. pick.sure \subseteq Items /\ pick.seen \subseteq Items
      BY DEF RepeatInv, TypeInv, TypeOK
    \* A song that could be played all along and was played keeps its time of play.
    <2>5. \A i \in pick'.sure : i \in played => i \in played'
      BY <2>2 DEF Playable
    <2>6. ASSUME NEW i \in pick.sure, ~ PlayedLately(i, pick.seen)
          PROVE  ~ (PlayedLately(i, pick.seen))'
      <3> SUFFICES ASSUME i \in played', Cardinality(later'[i] \cap pick'.seen) < COOLDOWN
                   PROVE  FALSE
        BY DEF PlayedLately
      <3>1. i \in Items
        BY <2>4
      <3>2. IsFiniteSet(later'[i] \cap pick'.seen)
        BY <3>1, FinitePart, FS_Subset DEF RepeatInv, LaterInv
      <3>3. later[i] \cap pick.seen \subseteq later'[i] \cap pick'.seen
        BY <2>3
      <3> QED
        BY <2>6, <3>2, <3>3, FewerStill DEF PlayedLately
    <2>7. ASSUME NEW S, NEW T, T \subseteq S, NEW i \in pick'.sure, PlayedLately(i, S)
          PROVE  i \in played' /\ Cardinality(later'[i] \cap T) < COOLDOWN
      <3>1. i \in played' /\ i \in Items /\ i \in pick.sure
        BY <2>3, <2>4, <2>5, <2>7 DEF PlayedLately
      <3>2. later'[i] \cap T \subseteq later[i] \cap S
        BY <2>7, <3>1
      <3>3. IsFiniteSet(later[i] \cap S)
        BY <3>1, FinitePart DEF RepeatInv, LaterInv
      <3> QED
        BY <2>7, <3>1, <3>2, <3>3, FewerStill DEF PlayedLately
    <2>8. pick'.sure \subseteq pick'.seen
      BY <2>2, <2>3 DEF RepeatInv, PickInv
    <2>9. Playable(item', pick'.category) \subseteq pick'.seen
      BY <2>2
    <2>10. ASSUME pick'.step = "recent"
           PROVE  /\ \A i \in pick'.sure \ pick'.recent : ~ (PlayedLately(i, pick.seen))'
                  /\ \A i \in pick'.sure \cap pick'.recent :
                       (PlayedLately(i, pick.sure \cap pick.recent))'
      <3>1. \A i \in pick.sure \ pick.recent : ~ PlayedLately(i, pick.seen)
        BY <2>2, <2>10 DEF RepeatInv, PickInv
      <3>2. \A i \in pick'.sure \ pick'.recent : ~ (PlayedLately(i, pick.seen))'
        BY <2>2, <2>3, <2>6, <3>1
      <3>3. \A i \in pick.sure \cap pick.recent :
              PlayedLately(i, pick.sure \cap pick.recent)
        BY <2>2, <2>10 DEF RepeatInv, PickInv
      <3>4. pick'.sure \cap pick'.recent \subseteq pick.sure \cap pick.recent
        BY <2>2
      <3>5. ASSUME NEW i \in pick'.sure \cap pick'.recent
            PROVE  (PlayedLately(i, pick.sure \cap pick.recent))'
        <4>1. PlayedLately(i, pick.sure \cap pick.recent)
          BY <3>3, <3>4
        <4>2. /\ i \in played'
              /\ Cardinality(later'[i] \cap (pick'.sure \cap pick'.recent)) < COOLDOWN
          BY <2>7, <3>4, <4>1
        <4> QED
          BY <4>2 DEF PlayedLately
      <3> QED
        BY <3>2, <3>5
    <2>11. ASSUME pick'.step = "relaxed"
           PROVE  \A i \in pick'.sure : (PlayedLately(i, pick.sure))'
      <3>1. \A i \in pick.sure : PlayedLately(i, pick.sure)
        BY <2>2, <2>11 DEF RepeatInv, PickInv
      <3> QED
        BY <2>3, <2>7, <3>1 DEF PlayedLately
    <2>12. NoEarlyRepeat'
      <3> SUFFICES ASSUME pick'.step \in {"chosen", "loaded"},
                          pick'.song \in pick'.sure,
                          (PlayedLately(pick.song, pick.seen))'
                   PROVE  \A i \in pick'.sure : (PlayedLately(i, pick.sure))'
        BY DEF NoEarlyRepeat
      <3>1. pick.song \in pick.sure /\ pick.step \in {"chosen", "loaded"}
        BY <2>2
      <3>2. PlayedLately(pick.song, pick.seen)
        <4>1. PICK s \in pick.sure : s = pick.song
          BY <3>1
        <4>2. (PlayedLately(s, pick.seen))'
          BY <2>2, <4>1 DEF PlayedLately
        <4> QED
          BY <2>6, <4>1, <4>2
      <3>3. \A i \in pick.sure : PlayedLately(i, pick.sure)
        BY <3>1, <3>2 DEF RepeatInv, PickInv, NoEarlyRepeat
      <3> QED
        BY <2>3, <2>7, <3>3 DEF PlayedLately
    <2> QED
      BY <2>8, <2>9, <2>10, <2>11, <2>12 DEF PickInv
  <1> QED
    BY <1>1, <1>2

\* A step that leaves the rows, the turns and the pick alone.
LEMMA OtherKeepsRepeat ==
  ASSUME RepeatInv, UNCHANGED <<item, played, newer, later, pick>>
  PROVE  (LaterInv /\ PickInv)'
  <1>1. LaterInv'
    BY DEF RepeatInv, LaterInv
  <1>2. PickInv'
    BY DEF RepeatInv, PickInv, Playable, PlayedLately, NoEarlyRepeat
  <1> QED
    BY <1>1, <1>2

\* An edit of the rows that leaves the turns alone.
LEMMA WriteKeepsRepeat ==
  ASSUME RepeatInv, NEW rows, Write(rows), UNCHANGED <<played, newer, later>>
  PROVE  (LaterInv /\ PickInv)'
  <1>1. LaterInv'
    BY DEF RepeatInv, LaterInv
  <1>2. later \in [Items -> SUBSET Items] /\ pick.sure \subseteq Items
    BY DEF RepeatInv, TypeInv, TypeOK
  <1>3. PickInv'
    BY <1>2, WriteKeepsPickInv
  <1> QED
    BY <1>1, <1>3

\* The edits keep it: a song created anew is none the pick has seen, one that is
\* removed is none that could be played all along.
LEMMA EditKeepsRepeat == ASSUME RepeatInv, Edit PROVE (LaterInv /\ PickInv)'
  <1>0. /\ later \in [Items -> SUBSET Items] /\ newer \in [Items -> SUBSET played]
        /\ pick.sure \subseteq Items /\ pick.sure \subseteq pick.seen
        /\ played \subseteq {i \in Items : item[i].exists}
        /\ item \in [Items -> Rows]
        /\ \A i \in Items : IsFiniteSet(later[i])
        /\ \A i \in played : i \notin later[i] /\ newer[i] = later[i] \cap played
    BY DEF RepeatInv, TypeInv, TypeOK, PickInv, LaterInv, SilenceInv, Rows
  <1>1. ASSUME NEW i \in Items, Create(i) PROVE (LaterInv /\ PickInv)'
    <2>1. /\ item[i] = NoItem /\ i \notin pick.seen
          /\ later' = [j \in Items |-> IF j = i THEN {} ELSE later[j] \ {i}]
          /\ played' = played /\ newer' = newer
      BY <1>1 DEF Create
    <2>2. PICK rows : Write(rows)
      BY <1>1 DEF Create
    <2>3. i \notin played
      BY <1>0, <2>1 DEF NoItem
    <2>4. LaterInv'
      <3>1. ASSUME NEW j \in Items PROVE IsFiniteSet(later'[j])
        <4>1. CASE j = i
          BY <2>1, <4>1, FS_EmptySet
        <4>2. CASE j # i
          BY <1>0, <2>1, <4>2, FinitePart
        <4> QED
          BY <4>1, <4>2
      <3>2. \A j \in played' : j \notin later'[j] /\ newer'[j] = later'[j] \cap played'
        BY <1>0, <2>1, <2>3
      <3> QED
        BY <3>1, <3>2 DEF LaterInv
    <2>5. later' \in [Items -> SUBSET Items]
      BY <1>0, <2>1
    <2>6. \A j \in pick.sure : /\ later'[j] \subseteq later[j]
                               /\ later[j] \cap pick.seen \subseteq later'[j]
      BY <1>0, <2>1
    <2>7. PickInv'
      BY <2>1, <2>2, <2>5, <2>6, WriteKeepsPickInv
    <2> QED
      BY <2>4, <2>7
  <1>2. ASSUME NEW i \in Items, NEW on \in BOOLEAN, Update(i, on)
        PROVE  (LaterInv /\ PickInv)'
    <2>1. PICK rows : Write(rows)
      BY <1>2 DEF Update
    <2> QED
      BY <1>2, <2>1, WriteKeepsRepeat DEF Update
  <1>3. ASSUME NEW i \in Items, RemoveItem(i) PROVE (LaterInv /\ PickInv)'
    <2> DEFINE rows == [item EXCEPT ![i] = NoItem]
    <2>1. /\ Write(rows)
          /\ played' = played \ {i}
          /\ newer' = [j \in Items |-> IF j = i THEN {} ELSE newer[j] \ {i}]
          /\ later' = later
      BY <1>3 DEF RemoveItem
    <2>2. ~ rows[i].exists
      BY <1>0 DEF NoItem
    <2>3. LaterInv'
      <3>1. \A j \in played' : j \notin later'[j] /\ newer'[j] = later'[j] \cap played'
        BY <1>0, <2>1
      <3> QED
        BY <1>0, <2>1, <3>1 DEF LaterInv
    <2>4. \A j \in played \ played' : ~ rows[j].exists
      BY <2>1, <2>2
    <2> HIDE DEF rows
    <2>5. PickInv'
      BY <1>0, <2>1, <2>4, WriteKeepsPickInv
    <2> QED
      BY <2>3, <2>5
  <1>4. ASSUME NEW i \in Items, NEW cs \in SUBSET Categories,
               SetItemCategories(i, cs)
        PROVE  (LaterInv /\ PickInv)'
    <2>1. PICK rows : Write(rows)
      BY <1>4 DEF SetItemCategories
    <2> QED
      BY <1>4, <2>1, WriteKeepsRepeat DEF SetItemCategories
  <1>5. ASSUME NEW c \in Categories, CreateCategory(c) PROVE (LaterInv /\ PickInv)'
    BY <1>5, OtherKeepsRepeat DEF CreateCategory
  <1>6. CASE Deactivate
    BY <1>6, OtherKeepsRepeat DEF Deactivate
  <1> QED
    BY <1>1, <1>2, <1>3, <1>4, <1>5, <1>6 DEF Edit

\* The calls about categories keep it: a deletion takes songs from the pick only.
LEMMA AdministerKeepsRepeat ==
  ASSUME RepeatInv, Administer PROVE (LaterInv /\ PickInv)'
  <1> SUFFICES ASSUME NEW a \in Admins,
                      \/ \E c \in Categories : ActivateRead(a, c) \/ DeleteRead(a, c)
                      \/ ActivateWrite(a)
                      \/ DeleteClear(a)
                      \/ DeleteCommit(a)
                      \/ Fail(a)
               PROVE  (LaterInv /\ PickInv)'
    BY DEF Administer
  <1>1. CASE DeleteCommit(a)
    <2>1. PICK rows : Write(rows)
      BY <1>1 DEF DeleteCommit
    <2> QED
      BY <1>1, <2>1, WriteKeepsRepeat DEF DeleteCommit
  <1>2. CASE ~ DeleteCommit(a)
    BY <1>2, OtherKeepsRepeat
    DEF ActivateRead, DeleteRead, ActivateWrite, DeleteClear, Fail
  <1> QED
    BY <1>1, <1>2

(***************************************************************************)
(* The pick.                                                               *)
(***************************************************************************)
\* Outside a pick there is nothing to show.
LEMMA NoPickInv ==
  ASSUME pick' = NoPick PROVE PickInv'
  BY DEF NoPick, PickInv, NoEarlyRepeat

\* The pick keeps it, statement by statement: what it read of the last songs bounds
\* its choice, and the turn it gives brings `newer` and `later` forward together.
LEMMA PickKeepsRepeat == ASSUME RepeatInv, Pick PROVE (LaterInv /\ PickInv)'
  <1>0. /\ later \in [Items -> SUBSET Items] /\ newer \in [Items -> SUBSET played]
        /\ pick \in Picks /\ played \subseteq Items
        /\ \A i \in Items : IsFiniteSet(later[i])
        /\ \A i \in played : i \notin later[i] /\ newer[i] = later[i] \cap played
        /\ pick.sure \subseteq pick.seen
    BY DEF RepeatInv, TypeInv, TypeOK, PickInv, LaterInv, Picks
  <1>1. pick.step # "idle" =>
          /\ pick # NoPick
          /\ pick.sure \subseteq Playable(item, pick.category)
          /\ Playable(item, pick.category) \subseteq pick.seen
    BY DEF NoPick, RepeatInv, SilenceInv, PickInv
  <1>2. ASSUME UNCHANGED <<played, newer, later>> PROVE LaterInv'
    BY <1>0, <1>2 DEF LaterInv
  <1>3. CASE PickCategory
    <2>1. /\ UNCHANGED <<item, played, newer, later>>
          /\ pick'.step = "category" /\ pick'.category = active
          /\ pick'.sure = Playable(item, active)
          /\ pick'.seen = Playable(item, active)
      BY <1>3 DEF PickCategory, NoPick
    <2>2. Playable(item, active) = Playable(item', pick'.category)
      BY <2>1
    <2>3. PickInv'
      BY <2>1, <2>2 DEF PickInv, NoEarlyRepeat
    <2> QED
      BY <1>2, <2>1, <2>3
  <1>4. CASE PickRecent
    <2> DEFINE recent == Recent(pick.category)
               eligible == played \cap Playable(item, pick.category)
    <2>1. /\ pick.step = "category"
          /\ pick' = [pick EXCEPT !.step = "recent", !.recent = recent]
          /\ UNCHANGED <<item, played, newer, later>>
      BY <1>4 DEF PickRecent
    <2>2. /\ pick'.step = "recent" /\ pick'.category = pick.category
          /\ pick'.recent = recent
          /\ pick'.sure = pick.sure /\ pick'.seen = pick.seen
      BY <1>0, <2>1 DEF Picks
    <2>3. /\ pick.sure \subseteq Playable(item, pick.category)
          /\ Playable(item, pick.category) \subseteq pick.seen
          /\ pick' # NoPick
      BY <1>1, <2>1, <2>2 DEF NoPick
    <2>4. recent = {i \in eligible : Cardinality(newer[i] \cap eligible) < COOLDOWN}
      BY DEF Recent
    <2> HIDE DEF recent
    <2>5. ASSUME NEW i \in pick.sure \ recent PROVE ~ PlayedLately(i, pick.seen)
      <3> SUFFICES ASSUME i \in played, Cardinality(later[i] \cap pick.seen) < COOLDOWN
                   PROVE  FALSE
        BY DEF PlayedLately
      <3>1. i \in eligible /\ ~ (Cardinality(newer[i] \cap eligible) < COOLDOWN)
        BY <2>3, <2>4, <2>5
      <3>2. newer[i] \cap eligible \subseteq later[i] \cap pick.seen
        BY <1>0, <2>3
      <3>3. IsFiniteSet(later[i] \cap pick.seen)
        BY <1>0, FinitePart
      <3> QED
        BY <3>1, <3>2, <3>3, FewerStill
    <2>6. ASSUME NEW i \in pick.sure \cap recent
          PROVE  PlayedLately(i, pick.sure \cap recent)
      <3>1. i \in eligible /\ Cardinality(newer[i] \cap eligible) < COOLDOWN
        BY <2>4, <2>6
      <3>2. later[i] \cap (pick.sure \cap recent) \subseteq newer[i] \cap eligible
        BY <1>0, <2>4, <3>1
      <3>3. IsFiniteSet(newer[i] \cap eligible)
        BY <1>0, <3>1, FinitePart
      <3> QED
        BY <3>1, <3>2, <3>3, FewerStill DEF PlayedLately
    <2>7. pick'.sure \subseteq pick'.seen
      BY <1>0, <2>2
    <2>8. Playable(item', pick'.category) \subseteq pick'.seen
      BY <2>1, <2>2, <2>3
    <2>9. /\ \A i \in pick'.sure \ pick'.recent : ~ (PlayedLately(i, pick.seen))'
          /\ \A i \in pick'.sure \cap pick'.recent :
               (PlayedLately(i, pick.sure \cap pick.recent))'
      BY <2>1, <2>2, <2>5, <2>6 DEF PlayedLately
    <2>10. PickInv'
      BY <2>2, <2>7, <2>8, <2>9 DEF PickInv, NoEarlyRepeat
    <2> QED
      BY <1>2, <2>1, <2>10
  \* The choice: a song that was not played lately, or any when all were.
  <1>5. ASSUME NEW pool \in SUBSET Items, Choose(pool), pick.step # "idle",
               UNCHANGED <<item, played, newer, later>>,
               \/ \A i \in pick.sure \cap pool : ~ PlayedLately(i, pick.seen)
               \/ \A i \in pick.sure : PlayedLately(i, pick.sure)
        PROVE  PickInv'
    <2>1. PICK song \in pool : pick' = [pick EXCEPT !.step = "chosen",
                                                    !.song = song, !.recent = {}]
      BY <1>5 DEF Choose
    <2>2. /\ pick'.step = "chosen" /\ pick'.song = song
          /\ pick'.category = pick.category
          /\ pick'.sure = pick.sure /\ pick'.seen = pick.seen
      BY <1>0, <2>1 DEF Picks
    <2>3. Playable(item', pick'.category) \subseteq pick'.seen
      BY <1>1, <1>5, <2>2
    <2>4. NoEarlyRepeat'
      BY <1>5, <2>2 DEF NoEarlyRepeat, PlayedLately
    <2> QED
      BY <1>0, <2>2, <2>3, <2>4 DEF PickInv
  \* A step that does not choose.
  <1>6. ASSUME UNCHANGED <<item, played, newer, later>>, pick.step # "idle",
               NEW step \in {"relaxed", "silent"}, pick'.step = step,
               pick'.category = pick.category,
               pick'.sure = pick.sure, pick'.seen = pick.seen,
               step = "relaxed" => \A i \in pick.sure : PlayedLately(i, pick.sure)
        PROVE  PickInv'
    <2>1. Playable(item', pick'.category) \subseteq pick'.seen
      BY <1>1, <1>6
    <2>2. pick'.step = "relaxed" => \A i \in pick'.sure : (PlayedLately(i, pick.sure))'
      BY <1>6 DEF PlayedLately
    <2> QED
      BY <1>0, <1>6, <2>1, <2>2 DEF PickInv, NoEarlyRepeat
  <1>7. CASE PickPool
    <2> DEFINE pool == Playable(item, pick.category) \ pick.recent
    <2>1. pick.step = "recent" /\ UNCHANGED <<item, played, newer, later>>
      BY <1>7 DEF PickPool
    <2>2. /\ \A i \in pick.sure \ pick.recent : ~ PlayedLately(i, pick.seen)
          /\ \A i \in pick.sure \cap pick.recent :
               PlayedLately(i, pick.sure \cap pick.recent)
      BY <2>1 DEF RepeatInv, PickInv
    <2>3. CASE Choose(pool)
      <3>1. pool \in SUBSET Items
        BY DEF Playable
      <3>2. \A i \in pick.sure \cap pool : ~ PlayedLately(i, pick.seen)
        BY <2>2
      <3> HIDE DEF pool
      <3>3. PickInv'
        BY <1>5, <2>1, <2>3, <3>1, <3>2
      <3> QED
        BY <1>2, <2>1, <3>3
    <2>4. CASE pool = {} /\ pick' = [pick EXCEPT !.step = "relaxed", !.recent = {}]
      <3>1. /\ pick'.step = "relaxed" /\ pick'.category = pick.category
            /\ pick'.sure = pick.sure /\ pick'.seen = pick.seen
        BY <1>0, <2>4 DEF Picks
      <3>2. pick.sure \cap pick.recent = pick.sure
        BY <1>1, <2>1, <2>4
      <3>3. \A i \in pick.sure : PlayedLately(i, pick.sure)
        BY <2>2, <3>2
      <3>4. PickInv'
        BY <1>6, <2>1, <3>1, <3>3
      <3> QED
        BY <1>2, <2>1, <3>4
    <2> QED
      BY <1>7, <2>3, <2>4 DEF PickPool
  <1>8. CASE PickAny
    <2> DEFINE pool == Playable(item, pick.category)
    <2>1. pick.step = "relaxed" /\ UNCHANGED <<item, played, newer, later>>
      BY <1>8 DEF PickAny
    <2>2. \A i \in pick.sure : PlayedLately(i, pick.sure)
      BY <2>1 DEF RepeatInv, PickInv
    <2>3. CASE Choose(pool)
      <3>1. pool \in SUBSET Items
        BY DEF Playable
      <3> HIDE DEF pool
      <3>2. PickInv'
        BY <1>5, <2>1, <2>2, <2>3, <3>1
      <3> QED
        BY <1>2, <2>1, <3>2
    <2>4. CASE pick' = [pick EXCEPT !.step = "silent"]
      <3>1. /\ pick'.step = "silent" /\ pick'.category = pick.category
            /\ pick'.sure = pick.sure /\ pick'.seen = pick.seen
        BY <1>0, <2>4 DEF Picks
      <3>2. PickInv'
        BY <1>6, <2>1, <3>1
      <3> QED
        BY <1>2, <2>1, <3>2
    <2> QED
      BY <1>8, <2>3, <2>4 DEF PickAny
  <1>9. CASE Load
    <2>1. pick.step = "chosen" /\ UNCHANGED <<item, played, newer, later>>
      BY <1>9 DEF Load
    <2>2. /\ pick'.step \in {"loaded", "silent"} /\ pick'.song = pick.song
          /\ pick'.category = pick.category
          /\ pick'.sure = pick.sure /\ pick'.seen = pick.seen
      BY <1>0, <1>9 DEF Load, Picks
    <2>3. Playable(item', pick'.category) \subseteq pick'.seen
      BY <1>1, <2>1, <2>2
    <2>4. NoEarlyRepeat
      BY DEF RepeatInv, PickInv
    <2>5. NoEarlyRepeat'
      BY <2>1, <2>2, <2>4 DEF NoEarlyRepeat, PlayedLately
    <2>6. PickInv'
      BY <1>0, <2>2, <2>3, <2>5 DEF PickInv
    <2> QED
      BY <1>2, <2>1, <2>6
  <1>10. CASE Stamp
    <2>1. PICK song \in Items : song = pick.song
      BY <1>10 DEF Stamp, RepeatInv, TypeInv, SongNamed
    <2>2. /\ pick' = NoPick
          /\ played' = played \cup {song}
          /\ newer' = [j \in Items |-> IF j = song THEN {}
                                       ELSE IF j \in played THEN newer[j] \cup {song}
                                       ELSE {}]
          /\ later' = [j \in Items |-> IF j = song THEN {}
                                       ELSE IF j \in played THEN later[j] \cup {song}
                                       ELSE {}]
      BY <1>10, <2>1 DEF Stamp, Turn
    <2>3. ASSUME NEW j \in Items PROVE IsFiniteSet(later'[j])
      <3>1. CASE j # song /\ j \in played
        BY <1>0, <2>2, <3>1, FS_AddElement
      <3>2. CASE j = song \/ j \notin played
        BY <2>2, <3>2, FS_EmptySet
      <3> QED
        BY <3>1, <3>2
    <2>4. ASSUME NEW j \in played'
          PROVE  j \notin later'[j] /\ newer'[j] = later'[j] \cap played'
      <3>1. CASE j = song
        BY <2>2, <3>1
      <3>2. CASE j # song
        <4>1. /\ j \in played /\ j \in Items
              /\ newer'[j] = newer[j] \cup {song} /\ later'[j] = later[j] \cup {song}
          BY <1>0, <2>2, <2>4, <3>2
        <4>2. newer[j] = later[j] \cap played /\ j \notin later[j]
          BY <1>0, <4>1
        <4> QED
          BY <2>2, <3>2, <4>1, <4>2
      <3> QED
        BY <3>1, <3>2
    <2>5. LaterInv'
      BY <2>3, <2>4 DEF LaterInv
    <2> QED
      BY <2>2, <2>5, NoPickInv
  <1>11. CASE EndPick
    BY <1>2, <1>11, NoPickInv DEF EndPick
  <1> QED
    BY <1>3, <1>4, <1>7, <1>8, <1>9, <1>10, <1>11 DEF Pick

\* RepeatInv is inductive.
LEMMA RepeatNext == RepeatInv /\ [Next]_vars => RepeatInv'
  <1>1. TypeInv /\ [Next]_vars => TypeInv'
    BY TypeNext
  <1>2. SilenceInv /\ [Next]_vars => SilenceInv'
    BY EditKeepsSilence, AdministerKeepsSilence, PickKeepsSilence,
       OtherKeepsSilence DEF Next, vars
  <1>3. RepeatInv /\ [Next]_vars => (LaterInv /\ PickInv)'
    BY EditKeepsRepeat, AdministerKeepsRepeat, PickKeepsRepeat, OtherKeepsRepeat
    DEF Next, vars
  <1> QED
    BY <1>1, <1>2, <1>3 DEF RepeatInv

\* A song of the last COOLDOWN comes again only if every song that could be
\* played all through the pick is one of them (pickNextHouseSong, stampPlayed),
\* for any songs, categories, admins and cooldown.
THEOREM NeverTooSoon == Spec => []NoEarlyRepeat
  <1>1. Init => RepeatInv
    BY TypeInit, SilenceInit, RepeatInit DEF RepeatInv
  <1>2. RepeatInv => NoEarlyRepeat
    BY DEF RepeatInv, PickInv
  <1> QED
    BY <1>1, <1>2, RepeatNext, PTL DEF Spec

============================================================================

------------------------------- MODULE Phone --------------------------------
(***************************************************************************)
(* The customer's page (/mesa/[id]) and what keeps it in the visit of its  *)
(* table: its calls, the events of RealtimeGateway, the rooms, and the     *)
(* reconnections of useSocket.  One phone at one table.                    *)
(*                                                                         *)
(* A handler of the page and the render and effects it causes are one      *)
(* step.  Events and packets keep their order; calls overtake them and     *)
(* each other.  What the page shows of its visit is left out, and so is a  *)
(* hydration the server serves.  Tokens do not expire.                     *)
(***************************************************************************)
EXTENDS Integers, Sequences, SequencesExt

CONSTANTS
  MaxVisits,    \* bound on the visits of the table
  MaxUpdates,   \* bound on the news of its table the phone hears otherwise
  MaxTroubles   \* bound on lost connections, reloads and failed calls

ASSUME PhoneAssumption == {MaxVisits, MaxUpdates, MaxTroubles} \subseteq Nat

VARIABLES
  visit,     \* the last visit of the table; 0: none yet
  open,      \* whether it is open
  ended,     \* visits closed, and not announced yet
  updates,   \* how much other news there has been
  conn,      \* the phone's connection: dropped, opening, accepted or up
  auth,      \* the visit of the token it was opened with; 0: none
  inRoom,    \* whether the server has it in that visit's room
  toServer,  \* packets from the phone
  toPhone,   \* events sent to the phone
  token,     \* the visit of its session_token; 0: none
  shown,     \* the visit the page shows; 0: the entry view
  invalid,   \* whether the "scan again" card is up
  calls,     \* the calls of the page
  troubles,  \* how many there have been
  unheard    \* history: visits whose end passed the page by, and of which it
             \* has not asked since

table == <<visit, open, ended, updates>>
socket == <<conn, auth, inRoom, toServer>>
page == <<token, shown, invalid>>
vars == <<table, socket, toPhone, page, calls, troubles, unheard>>

Current == IF open THEN visit ELSE 0     \* getCurrentForTable

\* A load, a current or an open is asked, then answered; a hydration that is
\* denied is asked, refreshed, and asked again.
Call(kind, v) == [kind |-> kind, visit |-> v, stage |-> "asked", answer |-> 0]
Answered(c, stage, v) == [c EXCEPT !.stage = stage, !.answer = v]
Hydrations == {"effect", "reconnect"}

Init ==
  /\ visit = 0 /\ open = FALSE /\ ended = {} /\ updates = 0
  /\ conn = "opening" /\ auth = 0 /\ inRoom = FALSE
  /\ toServer = <<>> /\ toPhone = <<>>
  /\ token = 0 /\ shown = 0 /\ invalid = FALSE
  /\ calls = {Call("load", 0)}
  /\ troubles = 0
  /\ unheard = {}

(***************************************************************************)
(* The server: a change is committed, then announced.                      *)
(***************************************************************************)
Event(kind, v) == [kind |-> kind, visit |-> v]

Listens == conn \in {"accepted", "up"}
Hears(v) == Listens /\ auth = v /\ inRoom

\* emitTableUpdated, to everybody.
Broadcast(queue) == IF Listens THEN Append(queue, Event("table", 0)) ELSE queue

Begin ==         \* openOrGetCurrent makes a visit
  /\ ~ open
  /\ visit < MaxVisits
  /\ visit' = visit + 1
  /\ open' = TRUE
  /\ toPhone' = Broadcast(toPhone)
  /\ UNCHANGED <<ended, updates>>

OpenVisit ==     \* by the staff or by another phone
  /\ Begin
  /\ UNCHANGED <<socket, page, calls, troubles, unheard>>

UpdateTable ==   \* an order, a request, a bill entry
  /\ open
  /\ updates < MaxUpdates
  /\ updates' = updates + 1
  /\ toPhone' = Broadcast(toPhone)
  /\ UNCHANGED <<visit, open, ended, socket, page, calls, troubles, unheard>>

CloseVisit ==    \* close, markPaid, voidSession
  /\ open
  /\ open' = FALSE
  /\ ended' = ended \cup {visit}
  /\ UNCHANGED <<visit, updates, socket, toPhone, page, calls, troubles,
                 unheard>>

\* emitTableSessionClosed, to the room, then the snapshot of the table.
AnnounceClosed(v) ==
  /\ v \in ended
  /\ ended' = ended \ {v}
  /\ toPhone' = Broadcast(IF Hears(v) THEN Append(toPhone, Event("closed", v))
                                      ELSE toPhone)
  /\ unheard' = IF Hears(v) THEN unheard ELSE unheard \cup {v}
  /\ UNCHANGED <<visit, open, updates, socket, page, calls, troubles>>

(***************************************************************************)
(* The gateway.                                                            *)
(***************************************************************************)
\* afterInit and handleConnection: the token decides the room.
Accept ==
  /\ conn = "opening"
  /\ conn' = "accepted"
  /\ auth' = token
  /\ inRoom' = (token # 0)
  /\ toPhone' = <<Event("connect", 0)>>
  /\ UNCHANGED <<table, toServer, page, calls, troubles, unheard>>

\* handleTableSessionJoin and handleTableSessionLeave.
HandlePacket ==
  /\ conn = "up"
  /\ toServer # <<>>
  /\ LET p == Head(toServer) IN
       inRoom' = IF p.visit # auth THEN inRoom ELSE p.kind = "join"
  /\ toServer' = Tail(toServer)
  /\ UNCHANGED <<table, conn, auth, toPhone, page, calls, troubles, unheard>>

(***************************************************************************)
(* What the page does with its socket when its visit changes.              *)
(***************************************************************************)
Packet(kind, v) == IF v = 0 THEN <<>> ELSE <<[kind |-> kind, visit |-> v]>>

\* The effect of useSocket: leave the room, join the (new) one.  Twice the same
\* in a row is kept once.
Rerun(v) == Packet("leave", shown) \o Packet("join", v)
Send(packets) ==
  IF IsSuffix(packets, toServer) THEN toServer ELSE toServer \o packets

SameSocket(packets) ==
  /\ toServer' = Send(packets)
  /\ UNCHANGED <<conn, auth, inRoom>>

\* reconnectSocketWithFreshAuth: what was on the way is lost, and so is the
\* "reconnect" of a reconnection that was under way.
FreshSocket(packets) ==
  /\ conn' = "opening"
  /\ auth' = 0
  /\ inRoom' = FALSE
  /\ toPhone' = <<>>
  /\ toServer' = IF conn = "up" THEN packets ELSE Send(packets)

EndsOnTheWay == {e.visit : e \in {e \in ToSet(toPhone) : e.kind = "closed"}}

(***************************************************************************)
(* The page: the first load, and "Iniciar mesa".                           *)
(***************************************************************************)
\* An answer that is still to be applied may undo what the page has heard.
StillToApply == {c.answer : c \in {c \in calls : c.stage = "answered"}}

AnswerCurrent(c) ==    \* for the load and after a reconnection
  /\ c.kind \in {"load", "current"}
  /\ c.stage = "asked"
  /\ calls' = (calls \ {c}) \cup {Answered(c, "answered", Current)}
  /\ unheard' = unheard \cap StillToApply
  /\ UNCHANGED <<table, socket, toPhone, page, troubles>>

\* Without the token of the current visit the page stays at its entry view.
ApplyLoad(c) ==
  LET v == IF c.answer # 0 /\ token # c.answer THEN 0 ELSE c.answer IN
  /\ c.kind = "load"
  /\ c.stage = "answered"
  /\ token' = IF v # c.answer THEN 0 ELSE token
  /\ shown' = v
  /\ calls' = calls \ {c}
  /\ IF v = c.answer /\ token # 0
       THEN /\ FreshSocket(Rerun(v))
            /\ unheard' = unheard \cup EndsOnTheWay
       ELSE /\ SameSocket(Rerun(v))
            /\ UNCHANGED <<toPhone, unheard>>
  /\ UNCHANGED <<table, invalid, troubles>>

StartSession ==
  /\ shown = 0
  /\ ~ invalid
  /\ ~ \E c \in calls : c.kind \in {"load", "open"}
  /\ open \/ visit < MaxVisits
  /\ calls' = calls \cup {Call("open", 0)}
  /\ UNCHANGED <<table, socket, toPhone, page, troubles, unheard>>

\* open() joins the session of the table or makes one.
AnswerOpen(c) ==
  /\ c.kind = "open"
  /\ c.stage = "asked"
  /\ \/ /\ open
        /\ calls' = (calls \ {c}) \cup {Answered(c, "answered", visit)}
        /\ UNCHANGED <<table, toPhone>>
     \/ /\ Begin
        /\ calls' = (calls \ {c}) \cup {Answered(c, "answered", visit + 1)}
     \/ /\ ~ open             \* refused, here by the bound
        /\ visit = MaxVisits
        /\ calls' = calls \ {c}
        /\ UNCHANGED <<table, toPhone>>
  /\ UNCHANGED <<socket, page, troubles, unheard>>

ApplyOpen_OldSocket(c) ==
  LET v == c.answer IN
  /\ c.kind = "open"
  /\ c.stage = "answered"
  /\ token' = v
  /\ shown' = v
  /\ calls' = calls \ {c}
  /\ SameSocket(Rerun(v))
  /\ UNCHANGED <<table, toPhone, invalid, troubles, unheard>>

ApplyOpen(c) ==
  LET v == c.answer IN
  /\ c.kind = "open"
  /\ c.stage = "answered"
  /\ token' = v
  /\ shown' = v
  /\ calls' = calls \ {c}
  /\ FreshSocket(Rerun(v))
  /\ unheard' = unheard \cup EndsOnTheWay
  /\ UNCHANGED <<table, invalid, troubles>>

(***************************************************************************)
(* The page: after a reconnection, handleSocketReconnect and the effect    *)
(* both hydrate the visit.  SessionAccessGuard lets a token read its own   *)
(* visit only; the interceptor then asks for a token of the visit that is  *)
(* open now, one request for all that wait, and sends the calls again.     *)
(***************************************************************************)
Denied(v) ==
  IF v \in {0, token} THEN {}
  ELSE {Call("reconnect", v)} \cup IF v = shown THEN {} ELSE {Call("effect", v)}

ApplyCurrent_KeepsOld(c) ==
  LET v == c.answer IN
  /\ c.kind = "current"
  /\ c.stage = "answered"
  /\ token' = token
  /\ shown' = IF v = 0 THEN shown ELSE v
  /\ calls' = (calls \ {c}) \cup Denied(v)
  /\ SameSocket(Rerun(v))
  /\ UNCHANGED <<table, toPhone, invalid, troubles, unheard>>

ApplyCurrent(c) ==
  LET v == c.answer IN
  /\ c.kind = "current"
  /\ c.stage = "answered"
  /\ token' = IF v = 0 THEN 0 ELSE token
  /\ shown' = v
  /\ calls' = (calls \ {c}) \cup Denied(v)
  /\ SameSocket(Rerun(v))
  /\ UNCHANGED <<table, toPhone, invalid, troubles, unheard>>

Waiting == {c \in calls : c.kind \in Hydrations /\ c.stage = "asked"}
Refreshed == {c \in calls : c.stage = "refreshed"}

AnswerRefresh ==     \* refreshSessionToken
  /\ Refreshed = {}
  /\ \E cs \in SUBSET Waiting \ {{}} :
       calls' = (calls \ cs) \cup {Answered(c, "refreshed", Current) : c \in cs}
  /\ UNCHANGED <<table, socket, toPhone, page, troubles, unheard>>

\* What the new token may read is served.
Replay_Always ==
  \E v \in {c.answer : c \in Refreshed} \ {0} :
    /\ token' = v
    /\ calls' = (calls \ Refreshed)
         \cup {Call(c.kind, c.visit) : c \in {c \in Refreshed : c.visit # v}}
    /\ FreshSocket(<<>>)
    /\ unheard' = unheard \cup EndsOnTheWay
    /\ UNCHANGED <<table, shown, invalid, troubles>>

Replay ==
  \E v \in {c.answer : c \in Refreshed} \ {0} :
    /\ token' = v
    /\ calls' = (calls \ Refreshed)
         \cup {Answered(c, "again", v) : c \in {c \in Refreshed : c.visit # v}}
    /\ FreshSocket(<<>>)
    /\ unheard' = unheard \cup EndsOnTheWay
    /\ UNCHANGED <<table, shown, invalid, troubles>>

\* Denied for good: the card, and the effect gives up the token; after a
\* reconnection a second denial is only logged.
GiveUp(c) ==
  LET gone == c.stage = "refreshed" /\ c.answer = 0 IN
  /\ gone \/ c.stage = "again"
  /\ invalid' = (invalid \/ gone \/ c.kind = "effect")
  /\ token' = IF c.kind = "effect" THEN 0 ELSE token
  /\ calls' = calls \ {c}
  /\ UNCHANGED <<table, socket, toPhone, shown, troubles, unheard>>

(***************************************************************************)
(* The page: events.                                                       *)
(***************************************************************************)
NextEvent(kind) ==
  /\ toPhone # <<>>
  /\ Head(toPhone).kind = kind
  /\ toPhone' = Tail(toPhone)

HandleConnect ==     \* joinRooms
  /\ NextEvent("connect")
  /\ conn' = "up"
  /\ toServer' = toServer \o Packet("join", shown)
  /\ UNCHANGED <<table, auth, inRoom, page, calls, troubles, unheard>>

\* handleTableUpdated is rebuilt by the table it sets, and the effect of
\* useSocket with it.
HandleTable ==
  /\ NextEvent("table")
  /\ SameSocket(Rerun(shown))
  /\ UNCHANGED <<table, page, calls, troubles, unheard>>

HandleClosed ==      \* handleSessionClosed, clearMesaSessionState
  /\ NextEvent("closed")
  /\ IF Head(toPhone).visit = shown
       THEN /\ token' = 0
            /\ shown' = 0
            /\ SameSocket(Rerun(0))
            /\ unheard' = unheard \cup (StillToApply \cap {Head(toPhone).visit})
       ELSE /\ unheard' = unheard \cup {Head(toPhone).visit}
            /\ UNCHANGED <<token, shown, socket>>
  /\ UNCHANGED <<table, invalid, calls, troubles>>

(***************************************************************************)
(* Troubles.                                                               *)
(***************************************************************************)
Trouble == troubles < MaxTroubles /\ troubles' = troubles + 1

Drop ==
  /\ Trouble
  /\ Listens
  /\ conn' = "dropped"
  /\ auth' = 0
  /\ inRoom' = FALSE
  /\ toServer' = <<>>
  /\ toPhone' = <<>>
  /\ unheard' = unheard \cup EndsOnTheWay
  /\ UNCHANGED <<table, page, calls>>

\* The transport is back: handleSocketReconnect does not wait for the handshake.
Reopen ==
  /\ conn = "dropped"
  /\ conn' = "opening"
  /\ calls' = calls \cup {Call("current", 0)}
  /\ UNCHANGED <<table, auth, inRoom, toServer, toPhone, page, troubles, unheard>>

\* A call fails: logged, except that a failed load shows the entry view and a
\* failed refresh the card.
FailCall(c) ==
  /\ Trouble
  /\ c.stage = "asked"
  /\ \/ calls' = calls \ {c}
     \/ c \in Waiting /\ calls' = (calls \ {c}) \cup {Answered(c, "refreshed", 0)}
  /\ UNCHANGED <<table, socket, toPhone, page, unheard>>

Reload ==
  /\ Trouble
  /\ conn' = "opening" /\ auth' = 0 /\ inRoom' = FALSE
  /\ toServer' = <<>> /\ toPhone' = <<>>
  /\ shown' = 0 /\ invalid' = FALSE
  /\ calls' = {Call("load", 0)}
  /\ UNCHANGED <<table, token, unheard>>

(***************************************************************************)
(* The whole.                                                              *)
(***************************************************************************)
Announce == \E v \in ended : AnnounceClosed(v)
Gateway == Accept \/ HandlePacket
Answer == AnswerRefresh \/ \E c \in calls : AnswerCurrent(c) \/ AnswerOpen(c)
Apply ==
  Replay \/ \E c \in calls : \/ ApplyLoad(c)
                             \/ ApplyOpen(c)
                             \/ ApplyCurrent(c)
                             \/ GiveUp(c)
Handle == HandleConnect \/ HandleTable \/ HandleClosed

Next ==
  \/ OpenVisit
  \/ UpdateTable
  \/ CloseVisit
  \/ StartSession
  \/ Announce
  \/ Gateway
  \/ Answer
  \/ Apply
  \/ Handle
  \/ Drop
  \/ Reopen
  \/ Reload
  \/ \E c \in calls : FailCall(c)

Spec == Init /\ [][Next]_vars

\* The server and the network carry on, and the page handles what reaches it.
Fairness ==
  /\ WF_vars(Announce) /\ WF_vars(Gateway) /\ WF_vars(Answer)
  /\ WF_vars(Apply) /\ WF_vars(Handle) /\ WF_vars(Reopen)
FairSpec == Spec /\ Fairness

(***************************************************************************)
(* Properties.                                                             *)
(***************************************************************************)
Numbers == 0 .. MaxVisits
Packets == [kind : {"leave", "join"}, visit : Numbers]
Events == [kind : {"connect", "table", "closed"}, visit : Numbers]
CallSet == [kind : {"load", "open", "current"} \cup Hydrations,
            visit : Numbers,
            stage : {"asked", "answered", "refreshed", "again"},
            answer : Numbers]

TypeOK ==
  /\ {visit, auth, token, shown} \subseteq Numbers
  /\ open \in BOOLEAN /\ inRoom \in BOOLEAN /\ invalid \in BOOLEAN
  /\ updates \in 0 .. MaxUpdates /\ troubles \in 0 .. MaxTroubles
  /\ ended \cup unheard \subseteq Numbers
  /\ conn \in {"dropped", "opening", "accepted", "up"}
  /\ toServer \in Seq(Packets)
  /\ toPhone \in Seq(Events)
  /\ calls \subseteq CallSet

\* Nothing is under way any more.
Settled ==
  /\ conn = "up"
  /\ toServer = <<>> /\ toPhone = <<>>
  /\ ended = {} /\ calls = {}

Showing == Settled /\ shown # 0 /\ ~ invalid

\* A page that has settled in the visit its token is for is in that visit's
\* room, whatever it has been through: a start, a reload with an old token, a
\* lost connection, a refreshed token (the ORDEN CRITICO of handleStartSession
\* and the comments of refreshSessionToken).
PhoneHears == Showing /\ token = shown => auth = shown /\ inRoom

\* A page that has settled does not show a visit that is over, unless the news
\* of its end went out while it was between two rooms and the page has not asked
\* since: a lost connection alone is always made good (handleSessionClosed,
\* handleSocketReconnect).
VisitIsCurrent == Showing => shown = Current \/ shown \in unheard

\* The page settles: its reconnections, refreshes and replays come to an end
\* (__retried in the interceptor of clients.ts).
EventuallySettles == <>[]Settled
=============================================================================

---------------------------- MODULE Phone_proofs ----------------------------
(***************************************************************************)
(* Two properties of a settled phone, for any number of visits, of other   *)
(* news and of troubles.  It is in the room of the visit it shows:         *)
(* inductive is InTouch, by which a phone that listens was opened with the *)
(* token it holds, the last packet on its way is the join of the visit it  *)
(* shows, and once nothing is on its way that join has been handled.  And  *)
(* it shows no visit that is over: inductive is InTime, by which the end   *)
(* of a visit that is shown, or that an answer names, is still to come.    *)
(***************************************************************************)
EXTENDS Phone, SequenceTheorems, TLAPS

TokenIsHandshake == Listens /\ token # 0 => auth = token

EndsWithJoin ==
  shown # 0 /\ toServer # <<>>
    => Last(toServer) = [kind |-> "join", visit |-> shown]

InItsRoom ==
  /\ conn = "accepted" /\ auth # 0 => inRoom
  /\ conn = "up" /\ shown # 0 /\ auth = shown /\ toServer = <<>> => inRoom

Quiet == ~ Listens => toPhone = <<>>

InTouch ==
  TypeOK /\ TokenIsHandshake /\ EndsWithJoin /\ InItsRoom /\ Quiet

(***************************************************************************)
(* Types.                                                                  *)
(***************************************************************************)
LEMMA Bounds ==
  /\ MaxVisits \in Nat /\ MaxUpdates \in Nat /\ MaxTroubles \in Nat
  /\ 0 \in Numbers
  BY PhoneAssumption DEF Numbers

\* The empty channels are of their types.
LEMMA Nothing ==
  <<>> \in Seq(Packets) /\ <<>> \in Seq(Events)
  BY EmptySeq

\* A packet is one for a visit, none for the entry view.
LEMMA PacketType ==
  ASSUME NEW v \in Numbers, NEW kind \in {"leave", "join"}
  PROVE  Packet(kind, v) \in Seq(Packets)
  <1>1. [kind |-> kind, visit |-> v] \in Packets
    BY DEF Packets
  <1> QED
    BY <1>1 DEF Packet

\* A rerun for a visit ends with its join.
LEMMA RerunEnds ==
  ASSUME NEW v \in Numbers, shown \in Numbers
  PROVE  /\ Rerun(v) \in Seq(Packets)
         /\ v # 0 => /\ Rerun(v) # <<>>
                     /\ Last(Rerun(v)) = [kind |-> "join", visit |-> v]
  <1> DEFINE a == Packet("leave", shown)
             b == Packet("join", v)
  <1>1. a \in Seq(Packets) /\ b \in Seq(Packets)
    BY PacketType
  <1>2. Rerun(v) \in Seq(Packets) /\ Rerun(v) = a \o b
    BY <1>1 DEF Rerun
  <1>3. ASSUME v # 0
        PROVE  Rerun(v) # <<>> /\ Last(Rerun(v)) = [kind |-> "join", visit |-> v]
    <2>1. b = <<[kind |-> "join", visit |-> v]>>
      BY <1>3 DEF Packet
    <2>2. Len(b) = 1 /\ b[1] = [kind |-> "join", visit |-> v]
      BY <2>1
    <2> HIDE DEF a, b
    <2>3. Len(a \o b) = Len(a) + 1
      BY <1>1, <2>2, ConcatProperties
    <2>4. (a \o b)[Len(a) + 1] = b[1]
      <3>1. Len(a) \in Nat
        BY <1>1, LenProperties
      <3> QED
        BY <1>1, <2>2, <3>1, ConcatProperties
    <2>5. a \o b # <<>>
      BY <1>1, <2>1
    <2> QED
      BY <1>2, <2>2, <2>3, <2>4, <2>5 DEF Last
  <1> QED
    BY <1>2, <1>3

\* Whatever is sent, the last packet on the way is its last.
LEMMA SendEnds ==
  ASSUME NEW ps \in Seq(Packets), toServer \in Seq(Packets)
  PROVE  /\ Send(ps) \in Seq(Packets)
         /\ ps # <<>> => Send(ps) # <<>> /\ Last(Send(ps)) = Last(ps)
         /\ ps = <<>> => Send(ps) = toServer
  <1>1. CASE ps = <<>>
    <2>1. toServer \o ps = toServer
      BY <1>1, ConcatEmptySeq
    <2> QED
      BY <1>1, <2>1 DEF Send
  <1>2. CASE ps # <<>> /\ ~ IsSuffix(ps, toServer)
    <2>1. Send(ps) = toServer \o ps
      BY <1>2 DEF Send
    <2>2. Len(ps) \in Nat \ {0} /\ Len(toServer) \in Nat
      BY <1>2, EmptySeq, LenProperties
    <2>3. /\ toServer \o ps \in Seq(Packets)
          /\ Len(toServer \o ps) = Len(toServer) + Len(ps)
      BY ConcatProperties
    <2>4. (toServer \o ps)[Len(toServer) + Len(ps)] = ps[Len(ps)]
      BY <2>2
    <2>5. toServer \o ps # <<>>
      BY <1>2, ConcatEqualIffEmpty
    <2> QED
      BY <1>2, <2>1, <2>3, <2>4, <2>5 DEF Last
  <1>3. CASE ps # <<>> /\ IsSuffix(ps, toServer)
    <2> DEFINE r == Reverse(ps)
               q == Reverse(toServer)
               n == Len(ps)
               m == Len(toServer)
    <2>1. n \in Nat \ {0} /\ m \in Nat
      BY <1>3, EmptySeq, LenProperties
    <2>2. r \in [1 .. n -> Packets] /\ q \in [1 .. m -> Packets]
      BY <2>1, LenProperties DEF Reverse
    <2>3. Len(r) = n /\ Len(q) = m
      BY <2>1 DEF Reverse
    <2>4. n <= m /\ SubSeq(r, 1, n) = SubSeq(q, 1, n)
      BY <1>3, <2>3 DEF IsSuffix, IsPrefix
    <2>5. SubSeq(r, 1, n)[1] = r[1] /\ SubSeq(q, 1, n)[1] = q[1]
      BY <2>1, <2>2, <2>4
    <2>6. r[1] = ps[n] /\ q[1] = toServer[m]
      BY <2>1, <2>4 DEF Reverse
    <2>7. toServer # <<>>
      BY <2>1, <2>4, EmptySeq
    <2> QED
      BY <1>3, <2>4, <2>5, <2>6, <2>7 DEF Send, Last
  <1> QED
    BY <1>1, <1>2, <1>3

\* Ends on their way are of visits.
LEMMA EndsType ==
  ASSUME toPhone \in Seq(Events)
  PROVE  EndsOnTheWay \subseteq Numbers
  <1>1. ASSUME NEW k \in DOMAIN toPhone
        PROVE  toPhone[k].visit \in Numbers
    <2>1. toPhone[k] \in Events
      BY <1>1, LenProperties, ElementOfSeq
    <2> QED
      BY <2>1 DEF Events
  <1> QED
    BY <1>1 DEF EndsOnTheWay, ToSet

\* What is announced to everybody is an event.
LEMMA BroadcastType ==
  ASSUME NEW q \in Seq(Events)
  PROVE  Broadcast(q) \in Seq(Events)
  <1>1. Event("table", 0) \in Events
    BY Bounds DEF Events, Event
  <1> QED
    BY <1>1 DEF Broadcast

\* A call just sent is of its type.
LEMMA NewCallType ==
  ASSUME NEW v \in Numbers,
         NEW kind \in {"load", "open", "current"} \cup Hydrations
  PROVE  Call(kind, v) \in CallSet
  BY Bounds DEF Call, CallSet

\* An answer leaves the call of its type.
LEMMA AnsweredType ==
  ASSUME NEW c \in CallSet, NEW v \in Numbers,
         NEW stage \in {"asked", "answered", "refreshed", "again"}
  PROVE  Answered(c, stage, v) \in CallSet
  BY DEF Answered, CallSet

\* What the page asks once it is denied.
LEMMA DeniedType ==
  ASSUME NEW v \in Numbers
  PROVE  Denied(v) \subseteq CallSet
  BY NewCallType DEF Denied, Hydrations

\* The visit the server has open, or none, is a number.
LEMMA CurrentType ==
  ASSUME visit \in Numbers
  PROVE  Current \in Numbers
  BY Bounds DEF Current

\* The two ways a change of visit reaches the socket.
LEMMA SocketTypes ==
  ASSUME TypeOK, NEW ps \in Seq(Packets)
  PROVE  /\ SameSocket(ps) => toServer' \in Seq(Packets)
         /\ FreshSocket(ps) => /\ toServer' \in Seq(Packets)
                               /\ toPhone' = <<>>
                               /\ conn' = "opening" /\ auth' = 0
                               /\ inRoom' = FALSE
  <1>1. toServer \in Seq(Packets)
    BY DEF TypeOK
  <1>2. Send(ps) \in Seq(Packets)
    BY <1>1, SendEnds
  <1> QED
    BY <1>2 DEF SameSocket, FreshSocket

\* The first state is of its type.
LEMMA TypeStart == Init => TypeOK
  <1> SUFFICES ASSUME Init PROVE TypeOK
    OBVIOUS
  <1>1. Call("load", 0) \in CallSet
    BY Bounds, NewCallType
  <1>2. toServer \in Seq(Packets) /\ toPhone \in Seq(Events)
    BY Nothing DEF Init
  <1>3. calls \subseteq CallSet
    BY <1>1 DEF Init
  <1>4. updates \in 0 .. MaxUpdates /\ troubles \in 0 .. MaxTroubles
    BY Bounds DEF Init
  <1>5. /\ {visit, auth, token, shown} \subseteq Numbers
        /\ ended \cup unheard \subseteq Numbers
    BY Bounds DEF Init
  <1>6. /\ open \in BOOLEAN /\ inRoom \in BOOLEAN /\ invalid \in BOOLEAN
        /\ conn \in {"dropped", "opening", "accepted", "up"}
    BY Bounds DEF Init
  <1> QED
    BY <1>2, <1>3, <1>4, <1>5, <1>6 DEF TypeOK

\* Every variable of the page keeps its type.
THEOREM TypeCorrect == Spec => []TypeOK
  <1>1. Init => TypeOK
    BY TypeStart
  <1>2. TypeOK /\ [Next]_vars => TypeOK'
    <2> SUFFICES ASSUME TypeOK, [Next]_vars PROVE TypeOK'
      OBVIOUS
    <2> USE Bounds, Nothing DEF TypeOK
    <2>1. CASE OpenVisit
      BY <2>1, BroadcastType DEF OpenVisit, Begin, socket, page, Numbers
    <2>2. CASE UpdateTable
      BY <2>2, BroadcastType DEF UpdateTable, socket, page
    <2>3. CASE CloseVisit
      BY <2>3 DEF CloseVisit, socket, page
    <2>4. CASE StartSession
      BY <2>4, NewCallType DEF StartSession, table, socket, page
    <2>5. CASE Announce
      <3> PICK v \in ended : AnnounceClosed(v)
        BY <2>5 DEF Announce
      <3>1. v \in Numbers
        OBVIOUS
      <3>2. Append(toPhone, Event("closed", v)) \in Seq(Events)
        BY <3>1 DEF Event, Events
      <3>3. toPhone' \in Seq(Events)
        BY <3>2, BroadcastType DEF AnnounceClosed
      <3> QED
        BY <3>1, <3>3 DEF AnnounceClosed, socket, page
    <2>6. CASE Gateway
      <3>1. CASE Accept
        <4>1. <<Event("connect", 0)>> \in Seq(Events)
          BY DEF Event, Events
        <4> QED
          BY <3>1, <4>1 DEF Accept, table, page
      <3>2. CASE HandlePacket
        <4>1. toServer' \in Seq(Packets)
          BY <3>2, HeadTailProperties DEF HandlePacket
        <4>2. inRoom' \in BOOLEAN
          BY <3>2 DEF HandlePacket
        <4> QED
          BY <3>2, <4>1, <4>2 DEF HandlePacket, table, page
      <3> QED
        BY <2>6, <3>1, <3>2 DEF Gateway
    <2>7. CASE AnswerRefresh
      <3>1. calls' \subseteq CallSet
        BY <2>7, AnsweredType, CurrentType DEF AnswerRefresh, Waiting
      <3> QED
        BY <2>7, <3>1 DEF AnswerRefresh, table, socket, page
    <2>8. CASE \E c \in calls : AnswerCurrent(c)
      <3>1. calls' \subseteq CallSet
        BY <2>8, AnsweredType, CurrentType DEF AnswerCurrent
      <3> QED
        BY <2>8, <3>1 DEF AnswerCurrent, table, socket, page
    <2>9. CASE \E c \in calls : AnswerOpen(c)
      <3> PICK c \in calls : AnswerOpen(c)
        BY <2>9
      <3>1. CASE Begin /\ calls' = (calls \ {c})
                             \cup {Answered(c, "answered", visit + 1)}
        <4>1. visit + 1 \in Numbers
          BY <3>1 DEF Begin, Numbers
        <4>2. calls' \subseteq CallSet
          BY <3>1, <4>1, AnsweredType
        <4> QED
          BY <3>1, <4>1, <4>2, BroadcastType
             DEF Begin, AnswerOpen, socket, page
      <3>2. CASE /\ UNCHANGED <<table, toPhone>>
                 /\ \/ calls' = (calls \ {c}) \cup {Answered(c, "answered", visit)}
                    \/ calls' = calls \ {c}
        <4>1. Answered(c, "answered", visit) \in CallSet
          BY AnsweredType
        <4>2. calls' \subseteq CallSet
          BY <3>2, <4>1
        <4> QED
          BY <3>2, <4>2 DEF AnswerOpen, table, socket, page
      <3> QED
        BY <3>1, <3>2 DEF AnswerOpen
    <2>10. CASE Replay
      <3> PICK v \in {c.answer : c \in Refreshed} \ {0} :
             /\ token' = v
             /\ calls' = (calls \ Refreshed)
                  \cup {Answered(c, "again", v) :
                          c \in {c \in Refreshed : c.visit # v}}
             /\ FreshSocket(<<>>)
             /\ unheard' = unheard \cup EndsOnTheWay
             /\ UNCHANGED <<table, shown, invalid, troubles>>
        BY <2>10 DEF Replay
      <3>1. v \in Numbers
        BY DEF Refreshed, CallSet
      <3>2. calls' \subseteq CallSet
        BY <3>1, AnsweredType DEF Refreshed
      <3>3. <<>> \in Seq(Packets)
        OBVIOUS
      <3> QED
        BY <3>1, <3>2, <3>3, SocketTypes, EndsType DEF table
    <2>11. CASE \E c \in calls : ApplyLoad(c)
      <3> PICK c \in calls : ApplyLoad(c)
        BY <2>11
      <3> DEFINE v == IF c.answer # 0 /\ token # c.answer THEN 0 ELSE c.answer
      <3>1. v \in Numbers
        BY DEF CallSet
      <3>2. Rerun(v) \in Seq(Packets)
        BY <3>1, RerunEnds
      <3>3. shown' = v /\ token' \in Numbers
        BY DEF ApplyLoad
      <3>4. CASE SameSocket(Rerun(v)) /\ UNCHANGED <<toPhone, unheard>>
        BY <3>1, <3>2, <3>3, <3>4, SocketTypes DEF ApplyLoad, SameSocket, table
      <3>5. CASE FreshSocket(Rerun(v)) /\ unheard' = unheard \cup EndsOnTheWay
        BY <3>1, <3>2, <3>3, <3>5, SocketTypes, EndsType DEF ApplyLoad, table
      <3> QED
        BY <3>4, <3>5 DEF ApplyLoad
    <2>12. CASE \E c \in calls : ApplyOpen(c)
      <3> PICK c \in calls : ApplyOpen(c)
        BY <2>12
      <3>1. c.answer \in Numbers
        BY DEF CallSet
      <3>2. Rerun(c.answer) \in Seq(Packets)
        BY <3>1, RerunEnds
      <3> QED
        BY <3>1, <3>2, SocketTypes, EndsType DEF ApplyOpen, table
    <2>13. CASE \E c \in calls : ApplyCurrent(c)
      <3> PICK c \in calls : ApplyCurrent(c)
        BY <2>13
      <3>1. c.answer \in Numbers
        BY DEF CallSet
      <3>2. Rerun(c.answer) \in Seq(Packets)
        BY <3>1, RerunEnds
      <3>3. calls' \subseteq CallSet
        BY <3>1, DeniedType DEF ApplyCurrent
      <3> QED
        BY <3>1, <3>2, <3>3, SocketTypes DEF ApplyCurrent, SameSocket, table
    <2>14. CASE \E c \in calls : GiveUp(c)
      BY <2>14 DEF GiveUp, table, socket
    <2>15. CASE HandleConnect
      <3>1. Packet("join", shown) \in Seq(Packets)
        BY PacketType
      <3>2. toServer \o Packet("join", shown) \in Seq(Packets)
        BY <3>1, ConcatProperties
      <3> QED
        BY <2>15, <3>2, HeadTailProperties
           DEF HandleConnect, NextEvent, table, page
    <2>16. CASE HandleTable
      <3>1. Rerun(shown) \in Seq(Packets)
        BY RerunEnds
      <3> QED
        BY <2>16, <3>1, SocketTypes, HeadTailProperties
           DEF HandleTable, NextEvent, SameSocket, table, page
    <2>17. CASE HandleClosed
      <3>1. Rerun(0) \in Seq(Packets)
        BY RerunEnds
      <3>2. toPhone' \in Seq(Events) /\ Head(toPhone) \in Events
        BY <2>17, HeadTailProperties DEF HandleClosed, NextEvent
      <3>3. CASE Head(toPhone).visit = shown
        BY <2>17, <3>1, <3>2, <3>3, SocketTypes
           DEF HandleClosed, SameSocket, table, Events
      <3>4. CASE Head(toPhone).visit # shown
        BY <2>17, <3>2, <3>4 DEF HandleClosed, socket, table, Events
      <3> QED
        BY <3>3, <3>4
    <2>18. CASE Drop
      <3>1. toServer' \in Seq(Packets) /\ toPhone' \in Seq(Events)
        BY <2>18, Nothing DEF Drop
      <3>2. unheard' \subseteq Numbers
        BY <2>18, EndsType DEF Drop
      <3>3. troubles' \in 0 .. MaxTroubles
        BY <2>18 DEF Drop, Trouble
      <3> QED
        BY <2>18, <3>1, <3>2, <3>3 DEF Drop, table, page
    <2>19. CASE Reopen
      BY <2>19, NewCallType DEF Reopen, table, page
    <2>20. CASE Reload
      <3>1. toServer' \in Seq(Packets) /\ toPhone' \in Seq(Events)
        BY <2>20, Nothing DEF Reload
      <3>2. calls' \subseteq CallSet
        BY <2>20, NewCallType DEF Reload
      <3>3. troubles' \in 0 .. MaxTroubles
        BY <2>20 DEF Reload, Trouble
      <3> QED
        BY <2>20, <3>1, <3>2, <3>3 DEF Reload, table
    <2>21. CASE \E c \in calls : FailCall(c)
      <3>1. calls' \subseteq CallSet
        <4> PICK c \in calls : FailCall(c)
          BY <2>21
        <4>1. Answered(c, "refreshed", 0) \in CallSet
          BY AnsweredType
        <4> QED
          BY <4>1 DEF FailCall
      <3> QED
        BY <2>21, <3>1 DEF FailCall, Trouble, table, socket, page
    <2>22. CASE UNCHANGED vars
      BY <2>22 DEF vars, table, socket, page
    <2> QED
      BY <2>1, <2>2, <2>3, <2>4, <2>5, <2>6, <2>7, <2>8, <2>9, <2>10, <2>11,
         <2>12, <2>13, <2>14, <2>15, <2>16, <2>17, <2>18, <2>19, <2>20, <2>21,
         <2>22 DEF Next, Answer, Apply, Handle
  <1> QED
    BY <1>1, <1>2, PTL DEF Spec

(***************************************************************************)
(* The room.                                                               *)
(***************************************************************************)
\* A step that leaves the socket and the visit of the page alone.
LEMMA Untouched ==
  ASSUME InTouch, UNCHANGED socket, UNCHANGED <<token, shown>>
  PROVE  TokenIsHandshake' /\ EndsWithJoin' /\ InItsRoom'
  BY DEF InTouch, TokenIsHandshake, EndsWithJoin, InItsRoom, Listens, socket,
         Last

\* The page changes its visit, or hears news of it, on the socket it has.
LEMMA AfterSame ==
  ASSUME InTouch, NEW v \in Numbers, SameSocket(Rerun(v)),
         shown' = v, token' \in {0, token}
  PROVE  TokenIsHandshake' /\ EndsWithJoin' /\ InItsRoom'
  <1>1. shown \in Numbers /\ toServer \in Seq(Packets)
    BY DEF InTouch, TypeOK
  <1>2. ASSUME v # 0
        PROVE  /\ toServer' # <<>>
               /\ Last(toServer') = [kind |-> "join", visit |-> v]
    <2>1. /\ Rerun(v) \in Seq(Packets)
          /\ Rerun(v) # <<>>
          /\ Last(Rerun(v)) = [kind |-> "join", visit |-> v]
      BY <1>1, <1>2, RerunEnds
    <2>2. toServer' = Send(Rerun(v))
      BY DEF SameSocket
    <2> QED
      BY <1>1, <2>1, <2>2, SendEnds
  <1>3. TokenIsHandshake'
    BY DEF InTouch, TokenIsHandshake, SameSocket, Listens
  <1>4. EndsWithJoin'
    BY <1>2 DEF EndsWithJoin
  <1>5. InItsRoom'
    BY <1>2 DEF InTouch, InItsRoom, SameSocket
  <1> QED
    BY <1>3, <1>4, <1>5

\* The page changes its visit and opens a socket.
LEMMA AfterFresh ==
  ASSUME InTouch, NEW v \in Numbers, FreshSocket(Rerun(v)), shown' = v
  PROVE  TokenIsHandshake' /\ EndsWithJoin' /\ InItsRoom'
  <1>1. shown \in Numbers /\ toServer \in Seq(Packets)
    BY DEF InTouch, TypeOK
  <1>2. conn' = "opening"
    BY DEF FreshSocket
  <1>3. ASSUME v # 0
        PROVE  Last(toServer') = [kind |-> "join", visit |-> v]
    <2>1. /\ Rerun(v) \in Seq(Packets)
          /\ Rerun(v) # <<>>
          /\ Last(Rerun(v)) = [kind |-> "join", visit |-> v]
      BY <1>1, <1>3, RerunEnds
    <2>2. toServer' \in {Rerun(v), Send(Rerun(v))}
      BY DEF FreshSocket
    <2> QED
      BY <1>1, <2>1, <2>2, SendEnds
  <1> QED
    BY <1>2, <1>3 DEF TokenIsHandshake, EndsWithJoin, InItsRoom, Listens

\* A refreshed token opens a socket, and the page stays where it is.
LEMMA AfterReplay ==
  ASSUME InTouch, FreshSocket(<<>>), shown' = shown
  PROVE  TokenIsHandshake' /\ EndsWithJoin' /\ InItsRoom'
  <1>1. toServer \in Seq(Packets)
    BY DEF InTouch, TypeOK
  <1>2. conn' = "opening"
    BY DEF FreshSocket
  <1>3. toServer' = <<>> \/ toServer' = toServer
    BY <1>1, Nothing, SendEnds DEF FreshSocket
  <1> QED
    BY <1>2, <1>3
       DEF InTouch, TokenIsHandshake, EndsWithJoin, InItsRoom, Listens, Last

\* The server takes the last packet: it was the join of the shown visit.
LEMMA AfterPacket ==
  ASSUME InTouch, HandlePacket
  PROVE  TokenIsHandshake' /\ EndsWithJoin' /\ InItsRoom'
  <1>1. toServer \in Seq(Packets) /\ toServer # <<>>
    BY DEF InTouch, TypeOK, HandlePacket
  <1>2. /\ Len(toServer) \in Nat \ {0}
        /\ Head(toServer) = toServer[1]
        /\ Len(Tail(toServer)) = Len(toServer) - 1
        /\ \A k \in 1 .. Len(Tail(toServer)) :
              Tail(toServer)[k] = toServer[k + 1]
    BY <1>1, EmptySeq, HeadTailProperties
  <1>3. UNCHANGED <<conn, auth, token, shown>> /\ conn = "up"
    BY DEF HandlePacket, page
  <1>4. toServer' = Tail(toServer)
    BY DEF HandlePacket
  <1>5. EndsWithJoin'
    <2> SUFFICES ASSUME shown # 0, Tail(toServer) # <<>>
                 PROVE  Last(Tail(toServer)) = [kind |-> "join", visit |-> shown]
      BY <1>3, <1>4 DEF EndsWithJoin
    <2>1. Tail(toServer) \in Seq(Packets)
      BY <1>1, HeadTailProperties
    <2>2. Len(Tail(toServer)) \in Nat \ {0}
      BY <2>1, EmptySeq
    <2>3. Last(Tail(toServer)) = Last(toServer)
      BY <1>2, <2>2 DEF Last
    <2> QED
      BY <1>1, <2>3 DEF InTouch, EndsWithJoin
  <1>6. ASSUME shown # 0, auth = shown, Tail(toServer) = <<>>
        PROVE  inRoom'
    <2>1. Len(toServer) = 1
      BY <1>2, <1>6
    <2>2. Head(toServer) = Last(toServer)
      BY <1>2, <2>1 DEF Last
    <2>3. Head(toServer) = [kind |-> "join", visit |-> shown]
      BY <1>1, <1>6, <2>2 DEF InTouch, EndsWithJoin
    <2>4. Head(toServer).visit = auth /\ Head(toServer).kind = "join"
      BY <1>6, <2>3
    <2>5. inRoom' = (Head(toServer).kind = "join")
      BY <2>4 DEF HandlePacket
    <2> QED
      BY <2>4, <2>5
  <1> QED
    BY <1>3, <1>4, <1>5, <1>6
       DEF InTouch, TokenIsHandshake, InItsRoom, Listens

\* The connect event reaches the page: it sends the join of the visit it shows.
LEMMA AfterConnect ==
  ASSUME InTouch, HandleConnect
  PROVE  TokenIsHandshake' /\ EndsWithJoin' /\ InItsRoom'
  <1> DEFINE b == Packet("join", shown)
  <1>1. shown \in Numbers /\ toServer \in Seq(Packets)
    BY DEF InTouch, TypeOK
  <1>2. b \in Seq(Packets)
    BY <1>1, PacketType
  <1>3. Listens
    BY DEF InTouch, Quiet, HandleConnect, NextEvent
  <1>4. UNCHANGED <<auth, inRoom, token, shown>> /\ conn' = "up"
    BY DEF HandleConnect, page
  <1>5. toServer' = toServer \o b
    BY DEF HandleConnect
  <1>6. ASSUME shown # 0
        PROVE  /\ toServer' # <<>>
               /\ Last(toServer') = [kind |-> "join", visit |-> shown]
    <2>1. Len(b) = 1 /\ b[1] = [kind |-> "join", visit |-> shown] /\ b # <<>>
      BY <1>6 DEF Packet
    <2> HIDE DEF b
    <2>2. Len(toServer) \in Nat
      BY <1>1, LenProperties
    <2>3. /\ Len(toServer \o b) = Len(toServer) + 1
          /\ (toServer \o b)[Len(toServer) + 1] = b[1]
      BY <1>1, <1>2, <2>1, <2>2, ConcatProperties
    <2>4. toServer \o b # <<>>
      BY <1>1, <1>2, <2>1, ConcatEqualIffEmpty
    <2> QED
      BY <1>5, <2>1, <2>3, <2>4 DEF Last
  <1>7. TokenIsHandshake'
    BY <1>3, <1>4 DEF InTouch, TokenIsHandshake
  <1>8. EndsWithJoin' /\ InItsRoom'
    BY <1>4, <1>6 DEF EndsWithJoin, InItsRoom
  <1> QED
    BY <1>7, <1>8

\* Events are on their way only to a phone that listens.
LEMMA QuietStep ==
  ASSUME Quiet, [Next]_vars
  PROVE  Quiet'
  <1> USE DEF Quiet, Listens
  <1>1. CASE OpenVisit \/ UpdateTable \/ CloseVisit \/ StartSession
    BY <1>1 DEF OpenVisit, Begin, UpdateTable, CloseVisit, StartSession,
                Broadcast, socket
  <1>2. CASE Announce
    BY <1>2 DEF Announce, AnnounceClosed, Broadcast, Hears, socket
  <1>3. CASE Gateway
    BY <1>3 DEF Gateway, Accept, HandlePacket
  <1>4. CASE Answer
    BY <1>4 DEF Answer, AnswerRefresh, AnswerCurrent, AnswerOpen, Begin,
                Broadcast, socket
  <1>5. CASE Apply
    BY <1>5 DEF Apply, Replay, ApplyLoad, ApplyOpen, ApplyCurrent, GiveUp,
                FreshSocket, SameSocket, socket
  <1>6. CASE Handle
    <2>1. CASE HandleConnect
      BY <2>1 DEF HandleConnect, NextEvent
    <2>2. CASE HandleTable
      BY <2>2 DEF HandleTable, NextEvent, SameSocket
    <2>3. CASE HandleClosed
      BY <2>3 DEF HandleClosed, NextEvent, SameSocket, socket
    <2> QED
      BY <1>6, <2>1, <2>2, <2>3 DEF Handle
  <1>7. CASE Drop \/ Reopen \/ Reload \/ \E c \in calls : FailCall(c)
    BY <1>7 DEF Drop, Reopen, Reload, FailCall, socket
  <1>8. CASE UNCHANGED vars
    BY <1>8 DEF vars, socket
  <1> QED
    BY <1>1, <1>2, <1>3, <1>4, <1>5, <1>6, <1>7, <1>8 DEF Next

\* A settled page whose token is for the visit it shows is in its room.
THEOREM PhoneAlwaysHears == Spec => []PhoneHears
  <1>1. Init => InTouch
    <2>1. Init => TypeOK
      BY TypeStart
    <2> QED
      BY <2>1 DEF Init, InTouch, TokenIsHandshake, EndsWithJoin, InItsRoom,
                  Quiet, Listens
  <1>2. InTouch /\ TypeOK' /\ [Next]_vars => InTouch'
    <2> SUFFICES ASSUME InTouch, TypeOK', [Next]_vars
                 PROVE  TokenIsHandshake' /\ EndsWithJoin' /\ InItsRoom'
      BY QuietStep DEF InTouch
    <2>1. TypeOK
      BY DEF InTouch
    <2>2. CASE OpenVisit \/ UpdateTable \/ CloseVisit \/ StartSession
      BY <2>2, Untouched
         DEF OpenVisit, UpdateTable, CloseVisit, StartSession, page
    <2>3. CASE Announce
      BY <2>3, Untouched DEF Announce, AnnounceClosed, page
    <2>4. CASE Accept
      BY <2>4 DEF Accept, InTouch, TokenIsHandshake, EndsWithJoin, InItsRoom,
                  Listens, page, Last
    <2>5. CASE HandlePacket
      BY <2>5, AfterPacket
    <2>6. CASE Answer
      BY <2>6, Untouched DEF Answer, AnswerRefresh, AnswerCurrent, AnswerOpen,
                             page
    <2>7. CASE Replay
      BY <2>7, AfterReplay DEF Replay
    <2>8. ASSUME NEW c \in calls, ApplyLoad(c)
          PROVE  TokenIsHandshake' /\ EndsWithJoin' /\ InItsRoom'
      <3> DEFINE v == IF c.answer # 0 /\ token # c.answer THEN 0 ELSE c.answer
      <3>1. v \in Numbers
        BY <2>1, Bounds DEF TypeOK, CallSet
      <3>2. shown' = v /\ token' \in {0, token}
        BY <2>8 DEF ApplyLoad
      <3>3. SameSocket(Rerun(v)) \/ FreshSocket(Rerun(v))
        BY <2>8 DEF ApplyLoad
      <3> QED
        BY <3>1, <3>2, <3>3, AfterSame, AfterFresh
    <2>9. ASSUME NEW c \in calls, ApplyOpen(c)
          PROVE  TokenIsHandshake' /\ EndsWithJoin' /\ InItsRoom'
      <3>1. c.answer \in Numbers
        BY <2>1 DEF TypeOK, CallSet
      <3> QED
        BY <2>9, <3>1, AfterFresh DEF ApplyOpen
    <2>10. ASSUME NEW c \in calls, ApplyCurrent(c)
           PROVE  TokenIsHandshake' /\ EndsWithJoin' /\ InItsRoom'
      <3>1. c.answer \in Numbers
        BY <2>1 DEF TypeOK, CallSet
      <3> QED
        BY <2>10, <3>1, AfterSame DEF ApplyCurrent
    <2>11. ASSUME NEW c \in calls, GiveUp(c)
           PROVE  TokenIsHandshake' /\ EndsWithJoin' /\ InItsRoom'
      BY <2>11 DEF GiveUp, InTouch, TokenIsHandshake, EndsWithJoin, InItsRoom,
                   Listens, socket, Last
    <2>12. CASE HandleConnect
      BY <2>12, AfterConnect
    <2>13. CASE HandleTable
      BY <2>1, <2>13, AfterSame DEF HandleTable, TypeOK, page
    <2>14. CASE HandleClosed
      <3>1. CASE Head(toPhone).visit = shown
        BY <2>14, <3>1, Bounds, AfterSame DEF HandleClosed
      <3>2. CASE Head(toPhone).visit # shown
        BY <2>14, <3>2, Untouched DEF HandleClosed
      <3> QED
        BY <3>1, <3>2
    <2>15. CASE Drop \/ Reload
      BY <2>15 DEF Drop, Reload, TokenIsHandshake, EndsWithJoin, InItsRoom,
                   Listens
    <2>16. CASE Reopen
      BY <2>16 DEF Reopen, InTouch, TokenIsHandshake, EndsWithJoin, InItsRoom,
                   Listens, page, Last
    <2>17. CASE \E c \in calls : FailCall(c)
      BY <2>17, Untouched DEF FailCall, page
    <2>18. CASE UNCHANGED vars
      BY <2>18, Untouched DEF vars, page
    <2> QED
      BY <2>2, <2>3, <2>4, <2>5, <2>6, <2>7, <2>8, <2>9, <2>10, <2>11, <2>12,
         <2>13, <2>14, <2>15, <2>16, <2>17, <2>18
         DEF Next, Gateway, Apply, Handle
  <1>3. InTouch => PhoneHears
    BY DEF InTouch, TokenIsHandshake, InItsRoom, PhoneHears, Showing, Settled,
           Listens
  <1> QED
    BY <1>1, <1>2, <1>3, TypeCorrect, PTL DEF Spec

(***************************************************************************)
(* The visit.                                                              *)
(***************************************************************************)
\* The ends that a queue of events tells of.
EndsOf(q) == {e.visit : e \in {e \in ToSet(q) : e.kind = "closed"}}

\* The visits that are open, or whose end is still to be announced, is on its
\* way, or has passed the page by.
Followed == {Current} \cup ended \cup EndsOnTheWay \cup unheard

AnswersFollowed == StillToApply \ {0} \subseteq Followed

Asking == {c \in calls : c.kind \in {"load", "current"} /\ c.stage = "answered"}

ShownFollowed == shown = 0 \/ shown \in Followed \/ Asking # {}

InTime == TypeOK /\ Quiet /\ AnswersFollowed /\ ShownFollowed

\* An event more tells of the end it is about.
LEMMA EndsAppend ==
  ASSUME NEW q \in Seq(Events), NEW e \in Events
  PROVE  EndsOf(Append(q, e))
           = EndsOf(q) \cup (IF e.kind = "closed" THEN {e.visit} ELSE {})
  <1> DEFINE r == Append(q, e)
             n == Len(q)
  <1>1. n \in Nat /\ DOMAIN q = 1 .. n
    BY LenProperties
  <1>2. /\ DOMAIN r = 1 .. (n + 1)
        /\ \A k \in 1 .. n : r[k] = q[k]
        /\ r[n + 1] = e
    BY <1>1, AppendProperties
  <1>3. 1 .. (n + 1) = (1 .. n) \cup {n + 1}
    BY <1>1
  <1> HIDE DEF r
  <1>4. ToSet(r) = ToSet(q) \cup {e}
    BY <1>1, <1>2, <1>3 DEF ToSet
  <1> QED
    BY <1>4 DEF EndsOf, r

\* What the first event does not tell is told by the others.
LEMMA EndsTail ==
  ASSUME NEW q \in Seq(Events), q # <<>>,
         NEW v \in EndsOf(q), ~ (Head(q).kind = "closed" /\ Head(q).visit = v)
  PROVE  v \in EndsOf(Tail(q))
  <1> DEFINE n == Len(q)
             t == Tail(q)
  <1>1. /\ n \in Nat \ {0} /\ DOMAIN q = 1 .. n
        /\ Head(q) = q[1]
        /\ t \in Seq(Events) /\ Len(t) = n - 1
        /\ \A k \in 1 .. Len(t) : t[k] = q[k + 1]
    BY EmptySeq, LenProperties, HeadTailProperties
  <1>2. PICK k \in 1 .. n : q[k].kind = "closed" /\ q[k].visit = v
    BY <1>1 DEF EndsOf, ToSet
  <1>3. k # 1
    BY <1>1, <1>2
  <1>4. k - 1 \in 1 .. Len(t) /\ t[k - 1] = q[k]
    BY <1>1, <1>3
  <1>5. DOMAIN t = 1 .. Len(t)
    BY <1>1, LenProperties
  <1> HIDE DEF t
  <1> QED
    BY <1>2, <1>4, <1>5 DEF EndsOf, ToSet, t

\* No events tell nothing.
LEMMA EndsNothing == EndsOf(<<>>) = {}
  BY DEF EndsOf, ToSet

\* An announcement to everybody tells of no end, and loses none.
LEMMA EndsBroadcast ==
  ASSUME NEW q \in Seq(Events)
  PROVE  EndsOf(q) = EndsOf(Broadcast(q))
  <1>1. Event("table", 0) \in Events /\ Event("table", 0).kind # "closed"
    BY Bounds DEF Events, Event
  <1> QED
    BY <1>1, EndsAppend DEF Broadcast

\* A visit begins: no other was open.
LEMMA FollowedBegin ==
  ASSUME TypeOK, Begin, unheard' = unheard
  PROVE  /\ Followed \ {0} \subseteq Followed'
         /\ visit + 1 \in Followed'
  <1>1. EndsOnTheWay' = EndsOnTheWay
    BY EndsBroadcast DEF Begin, EndsOnTheWay, EndsOf, TypeOK
  <1>2. Current = 0 /\ Current' = visit + 1 /\ ended' = ended
    BY DEF Begin, Current
  <1> QED
    BY <1>1, <1>2 DEF Followed

\* An announcement goes to the phone, or passes it by.
LEMMA FollowedAnnounce ==
  ASSUME TypeOK, NEW v \in ended, AnnounceClosed(v)
  PROVE  Followed \subseteq Followed'
  <1> DEFINE q == Append(toPhone, Event("closed", v))
  <1>1. Event("closed", v) \in Events
    BY DEF TypeOK, Event, Events
  <1>2. q \in Seq(Events) /\ toPhone \in Seq(Events)
    BY <1>1, AppendProperties DEF TypeOK
  <1>3. EndsOf(q) = EndsOf(toPhone) \cup {v}
    BY <1>1, <1>2, EndsAppend DEF Event
  <1>4. Current' = Current /\ ended' = ended \ {v}
    BY DEF AnnounceClosed, Current
  <1>5. toPhone' = Broadcast(IF Hears(v) THEN q ELSE toPhone)
    BY DEF AnnounceClosed
  <1> HIDE DEF q
  <1>6. CASE Hears(v)
    <2>1. EndsOf(toPhone)' = EndsOf(toPhone) \cup {v}
      BY <1>2, <1>3, <1>5, <1>6, EndsBroadcast DEF EndsOf
    <2>2. unheard' = unheard
      BY <1>6 DEF AnnounceClosed
    <2> QED
      BY <1>4, <2>1, <2>2 DEF Followed, EndsOnTheWay, EndsOf
  <1>7. CASE ~ Hears(v)
    <2>1. EndsOf(toPhone)' = EndsOf(toPhone)
      BY <1>2, <1>5, <1>7, EndsBroadcast DEF EndsOf
    <2>2. unheard' = unheard \cup {v}
      BY <1>7 DEF AnnounceClosed
    <2> QED
      BY <1>4, <2>1, <2>2 DEF Followed, EndsOnTheWay, EndsOf
  <1> QED
    BY <1>6, <1>7

\* What was on its way is lost, and the page knows that it is.
LEMMA FollowedLost ==
  ASSUME UNCHANGED table,
         \/ unheard' = unheard \cup EndsOnTheWay
         \/ UNCHANGED <<toPhone, unheard>>
  PROVE  Followed \subseteq Followed'
  BY DEF table, Current, Followed, EndsOnTheWay

\* An event that is not an end is handled.
LEMMA FollowedEvent ==
  ASSUME TypeOK, UNCHANGED <<table, unheard>>, NEW kind, kind # "closed",
         NextEvent(kind)
  PROVE  Followed \subseteq Followed'
  <1>1. EndsOnTheWay = EndsOf(toPhone) /\ EndsOnTheWay' = EndsOf(Tail(toPhone))
    BY DEF EndsOnTheWay, EndsOf, NextEvent
  <1>2. EndsOf(toPhone) \subseteq EndsOf(Tail(toPhone))
    BY EndsTail DEF NextEvent, TypeOK
  <1> QED
    BY <1>1, <1>2 DEF table, Current, Followed

\* An end is handled: it is kept for the answers that are not applied yet, and
\* for the visit shown if it is of another.
LEMMA FollowedClosed ==
  ASSUME TypeOK, HandleClosed
  PROVE  /\ \A v \in Followed : v \in StillToApply => v \in Followed'
         /\ shown' = 0 \/ (shown' = shown /\ (shown \in Followed => shown \in Followed'))
  <1> DEFINE e == Head(toPhone)
  <1>1. EndsOnTheWay = EndsOf(toPhone) /\ EndsOnTheWay' = EndsOf(Tail(toPhone))
    BY DEF EndsOnTheWay, EndsOf, HandleClosed, NextEvent
  <1>2. ASSUME NEW v \in EndsOf(toPhone), v # e.visit
        PROVE  v \in EndsOf(Tail(toPhone))
    BY <1>2, EndsTail DEF HandleClosed, NextEvent, TypeOK
  <1>3. UNCHANGED <<Current, ended>>
    BY DEF HandleClosed, table, Current
  <1>4. CASE e.visit = shown
    <2>1. shown' = 0 /\ unheard' = unheard \cup (StillToApply \cap {e.visit})
      BY <1>4 DEF HandleClosed
    <2> QED
      BY <1>1, <1>2, <1>3, <2>1 DEF Followed
  <1>5. CASE e.visit # shown
    <2>1. shown' = shown /\ unheard' = unheard \cup {e.visit}
      BY <1>5 DEF HandleClosed
    <2> QED
      BY <1>1, <1>2, <1>3, <2>1 DEF Followed
  <1> QED
    BY <1>4, <1>5

\* The calls that are answered stay, or some of them are applied; what they
\* answered stays known.
LEMMA CallsFollowed ==
  ASSUME AnswersFollowed, StillToApply' \subseteq StillToApply,
         \A v \in StillToApply : v \in Followed => v \in Followed'
  PROVE  AnswersFollowed'
  BY DEF AnswersFollowed

\* An answer is applied: the visit it names is shown, or none.
LEMMA AnswerFollowed ==
  ASSUME InTime, NEW c \in calls, c.stage = "answered",
         calls' \subseteq (calls \ {c}) \cup Denied(c.answer),
         shown' \in {0, c.answer},
         Followed \subseteq Followed'
  PROVE  AnswersFollowed' /\ ShownFollowed'
  <1>1. \A d \in Denied(c.answer) : d.stage = "asked"
    BY DEF Denied, Call
  <1>2. StillToApply' \subseteq StillToApply
    BY <1>1 DEF StillToApply
  <1>3. AnswersFollowed'
    BY <1>2, CallsFollowed DEF InTime
  <1>4. c.answer = 0 \/ c.answer \in Followed
    BY DEF InTime, AnswersFollowed, StillToApply
  <1> QED
    BY <1>3, <1>4 DEF ShownFollowed

\* Steps that neither apply an answer nor give one.
LEMMA OthersFollowed ==
  ASSUME InTime, shown' = shown, Followed \ {0} \subseteq Followed',
         {c \in calls' : c.stage = "answered"} = {c \in calls : c.stage = "answered"}
  PROVE  AnswersFollowed' /\ ShownFollowed'
  <1>1. StillToApply' = StillToApply /\ Asking' = Asking
    BY DEF StillToApply, Asking
  <1> QED
    BY <1>1 DEF InTime, AnswersFollowed, ShownFollowed

\* The server says which visit is open, and the page will apply it: the ends it
\* has missed are made good, but for those an older answer may undo.
LEMMA CurrentFollowed ==
  ASSUME InTime, NEW c \in calls, AnswerCurrent(c)
  PROVE  AnswersFollowed' /\ ShownFollowed'
  <1> DEFINE d == Answered(c, "answered", Current)
  <1>1. d.stage = "answered" /\ d.answer = Current /\ d.kind \in {"load", "current"}
    BY DEF AnswerCurrent, Answered, InTime, TypeOK, CallSet
  <1>2. d \in calls'
    BY DEF AnswerCurrent
  <1>3. ShownFollowed'
    BY <1>1, <1>2 DEF ShownFollowed, Asking
  <1>4. StillToApply' \subseteq StillToApply \cup {Current}
    BY <1>1 DEF AnswerCurrent, StillToApply
  <1>5. /\ Current' = Current /\ ended' = ended /\ EndsOnTheWay' = EndsOnTheWay
        /\ unheard' = unheard \cap StillToApply
    BY DEF AnswerCurrent, table, Current, EndsOnTheWay
  <1>6. AnswersFollowed'
    BY <1>4, <1>5 DEF InTime, AnswersFollowed, Followed
  <1> QED
    BY <1>3, <1>6

\* open() answers the visit that is open, or begins it.
LEMMA OpenFollowed ==
  ASSUME InTime, NEW c \in calls, AnswerOpen(c)
  PROVE  AnswersFollowed' /\ ShownFollowed'
  <1>1. c.stage = "asked" /\ shown' = shown /\ unheard' = unheard
    BY DEF AnswerOpen, page
  <1>2. ASSUME NEW v, v \in Followed', Followed \ {0} \subseteq Followed',
               calls' = (calls \ {c}) \cup {Answered(c, "answered", v)}
        PROVE  AnswersFollowed' /\ ShownFollowed'
    <2>1. Answered(c, "answered", v).answer = v
      BY DEF Answered, InTime, TypeOK, CallSet
    <2>2. StillToApply' \subseteq StillToApply \cup {v}
      BY <1>2, <2>1 DEF StillToApply
    <2>3. Asking \subseteq Asking'
      BY <1>1, <1>2 DEF Asking
    <2> QED
      BY <1>1, <1>2, <2>2, <2>3 DEF InTime, AnswersFollowed, ShownFollowed
  <1>3. CASE /\ open
             /\ calls' = (calls \ {c}) \cup {Answered(c, "answered", visit)}
             /\ UNCHANGED <<table, toPhone>>
    <2>1. Followed \subseteq Followed'
      BY <1>1, <1>3, FollowedLost
    <2>2. visit \in Followed
      BY <1>3 DEF Followed, Current
    <2> QED
      BY <1>2, <1>3, <2>1, <2>2
  <1>4. CASE Begin /\ calls' = (calls \ {c})
                         \cup {Answered(c, "answered", visit + 1)}
    <2>1. Followed \ {0} \subseteq Followed' /\ visit + 1 \in Followed'
      BY <1>1, <1>4, FollowedBegin DEF InTime
    <2> QED
      BY <1>2, <1>4, <2>1
  <1>5. CASE calls' = calls \ {c} /\ UNCHANGED <<table, toPhone>>
    <2>1. Followed \subseteq Followed'
      BY <1>1, <1>5, FollowedLost
    <2>2. {d \in calls' : d.stage = "answered"} = {d \in calls : d.stage = "answered"}
      BY <1>1, <1>5
    <2> QED
      BY <1>1, <2>1, <2>2, OthersFollowed
  <1> QED
    BY <1>3, <1>4, <1>5 DEF AnswerOpen

\* A settled page shows no visit that is over, unless its end passed the page
\* by and it has not asked since.
THEOREM VisitAlwaysCurrent == Spec => []VisitIsCurrent
  <1>1. Init => InTime
    BY TypeStart DEF Init, InTime, Quiet, Listens, AnswersFollowed, StillToApply,
                     ShownFollowed, Call
  <1>2. InTime /\ TypeOK' /\ [Next]_vars => InTime'
    <2> SUFFICES ASSUME InTime, TypeOK', [Next]_vars
                 PROVE  AnswersFollowed' /\ ShownFollowed'
      BY QuietStep DEF InTime
    <2>1. TypeOK /\ Quiet
      BY DEF InTime
    <2>2. CASE OpenVisit
      BY <2>1, <2>2, FollowedBegin, OthersFollowed DEF OpenVisit, page
    <2>3. CASE UpdateTable
      <3>1. EndsOnTheWay' = EndsOnTheWay
        BY <2>1, <2>3, EndsBroadcast
           DEF UpdateTable, EndsOnTheWay, EndsOf, TypeOK
      <3>2. Followed' = Followed
        BY <2>3, <3>1 DEF UpdateTable, Followed, Current
      <3> QED
        BY <2>3, <3>2, OthersFollowed DEF UpdateTable, page
    <2>4. CASE CloseVisit
      <3>1. Followed \subseteq Followed'
        BY <2>4 DEF CloseVisit, Followed, Current, EndsOnTheWay
      <3> QED
        BY <2>4, <3>1, OthersFollowed DEF CloseVisit, page
    <2>5. CASE StartSession
      <3>1. Followed \subseteq Followed'
        BY <2>5, FollowedLost DEF StartSession
      <3>2. {c \in calls' : c.stage = "answered"}
              = {c \in calls : c.stage = "answered"}
        BY <2>5 DEF StartSession, Call
      <3> QED
        BY <2>5, <3>1, <3>2, OthersFollowed DEF StartSession, page
    <2>6. CASE Announce
      <3> PICK v \in ended : AnnounceClosed(v)
        BY <2>6 DEF Announce
      <3>1. Followed \subseteq Followed'
        BY <2>1, FollowedAnnounce
      <3> QED
        BY <3>1, OthersFollowed DEF AnnounceClosed, page
    <2>7. CASE Accept
      <3>1. toPhone = <<>>
        BY <2>1, <2>7 DEF Quiet, Accept, Listens
      <3>2. EndsOnTheWay = {}
        BY <3>1, EndsNothing DEF EndsOnTheWay, EndsOf
      <3>3. Followed \subseteq Followed'
        BY <2>7, <3>2 DEF Accept, Followed, table, Current
      <3> QED
        BY <2>7, <3>3, OthersFollowed DEF Accept, page
    <2>8. CASE HandlePacket
      BY <2>8, FollowedLost, OthersFollowed DEF HandlePacket, page
    <2>9. CASE AnswerRefresh
      <3>1. PICK cs \in SUBSET Waiting \ {{}} :
               calls' = (calls \ cs)
                  \cup {Answered(c, "refreshed", Current) : c \in cs}
        BY <2>9 DEF AnswerRefresh
      <3>2. \A c \in cs : /\ c.stage = "asked"
                          /\ Answered(c, "refreshed", Current).stage = "refreshed"
        BY <2>1 DEF Waiting, TypeOK, CallSet, Answered
      <3>3. {c \in calls' : c.stage = "answered"}
              = {c \in calls : c.stage = "answered"}
        BY <3>1, <3>2
      <3> QED
        BY <2>9, <3>3, FollowedLost, OthersFollowed DEF AnswerRefresh, page
    <2>10. ASSUME NEW c \in calls, AnswerCurrent(c)
           PROVE  AnswersFollowed' /\ ShownFollowed'
      BY <2>10, CurrentFollowed
    <2>11. ASSUME NEW c \in calls, AnswerOpen(c)
           PROVE  AnswersFollowed' /\ ShownFollowed'
      BY <2>11, OpenFollowed
    <2>12. CASE Replay
      <3>1. PICK v \in {c.answer : c \in Refreshed} \ {0} :
              /\ calls' = (calls \ Refreshed)
                   \cup {Answered(c, "again", v) :
                           c \in {c \in Refreshed : c.visit # v}}
              /\ unheard' = unheard \cup EndsOnTheWay
              /\ UNCHANGED <<table, shown>>
        BY <2>12 DEF Replay
      <3>2. \A c \in Refreshed : /\ c.stage = "refreshed"
                                 /\ Answered(c, "again", v).stage = "again"
        BY <2>1 DEF Refreshed, TypeOK, CallSet, Answered
      <3>3. {c \in calls' : c.stage = "answered"}
              = {c \in calls : c.stage = "answered"}
        BY <3>1, <3>2
      <3> QED
        BY <3>1, <3>3, FollowedLost, OthersFollowed
    <2>13. ASSUME NEW c \in calls, ApplyLoad(c) \/ ApplyOpen(c) \/ ApplyCurrent(c)
           PROVE  AnswersFollowed' /\ ShownFollowed'
      <3>1. Followed \subseteq Followed'
        BY <2>13, FollowedLost DEF ApplyLoad, ApplyOpen, ApplyCurrent, SameSocket
      <3>2. /\ c.stage = "answered"
            /\ calls' \subseteq (calls \ {c}) \cup Denied(c.answer)
            /\ shown' \in {0, c.answer}
        BY <2>13 DEF ApplyLoad, ApplyOpen, ApplyCurrent
      <3> QED
        BY <3>1, <3>2, AnswerFollowed
    <2>14. ASSUME NEW c \in calls, GiveUp(c)
           PROVE  AnswersFollowed' /\ ShownFollowed'
      <3>1. {d \in calls' : d.stage = "answered"}
              = {d \in calls : d.stage = "answered"}
        BY <2>14 DEF GiveUp
      <3> QED
        BY <2>14, <3>1, FollowedLost, OthersFollowed DEF GiveUp
    <2>15. CASE HandleConnect
      BY <2>1, <2>15, FollowedEvent, OthersFollowed DEF HandleConnect, page
    <2>16. CASE HandleTable
      BY <2>1, <2>16, FollowedEvent, OthersFollowed DEF HandleTable, page
    <2>17. CASE HandleClosed
      <3>1. UNCHANGED <<StillToApply, Asking>>
        BY <2>17 DEF HandleClosed, StillToApply, Asking
      <3> QED
        BY <2>1, <2>17, <3>1, FollowedClosed, CallsFollowed
           DEF InTime, ShownFollowed
    <2>18. CASE Drop
      BY <2>18, FollowedLost, OthersFollowed DEF Drop, page
    <2>19. CASE Reopen
      <3>1. {c \in calls' : c.stage = "answered"}
              = {c \in calls : c.stage = "answered"}
        BY <2>19 DEF Reopen, Call
      <3> QED
        BY <2>19, <3>1, FollowedLost, OthersFollowed DEF Reopen, page
    <2>20. CASE Reload
      <3>1. StillToApply' = {} /\ shown' = 0
        BY <2>20 DEF Reload, StillToApply, Call
      <3> QED
        BY <3>1 DEF AnswersFollowed, ShownFollowed
    <2>21. CASE \E c \in calls : FailCall(c)
      <3> PICK c \in calls : FailCall(c)
        BY <2>21
      <3>1. c.stage = "asked" /\ Answered(c, "refreshed", 0).stage = "refreshed"
        BY <2>1 DEF FailCall, TypeOK, CallSet, Answered
      <3>2. {d \in calls' : d.stage = "answered"}
              = {d \in calls : d.stage = "answered"}
        BY <3>1 DEF FailCall
      <3> QED
        BY <3>2, FollowedLost, OthersFollowed DEF FailCall, page
    <2>22. CASE UNCHANGED vars
      BY <2>22, FollowedLost, OthersFollowed DEF vars, page
    <2> QED
      BY <2>2, <2>3, <2>4, <2>5, <2>6, <2>7, <2>8, <2>9, <2>10, <2>11, <2>12,
         <2>13, <2>14, <2>15, <2>16, <2>17, <2>18, <2>19, <2>20, <2>21, <2>22
         DEF Next, Gateway, Answer, Apply, Handle
  <1>3. InTime => VisitIsCurrent
    <2> SUFFICES ASSUME InTime, Showing PROVE shown = Current \/ shown \in unheard
      BY DEF VisitIsCurrent
    <2>1. ended = {} /\ calls = {} /\ toPhone = <<>> /\ shown # 0
      BY DEF Showing, Settled
    <2>2. EndsOnTheWay = {} /\ Asking = {}
      BY <2>1, EndsNothing DEF EndsOnTheWay, EndsOf, Asking
    <2> QED
      BY <2>1, <2>2 DEF InTime, ShownFollowed, Followed
  <1> QED
    BY <1>1, <1>2, <1>3, TypeCorrect, PTL DEF Spec
=============================================================================

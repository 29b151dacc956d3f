------------------------------- MODULE Player -------------------------------
(***************************************************************************)
(* The page that sounds in the bar (app/player/page.tsx and                *)
(* AdminPlaybackPlayer.tsx) against the server: the page learns of the     *)
(* queue and of PlaybackState through a socket, plays a video and asks the *)
(* server for the next song when the video ends, or when songs wait and    *)
(* nothing plays.                                                          *)
(*                                                                         *)
(* Each call is one step of the server here (PlaybackQueue takes them      *)
(* apart); on its way to the server and back it is late, lost or repeated. *)
(* The page has one window, which is never reloaded.                       *)
(***************************************************************************)
EXTENDS Integers, Sequences, FiniteSets

CONSTANTS
  Songs,        \* pool of queue items; bounds the songs ever queued
  Videos,
  Catalogs,     \* which YouTube video each song may be
  MaxTroubles,  \* bound on failures and actions of the staff, together
  None

ASSUME PlayerAssumption ==
  /\ Catalogs \subseteq [Songs -> Videos]
  /\ None \notin Songs \cup Videos
  /\ MaxTroubles \in Nat

VARIABLES
  videoOf,   \* the catalogue; never changes
  waiting,   \* server: the pending songs in order
  on,        \* server: the playing one
  over,      \* server: the songs that are played or skipped
  playback,  \* server: PlaybackState
  socket,    \* messages on their way to the page
  load,      \* the two reads of the page when it opens
  page,      \* what the page believes, and its refs
  call,      \* the page's call of advanceToNext
  nudges,    \* its calls of setPlaying on the way
  video,     \* the YouTube player
  signals,   \* its stateChange events the page has not handled
  troubles,  \* failures and actions of the staff so far
  mishap,    \* history: why the music may have stopped
  heard      \* history: the songs whose video has ended while they were on

server == <<videoOf, waiting, on, over, playback>>
ghosts == <<troubles, mishap, heard>>
vars == <<server, socket, load, page, call, nudges, video, signals, ghosts>>

Playback(status, song) == [status |-> status, song |-> song]
Nothing == Playback("idle", None)

NoCall == [kind |-> "none", step |-> "idle", tries |-> 0, saw |-> None]
NoVideo == [id |-> None, phase |-> "off"]

\* The reads: not answered, or the answers on their way.
Asked == [queue |-> "asked", playback |-> "asked",
          pending |-> FALSE, state |-> Nothing]

\* The page opens when songs may wait already.
Init ==
  /\ videoOf \in Catalogs
  /\ \E s \in Songs : waiting \in {<<>>, <<s>>}
  /\ on = None
  /\ over = {}
  /\ playback = Nothing
  /\ socket = <<>>
  /\ load = Asked
  /\ page = [pending |-> FALSE, pb |-> Nothing, loaded |-> FALSE,
             deaf |-> FALSE, timer |-> "off"]
  /\ call = NoCall
  /\ nudges = 0
  /\ video = NoVideo
  /\ signals = <<>>
  /\ troubles = 0
  /\ mishap = "none"
  /\ heard = {}

Queued == {waiting[k] : k \in DOMAIN waiting}
Fresh == Songs \ (Queued \cup over \cup {on})

Trouble == troubles < MaxTroubles /\ troubles' = troubles + 1

QueueUpdated(list) ==
  [about |-> "queue", pending |-> list # <<>>, state |-> Nothing]
PlaybackUpdated(pb) ==
  [about |-> "playback", pending |-> FALSE, state |-> pb]

(***************************************************************************)
(* The server.                                                             *)
(***************************************************************************)
\* What was on is over, the first that waits is on, or a song of the house,
\* if there is one (pickNextPlayable); then the playback state and two events.
Show(song) == IF song = None THEN Nothing ELSE Playback("buffering", song)

MovedTo(song, list) ==
  /\ on' = song
  /\ waiting' = list
  /\ over' = over \cup ({on} \ {None})

Announced(pb, list) ==
  /\ playback' = pb
  /\ socket' = socket \o <<PlaybackUpdated(pb), QueueUpdated(list)>>

NextSongs ==
  IF waiting # <<>> THEN {Head(waiting)} ELSE Fresh \cup {None}
Rest == IF waiting # <<>> THEN Tail(waiting) ELSE <<>>

Advance ==
  \E song \in NextSongs :
    /\ MovedTo(song, Rest)
    /\ Announced(Show(song), Rest)

\* A guest or the staff adds a song; in this model always at the end.
AddSong(s) ==
  /\ s \in Fresh
  /\ waiting' = Append(waiting, s)
  /\ socket' = Append(socket, QueueUpdated(waiting'))
  /\ UNCHANGED <<videoOf, on, over, playback, load, page, call, nudges, video, signals,
                 ghosts>>

\* The staff's panel.
Staffed == Trouble /\ UNCHANGED <<videoOf, load, page, call, nudges, video, signals, heard>>

StaffAdvance ==       \* skipAndAdvance, advanceToNext
  /\ Staffed
  /\ Advance
  /\ mishap' = "none"

StaffPlayNow(s) ==    \* adminPlayNow
  /\ Staffed
  /\ s \in Fresh
  /\ MovedTo(s, waiting)
  /\ Announced(Show(s), waiting)
  /\ mishap' = "none"

StaffFinish ==        \* finishCurrent
  /\ Staffed
  /\ MovedTo(None, waiting)
  /\ Announced(Playback("paused", None), waiting)
  /\ mishap' = "paused"

\* skip(id), of a song that waits or that has just started.
StaffSkip(s) ==
  /\ Staffed
  /\ s \in Queued \cup ({on} \ {None})
  /\ waiting' = SelectSeq(waiting, LAMBDA x : x # s)
  /\ on' = IF on = s THEN None ELSE on
  /\ over' = over \cup {s}
  /\ socket' = Append(socket, QueueUpdated(waiting'))
  /\ UNCHANGED <<videoOf, playback, mishap>>

\* The server handles what the page has sent.
HandleAdvance ==
  /\ call.step = "sent"
  /\ Advance
  /\ call' = [call EXCEPT !.step = "answered"]
  /\ UNCHANGED <<videoOf, load, page, nudges, video, signals, ghosts>>

\* setPlaying marks whatever the row points at.
SetPlaying(pb) == [pb EXCEPT !.status = "playing"]

HandleNudge ==
  /\ nudges > 0
  /\ nudges' = nudges - 1
  /\ playback' = SetPlaying(playback)
  /\ socket' = Append(socket, PlaybackUpdated(playback'))
  /\ mishap' = IF playback.song = None THEN "noSong" ELSE mishap
  /\ UNCHANGED <<videoOf, waiting, on, over, load, page, call, video, signals, troubles,
                 heard>>

AnswerQueue ==
  /\ load.queue = "asked"
  /\ load' = [load EXCEPT !.queue = "answered", !.pending = waiting # <<>>]
  /\ UNCHANGED <<server, socket, page, call, nudges, video, signals, ghosts>>

AnswerPlayback ==
  /\ load.playback = "asked"
  /\ load' = [load EXCEPT !.playback = "answered", !.state = playback]
  /\ UNCHANGED <<server, socket, page, call, nudges, video, signals, ghosts>>

(***************************************************************************)
(* The page: state, then the effects of the state.                         *)
(***************************************************************************)
Send(kind) == call' = [kind |-> kind, step |-> "sent", tries |-> 0,
                       saw |-> page'.pb.song]

\* Songs wait and nothing plays.
Cue(pending, pb) == pending /\ pb.status = "idle"

\* The effect that starts the music: once, when the queue or the playback
\* state changes, and not while a call is in flight or the page is loading.
\* `deaf` is history: it has ignored a cue.
StartIfIdle(pending, pb, loaded) ==
  LET go == Cue(pending, pb) /\ loaded /\ call = NoCall IN
  /\ page' = [page EXCEPT
       !.pending = pending, !.pb = pb,
       !.deaf = IF go THEN FALSE ELSE Cue(pending, pb),
       !.timer = IF pb.status # "buffering" THEN "off"
                   ELSE IF page.pb.status # "buffering" THEN "armed" ELSE @]
  /\ IF go THEN Send("once") ELSE UNCHANGED call

\* The effect that follows the song: another video is loaded, no song stops
\* the player.  The same video once more changes nothing the effect looks at.
Follow(pb) ==
  video' = CASE pb.song = None -> NoVideo
             [] pb.song # None /\ videoOf[pb.song] = video.id -> video
             [] OTHER -> [id |-> videoOf[pb.song], phase |-> "loading"]

SameVideoAgain(pb) ==
  /\ pb.song \notin {None, page.pb.song}
  /\ videoOf[pb.song] = video.id

Receive ==
  LET message == Head(socket) IN
  /\ socket # <<>>
  /\ socket' = Tail(socket)
  /\ IF message.about = "queue"
       THEN /\ StartIfIdle(message.pending, page.pb, page.loaded)
            /\ UNCHANGED <<video, mishap>>
       ELSE /\ StartIfIdle(page.pending, message.state, page.loaded)
            /\ Follow(message.state)
            /\ mishap' = IF SameVideoAgain(message.state) THEN "sameVideo"
                                                          ELSE mishap
  /\ UNCHANGED <<server, load, nudges, signals, troubles, heard>>

\* The answers of the two reads overwrite what events have brought meanwhile.
\* setLoaded(true) follows the second, and the effect of that answer may run
\* before it; the effect does not depend on it.
Loads(part, other, pending, pb) ==
  /\ load[part] = "answered"
  /\ load' = [load EXCEPT ![part] = "done"]
  /\ \E loaded \in IF load[other] = "done" THEN BOOLEAN ELSE {FALSE} :
       /\ call' = IF Cue(pending, pb) /\ loaded
                    THEN [kind |-> "once", step |-> "sent", tries |-> 0,
                          saw |-> pb.song]
                    ELSE call
       /\ page' = [page EXCEPT
            !.pending = pending, !.pb = pb, !.loaded = load[other] = "done",
            !.timer = IF pb.status # "buffering" THEN "off"
                        ELSE IF page.pb.status # "buffering" THEN "armed" ELSE @]
       /\ mishap' =
            IF pending # (waiting # <<>>) \/ pb # playback THEN "lateAnswer"
            ELSE IF Cue(pending, pb) /\ load[other] = "done" /\ ~ loaded
              THEN "notLoaded"
            ELSE mishap
  /\ Follow(pb)
  /\ UNCHANGED <<server, socket, nudges, signals, troubles, heard>>

LoadQueue == Loads("queue", "playback", load.pending, page.pb)
LoadPlayback == Loads("playback", "queue", page.pending, load.state)

\* The answer: the ref is free again, and no effect runs.
CallEnds_KeepsRef ==
  /\ call.step = "answered"
  /\ call' = [call EXCEPT !.step = "idle"]
  /\ UNCHANGED <<server, socket, load, page, nudges, video, signals, ghosts>>

CallEnds ==
  /\ call.step = "answered"
  /\ call' = NoCall
  /\ mishap' = IF page.deaf /\ Cue(page.pending, page.pb) THEN "deaf" ELSE mishap
  /\ UNCHANGED <<server, socket, load, page, nudges, video, signals, troubles, heard>>

\* stateChange 1: the video plays.
HearPlaying ==
  /\ signals # <<>> /\ Head(signals) = "playing"
  /\ signals' = Tail(signals)
  /\ nudges' = nudges + (IF page.pb.status = "buffering" THEN 1 ELSE 0)
  /\ UNCHANGED <<server, socket, load, page, call, video, ghosts>>

\* stateChange 0: the video is over.
HearEnd_WhileBuffering ==
  /\ signals # <<>> /\ Head(signals) = "ended"
  /\ signals' = Tail(signals)
  /\ UNCHANGED page
  /\ IF page.pb.status \in {"playing", "buffering"} /\ call = NoCall
       THEN Send("ended") /\ mishap' = "none"
       ELSE UNCHANGED <<call, mishap>>
  /\ UNCHANGED <<server, socket, load, nudges, video, troubles, heard>>

HearEnd ==
  /\ signals # <<>> /\ Head(signals) = "ended"
  /\ signals' = Tail(signals)
  /\ UNCHANGED page
  /\ IF page.pb.status = "playing" /\ call = NoCall
       THEN Send("ended") /\ mishap' = "none"
       ELSE UNCHANGED <<call, mishap>>
  /\ UNCHANGED <<server, socket, load, nudges, video, troubles, heard>>

\* Thirty seconds of buffering; events of the video do not take that long.
BufferingTimeout ==
  /\ signals = <<>>
  /\ page.timer = "armed"
  /\ page' = [page EXCEPT !.timer = "fired"]
  /\ nudges' = nudges + 1
  /\ UNCHANGED <<server, socket, load, call, video, signals, ghosts>>

(***************************************************************************)
(* The video.                                                              *)
(***************************************************************************)
VideoStarts ==
  /\ video.phase = "loading"
  /\ video' = [video EXCEPT !.phase = "playing"]
  /\ signals' = Append(signals, "playing")
  /\ UNCHANGED <<server, socket, load, page, call, nudges, ghosts>>

\* A song takes longer than thirty seconds, than a call or the page's first
\* reads, and than it takes to tell the server and the page that it has started.
Told == /\ signals = <<>>
        /\ nudges = 0
        /\ \A k \in DOMAIN socket : socket[k].about # "playback"
        /\ page.timer # "armed"
        /\ call = NoCall
        /\ page.loaded

VideoEnds ==
  /\ video.phase = "playing"
  /\ Told
  /\ video' = [video EXCEPT !.phase = "ended"]
  /\ signals' = Append(signals, "ended")
  /\ heard' = heard \cup ({page.pb.song} \ {None})
  /\ UNCHANGED <<server, socket, load, page, call, nudges, troubles, mishap>>

\* The error event only shows a message.
VideoBreaks ==
  /\ Trouble
  /\ video.phase = "loading"
  /\ video' = [video EXCEPT !.phase = "broken"]
  /\ mishap' = "broken"
  /\ UNCHANGED <<server, socket, load, page, call, nudges, signals, heard>>

(***************************************************************************)
(* Failures.                                                               *)
(***************************************************************************)
\* handlePlaybackEnded tries again, twice; the effect does not.
MAX_RETRIES == 2
Retry ==
  IF call.kind = "ended" /\ call.tries < MAX_RETRIES
    THEN /\ call' = [call EXCEPT !.step = "sent", !.tries = @ + 1]
         /\ UNCHANGED mishap
    ELSE /\ call' = NoCall
         /\ mishap' = "failed"

LoseCall ==          \* before the server has seen it, or after
  /\ Trouble
  /\ call.step \in {"sent", "answered"}
  /\ Retry
  /\ UNCHANGED <<server, socket, load, page, nudges, video, signals, heard>>

\* The server stops between the transaction and the playback state.
CrashAfterCommit ==
  /\ Trouble
  /\ call.step = "sent"
  /\ \E song \in NextSongs : MovedTo(song, Rest)
  /\ Retry
  /\ UNCHANGED <<videoOf, playback, socket, load, page, nudges, video, signals, heard>>

LoseNudge ==
  /\ Trouble
  /\ nudges > 0
  /\ nudges' = nudges - 1
  /\ UNCHANGED <<server, socket, load, page, call, video, signals, mishap, heard>>

\* The page does not ask again when its socket is back.
LoseMessage ==
  /\ Trouble
  /\ socket # <<>>
  /\ socket' = Tail(socket)
  /\ mishap' = "cut"
  /\ UNCHANGED <<server, load, page, call, nudges, video, signals, heard>>

Staff ==
  \/ StaffAdvance
  \/ \E s \in Songs : StaffPlayNow(s) \/ StaffSkip(s)
  \/ StaffFinish

Next ==
  \/ \E s \in Songs : AddSong(s)
  \/ Staff
  \/ HandleAdvance
  \/ HandleNudge
  \/ AnswerQueue
  \/ AnswerPlayback
  \/ Receive
  \/ LoadQueue
  \/ LoadPlayback
  \/ CallEnds
  \/ HearPlaying
  \/ HearEnd
  \/ BufferingTimeout
  \/ VideoStarts
  \/ VideoEnds
  \/ VideoBreaks
  \/ LoseCall
  \/ CrashAfterCommit
  \/ LoseNudge
  \/ LoseMessage

\* Calls and messages arrive unless they are lost, timers run out, videos that
\* load start and those that start end.  Nothing makes the staff or a guest act.
Fairness ==
  /\ WF_vars(HandleAdvance)
  /\ WF_vars(HandleNudge)
  /\ WF_vars(AnswerQueue)
  /\ WF_vars(AnswerPlayback)
  /\ WF_vars(Receive)
  /\ WF_vars(LoadQueue)
  /\ WF_vars(LoadPlayback)
  /\ WF_vars(CallEnds)
  /\ WF_vars(HearPlaying)
  /\ WF_vars(HearEnd)
  /\ WF_vars(BufferingTimeout)
  /\ WF_vars(VideoStarts)
  /\ WF_vars(VideoEnds)

Spec == Init /\ [][Next]_vars
FairSpec == Spec /\ Fairness

(***************************************************************************)
(* Properties.                                                             *)
(***************************************************************************)
\* A song that waits is over at some time, unless one of the mishaps happens
\* first: the staff has stopped the music, a call or a message was lost, the
\* page ignored its cue, setPlaying came when no song was on, a video is
\* broken or follows itself (handlePlaybackEnded and the effect of the page).
EveryTurnComes ==
  \A s \in Songs : s \in Queued /\ mishap = "none"
                     ~> s \in over \/ mishap # "none"

\* The page ends a song nobody has heard to its end only if it did not know of
\* that song when it sent the call, or sent the call again.
NeverCutOff ==
  [][call.step = "sent" /\ on \in over' \ over /\ on \notin heard
       /\ troubles' = troubles
       => call.saw # on \/ call.tries > 0]_vars
=============================================================================

--------------------------- MODULE LiveKitTransport ---------------------------
(***************************************************************************)
(* transports/livekit/transport.go: one session's place in a LiveKit room. *)
(*                                                                         *)
(* Actors: the runner (Connect, StartReceiving, Cleanup); the callbacks of *)
(* the LiveKit SDK (participants come and go, tracks are subscribed and    *)
(* unsubscribed, data packets arrive); one goroutine per track (readTrack);*)
(* the goroutine of StartReceiving; the input handler, which empties the   *)
(* output channel; the output handler's event loop, which calls SendEvent. *)
(*                                                                         *)
(* Audio output may be on or off; the other options have their defaults:   *)
(* audio and text input are on, video is off, a session ends with its      *)
(* participant.  A track is subscribed once and a participant comes once,  *)
(* before the agent or after it.  Left out: the connection state, which is *)
(* only reported; participantAvailableCh, WaitForParticipant and           *)
(* SetParticipant, which nothing in the repository uses; Reset, which only *)
(* Runner.Reset would call; the contents of media and messages.            *)
(***************************************************************************)
EXTENDS Naturals, FiniteSets

CONSTANTS
  Participants,  \* the participants that come to the room
  Accepted,      \* those of a kind in inputOptions.ParticipantKinds
  Tracks,        \* their audio tracks
  Owner,         \* the participant of each track
  Nobody,        \* linkedParticipant = ""
  OutputCap,     \* capacity of the output channel, 100 in the code
  ErrorCap,      \* capacity of the error channel, 10 in the code
  EventKinds     \* the kinds of events that come to SendEvent

ASSUME TransportAssumption ==
  /\ Accepted \subseteq Participants /\ Nobody \notin Participants
  /\ Owner \in [Tracks -> Participants]
  /\ OutputCap \in Nat \ {0} /\ ErrorCap \in Nat \ {0}
  /\ EventKinds \subseteq {"state", "audio", "interruption", "publish"}

VARIABLES
  audioEnabled,       \* outputOptions.AudioEnabled
  life,               \* Connect: "new", "joining", "publishing", "linking",
                      \* "connected" or "failed"
  unseen,             \* participants that onRoomConnected has yet to look at
  sessionDone,        \* l.ctx is done
  client, connected, audioTrack,
  channels,           \* outputChan and errorChan are set
  receiving,          \* StartReceiving: "none", "waiting" or "ended"
  linkedParticipant,
  disconnectCh,       \* reasons in participantDisconnectCh, of capacity 1
  activeTracks, participantTracks, cancelledTracks,
  reader, captured,   \* readTrack of each track, and the list it has loaded
  packet,             \* handleDataPacket: "none" or "sending"
  cleanup,            \* "none", "clearing", "waiting", "disconnecting",
                      \* "closing" or "done"
  sender,             \* SendEvent: "idle", "checked", "audio" or "state"
  queue,              \* chunks in the output channel
  errors,             \* errors in the error channel
  crashed,            \* a nil pointer was used outside a recover
  \* External: the room.
  person,             \* "out", "in" or "gone"
  live,               \* tracks that are subscribed and not closed
  \* History.
  reported,           \* an error was put into the error channel
  lost                \* a linked participant has left the room

roomVars == <<person, live>>
linkVars == <<linkedParticipant, disconnectCh, lost>>
trackVars == <<activeTracks, participantTracks, cancelledTracks, reader, captured>>
errVars == <<errors, reported>>
chanVars == <<queue, errVars>>
joinVars == <<audioEnabled, life, unseen, client, connected>>
lifeVars == <<joinVars, sessionDone, audioTrack, channels, cleanup>>
transportVars ==
  <<audioEnabled, life, unseen, sessionDone, client, connected, audioTrack,
    channels, receiving, linkedParticipant, disconnectCh, activeTracks,
    participantTracks, cancelledTracks, reader, captured, packet, cleanup,
    sender, queue, errors, crashed, person, live, reported, lost>>

\* People may be in the room before the agent.  A job may name a participant:
\* runJob then links it beforehand, whatever its kind and wherever it is.
TransportInit ==
  /\ audioEnabled \in BOOLEAN
  /\ life = "new" /\ unseen = {} /\ sessionDone = FALSE
  /\ client = FALSE /\ connected = FALSE /\ audioTrack = FALSE
  /\ channels = FALSE /\ receiving = "none"
  /\ linkedParticipant \in {Nobody} \cup Participants /\ disconnectCh = 0
  /\ activeTracks = {} /\ cancelledTracks = {}
  /\ participantTracks = [p \in Participants |-> {}]
  /\ reader = [t \in Tracks |-> "none"] /\ captured = [t \in Tracks |-> {}]
  /\ packet = "none" /\ cleanup = "none" /\ sender = "idle"
  /\ queue = 0 /\ errors = 0 /\ crashed = FALSE
  /\ person \in [Participants -> {"out", "in"}] /\ live = {}
  /\ reported = FALSE /\ lost = FALSE

-----------------------------------------------------------------------------
(* Connect, within the Initialize of the input handler: nothing else of    *)
(* the session runs before it returns, but the callbacks of the room do.   *)

ConnectOnly == UNCHANGED <<audioEnabled, sessionDone, channels, cleanup, receiving,
                           disconnectCh, lost, trackVars, packet, sender, chanVars,
                           crashed, roomVars>>

\* The room is joined and its callbacks begin, or it is not.
Connect ==
  /\ life = "new"
  /\ life' \in {"joining", "failed"}
  /\ UNCHANGED <<unseen, client, connected, audioTrack, linkedParticipant>>
  /\ ConnectOnly

\* onRoomConnected
OnRoomConnected ==
  /\ life = "joining"
  /\ life' = "publishing" /\ client' = TRUE /\ connected' = TRUE
  /\ UNCHANGED <<unseen, audioTrack, linkedParticipant>> /\ ConnectOnly

\* createAudioTrack fails, when the track is made or when it is published: Connect
\* returns the error, and the agent stays in the room.
CreateAudioTrackFails ==
  /\ life = "publishing" /\ audioEnabled
  /\ life' = "failed" /\ audioTrack' \in BOOLEAN
  /\ UNCHANGED <<unseen, client, connected, linkedParticipant>> /\ ConnectOnly

\* With the track, if there is to be one, those present now are listed.
ListParticipants ==
  /\ life = "publishing"
  /\ audioTrack' = audioEnabled
  /\ unseen' = {p \in Participants : person[p] = "in"}
  /\ life' = IF unseen' = {} THEN "connected" ELSE "linking"
  /\ UNCHANGED <<client, connected, linkedParticipant>> /\ ConnectOnly

\* handleParticipantConnected: the first one of an accepted kind is linked.
Link(p) ==
  linkedParticipant' = IF p \in Accepted /\ linkedParticipant = Nobody
                       THEN p ELSE linkedParticipant

\* The loop over the list: some may have left by now.
LinkPresent(p) ==
  /\ life = "linking" /\ p \in unseen
  /\ Link(p)
  /\ unseen' = unseen \ {p}
  /\ life' = IF unseen' = {} THEN "connected" ELSE "linking"
  /\ UNCHANGED <<client, connected, audioTrack>> /\ ConnectOnly

-----------------------------------------------------------------------------
(* The session's life.                                                     *)

\* An error is put into the error channel unless that is gone or full.
PutError ==
  IF channels /\ errors < ErrorCap
  THEN errors' = errors + 1 /\ reported' = TRUE
  ELSE UNCHANGED errVars

\* StartReceiving has a goroutine of its own, which may be late.
StartReceiving ==
  /\ life = "connected" /\ receiving = "none"
  /\ channels' = TRUE /\ receiving' = "waiting"
  /\ UNCHANGED <<joinVars, sessionDone, audioTrack, cleanup, linkVars, trackVars,
                 packet, sender, chanVars, crashed, roomVars>>

\* Faulty variant: the reason is taken and only logged.
ReceiveLeftSilently ==
  /\ receiving = "waiting" /\ disconnectCh = 1
  /\ receiving' = "ended" /\ disconnectCh' = 0
  /\ UNCHANGED <<lifeVars, linkedParticipant, lost, trackVars, packet, sender, chanVars,
                 crashed, roomVars>>

\* The goroutine that waits for the participant to leave, or for the context.
ReceiveLeft ==
  /\ receiving = "waiting" /\ disconnectCh = 1
  /\ receiving' = "ended" /\ disconnectCh' = 0
  /\ PutError \/ (sessionDone /\ UNCHANGED errVars)
  /\ UNCHANGED <<lifeVars, linkedParticipant, lost, trackVars, packet, sender, queue,
                 crashed, roomVars>>

ReceiveEnds ==
  /\ receiving = "waiting" /\ sessionDone
  /\ receiving' = "ended"
  /\ UNCHANGED <<lifeVars, linkVars, trackVars, packet, sender, chanVars, crashed,
                 roomVars>>

\* Connect has returned, to a runner that may cancel the context of the session or
\* clean up.
Returned == life \in {"connected", "failed"}

SessionEnds ==
  /\ ~sessionDone /\ Returned
  /\ sessionDone' = TRUE
  /\ UNCHANGED <<joinVars, audioTrack, channels, cleanup, receiving, linkVars,
                 trackVars, packet, sender, chanVars, crashed, roomVars>>

-----------------------------------------------------------------------------
(* Callbacks of the room, from the join until the client disconnects.      *)

InRoom == life = "joining" \/ client

\* OnParticipantConnected, which is called for those who come after the agent.
ParticipantConnected(p) ==
  /\ InRoom /\ person[p] = "out"
  /\ person' = [person EXCEPT ![p] = "in"]
  /\ Link(p)
  /\ UNCHANGED <<lifeVars, receiving, disconnectCh, lost, trackVars, packet, sender,
                 chanVars, crashed, live>>

\* handleParticipantDisconnected: cancel the readers that are listed, unlink the
\* participant and signal it.
ParticipantDisconnected(p) ==
  /\ InRoom /\ person[p] = "in"
  /\ person' = [person EXCEPT ![p] = "gone"]
  /\ live' = {t \in live : Owner[t] # p}
  /\ cancelledTracks' = cancelledTracks \cup (participantTracks[p] \cap activeTracks)
  /\ activeTracks' = activeTracks \ participantTracks[p]
  /\ participantTracks' = [participantTracks EXCEPT ![p] = {}]
  /\ IF linkedParticipant = p
     THEN linkedParticipant' = Nobody /\ disconnectCh' = 1 /\ lost' = TRUE
     ELSE UNCHANGED linkVars
  /\ UNCHANGED <<lifeVars, receiving, reader, captured, packet, sender, chanVars,
                 crashed>>

\* handleRemoteTrack: a track is read unless somebody else is linked.
TrackSubscribed(t) ==
  /\ InRoom /\ person[Owner[t]] = "in" /\ reader[t] = "none"
  /\ live' = live \cup {t}
  /\ reader' = [reader EXCEPT ![t] =
                  IF linkedParticipant \in {Nobody, Owner[t]} THEN "spawned"
                                                              ELSE "ignored"]
  /\ UNCHANGED <<lifeVars, receiving, linkVars, activeTracks, participantTracks,
                 cancelledTracks, captured, packet, sender, chanVars, crashed, person>>

\* Both the callback and the reader take a track off its participant's list.
Unlist(t) ==
  /\ activeTracks' = activeTracks \ {t}
  /\ participantTracks' = [participantTracks EXCEPT ![Owner[t]] = @ \ {t}]

\* handleTrackUnsubscribed
TrackUnsubscribed(t) ==
  /\ InRoom /\ t \in live
  /\ live' = live \ {t}
  /\ cancelledTracks' = cancelledTracks \cup ({t} \cap activeTracks)
  /\ Unlist(t)
  /\ UNCHANGED <<lifeVars, receiving, linkVars, reader, captured, packet, sender,
                 chanVars, crashed, person>>

\* handleDataPacket: the send blocks until there is room or the context is done.
DataPacket(p) ==
  /\ InRoom /\ person[p] = "in" /\ packet = "none"
  /\ linkedParticipant \in {Nobody, p} /\ channels
  /\ packet' = "sending"
  /\ UNCHANGED <<lifeVars, receiving, linkVars, trackVars, sender, chanVars,
                 crashed, roomVars>>

PacketLeaves ==
  /\ packet = "sending"
  /\ packet' = "none"
  /\ \/ sessionDone /\ UNCHANGED queue
     \/ channels /\ queue < OutputCap /\ queue' = queue + 1
  /\ UNCHANGED <<lifeVars, receiving, linkVars, trackVars, sender, errVars,
                 crashed, roomVars>>

-----------------------------------------------------------------------------
(* readTrack.                                                              *)

ReaderOnly == UNCHANGED <<lifeVars, receiving, linkVars, packet, sender, crashed,
                          roomVars>>

ReaderGoesTo(t, place) == reader' = [reader EXCEPT ![t] = place]

\* The cancel function is stored and the participant's list is loaded ...
ReaderStores(t) ==
  /\ reader[t] = "spawned"
  /\ ReaderGoesTo(t, "listing")
  /\ activeTracks' = activeTracks \cup {t}
  /\ captured' = [captured EXCEPT ![t] = participantTracks[Owner[t]]]
  /\ UNCHANGED <<participantTracks, cancelledTracks, chanVars>> /\ ReaderOnly

\* ... and the longer list is stored, over whatever is there by now.
ReaderLists(t) ==
  /\ reader[t] = "listing"
  /\ ReaderGoesTo(t, "top")
  /\ participantTracks' = [participantTracks EXCEPT ![Owner[t]] = captured[t] \cup {t}]
  /\ captured' = [captured EXCEPT ![t] = {}]
  /\ UNCHANGED <<activeTracks, cancelledTracks, chanVars>> /\ ReaderOnly

Stopped(t) == t \in cancelledTracks \/ sessionDone

ReaderChecks(t) ==
  /\ reader[t] = "top"
  /\ ReaderGoesTo(t, IF Stopped(t) THEN "leaving" ELSE "reading")
  /\ UNCHANGED <<activeTracks, participantTracks, cancelledTracks, captured, chanVars>>
  /\ ReaderOnly

\* A packet arrives; the output channel is loaded.
ReaderReads(t) ==
  /\ reader[t] = "reading" /\ t \in live
  /\ ReaderGoesTo(t, IF channels THEN "sending" ELSE "top")
  /\ UNCHANGED <<activeTracks, participantTracks, cancelledTracks, captured, chanVars>>
  /\ ReaderOnly

\* A read that fails otherwise is reported, unless the reader is stopped.
ReaderErrs(t) ==
  /\ reader[t] = "reading" /\ t \in live
  /\ ReaderGoesTo(t, IF Stopped(t) THEN "leaving" ELSE "top")
  /\ IF Stopped(t) THEN UNCHANGED errVars ELSE PutError
  /\ UNCHANGED <<activeTracks, participantTracks, cancelledTracks, captured, queue>>
  /\ ReaderOnly

\* Faulty variant: there is no read deadline, only the end of the track.
ReaderWakesAtEOF(t) ==
  /\ reader[t] = "reading" /\ t \notin live
  /\ ReaderGoesTo(t, "leaving")
  /\ UNCHANGED <<activeTracks, participantTracks, cancelledTracks, captured, chanVars>>
  /\ ReaderOnly

\* The track is closed (EOF), or five seconds have passed without a packet.
ReaderWakes(t) ==
  /\ reader[t] = "reading"
  /\ ReaderGoesTo(t, IF t \in live THEN "top" ELSE "leaving")
  /\ UNCHANGED <<activeTracks, participantTracks, cancelledTracks, captured, chanVars>>
  /\ ReaderOnly

\* The chunk is sent if there is room; otherwise the reader leaves if it is
\* stopped, and drops the chunk if not.
ReaderSends(t) ==
  /\ reader[t] = "sending"
  /\ \/ queue < OutputCap /\ queue' = queue + 1 /\ ReaderGoesTo(t, "top")
     \/ Stopped(t) /\ ReaderGoesTo(t, "leaving") /\ UNCHANGED queue
     \/ queue = OutputCap /\ ~Stopped(t) /\ ReaderGoesTo(t, "top") /\ UNCHANGED queue
  /\ UNCHANGED <<activeTracks, participantTracks, cancelledTracks, captured, errVars>>
  /\ ReaderOnly

\* The deferred functions.
ReaderLeaves(t) ==
  /\ reader[t] = "leaving"
  /\ ReaderGoesTo(t, "ended")
  /\ Unlist(t)
  /\ UNCHANGED <<cancelledTracks, captured, chanVars>> /\ ReaderOnly

\* TransportInputHandler.Start takes chunks and errors until its context is done.
HandlerReceives ==
  /\ ~sessionDone
  /\ \/ queue > 0 /\ queue' = queue - 1 /\ UNCHANGED errors
     \/ errors > 0 /\ errors' = errors - 1 /\ UNCHANGED queue
  /\ UNCHANGED <<lifeVars, receiving, linkVars, trackVars, packet, sender, reported,
                 crashed, roomVars>>

-----------------------------------------------------------------------------
(* SendEvent.  The event loop of the output handler, which begins once     *)
(* Connect has succeeded, is not stopped before Cleanup, which takes away  *)
(* what SendEvent has checked.                                             *)

SendChecks ==
  /\ sender = "idle" /\ life = "connected" /\ connected /\ client
  /\ sender' = "checked"
  /\ UNCHANGED <<lifeVars, receiving, linkVars, trackVars, packet, chanVars, crashed,
                 roomVars>>

\* What an event of each kind needs: the track, for audio and for clearing its
\* queue at an interruption, or the client, to publish a state or a message.
Has(kind) == IF kind \in {"audio", "interruption"} THEN audioTrack ELSE client

\* Audio and agent states are sent after another look, the others without one.
SendLooks(kind) ==
  /\ sender = "checked" /\ kind \in {"audio", "state"}
  /\ sender' = IF Has(kind) THEN kind ELSE "idle"
  /\ UNCHANGED <<lifeVars, receiving, linkVars, trackVars, packet, chanVars, crashed,
                 roomVars>>

SendActs(kind) ==
  /\ sender = IF kind \in {"audio", "state"} THEN kind ELSE "checked"
  /\ sender' = "idle"
  /\ crashed' = ~Has(kind)
  /\ UNCHANGED <<lifeVars, receiving, linkVars, trackVars, packet, chanVars, roomVars>>

-----------------------------------------------------------------------------
(* Cleanup.                                                                *)

CleanupCancels ==
  /\ cleanup = "none" /\ Returned
  /\ cleanup' = "clearing" /\ sessionDone' = TRUE
  /\ cancelledTracks' = cancelledTracks \cup activeTracks /\ activeTracks' = {}
  /\ UNCHANGED <<joinVars, audioTrack, channels, receiving, linkVars, participantTracks,
                 reader, captured, packet, sender, chanVars,
                 crashed, roomVars>>

CleanupClears ==
  /\ cleanup = "clearing"
  /\ cleanup' = "waiting"
  /\ audioTrack' = FALSE /\ channels' = FALSE
  /\ UNCHANGED <<joinVars, sessionDone, receiving, linkVars, trackVars, packet, sender,
                 chanVars, crashed, roomVars>>

\* Faulty variant: only the goroutine of StartReceiving is waited for.
CleanupWaitsForReceiving ==
  /\ cleanup = "waiting" /\ receiving # "waiting"
  /\ cleanup' = "disconnecting"
  /\ UNCHANGED <<joinVars, sessionDone, audioTrack, channels, receiving, linkVars,
                 trackVars, packet, sender, chanVars, crashed, roomVars>>

\* l.wg counts the readers and the goroutine of StartReceiving.
CleanupWaits ==
  /\ cleanup = "waiting" /\ receiving # "waiting"
  /\ \A t \in Tracks : reader[t] \in {"none", "ignored", "ended"}
  /\ cleanup' = "disconnecting"
  /\ UNCHANGED <<joinVars, sessionDone, audioTrack, channels, receiving, linkVars,
                 trackVars, packet, sender, chanVars, crashed, roomVars>>

CleanupDisconnects ==
  /\ cleanup = "disconnecting"
  /\ cleanup' = "closing"
  /\ client' = FALSE /\ connected' = FALSE /\ live' = {}
  /\ UNCHANGED <<audioEnabled, life, unseen, sessionDone, audioTrack, channels, receiving,
                 linkVars, trackVars, packet, sender, chanVars, crashed, person>>

\* The participant channels are closed.
CleanupCloses ==
  /\ cleanup = "closing"
  /\ cleanup' = "done"
  /\ UNCHANGED <<joinVars, sessionDone, audioTrack, channels, receiving, linkVars,
                 trackVars, packet, sender, chanVars, crashed, roomVars>>

-----------------------------------------------------------------------------
CleanupStep == CleanupClears \/ CleanupWaits \/ CleanupDisconnects \/ CleanupCloses

\* What a reader does by itself; ReaderReads and ReaderErrs are up to the room.
ReaderStep(t) ==
  \/ ReaderStores(t) \/ ReaderLists(t) \/ ReaderChecks(t)
  \/ ReaderWakes(t) \/ ReaderSends(t) \/ ReaderLeaves(t)

ConnectStep ==
  \/ OnRoomConnected \/ CreateAudioTrackFails \/ ListParticipants
  \/ \E p \in Participants : LinkPresent(p)

ReceiveStep == ReceiveLeft \/ ReceiveEnds

TransportNext ==
  /\ ~crashed
  /\ \/ Connect \/ ConnectStep \/ StartReceiving \/ ReceiveStep \/ SessionEnds
     \/ \E p \in Participants :
          ParticipantConnected(p) \/ ParticipantDisconnected(p) \/ DataPacket(p)
     \/ \E t \in Tracks :
          \/ TrackSubscribed(t) \/ TrackUnsubscribed(t)
          \/ ReaderReads(t) \/ ReaderErrs(t) \/ ReaderStep(t)
     \/ PacketLeaves \/ HandlerReceives
     \/ SendChecks
     \/ \E kind \in EventKinds : SendLooks(kind) \/ SendActs(kind)
     \/ CleanupCancels \/ CleanupStep

TransportSpec == TransportInit /\ [][TransportNext]_transportVars

(* onRoomConnected, the goroutines and Cleanup go on when they can, a read *)
(* ends at its deadline, and StartReceiving is called once the transport   *)
(* is connected, as it is in a session that starts.  Nothing is assumed of *)
(* the room, of the handlers, or of when the runner ends the session.      *)
TransportFairness ==
  /\ WF_transportVars(~crashed /\ ConnectStep)
  /\ WF_transportVars(~crashed /\ StartReceiving)
  /\ WF_transportVars(~crashed /\ ReceiveStep)
  /\ WF_transportVars(~crashed /\ CleanupStep)
  /\ \A t \in Tracks : WF_transportVars(~crashed /\ ReaderStep(t))

TransportFairSpec == TransportSpec /\ TransportFairness

-----------------------------------------------------------------------------
\* The variables have their types.
TransportTypeOK ==
  /\ life \in {"new", "joining", "publishing", "linking", "connected", "failed"}
  /\ {audioEnabled, sessionDone, client, connected, audioTrack, channels, crashed,
      reported, lost} \subseteq BOOLEAN
  /\ unseen \subseteq Participants
  /\ receiving \in {"none", "waiting", "ended"}
  /\ linkedParticipant \in Participants \cup {Nobody} /\ disconnectCh \in 0..1
  /\ activeTracks \subseteq Tracks /\ cancelledTracks \subseteq Tracks
  /\ participantTracks \in [Participants -> SUBSET Tracks]
  /\ captured \in [Tracks -> SUBSET Tracks]
  /\ reader \in [Tracks -> {"none", "ignored", "spawned", "listing", "top",
                            "reading", "sending", "leaving", "ended"}]
  /\ packet \in {"none", "sending"} /\ sender \in {"idle", "checked", "audio", "state"}
  /\ cleanup \in {"none", "clearing", "waiting", "disconnecting", "closing", "done"}
  /\ queue \in 0..OutputCap /\ errors \in 0..ErrorCap
  /\ person \in [Participants -> {"out", "in", "gone"}] /\ live \subseteq Tracks

\* When Cleanup has disconnected the client no reader reads or sends any more,
\* also one that was started by a callback while Cleanup was under way.
NoReaderAfterDisconnect ==
  cleanup \in {"closing", "done"} =>
    \A t \in Tracks : reader[t] \notin {"reading", "sending"}

\* Cleanup ends (or the process has crashed in SendEvent): silent tracks,
\* full channels and readers that start late do not keep it waiting.
CleanupCompletes == (cleanup # "none") ~> (cleanup = "done" \/ crashed)

\* When the linked participant leaves, the handler is sent an error, which ends the
\* session: also if this was before StartReceiving, if another is linked by then,
\* if one has left before, or if the channels are full.  Otherwise Connect failed,
\* the session is over already, or the process has crashed.
ParticipantLossReported ==
  lost ~> (reported \/ sessionDone \/ crashed \/ life = "failed")

\* "Close session on participant disconnect (default: true)" (transport.go:121): the
\* handler is sent an error, too, when somebody is linked who has left meanwhile.
\* TLC refutes it (README, section 3): onRoomConnected links a participant of its
\* list whose leaving was handled before, and nothing looks again.
LinkedSessionCloses ==
  (linkedParticipant # Nobody /\ person[linkedParticipant] = "gone")
    ~> (reported \/ sessionDone \/ crashed \/ life = "failed")

\* With an audio track SendEvent meets a nil pointer only when Cleanup has taken
\* the track or the client away; without one (audio output is off) it also does at
\* any interruption, where the queue of the track is cleared.
CrashOnlyInCleanup ==
  crashed /\ audioEnabled => cleanup \notin {"none", "clearing"}
=============================================================================

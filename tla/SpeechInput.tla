----------------------------- MODULE SpeechInput -----------------------------
(***************************************************************************)
(* The VAD handler, the STT handler behind it and its Deepgram service:    *)
(* the VAD handler sends its events, and then the chunk, to the STT        *)
(* handler, whose HandleEvent takes them one by one.                       *)
(***************************************************************************)
EXTENDS DeepgramSTT, VADHandler, Sequences

VARIABLE inbox   \* for the STT handler: "ended", and chunks in which the VAD
                 \* has found "speech" or not ("silence")

vars == <<sttVars, vadVars, inbox>>

Init == STTInit /\ VADInit /\ inbox = <<>>

\* Bound: a chunk comes when the STT handler has dealt with the one before.
ChunkArrives ==
  /\ inbox = <<>>
  /\ \/ SpeechChunk /\ inbox' = <<"speech">>
     \/ SilentChunk /\ inbox' = IF "ended" \in vadEvents'
                                THEN <<"ended", "silence">> ELSE <<"silence">>
     \/ ChunkFails /\ inbox' = <<"silence">>
  /\ UNCHANGED sttVars

VADElse ==
  /\ TimePasses \/ \E speaks \in BOOLEAN : BotSpeaks(speaks)
  /\ UNCHANGED <<sttVars, inbox>>

\* STTHandler.HandleEvent
HandleAudio ==
  /\ inbox # <<>> /\ Head(inbox) # "ended"
  /\ \/ AudioRefused /\ inbox' = Tail(inbox)
     \/ AudioChecks /\ UNCHANGED inbox
     \/ /\ \E ok \in BOOLEAN : AudioWrites(Head(inbox) = "speech", ok)
        /\ inbox' = Tail(inbox)
  /\ UNCHANGED vadVars

HandleSpeechEnded ==
  /\ inbox # <<>> /\ Head(inbox) = "ended"
  /\ Flush /\ inbox' = Tail(inbox)
  /\ UNCHANGED vadVars

STTElse == STTStep /\ UNCHANGED <<vadVars, inbox>>

Next ==
  /\ crashed = "no"
  /\ ChunkArrives \/ VADElse \/ HandleAudio \/ HandleSpeechEnded \/ STTElse

Spec == Init /\ [][Next]_vars

(* The goroutines go on when they can, and Cleanup does once the context   *)
(* is done (Runner.Stop cancels it first).  A dial ends, a broken          *)
(* connection is noticed by ReadMessage.  Nothing is assumed of the user,  *)
(* the server and the network.                                             *)
Running(step) == crashed = "no" /\ step /\ UNCHANGED <<vadVars, inbox>>

Fairness ==
  /\ WF_vars(Running(SessionProgress))
  /\ WF_vars(Running(HandlerCloses \/ ServiceCloses))
  /\ WF_vars(Running(HandleConnectionError))
  /\ WF_vars(Running(KeeperEnds))

FairSpec == Spec /\ Fairness

-----------------------------------------------------------------------------
\* The variables have their types.
TypeOK ==
  STTTypeOK /\ VADTypeOK /\ inbox \in Seq({"ended", "speech", "silence"})

\* User speech starts with a chunk that has speech in it: a change of the grace
\* period, by an interruption or when the patience is over, never brings back
\* speech that had ended (handleTransportAudio has a branch that could).
SpeechStartsWithSpeech ==
  [][~isSpeechActive /\ isSpeechActive' => sinceSpeech' = 0]_vars

\* When the user has stopped speaking and the handler is up to date, nothing of
\* what was said waits at the server without a Finalize, over reconnections and
\* write errors: the answer would come late.
UtteranceFinalised ==
  ~isSpeechActive /\ inbox = <<>> /\ isConnected => ~unflushed

\* A connection that works is used: the late handling of a write error on the
\* connection before never makes SendTranscriptionAudio refuse the new one.
OpenConnectionIsUsed ==
  conn # 0 /\ status[conn] = "open" => isConnected

\* After Cleanup the session ends and leaves no connection open, also if it was
\* dialling (with a context that is never cancelled).
SessionEnds ==
  (cleanup = "done") ~>
    []( \/ crashed # "no"
        \/ /\ session \in {"none", "top", "ended"} /\ keepers = 0
           /\ \A c \in Conns : status[c] # "open")

\* Cleanup sets the channels of the service to nil "to avoid sending on closed
\* channels".
\* The code does not keep to this: TLC refutes it (README, section 3).
NeverSendsOnClosed == crashed # "closed"
=============================================================================

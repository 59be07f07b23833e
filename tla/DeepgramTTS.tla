----------------------------- MODULE DeepgramTTS -----------------------------
(***************************************************************************)
(* services/deepgram/tts: text is sent as Speak messages; the server keeps *)
(* it until a Flush (or a Clear) and refuses a connection on which too     *)
(* many characters are kept.  charCount is the service's own idea of how   *)
(* many there are.  A text is its number of characters.                    *)
(*                                                                         *)
(* CloseSession and UpdateConfig are called by nothing in the repository   *)
(* and are left out.                                                       *)
(***************************************************************************)
EXTENDS TTSConnection

CONSTANTS
  MaxCharsBeforeFlush,  \* 2000 in the code
  Headroom,             \* 100 in the code
  TextSizes             \* bound: lengths of the texts that are buffered

ASSUME DeepgramAssumption ==
  /\ MaxCharsBeforeFlush \in Nat /\ Headroom \in Nat \ {0}
  /\ Headroom < MaxCharsBeforeFlush
  /\ TextSizes \subseteq Nat \ {0}

VARIABLE charCount

ChunkSize == MaxCharsBeforeFlush - Headroom

Text(n) == <<"text", n>>
FlushMessage == <<"flush", 0>>
ClearMessage == <<"clear", 0>>

\* StartTTSSession, once it has mu, and reconnect: no greeting.  reconnect
\* resets the counter before it releases reconnectMu; no call looks at it
\* until then.
DeepgramStart(c) == StartEstablishes(c, <<>>) /\ UNCHANGED charCount

DeepgramReconnect(c) == ReconnectEstablishes(c, <<>>) /\ charCount' = 0

-----------------------------------------------------------------------------
(* BufferText.                                                             *)

DeepgramBegins ==
  /\ \/ \E n \in TextSizes : BeginCall("buffer", n)
     \/ BeginCall("flush", 0)
     \/ BeginCall("reset", 0)
     \/ CheckPasses
  /\ UNCHANGED charCount

\* A text above the limit: send a chunk of it ...
SendChunk(ok) ==
  /\ call = "writing" /\ op = "buffer" /\ left > ChunkSize
  /\ Write(Text(ChunkSize), ok)
  /\ IF ok
     THEN /\ call' = "flushing" /\ left' = left - ChunkSize
          /\ UNCHANGED <<op, callConn, calls>>
     ELSE Return
  /\ UNCHANGED <<charCount, lifeVars, readVars, beatVars>>

\* ... and flush it.
FlushChunk(ok) ==
  /\ call = "flushing" /\ left > 0
  /\ Write(FlushMessage, ok)
  /\ IF ok
     THEN /\ call' = "writing" /\ charCount' = 0
          /\ UNCHANGED <<op, left, callConn, calls>>
     ELSE Return /\ UNCHANGED charCount
  /\ UNCHANGED <<lifeVars, readVars, beatVars>>

\* The rest would fill the buffer: count it and flush first, and go on also
\* when the flush fails.
AutoFlush(ok) ==
  /\ call = "writing" /\ op = "buffer" /\ left <= ChunkSize
  /\ charCount + left >= MaxCharsBeforeFlush
  /\ charCount' = left
  /\ Write(FlushMessage, ok)
  /\ call' = "sending"
  /\ UNCHANGED <<op, left, callConn, calls, lifeVars, readVars, beatVars>>

SendRestAfterFlush(ok) ==
  /\ call = "sending" /\ op = "buffer"
  /\ Write(Text(left), ok) /\ Return
  /\ UNCHANGED <<charCount, lifeVars, readVars, beatVars>>

\* Faulty variant: the limit is compared with the text already counted.
SendRestUnchecked(ok) ==
  /\ call = "writing" /\ op = "buffer" /\ left <= ChunkSize
  /\ charCount < MaxCharsBeforeFlush
  /\ charCount' = charCount + left
  /\ Write(Text(left), ok) /\ Return
  /\ UNCHANGED <<lifeVars, readVars, beatVars>>

\* The rest fits.
SendRest(ok) ==
  /\ call = "writing" /\ op = "buffer" /\ left <= ChunkSize
  /\ charCount + left < MaxCharsBeforeFlush
  /\ charCount' = charCount + left
  /\ Write(Text(left), ok) /\ Return
  /\ UNCHANGED <<lifeVars, readVars, beatVars>>

-----------------------------------------------------------------------------
DeepgramFlush(ok) ==
  /\ call = "writing" /\ op = "flush"
  /\ charCount' = 0
  /\ Write(FlushMessage, ok) /\ Return
  /\ UNCHANGED <<lifeVars, readVars, beatVars>>

DeepgramReset(ok) ==
  /\ call = "writing" /\ op = "reset"
  /\ charCount' = 0
  /\ Write(ClearMessage, ok) /\ Return
  /\ UNCHANGED <<lifeVars, readVars, beatVars>>

DeepgramCall ==
  \E ok \in BOOLEAN :
    \/ SendChunk(ok) \/ FlushChunk(ok)
    \/ AutoFlush(ok) \/ SendRestAfterFlush(ok) \/ SendRest(ok)
    \/ DeepgramFlush(ok) \/ DeepgramReset(ok)

DeepgramNext ==
  \/ /\ LifeStep \/ ReaderStep \/ HeartbeatStep \/ NetworkStep \/ CheckFails
     /\ UNCHANGED charCount
  \/ DeepgramBegins \/ DeepgramCall
  \/ \E c \in Conns : DeepgramStart(c) \/ DeepgramReconnect(c)

-----------------------------------------------------------------------------
\* External: the characters that the server keeps, given what it has received.
KeptChars(w) ==
  LET kept[i \in 0..Len(w)] ==
        IF i = 0 THEN 0
        ELSE IF w[i][1] = "text" THEN kept[i - 1] + w[i][2] ELSE 0
  IN kept[Len(w)]
=============================================================================

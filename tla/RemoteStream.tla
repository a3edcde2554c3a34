---------------------------- MODULE RemoteStream ----------------------------
(***************************************************************************)
(* One streamed answer of a remote provider: opening it with retries, the  *)
(* lines of the three wire formats and what is accumulated from them, the  *)
(* ways a stream breaks off, cancellation, and the layer above that closes *)
(* every stream with a done chunk.  (providers/base.py, openai.py,         *)
(* anthropic.py, rest.py, models/abstraction.py)                           *)
(*                                                                         *)
(* The server is external: it sends text and tool calls, each call in      *)
(* Fragments parts (one line in the REST format), then the end.            *)
(***************************************************************************)
EXTENDS Naturals, Sequences, FiniteSets

CONSTANTS
    Formats,      \* among "openai", "anthropic", "rest"
    CallCount,    \* tool calls a server may send
    Fragments,    \* parts of the arguments of a call
    MaxAttempts,  \* _max_retry_attempts
    MaxText       \* bound on lines of text

ASSUME RemoteStreamAssumption ==
    /\ Formats \subseteq {"openai", "anthropic", "rest"}
    /\ CallCount \in Nat /\ Fragments \in Nat \ {0} /\ MaxAttempts \in Nat \ {0} /\ MaxText \in Nat

CallIds == 1..CallCount

VARIABLES
    format,    \* the provider of this stream
    phase,     \* open, reading, ended (the provider's generator), finished
    attempt,   \* attempts to open
    sent,      \* call -> parts the server sent, with the closing part
    texts,     \* lines of text sent
    over,      \* has the server sent its last line?
    parts,     \* call -> parts accumulated, where the provider keeps one
    chunks,    \* what the caller got
    cancelAsked  \* _cancel_requested

remoteVars == <<format, phase, attempt, sent, texts, over, parts, chunks, cancelAsked>>

Chunk(kind) == [kind |-> kind]
CallChunk(i, n) == [kind |-> "tool_call", call |-> i, parts |-> n]
DoneChunk(reason) == [kind |-> "done", reason |-> reason]
IsDone(c) == c.kind = "done"
Ended == \E k \in DOMAIN chunks : IsDone(chunks[k])

RemoteInit ==
    /\ format \in Formats
    /\ phase = "open"
    /\ attempt = 1
    /\ sent = [i \in CallIds |-> 0]
    /\ texts = 0
    /\ over = FALSE
    /\ parts = << >>
    /\ chunks = << >>
    /\ cancelAsked = FALSE
-----------------------------------------------------------------------------
(* _aopen_stream_with_retries and raise_for_status. *)

OpenStream ==
    /\ phase = "open"
    /\ phase' = "reading"
    /\ UNCHANGED <<format, attempt, sent, texts, over, parts, chunks, cancelAsked>>

Failure == <<Chunk("error"), DoneChunk("error")>>

(* A connection error, or a status that is worth another attempt; after    *)
(* the last attempt a protocol error escapes.                              *)
OpenFails ==
    /\ phase = "open"
    /\ IF attempt < MaxAttempts
       THEN attempt' = attempt + 1 /\ UNCHANGED <<phase, chunks>>
       ELSE /\ UNCHANGED attempt
            /\ \/ phase' = "ended" /\ chunks' = Failure
               \/ phase' = "raised" /\ UNCHANGED chunks
    /\ UNCHANGED <<format, sent, texts, over, parts, cancelAsked>>

(* Any other error status. *)
OpenRefused ==
    /\ phase = "open"
    /\ phase' = "ended"
    /\ chunks' = Failure
    /\ UNCHANGED <<format, attempt, sent, texts, over, parts, cancelAsked>>
-----------------------------------------------------------------------------
(* One line of the stream: the server sends it, the provider parses it. A  *)
(* line after a cancellation is not parsed any more.                       *)

Emit(new) ==
    IF cancelAsked
    THEN /\ chunks' = chunks \o <<Chunk("notification"), DoneChunk("cancelled")>>
         /\ phase' = "ended"
    ELSE /\ chunks' = chunks \o new
         /\ phase' = IF \E k \in DOMAIN new : IsDone(new[k]) THEN "ended" ELSE phase

TextLine ==
    /\ phase = "reading" /\ ~over /\ texts < MaxText
    /\ texts' = texts + 1
    /\ Emit(<<Chunk("final_text")>>)
    /\ UNCHANGED <<format, attempt, sent, over, parts, cancelAsked>>

(* Mutant: a delta is looked up by the number of calls so far.             *)
CountedIndexMutant(i) == Cardinality(DOMAIN parts) + 1

(* The entry of the accumulator a delta of call i goes to. *)
Index(i) == i

Accumulate(i) ==
    LET k == Index(i) IN
    parts' = [j \in DOMAIN parts \cup {k} |->
                 IF j \notin DOMAIN parts THEN 1
                 ELSE IF j = k THEN parts[j] + 1 ELSE parts[j]]

(* The accumulated calls of the OpenAI format, in the order of the index. *)
FinalizedCalls ==
    CHOOSE calls \in [1..Cardinality(DOMAIN parts) -> DOMAIN parts] :
        /\ \A i \in DOMAIN parts : \E k \in DOMAIN calls : calls[k] = i
        /\ \A j, k \in DOMAIN calls : j < k => calls[j] < calls[k]
FinalizedChunks == [k \in DOMAIN FinalizedCalls |-> CallChunk(FinalizedCalls[k], parts[FinalizedCalls[k]])]

(* OpenAI: deltas of all calls, in any interleaving. *)
OpenAIDelta(i) ==
    /\ format = "openai" /\ phase = "reading" /\ ~over /\ sent[i] < Fragments
    /\ \A j \in 1..(i - 1) : sent[j] > 0
    /\ sent' = [sent EXCEPT ![i] = @ + 1]
    /\ IF cancelAsked THEN UNCHANGED parts ELSE Accumulate(i)
    /\ Emit(IF i \in DOMAIN parts THEN << >> ELSE <<Chunk("notification")>>)
    /\ UNCHANGED <<format, attempt, texts, over, cancelAsked>>

OpenAIFinish ==
    /\ format = "openai" /\ phase = "reading" /\ ~over
    /\ \A i \in CallIds : sent[i] \in {0, Fragments}
    /\ over' = TRUE
    /\ Emit(FinalizedChunks \o <<DoneChunk("stop")>>)
    /\ UNCHANGED <<format, attempt, sent, texts, parts, cancelAsked>>

(* Anthropic: blocks one after the other, each with a start, its deltas    *)
(* and a stop, which is the part after the last.                           *)
BlockOpen(i) == sent[i] \in 1..Fragments
AnthropicDelta(i) ==
    /\ format = "anthropic" /\ phase = "reading" /\ ~over /\ sent[i] < Fragments
    /\ \A j \in CallIds \ {i} : ~BlockOpen(j)
    /\ sent' = [sent EXCEPT ![i] = @ + 1]
    /\ IF cancelAsked THEN UNCHANGED parts ELSE Accumulate(i)
    /\ Emit(IF i \in DOMAIN parts THEN << >> ELSE <<Chunk("notification")>>)
    /\ UNCHANGED <<format, attempt, texts, over, cancelAsked>>

AnthropicStop(i) ==
    /\ format = "anthropic" /\ phase = "reading" /\ ~over /\ sent[i] = Fragments
    /\ sent' = [sent EXCEPT ![i] = @ + 1]
    /\ parts' = IF cancelAsked THEN parts ELSE [k \in DOMAIN parts \ {Index(i)} |-> parts[k]]
    /\ Emit(IF Index(i) \in DOMAIN parts THEN <<CallChunk(i, parts[Index(i)])>> ELSE << >>)
    /\ UNCHANGED <<format, attempt, texts, over, cancelAsked>>

AnthropicFinish ==
    /\ format = "anthropic" /\ phase = "reading" /\ ~over
    /\ \A i \in CallIds : ~BlockOpen(i)
    /\ over' = TRUE
    /\ Emit(<<DoneChunk("stop")>>)
    /\ UNCHANGED <<format, attempt, sent, texts, parts, cancelAsked>>

(* REST: a mapped field with whole calls, and [DONE]. *)
RestCall(i) ==
    /\ format = "rest" /\ phase = "reading" /\ ~over /\ sent[i] = 0
    /\ sent' = [sent EXCEPT ![i] = Fragments]
    /\ Emit(<<CallChunk(i, Fragments)>>)
    /\ UNCHANGED <<format, attempt, texts, over, parts, cancelAsked>>

RestDone ==
    /\ format = "rest" /\ phase = "reading" /\ ~over
    /\ over' = TRUE
    /\ Emit(<<DoneChunk("stop")>>)
    /\ UNCHANGED <<format, attempt, sent, texts, parts, cancelAsked>>

(* An error event instead of the next line. *)
ErrorLine ==
    /\ phase = "reading" /\ ~over
    /\ over' = TRUE
    /\ Emit(Failure)
    /\ UNCHANGED <<format, attempt, sent, texts, parts, cancelAsked>>
-----------------------------------------------------------------------------
(* The ways a stream ends without its last line. *)

(* A time-out, or idle for too long: an error and a done chunk.            *)
StreamTimesOut ==
    /\ phase = "reading"
    /\ phase' = "ended"
    /\ chunks' = chunks \o Failure
    /\ UNCHANGED <<format, attempt, sent, texts, over, parts, cancelAsked>>

(* The lines just end: the server closed, or cancel() closed the response. *)
StreamEnds ==
    /\ phase = "reading"
    /\ phase' = "ended"
    /\ UNCHANGED <<format, attempt, sent, texts, over, parts, chunks, cancelAsked>>

(* A read or protocol error, which no except clause names. *)
StreamBreaks ==
    /\ phase = "reading"
    /\ phase' = "raised"
    /\ UNCHANGED <<format, attempt, sent, texts, over, parts, chunks, cancelAsked>>

Cancel ==
    /\ phase = "reading" /\ ~cancelAsked
    /\ cancelAsked' = TRUE
    /\ UNCHANGED <<format, phase, attempt, sent, texts, over, parts, chunks>>

(* The done chunk of ModelAbstractionLayer when the provider sent none.    *)
MissingDone == IF Ended THEN << >> ELSE <<DoneChunk("")>>

FinishStream ==
    /\ phase = "ended"
    /\ phase' = "finished"
    /\ chunks' = chunks \o MissingDone
    /\ UNCHANGED <<format, attempt, sent, texts, over, parts, cancelAsked>>

RemoteNext ==
    \/ OpenStream \/ OpenFails \/ OpenRefused
    \/ TextLine \/ OpenAIFinish \/ AnthropicFinish \/ RestDone \/ ErrorLine
    \/ \E i \in CallIds : OpenAIDelta(i) \/ AnthropicDelta(i) \/ AnthropicStop(i) \/ RestCall(i)
    \/ StreamTimesOut \/ StreamEnds \/ StreamBreaks \/ Cancel \/ FinishStream

RemoteSpec == RemoteInit /\ [][RemoteNext]_remoteVars
-----------------------------------------------------------------------------
ReasonOf == LET k == CHOOSE j \in DOMAIN chunks : IsDone(chunks[j]) IN chunks[k].reason

(* However the deltas interleave and wherever the stream breaks off or is  *)
(* cancelled: a tool call reaches the caller once and with all its parts,  *)
(* a finished stream has one done chunk, its last, and a stream that       *)
(* stopped normally has passed on every call the server sent.              *)
ToolCallsWhole ==
    /\ \A k \in DOMAIN chunks : chunks[k].kind = "tool_call" =>
         /\ chunks[k].parts = Fragments
         /\ \A j \in DOMAIN chunks : chunks[j].kind = "tool_call" /\ chunks[j].call = chunks[k].call => j = k
    /\ phase = "finished" =>
         /\ \A k \in DOMAIN chunks : IsDone(chunks[k]) <=> k = Len(chunks)
         /\ ReasonOf = "stop" => \A i \in CallIds : sent[i] > 0 =>
              \E k \in DOMAIN chunks : chunks[k].kind = "tool_call" /\ chunks[k].call = i

(* An answer the caller takes for complete was finished by the server.     *)
CompleteMeansFinished ==
    phase = "finished" /\ ReasonOf \in {"", "stop"} => over
=============================================================================

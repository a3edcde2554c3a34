---------------------------- MODULE ChannelMarkup ----------------------------
(***************************************************************************)
(* EmbeddedStreamNormalizer: the channel markup some models write into     *)
(* their text, <|channel|>analysis<|message|>..., is taken out of the      *)
(* stream and turned into the kind of the chunks, and the chunks are       *)
(* collected into one result.  (models/backends/base.py)                   *)
(*                                                                         *)
(* A text is a sequence of symbols: "<", "|" and ">" stand for themselves, *)
(* a word for its letters, " " for anything else.  The stream delivers it  *)
(* in chunks that may end between any two symbols.                         *)
(***************************************************************************)
EXTENDS Naturals, Sequences, SequencesExt

Less == "<"
Bar == "|"
More == ">"
Space == " "

CONSTANTS
    Blocks,       \* pieces of text a model writes
    Words,        \* the symbols that are words of letters
    MaxBlocks,    \* bound on the pieces of one answer
    MaxChunk      \* bound on the symbols of one chunk

ASSUME ChannelMarkupAssumption ==
    /\ Words \intersect {Less, Bar, More, Space} = {} /\ MaxBlocks \in Nat /\ MaxChunk \in Nat
    /\ Blocks \subseteq Seq(Words \union {Less, Bar, More, Space}) \ {<< >>}

VARIABLES
    answer_text,  \* what the model wrote
    fed,          \* how many of its symbols have arrived
    split,        \* did a chunk end between "<" and "|"?
    flushed,      \* has the stream ended?
    norm          \* the normalizer and the chunks it returned

markupVars == <<answer_text, fed, split, flushed, norm>>

(* _buffer, _active_channel, _in_message, and the chunks so far: a symbol  *)
(* with the kind it was given.                                             *)
NoChannel == ""
FreshNormalizer == [buffer |-> << >>, channel |-> NoChannel, inMessage |-> FALSE, out |-> << >>]

(* _chunk_style. *)
KindOf(n) ==
    IF ~n.inMessage \/ n.channel = NoChannel THEN "final_text"
    ELSE CASE n.channel = "analysis" -> "reasoning"
           [] n.channel = "final" -> "final_text"
           [] n.channel = "tool" -> "tool_call"
           [] OTHER -> "notification"

(* _emit_text. *)
Put(n, text) == [n EXCEPT !.out = @ \o [k \in DOMAIN text |-> [symbol |-> text[k], kind |-> KindOf(n)]]]
-----------------------------------------------------------------------------
From(text, k) == SubSeq(text, k, Len(text))
Opens(text, k) == k < Len(text) /\ text[k] = Less /\ text[k + 1] = Bar
ClosesAt(text, k) == k < Len(text) /\ text[k] = Bar /\ text[k + 1] = More

(* _CONTROL_TOKEN_PATTERN: <| letters |> from k to the last symbol.        *)
TokenAt(text, k, last) ==
    /\ Opens(text, k) /\ last >= k + 4 /\ ClosesAt(text, last - 1)
    /\ \A j \in (k + 2)..(last - 2) : text[j] \in Words

TokensIn(text) == {p \in (1..Len(text)) \X (1..Len(text)) : TokenAt(text, p[1], p[2])}
FirstToken(text) == CHOOSE p \in TokensIn(text) : \A q \in TokensIn(text) : p[1] <= q[1]
NameOfToken(text, p) == IF p[2] = p[1] + 4 THEN text[p[1] + 2] ELSE "other"

(* Mutant: nothing is held back for the next chunk.                        *)
KeepNothingMutant(text) == Len(text) + 1

(* _split_safe_text: what follows the last "<|" waits for its "|>".        *)
HeldFrom(text) ==
    LET opens == {k \in DOMAIN text : Opens(text, k)}
        last == CHOOSE k \in opens : \A j \in opens : j <= k
    IN  IF opens = {} \/ \E k \in DOMAIN text : k > last /\ ClosesAt(text, k)
        THEN Len(text) + 1 ELSE last

(* str.strip, then lower; symbols other than one word have no channel      *)
(* style of their own.                                                     *)
ChannelName(value) ==
    LET word == SelectSeq(value, LAMBDA s : s # Space)
    IN  CASE word = << >> -> NoChannel [] Len(word) = 1 -> word[1] [] OTHER -> "other"

(* One pass of _drain's loop.  A pass that stops the loop changes nothing  *)
(* when it is made again.                                                  *)
MarkupPass(n, final) ==
    LET text == n.buffer
        held == IF final THEN Len(text) + 1 ELSE HeldFrom(text)
        p == FirstToken(text)
        name == NameOfToken(text, p)
        rest == From(text, p[2] + 1)
        next == IF TokensIn(rest) = {} THEN Len(rest) + 1 ELSE FirstToken(rest)[1]
        value == ChannelName(SubSeq(rest, 1, next - 1))
        Emits(k) == [Put(n, SubSeq(text, 1, k - 1)) EXCEPT !.buffer = From(text, k)]
    IN  IF TokensIn(text) = {} THEN Emits(held)
        ELSE IF p[1] > 1 THEN Emits(p[1])
        ELSE CASE name \in {"channel", "start"} ->
                    IF TokensIn(rest) = {} /\ ~final THEN n
                    ELSE [n EXCEPT !.buffer = From(rest, next),
                                   !.channel = IF name = "channel" THEN value ELSE @]
               [] name = "message" -> [n EXCEPT !.buffer = rest, !.inMessage = TRUE]
               [] name = "end" -> [n EXCEPT !.buffer = rest, !.channel = NoChannel, !.inMessage = FALSE]
               [] OTHER -> [n EXCEPT !.buffer = rest]

(* _drain. *)
DrainMarkup(n, final) ==
    LET pass[k \in 0..Len(n.buffer)] ==
            IF k = 0 THEN n ELSE MarkupPass(pass[k - 1], final)
    IN  pass[Len(n.buffer)]

Feed(n, text) == DrainMarkup([n EXCEPT !.buffer = @ \o text], FALSE)
FlushMarkup(n) == DrainMarkup(n, TRUE)
-----------------------------------------------------------------------------
MarkupInit ==
    /\ \E k \in 0..MaxBlocks : \E bs \in [1..k -> Blocks] : answer_text = FlattenSeq(bs)
    /\ fed = 0 /\ split = FALSE /\ flushed = FALSE
    /\ norm = FreshNormalizer

(* The next chunk of text.  Chunks of other kinds are passed on and leave  *)
(* the normalizer alone.                                                   *)
TextChunk(size) ==
    /\ ~flushed /\ fed + size <= Len(answer_text)
    /\ fed' = fed + size
    /\ norm' = Feed(norm, SubSeq(answer_text, fed + 1, fed'))
    /\ split' = (split \/ (fed > 0 /\ Opens(answer_text, fed)))
    /\ UNCHANGED <<answer_text, flushed>>

(* The done chunk, or the end of the stream. *)
EndOfStream ==
    /\ ~flushed /\ fed = Len(answer_text)
    /\ flushed' = TRUE
    /\ norm' = FlushMarkup(norm)
    /\ UNCHANGED <<answer_text, fed, split>>

MarkupNext ==
    \/ \E size \in 1..MaxChunk : TextChunk(size)
    \/ EndOfStream

MarkupSpec == MarkupInit /\ [][MarkupNext]_markupVars
-----------------------------------------------------------------------------
(* collect_generation_result: the parts of a result, by kind. *)
Collected(out, kind) == SelectSeq(out, LAMBDA c : c.kind = kind)

(* The result of a stream does not depend on where it was cut into chunks, *)
(* unless a cut falls between "<" and "|": what is collected of each kind  *)
(* is what the whole text, fed at once, gives.                             *)
MarkupSplitSafe ==
    flushed /\ ~split =>
      \A kind \in {"final_text", "reasoning", "notification", "tool_call"} :
        Collected(norm.out, kind) = Collected(FlushMarkup(Feed(FreshNormalizer, answer_text)).out, kind)

(* The same wherever the chunks end, which the code does not guarantee: a  *)
(* "<" at the end of a chunk is passed on as text, and the token it opens  *)
(* is not recognized any more.                                             *)
MarkupSplitAnywhere ==
    flushed => \A kind \in {"final_text", "reasoning"} :
      Collected(norm.out, kind) = Collected(FlushMarkup(Feed(FreshNormalizer, answer_text)).out, kind)
=============================================================================

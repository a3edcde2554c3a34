---------------------------- MODULE TerminalOutput ----------------------------
(***************************************************************************)
(* StreamRenderer and the shell's event drain: what the terminal shows of  *)
(* a turn while text, details, status lines, blocks and the frames of the  *)
(* thinking indicator compete for it.                                      *)
(* (shell/streaming.py, shell/ui.py)                                       *)
(*                                                                         *)
(* A text is a sequence of "t" (a backtick), "n" (a newline) and anything  *)
(* else.  The stream delivers it in chunks that may end between any two    *)
(* symbols, or stops in the middle.  The heartbeat task draws a frame      *)
(* whenever the drain awaits an event.                                     *)
(***************************************************************************)
EXTENDS Naturals, Sequences, SequencesExt

CONSTANTS
    Symbols,         \* what an answer is made of
    Texts,           \* answers the model writes
    MaxPiece,        \* bound on the symbols of one chunk
    PersistentLane,  \* shell.persistent_details_lane
    DetailsKept,     \* length of the rolling window of details
    BatchLimit,      \* status lines gathered before they are printed
    CatchupLimit,    \*   the same while catching up
    HighWater,       \* backlog that starts catching up
    LowWater,        \*   and that ends it
    MaxDetails,      \* bound on the details of one run
    MaxLines         \* bound on the status lines and blocks of one run

ASSUME TerminalAssumption ==
    /\ PersistentLane \in BOOLEAN
    /\ {MaxPiece, DetailsKept, BatchLimit, CatchupLimit, HighWater, LowWater,
        MaxDetails, MaxLines} \subseteq Nat
    /\ LowWater < HighWater
    /\ Texts \subseteq Seq(Symbols)

VARIABLES
    parse,    \* the renderer's markdown state: tail, open fence, code so far
    term,     \* the rest of the renderer and the screen it prints on
    answer_,  \* the final text received since the last flush of the markdown state
    ended,    \* was the markdown state flushed after that text?
    drains,   \* running _adrain_runtime_events calls: an approval nests one
    lines_    \* status lines and blocks so far

terminalVars == <<parse, term, answer_, ended, drains, lines_>>

NoMarkdown == [tail |-> << >>, fence |-> FALSE, code |-> << >>, out |-> << >>]

(* shown: the answer as the screen has it; col: how much of it stands on   *)
(* the line of the cursor; seen: the details that were printed.            *)
FreshTerminal ==
    [shown |-> << >>, col |-> 0, primary |-> FALSE, thinking |-> FALSE, count |-> 0,
     rendered |-> 0, seen |-> {}, batch |-> 0, catchup |-> FALSE]

TerminalInit ==
    /\ parse = NoMarkdown /\ term = FreshTerminal /\ answer_ = << >> /\ ended = FALSE
    /\ drains = 0 /\ lines_ = 0
-----------------------------------------------------------------------------
(* The markdown state                                                      *)

Newline == "n"
Tick == "t"
Smallest(S) == CHOOSE k \in S : \A j \in S : k <= j
FencesIn(text) == {k \in 1..(Len(text) - 2) : \A j \in 0..2 : text[k + j] = Tick}
NewlinesIn(text) == {k \in DOMAIN text : text[k] = Newline}
After(text, k) == SubSeq(text, k + 1, Len(text))

Inline(text) == [k \in DOMAIN text |-> [as |-> "inline", of |-> text[k]]]

(* _render_code_block: code without a visible symbol is not shown.         *)
CodeBlock(code) ==
    IF ToSet(code) \subseteq {Newline} THEN << >>
    ELSE <<[as |-> "code", of |-> SubSeq(code, 1, Smallest({k \in DOMAIN code :
                                 ToSet(After(code, k)) \subseteq {Newline}}))]>>

(* Mutant: a fence split between chunks is not put together.               *)
HoldNothingMutant(text) == 0

(* _split_trailing_backticks: one or two backticks may begin a fence.      *)
HeldTicks(text) ==
    LET Ends(k) == k <= Len(text) /\ \A j \in (Len(text) - k + 1)..Len(text) : text[j] = Tick
    IN  CASE Ends(2) -> 2 [] Ends(1) /\ ~Ends(2) -> 1 [] OTHER -> 0

(* One pass of _render_final_text's loop over what is left of the text;    *)
(* out is what it prints.                                                  *)
RenderPass(pass) ==
    LET p == pass.state
        text == pass.text
        fence == Smallest(FencesIn(text))
        before == SubSeq(text, 1, fence - 1)
        rest == After(text, fence + 2)
        passed == SubSeq(text, 1, Len(text) - HeldTicks(text))
        Stops(q) == [state |-> q, text |-> << >>]
        GoesOn(q, left) == [state |-> q, text |-> left]
    IN  IF text = << >> THEN pass
        ELSE CASE FencesIn(text) = {} /\ ~p.fence ->
                    Stops([p EXCEPT !.out = @ \o Inline(passed), !.tail = After(text, Len(passed))])
               [] FencesIn(text) = {} /\ p.fence ->
                    Stops([p EXCEPT !.code = @ \o passed, !.tail = After(text, Len(passed))])
               [] FencesIn(text) # {} /\ ~p.fence /\ NewlinesIn(rest) = {} ->
                    Stops([p EXCEPT !.out = @ \o Inline(before), !.tail = After(text, fence - 1)])
               [] FencesIn(text) # {} /\ ~p.fence /\ NewlinesIn(rest) # {} ->
                    GoesOn([p EXCEPT !.out = @ \o Inline(before), !.fence = TRUE, !.code = << >>],
                           After(rest, Smallest(NewlinesIn(rest))))
               [] FencesIn(text) # {} /\ p.fence ->
                    GoesOn([p EXCEPT !.out = @ \o CodeBlock(p.code \o before), !.fence = FALSE,
                                     !.code = << >>],
                           IF rest # << >> /\ rest[1] = Newline THEN Tail(rest) ELSE rest)

Render(p, text) ==
    LET pass[k \in 0..Len(text)] ==
            IF k = 0 THEN [state |-> p, text |-> text] ELSE RenderPass(pass[k - 1])
    IN  pass[Len(text)].state

RenderFinalText(p, text) == Render([p EXCEPT !.tail = << >>, !.out = << >>], p.tail \o text)

(* _flush_stream_render_state.                                             *)
FlushMarkdown(p) ==
    [NoMarkdown EXCEPT !.out = IF p.fence THEN CodeBlock(p.code \o p.tail) ELSE Inline(p.tail)]
-----------------------------------------------------------------------------
(* The line of the cursor                                                  *)

(* "\r\033[2K": the line is cleared, whatever is on it.                    *)
ClearLine(t) == [t EXCEPT !.shown = SubSeq(@, 1, Len(@) - t.col), !.col = 0]

StopThinking(t) == IF t.thinking THEN [ClearLine(t) EXCEPT !.thinking = FALSE] ELSE t

(* _prepare_block_output.                                                  *)
Prepared(t) ==
    LET s == StopThinking(t)
    IN  IF s.primary THEN [s EXCEPT !.col = 0, !.primary = FALSE] ELSE s

ShowItem(t, item) ==
    IF item.as = "code" THEN [Prepared(t) EXCEPT !.shown = Append(@, item), !.col = 0]
    ELSE [t EXCEPT !.shown = Append(@, item), !.primary = TRUE,
                   !.col = IF item.of = Newline THEN 0 ELSE @ + 1]

Shown(t, items) ==
    LET shown[k \in 0..Len(items)] ==
            IF k = 0 THEN t ELSE ShowItem(shown[k - 1], items[k])
    IN  shown[Len(items)]
-----------------------------------------------------------------------------
(* The details and the status lines                                        *)

Kept(t) == IF t.count < DetailsKept THEN t.count ELSE DetailsKept
Pending(t) == Kept(t) > t.rendered

(* _adjust_status_pacing.                                                  *)
Paced(t) ==
    LET backlog == (IF Pending(t) THEN Kept(t) - t.rendered ELSE 0) + t.batch
    IN  CASE ~t.catchup /\ backlog >= HighWater -> [t EXCEPT !.catchup = TRUE]
          [] t.catchup /\ backlog <= LowWater -> [t EXCEPT !.catchup = FALSE]
          [] OTHER -> t

(* flush_pending_details: a panel with the new details, or with the whole  *)
(* window in persistent mode, then the status lines.                       *)
FlushDetails(t) ==
    LET window == (t.count - Kept(t) + 1)..t.count
        panel == IF PersistentLane THEN window
                 ELSE {d \in window : d > t.count - Kept(t) + t.rendered}
        shows == Pending(t) \/ (PersistentLane /\ t.count > 0)
        d == IF shows THEN [t EXCEPT !.seen = @ \union panel, !.col = 0,
                                     !.rendered = IF Pending(t) THEN Kept(t) ELSE @]
             ELSE t
    IN  IF d.batch = 0 THEN d ELSE Paced([d EXCEPT !.batch = 0, !.col = 0])

WithDetail(t) == Paced([t EXCEPT !.count = @ + 1])     \* _append_secondary
Block(t) == [FlushDetails(Prepared(t)) EXCEPT !.col = 0]   \* an error, a panel, ...

(* render_status.                                                          *)
WithStatus(t) ==
    LET s == Paced([t EXCEPT !.batch = @ + 1])
    IN  IF s.batch >= (IF s.catchup THEN CatchupLimit ELSE BatchLimit)
        THEN FlushDetails(Prepared(s)) ELSE s

(* _finalize.                                                              *)
Finalized(p, t) ==
    LET f == Shown(StopThinking(t), FlushMarkdown(p).out)
        g == IF f.primary THEN [f EXCEPT !.col = 0] ELSE f
    IN  [FlushDetails(g) EXCEPT !.col = 0, !.primary = FALSE]

(* finalize: nothing to do unless something waits to be shown.             *)
MustFinalize(t) == t.primary \/ t.batch > 0 \/ Pending(t)
-----------------------------------------------------------------------------
(* The drain                                                               *)

Unchanged == UNCHANGED <<parse, answer_, ended>>
Quiet == Unchanged /\ UNCHANGED <<drains, lines_>>

BeginDrain == drains = 0 /\ drains' = 1 /\ UNCHANGED <<parse, term, answer_, ended, lines_>>

(* render_chunk, kind final_text.                                          *)
FinalText ==
    /\ drains > 0
    /\ \E size \in 1..MaxPiece, text \in Texts :
         LET had == IF ended THEN << >> ELSE answer_
             chunk == SubSeq(text, Len(had) + 1, Len(had) + size)
             s == StopThinking(term)
             t == IF ended THEN [s EXCEPT !.shown = << >>] ELSE s
             p == RenderFinalText(parse, chunk)
         IN  /\ Len(had) + size <= Len(text) /\ IsPrefix(had, text)
             /\ parse' = p
             /\ term' = Shown(IF t.primary THEN t ELSE FlushDetails(t), p.out)
             /\ answer_' = had \o chunk /\ ended' = FALSE
             /\ UNCHANGED <<drains, lines_>>

(* render_chunk, kinds of secondary importance: the panel is printed at    *)
(* once unless the last one was less than 80 ms ago.                       *)
SecondaryChunk ==
    /\ drains > 0 /\ term.count < MaxDetails
    /\ LET t == WithDetail(term)
       IN  term' \in {t} \union (IF Pending(t) THEN {FlushDetails(Prepared(t))} ELSE {})
    /\ Quiet

FinishMarkdown == parse' = NoMarkdown /\ ended' = TRUE /\ UNCHANGED answer_

(* The done chunk.                                                         *)
DoneMark ==
    /\ drains > 0 /\ (answer_ # << >> /\ ~ended)
    /\ term' = Finalized(parse, term) /\ FinishMarkdown
    /\ UNCHANGED <<drains, lines_>>

(* Events that gather a status line, print a block, or print one and leave *)
(* details behind it (a tool call's warnings).                             *)
StatusLine == drains > 0 /\ lines_ < MaxLines /\ lines_' = lines_ + 1
              /\ term' = WithStatus(term) /\ Unchanged /\ UNCHANGED drains
BlockEvent == drains > 0 /\ lines_ < MaxLines /\ lines_' = lines_ + 1
              /\ term' = Block(term) /\ Unchanged /\ UNCHANGED drains
ToolCallEvent == drains > 0 /\ lines_ < MaxLines /\ lines_' = lines_ + 1
                 /\ term.count < MaxDetails
                 /\ term' = WithDetail(Block(term)) /\ Unchanged /\ UNCHANGED drains

MayDraw(t) == ~t.primary

(* The heartbeat: render_thinking_indicator.                               *)
ThinkingFrame ==
    /\ drains > 0 /\ MayDraw(term)
    /\ term' = [ClearLine(term) EXCEPT !.thinking = TRUE]
    /\ Quiet

(* _prompt_for_tool_approval, then a drain of its own for the decision.    *)
Approval ==
    /\ drains = 1
    /\ term' = Block(FlushDetails(term)) /\ drains' = 2
    /\ Unchanged /\ UNCHANGED lines_

(* The end of _adrain_runtime_events.                                      *)
EndOfDrain ==
    /\ drains > 0 /\ drains' = drains - 1
    /\ LET t == StopThinking(term)
       IN  IF MustFinalize(t) THEN term' = Finalized(parse, t) /\ FinishMarkdown
           ELSE term' = t /\ Unchanged
    /\ UNCHANGED lines_

TerminalNext ==
    \/ BeginDrain \/ FinalText \/ SecondaryChunk \/ DoneMark \/ StatusLine
    \/ BlockEvent \/ ToolCallEvent \/ ThinkingFrame \/ Approval \/ EndOfDrain

TerminalSpec == TerminalInit /\ [][TerminalNext]_terminalVars
-----------------------------------------------------------------------------
BlankLine == [as |-> "inline", of |-> Newline]
Visible(items) ==
    FlattenSeq([k \in DOMAIN items |-> IF items[k] = BlankLine THEN << >> ELSE <<items[k]>>])

(* Nothing of an answer is lost or shown twice: whatever chunks it came    *)
(* in and whatever was drawn in between, the screen has the text and the   *)
(* code blocks that the whole answer gives as one chunk (blank lines aside *)
(* from code), and what is not on the screen yet is held back.             *)
AnswerShownWhole ==
    LET whole == RenderFinalText(NoMarkdown, answer_)
    IN  IF ended THEN Visible(term.shown) = Visible(whole.out \o FlushMarkdown(whole).out)
        ELSE /\ Visible(term.shown) = Visible(whole.out)
             /\ <<parse.tail, parse.fence, parse.code>> = <<whole.tail, whole.fence, whole.code>>

(* Back at the prompt nothing waits to be printed, and the cursor stands   *)
(* on a line of its own: no frame of the indicator, no unfinished line, no *)
(* status line and no detail is left for the next turn.                    *)
PromptIsClean ==
    drains = 0 => /\ ~term.thinking /\ ~term.primary /\ term.col = 0
                  /\ term.batch = 0 /\ ~Pending(term)

(* The screen keeps in step with the events: answers are shown whole and   *)
(* in order, and every turn hands a clean line back to the prompt.         *)
ScreenInStep == AnswerShownWhole /\ PromptIsClean

(* The details panel shows the recent details, as docs/cli-and-ux.md says. *)
(* The code does not: once the window is full, the count of rendered       *)
(* entries equals its length for good, and no detail is printed any more.  *)
RecentDetailsShown ==
    drains = 0 => (term.count - Kept(term) + 1)..term.count \subseteq term.seen
==============================================================================

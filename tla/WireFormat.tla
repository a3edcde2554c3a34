------------------------------ MODULE WireFormat ------------------------------
(***************************************************************************)
(* The conversation as a provider is sent it: the messages of the agent    *)
(* loop and the chat, and the bodies that the three remote providers make  *)
(* of them.  (providers/openai.py, anthropic.py, rest.py)                  *)
(*                                                                         *)
(* A message is a role with a text (a number; 0 is the empty text), the    *)
(* calls an assistant message makes and the call a tool message answers.   *)
(* The system message of a session carries segments when the provider's    *)
(* profile asks for them (session/instructions.py); the instruction that   *)
(* triage and the planner put before it does not.                          *)
(***************************************************************************)
EXTENDS Naturals, Sequences, SequencesExt

CONSTANTS
    MaxMessages,  \* bound on the messages of a conversation
    MaxWireCalls  \* bound on the calls of one assistant message

ASSUME WireFormatAssumption == MaxMessages \in Nat /\ MaxWireCalls \in Nat

VARIABLES
    messages,    \* the list of ModelMessage
    open_calls,  \* calls of the last assistant message still to be answered
    body         \* the last body built, by provider

wireVars == <<messages, open_calls, body>>

WireMessage(role, text, calls, answers) ==
    [role |-> role, text |-> text, calls |-> calls, answers |-> answers, segmented |-> FALSE]
SegmentedMessage(text) ==
    [role |-> "system", text |-> text, calls |-> << >>, answers |-> 0, segmented |-> TRUE]
NextText == Len(messages) + 1

WireInit ==
    /\ messages = << >>
    /\ open_calls = << >>
    /\ body = [provider |-> "none"]

Grow(m) == Len(messages) < MaxMessages /\ messages' = Append(messages, m) /\ UNCHANGED body

(* Text of the instructions, the user or the model. *)
AddText(role) ==
    /\ open_calls = << >>
    /\ Grow(WireMessage(role, NextText, << >>, 0))
    /\ UNCHANGED open_calls

(* The system message of a session, in segments.                           *)
AddSegments ==
    /\ open_calls = << >>
    /\ Grow(SegmentedMessage(NextText))
    /\ UNCHANGED open_calls

(* An answer with calls, with or without text; the loop answers each call  *)
(* with a tool message before anything else is said.                       *)
AddCalls(n, text) ==
    /\ open_calls = << >>
    /\ LET ids == [k \in 1..n |-> 10 * NextText + k] IN
       /\ Grow(WireMessage("assistant", text, ids, 0))
       /\ open_calls' = ids

AddResult ==
    /\ open_calls # << >>
    /\ Grow(WireMessage("tool", NextText, << >>, Head(open_calls)))
    /\ open_calls' = Tail(open_calls)
-----------------------------------------------------------------------------
(* Blocks of a body. *)
TextBlock(t) == [type |-> "text", is |-> t]
UseBlock(id) == [type |-> "tool_use", is |-> id]
ResultBlock(m) == [type |-> "tool_result", is |-> m.answers, says |-> m.text]
WireEntry(role, blocks) == [role |-> role, blocks |-> blocks]

TextBlocks(t) == IF t = 0 THEN << >> ELSE <<TextBlock(t)>>
UseBlocks(m) == [k \in DOMAIN m.calls |-> UseBlock(m.calls[k])]

(* OpenAI: one entry for each message. *)
OpenAIEntry(m) ==
    WireEntry(m.role, IF m.role = "tool" THEN <<ResultBlock(m)>>
                      ELSE TextBlocks(m.text) \o UseBlocks(m))
OpenAIBody(ms) == [k \in DOMAIN ms |-> OpenAIEntry(ms[k])]

(* REST: role and text, whatever else the message carries. *)
RestBody(ms) == [k \in DOMAIN ms |-> WireEntry(ms[k].role, <<TextBlock(ms[k].text)>>)]

(* Mutant: every tool message becomes an entry of its own.                 *)
SingleResultsMutant(entries, m) == FALSE

(* Does this tool message join the results before it? *)
Joins(entries, m) ==
    /\ m.role = "tool" /\ entries # << >>
    /\ Last(entries).role = "user" /\ Last(entries).blocks[1].type = "tool_result"

(* Anthropic: the system messages apart, runs of tool messages in one user *)
(* entry.                                                                  *)
AnthropicStep(entries, m) ==
    IF m.role = "system" THEN entries
    ELSE IF Joins(entries, m)
    THEN [entries EXCEPT ![Len(entries)].blocks = Append(@, ResultBlock(m))]
    ELSE Append(entries,
           WireEntry(IF m.role = "tool" THEN "user" ELSE m.role,
                 IF m.role = "tool" THEN <<ResultBlock(m)>>
                 ELSE TextBlocks(m.text) \o UseBlocks(m)))

AnthropicEntries(ms) ==
    LET entries[k \in 0..Len(ms)] ==
            IF k = 0 THEN << >> ELSE AnthropicStep(entries[k - 1], ms[k])
    IN  entries[Len(ms)]

SystemsOf(ms) == SelectSeq(ms, LAMBDA m : m.role = "system")
SystemTexts(ms) == [k \in DOMAIN SystemsOf(ms) |-> SystemsOf(ms)[k].text]
SystemSegments(ms) == SystemTexts(SelectSeq(ms, LAMBDA m : m.segmented))

(* _build_system_payload: the texts without segments are a fallback, sent  *)
(* only when no message has segments.                                      *)
SystemPayload(ms) == IF SystemSegments(ms) # << >> THEN SystemSegments(ms) ELSE SystemTexts(ms)

(* _build_request_body. *)
BuildAnthropicBody ==
    body' = [provider |-> "anthropic", of |-> messages,
             system |-> SystemPayload(messages), entries |-> AnthropicEntries(messages)]
BuildOpenAIBody ==
    body' = [provider |-> "openai", of |-> messages,
             system |-> << >>, entries |-> OpenAIBody(messages)]
BuildRestBody ==
    body' = [provider |-> "rest", of |-> messages,
             system |-> << >>, entries |-> RestBody(messages)]

Build ==
    /\ messages # << >> /\ open_calls = << >>
    /\ BuildAnthropicBody \/ BuildOpenAIBody \/ BuildRestBody
    /\ UNCHANGED <<messages, open_calls>>

WireNext ==
    \/ \E role \in {"system", "user", "assistant"} : AddText(role)
    \/ \E n \in 1..MaxWireCalls, text \in {0, NextText} : AddCalls(n, text)
    \/ AddSegments \/ AddResult \/ Build

WireSpec == WireInit /\ [][WireNext]_wireVars
-----------------------------------------------------------------------------
(* What the messages say, in order, what those say that are not the        *)
(* system's, and what a body says.                                         *)
Said(ms) == FlattenSeq([k \in DOMAIN ms |-> OpenAIEntry(ms[k]).blocks])
SaidInTalk(ms) ==
    FlattenSeq([k \in DOMAIN ms |->
        IF ms[k].role = "system" THEN << >> ELSE OpenAIEntry(ms[k]).blocks])
BlocksOf(entries) == [k \in DOMAIN entries |-> entries[k].blocks]
BodySays == FlattenSeq(BlocksOf(body.entries))

(* The calls that blocks make, and what blocks are about. *)
UsesIn(blocks) ==
    FlattenSeq([j \in DOMAIN blocks |->
        IF blocks[j].type = "tool_use" THEN <<blocks[j].is>> ELSE << >>])
SubjectsOf(blocks) == [j \in DOMAIN blocks |-> blocks[j].is]

(* The calls of an entry are answered in the next one, all of them, by     *)
(* nothing else before.                                                    *)
AnsweredInNext(entries, k) ==
    LET uses == UsesIn(entries[k].blocks)
    IN  uses # << >> =>
          /\ k < Len(entries)
          /\ SubjectsOf(entries[k + 1].blocks) = uses

(* Anthropic's format has no tool role; still its body says, beside the    *)
(* system's texts, everything the conversation says, in its order, and the *)
(* results of an answer's calls are together in the entry after it.        *)
WireKeepsConversation ==
    body.provider = "anthropic" =>
      /\ \A k \in DOMAIN body.entries : AnsweredInNext(body.entries, k)
      /\ BodySays = SaidInTalk(body.of)

(* Every instruction reaches the model.  It does not: the one that triage  *)
(* and the planner put before the session's own has no segments, and is    *)
(* dropped beside a message that has them.                                 *)
InstructionsSent ==
    body.provider = "anthropic" => body.system = SystemTexts(body.of)

(* Anthropic's docstring: it "requires alternating user/assistant roles".  *)
RolesAlternate ==
    body.provider = "anthropic" =>
      \A k \in 1..(Len(body.entries) - 1) : body.entries[k].role # body.entries[k + 1].role

(* A REST provider with supports_tools set is sent the calls it answers.   *)
RestKeepsCalls ==
    body.provider = "rest" => BodySays = Said(body.of)
=============================================================================

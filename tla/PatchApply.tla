------------------------------ MODULE PatchApply ------------------------------
(***************************************************************************)
(* A file changed by patch_apply: the agent reads it and proposes a patch, *)
(* the user looks at the preview and may edit the file before approving,   *)
(* then the tool parses the patch and applies its operations one by one.   *)
(* (tools/patch_apply.py, shell/ui.py)                                     *)
(*                                                                         *)
(* A line is an indentation and what follows it; a file ends with a        *)
(* newline.  Positions count the lines before them, as in the code.        *)
(***************************************************************************)
EXTENDS Integers, Sequences, FiniteSetsExt, SequencesExt

CONSTANTS
    PatchedTexts,  \* files the agent may find
    Additions,     \* what a hunk may put in
    Anchors,       \* what a hunk may name after @@
    EditedLine,    \* what the user's edit puts in the place of a line
    MaxHunks,      \* bound on the hunks of a patch
    MaxRegion      \* bound on the lines a hunk keeps and those it drops

NoAnchor == "none"
Blank == [indent |-> 0, word |-> "blank"]
Lines == [indent : Nat, word : STRING \ {NoAnchor}]

ASSUME PatchApplyAssumption ==
    /\ PatchedTexts \subseteq Seq(Lines) /\ Additions \subseteq Seq(Lines)
    /\ EditedLine \in Lines /\ MaxRegion \in Nat

VARIABLES
    target_text,  \* the file
    call_         \* the tool call, and what it did (history)

patchVars == <<target_text, call_>>

NoPatchCall == [stage |-> "none"]
Styles == {"marked", "bare", "shifted"}
-----------------------------------------------------------------------------
(* Parsing.  A raw line is its mark and the rest; the mark "bare" stands   *)
(* for a line without one, "space" for the blank before a line to keep.    *)

FlushOperation(p) ==
    IF p.old = << >> /\ p.new = << >> THEN p
    ELSE [ops |-> Append(p.ops, [anchors |-> p.anchors, old |-> p.old, new |-> p.new]),
          anchors |-> << >>, old |-> << >>, new |-> << >>]

ParseRaw(p, raw) ==
    CASE raw.mark = "***" -> p
      [] raw.mark = "@@"  -> LET q == FlushOperation(p) IN
                             IF raw.is = NoAnchor THEN q
                             ELSE [q EXCEPT !.anchors = Append(@, raw.is)]
      [] raw.mark = "-"   -> [p EXCEPT !.old = Append(@, raw.is)]
      [] raw.mark = "+"   -> [p EXCEPT !.new = Append(@, raw.is)]
      [] raw.mark \in {"space", "bare"} ->
                             [p EXCEPT !.old = Append(@, raw.is), !.new = Append(@, raw.is)]

ParseLines(p, raws) ==
    LET parsed[k \in 0 .. Len(raws)] ==
            IF k = 0 THEN p ELSE ParseRaw(parsed[k - 1], raws[k])
    IN  parsed[Len(raws)]

ParsePatchOperations(patch) ==
    FlushOperation(ParseLines([ops |-> << >>, anchors |-> << >>, old |-> << >>, new |-> << >>],
                              patch)).ops
-----------------------------------------------------------------------------
(* Applying. *)

(* The line the anchors lead to, one after the other, from the cursor on;  *)
(* an anchor that is not found is passed over.                             *)
AnchorFrom(lines, anchor, at) ==
    LET found == {k \in (at + 1) .. Len(lines) : lines[k].word = anchor}
    IN  IF found = {} THEN at ELSE Min(found)

ResolveAnchorIndex(lines, anchors, cursor) ==
    LET at[k \in 0 .. Len(anchors)] ==
            IF k = 0 THEN cursor ELSE AnchorFrom(lines, anchors[k], at[k - 1])
    IN  at[Len(anchors)]

Stripped(lines) == [k \in DOMAIN lines |-> lines[k].word]

CandidateMatches(lines, expected) ==
    {k \in 1 .. (Len(lines) - Len(expected) + 1) :
        SubSeq(lines, k, k + Len(expected) - 1) = expected}

Distance(j, k) == IF j < k THEN k - j ELSE j - k

(* One match, or the one that is nearer to the anchor than all others.     *)
ChosenMatches(matches, at) ==
    IF Cardinality(matches) = 1 THEN matches
    ELSE IF at = 0 THEN {}
    ELSE {k \in matches : \A j \in matches \ {k} : Distance(k, at) < Distance(j, at)}

KnownIn(lines) == {k \in DOMAIN lines : lines[k] # Blank}
IndentsOf(lines) == {lines[k].indent : k \in KnownIn(lines)}

(* The lines to put in follow the indentation of those they replace.       *)
ReindentReplacement(new, matched, expected) ==
    LET base == IF KnownIn(expected) = {} THEN 0 ELSE matched[Min(KnownIn(expected))].indent
        low == Min(IndentsOf(new))
    IN  [k \in DOMAIN new |->
            IF new[k] = Blank THEN Blank
            ELSE [new[k] EXCEPT !.indent = (base + new[k].indent) - low]]

Spliced(lines, before, dropped, new) ==
    SubSeq(lines, 1, before) \o new \o SubSeq(lines, before + dropped + 1, Len(lines))

(* Mutant: the cursor is put where the old lines would have ended.         *)
OldLengthMutant(before, old, new) == before + Len(old)

CursorAfter(before, old, new) == before + Len(new)

FailedPatch == [ok |-> FALSE, lines |-> << >>, cursor |-> 0]

ApplyOperation(state, op) ==
    LET lines == state.lines
        at == ResolveAnchorIndex(lines, op.anchors, state.cursor)
        exact == CandidateMatches(lines, op.old)
        chosen == ChosenMatches(IF exact # {} THEN exact
                                ELSE CandidateMatches(Stripped(lines), Stripped(op.old)), at)
    IN  IF ~state.ok THEN state
        ELSE IF op.old = << >>
        THEN [ok |-> TRUE, lines |-> Spliced(lines, at, 0, op.new),
              cursor |-> CursorAfter(at, << >>, op.new)]
        ELSE IF chosen = {} THEN FailedPatch
        ELSE LET start == Min(chosen) - 1
                 matched == SubSeq(lines, start + 1, start + Len(op.old))
                 new == IF exact # {} THEN op.new ELSE ReindentReplacement(op.new, matched, op.old)
             IN  [ok |-> TRUE, lines |-> Spliced(lines, start, Len(op.old), new),
                  cursor |-> CursorAfter(start, op.old, new)]

(* All lines gone, the newline at the end stays.                           *)
ApplyOperations(text, ops) ==
    LET after[k \in 0 .. Len(ops)] ==
            IF k = 0 THEN [ok |-> TRUE, lines |-> text, cursor |-> 0]
            ELSE ApplyOperation(after[k - 1], ops[k])
        done == after[Len(ops)]
    IN  IF done.ok /\ done.lines = << >> THEN [done EXCEPT !.lines = <<Blank>>] ELSE done

(* old_text and new_text: str.count finds no overlapping occurrences.      *)
ApplyLegacyExactReplacement(text, old, new) ==
    LET found == CandidateMatches(text, old)
    IN  IF found = {} \/ \E k \in found : k >= Min(found) + Len(old)
        THEN FailedPatch
        ELSE [ok |-> TRUE, lines |-> Spliced(text, Min(found) - 1, Len(old), new), cursor |-> 0]
-----------------------------------------------------------------------------
(* What the agent writes: hunks in the order of the file, each with the    *)
(* lines it keeps, drops and adds, behind the first `from` lines.          *)

Regions(text) ==
    {h \in [from : 0 .. Len(text), keep : 0 .. MaxRegion, drop : 0 .. MaxRegion,
            add : Additions, anchor : Anchors \union {NoAnchor}] :
        /\ h.from + h.keep + h.drop <= Len(text)
        /\ h.drop > 0 \/ h.add # << >>}
EndOf(h) == h.from + h.keep + h.drop
KeptLines(text, h) == SubSeq(text, h.from + 1, h.from + h.keep)
DroppedLines(text, h) == SubSeq(text, h.from + h.keep + 1, EndOf(h))
RegionLines(text, h) == SubSeq(text, h.from + 1, EndOf(h))

Written(line, style) ==
    IF style = "shifted" /\ line # Blank THEN [line EXCEPT !.indent = @ + 1] ELSE line

RawLines(lines, mark, style) ==
    [k \in DOMAIN lines |-> [mark |-> mark, is |-> Written(lines[k], style)]]

RawHunk(text, h, style) ==
    <<[mark |-> "@@", is |-> h.anchor]>>
    \o RawLines(KeptLines(text, h), IF style = "bare" THEN "bare" ELSE "space", style)
    \o RawLines(DroppedLines(text, h), "-", style)
    \o RawLines(h.add, "+", style)

RawPatch(text, hunks, style) ==
    <<[mark |-> "***"]>> \o FlattenSeq([k \in DOMAIN hunks |-> RawHunk(text, hunks[k], style)])
-----------------------------------------------------------------------------
PatchInit == target_text \in PatchedTexts /\ call_ = NoPatchCall

(* The agent has read the file and calls the tool; the user is asked.      *)
ProposePatch ==
    /\ call_ = NoPatchCall
    /\ \E style \in Styles, h \in Regions(target_text) :
         \E more \in {<< >>} \union
                      {<<g>> : g \in {r \in Regions(target_text) : r.from >= EndOf(h)}} :
            /\ Len(more) < MaxHunks
            /\ call_' = [stage |-> "asked", mode |-> "patch", seen |-> target_text,
                         hunks |-> <<h>> \o more, style |-> style]
    /\ UNCHANGED target_text

ProposeReplacement ==
    /\ call_ = NoPatchCall
    /\ \E h \in Regions(target_text) :
         /\ h.keep = 0 /\ h.drop > 0 /\ h.anchor = NoAnchor
         /\ call_' = [stage |-> "asked", mode |-> "legacy", seen |-> target_text,
                      hunks |-> <<h>>, style |-> "marked"]
    /\ UNCHANGED target_text

(* The old and the new text the preview of the approval prompt is made of. *)
FormatToolPreview(call) ==
    IF call.mode = "legacy"
    THEN [old |-> RegionLines(call.seen, call.hunks[1]), new |-> call.hunks[1].add]
    ELSE [old |-> << >>, new |-> << >>]

(* While the question is open, the file is edited in another program.      *)
UserEditsLine(k) ==
    /\ call_.stage = "asked" /\ target_text = call_.seen
    /\ target_text[k] # EditedLine
    /\ target_text' = [target_text EXCEPT ![k] = EditedLine]
    /\ UNCHANGED call_

ResolveOperations(call) == ParsePatchOperations(RawPatch(call.seen, call.hunks, call.style))

Applied(text, call) ==
    IF call.mode = "legacy"
    THEN ApplyLegacyExactReplacement(text, RegionLines(call.seen, call.hunks[1]), call.hunks[1].add)
    ELSE ApplyOperations(text, ResolveOperations(call))

(* The tool reads the file as it stands now, and writes it on success only. *)
ExecutePatch ==
    /\ call_.stage = "asked"
    /\ LET done == Applied(target_text, call_)
       IN  /\ target_text' = IF done.ok THEN done.lines ELSE target_text
           /\ call_' = [stage |-> "done", mode |-> call_.mode, seen |-> call_.seen,
                        hunks |-> call_.hunks, style |-> call_.style,
                        before |-> target_text, ok |-> done.ok]

PatchNext ==
    \/ ProposePatch \/ ProposeReplacement \/ ExecutePatch
    \/ \E k \in DOMAIN target_text : UserEditsLine(k)

PatchSpec == PatchInit /\ [][PatchNext]_patchVars
-----------------------------------------------------------------------------
(* Properties. *)

(* What the hunks mean: each region of the file by its position.           *)
Replaced(text, h) == Spliced(text, h.from + h.keep, h.drop, h.add)
Meant(text, hunks) ==
    LET meant[k \in 0 .. Len(hunks)] ==
            IF k = 0 THEN text ELSE Replaced(meant[k - 1], hunks[(Len(hunks) - k) + 1])
    IN  meant[Len(hunks)]

(* The text a hunk is applied to, if those before it did what they mean.   *)
TextFor(call, i) == Meant(call.before, SubSeq(call.hunks, 1, i - 1))

StrippedBlock(call, i) == Stripped(RegionLines(call.seen, call.hunks[i]))
BlockOccurrences(call, i) == CandidateMatches(Stripped(TextFor(call, i)), StrippedBlock(call, i))

(* A written block with another indentation says where its first line      *)
(* goes; the other lines go right if none that is put in is to the left.   *)
Aligned(block, put) ==
    IndentsOf(put) # {} =>
        KnownIn(block) # {} /\ Min(IndentsOf(put)) = block[Min(KnownIn(block))].indent

IndentKnown(call, h) == Aligned(RegionLines(call.seen, h), KeptLines(call.seen, h) \o h.add)

(* A hunk that leaves no choice: its lines are still where they were, and  *)
(* nowhere else; or it only adds, behind the first line with its anchor.   *)
LeavesNoChoice(call, i) ==
    LET h == call.hunks[i]
        last == IF i = 1 THEN 0 ELSE EndOf(call.hunks[i - 1])
        anchored == {k \in (last + 1) .. Len(call.before) : call.before[k].word = h.anchor}
    IN  IF RegionLines(call.seen, h) = << >>
        THEN /\ call.style # "shifted"
             /\ h.from = IF anchored = {} THEN last ELSE Min(anchored)
        ELSE /\ RegionLines(call.before, h) = RegionLines(call.seen, h)
             /\ IF call.style = "shifted"
                THEN Cardinality(BlockOccurrences(call, i)) = 1 /\ IndentKnown(call, h)
                ELSE Cardinality(CandidateMatches(TextFor(call, i), RegionLines(call.seen, h))) = 1

(* A patch does what its hunks mean as long as each leaves no choice, also *)
(* when the user has edited other lines in the meantime, whatever the      *)
(* anchors and the indentation it is written with; if the lines of the     *)
(* first other hunk are nowhere in the file, it fails; and a patch that    *)
(* fails, at whatever hunk, leaves the file as it was.                     *)
PatchLandsWhereMeant ==
    call_.stage = "done" =>
      /\ ~call_.ok => target_text = call_.before
      /\ IF \A i \in DOMAIN call_.hunks : LeavesNoChoice(call_, i)
         THEN LET meant == Meant(call_.before, call_.hunks)
              IN  call_.ok /\ (meant # << >> => target_text = meant)
         ELSE LET i == Min({k \in DOMAIN call_.hunks : ~LeavesNoChoice(call_, k)})
              IN  StrippedBlock(call_, i) # << >> /\ BlockOccurrences(call_, i) = {} => ~call_.ok

(* docs/tool-system.md: "Ambiguous matches still error explicitly."  Lines *)
(* that are in several places, and for which no anchor is given, are not   *)
(* replaced in one of them.                                                *)
AmbiguousPatchFails ==
    call_.stage = "done" /\ call_.ok =>
        \A i \in DOMAIN call_.hunks :
            LET h == call_.hunks[i] IN
            (\A k \in 1 .. i - 1 : LeavesNoChoice(call_, k)) /\ h.anchor = NoAnchor
            => Cardinality(CandidateMatches(TextFor(call_, i), RegionLines(call_.seen, h))) <= 1
               \/ RegionLines(call_.seen, h) = << >>

(* docs/tool-system.md: patch mode "tolerates indentation-only mismatches  *)
(* by reindenting replacement lines against the matched region."           *)
ShiftedPatchKeepsShape ==
    LET h == call_.hunks[1] IN
    call_.stage = "done" /\ call_.ok /\ call_.style = "shifted" /\ Len(call_.hunks) = 1
        /\ RegionLines(call_.seen, h) # << >>
        /\ RegionLines(call_.before, h) = RegionLines(call_.seen, h)
        /\ Cardinality(BlockOccurrences(call_, 1)) = 1
    => target_text = Meant(call_.before, call_.hunks)

(* docs/cli-and-ux.md: for patch_apply the details view includes a change  *)
(* summary and a unified diff.  What is approved changes nothing only if   *)
(* the preview says so.                                                    *)
PreviewShowsChange ==
    call_.stage = "asked" =>
        (FormatToolPreview(call_).old = FormatToolPreview(call_).new
         <=> Meant(call_.seen, call_.hunks) = call_.seen)
=============================================================================

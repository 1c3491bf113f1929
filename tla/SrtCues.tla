-------------------------------- MODULE SrtCues --------------------------------
(***************************************************************************)
(* ParseSrtCues (sync/srt_cues.cpp): the cues of a subtitle file, which    *)
(* may be damaged. A file is a sequence of lines, with \r and surrounding  *)
(* blanks taken away; a line is known by what the parser tells apart, a    *)
(* text line by its words, and numbers taken for text are one word.        *)
(***************************************************************************)
EXTENDS Integers, FiniteSetsExt, SequencesExt

CONSTANT Number         \* the word that a number is

Line(kind) == [kind |-> kind, start |-> 0, end |-> 0, words |-> <<>>]
Timing(start, end) == [Line("timing") EXCEPT !.start = start, !.end = end]
Text(words) == [Line("text") EXCEPT !.words = words]

\* An empty line; one of blanks; one of markup; a number; an arrow between what
\* are no two times.
Damages == {Line(kind) : kind \in {"empty", "blank", "markup", "number", "garbled"}}

HasArrow(line) == line.kind \in {"timing", "garbled"}

\* StripMarkup, and the words that matching finds in the rest.
WordsOf(line) ==
  CASE line.kind = "text" -> line.words
    [] line.kind = "number" \/ HasArrow(line) -> <<Number>>
    [] OTHER -> <<>>
IsText(line) == line.kind \notin {"empty", "blank", "markup"}

\* Whatever precedes the first arrow is skipped, what follows it is text. A block
\* without times in their order, or without text, has no cue.
ParseBlock(block) ==
  LET arrows == {i \in DOMAIN block : HasArrow(block[i])}
      timing == block[Min(arrows)]
      text   == SubSeq(block, Min(arrows) + 1, Len(block))
  IN  IF arrows = {} \/ timing.kind = "garbled" \/ timing.end <= timing.start
         \/ \A i \in DOMAIN text : ~IsText(text[i])
      THEN <<>>
      ELSE <<[words |-> FlattenSeq([i \in DOMAIN text |-> WordsOf(text[i])]),
              start |-> timing.start, end |-> timing.end]>>

\* A block ends at the first "\n\n" from its start on: before an empty line that is
\* not its first one. Only an empty line separates; one of blanks is text.
Separates(line) == line.kind = "empty"
Blocks(lines) ==
  LET blocks[at \in 1 .. Len(lines) + 2] ==
        IF at > Len(lines) THEN <<>>
        ELSE LET end == Min({Len(lines)} \union
                          {i \in at .. Len(lines) - 1 : Separates(lines[i + 1])})
             IN  <<SubSeq(lines, at, end)>> \o blocks[end + 2]
  IN  blocks[1]

\* One bad block does not end the file.
ParseSrtCues_StopsAtBad(lines) ==
  LET blocks == Blocks(lines)
      bad    == {b \in DOMAIN blocks : ParseBlock(blocks[b]) = <<>>}
  IN  FlattenSeq([b \in 1 .. Min({Len(blocks)} \union bad) |-> ParseBlock(blocks[b])])
ParseSrtCues(lines) ==
  LET blocks == Blocks(lines)
  IN  FlattenSeq([b \in DOMAIN blocks |-> ParseBlock(blocks[b])])
=============================================================================

----------------------------- MODULE Splitter ------------------------------
(***************************************************************************)
(* Cutting a long text into parts, so that no expense is halved            *)
(* (bot/llm/splitter.py).  A text is a sequence of clauses [len, brk]: its *)
(* length and what ends it.  The texts here have no blanks.                *)
(***************************************************************************)
EXTENDS Naturals, Sequences, SequencesExt

CONSTANTS Chunk2Parts, Chunk3Parts, ChunkMaxChars, MaxParts
ASSUME ChunkAssumption ==
  Chunk2Parts \in Nat /\ Chunk3Parts \in Nat /\ ChunkMaxChars \in Nat /\ MaxParts \in Nat \ {0}

NormLen(text) == FoldLeft(LAMBDA n, c : n + c.len, 0, text)

\* The number of parts, or 0 for a text that is too long.
DecideParts(text) ==
  LET n == NormLen(text) IN
  IF n <= Chunk2Parts THEN 1
  ELSE IF n <= Chunk3Parts THEN 2
  ELSE IF n <= ChunkMaxChars THEN MaxParts ELSE 0

\* The pieces of a text that is cut after the breaks in `at`.
Cuts(text, at) ==
  FoldLeft(LAMBDA pieces, c :
             IF pieces # <<>> /\ Last(Last(pieces)).brk \notin at
             THEN [pieces EXCEPT ![Len(pieces)] = Append(@, c)]
             ELSE Append(pieces, <<c>>), <<>>, text)

\* At ends of lines and sentences; if that is too few, at commas and lines.
Units(text, n) ==
  LET sentences == Cuts(text, {"line", "sentence"})
  IN  IF Len(sentences) >= n THEN sentences ELSE Cuts(text, {"line", "comma"})

\* Mutant of LastPart: what remains after the last full part is forgotten.
NoLastPart(state) == state.parts
LastPart(state) == IF state.cur = <<>> THEN state.parts ELSE Append(state.parts, state.cur)

\* A part is closed when it has its share of the text; the last takes the rest.
NaiveSplit(text, n) ==
  LET units == Units(text, n)
      add(state, u) ==
        LET cur == state.cur \o u
        IN  IF Len(state.parts) < n - 1 /\ n * NormLen(cur) >= NormLen(text)
            THEN [parts |-> Append(state.parts, cur), cur |-> <<>>]
            ELSE [state EXCEPT !.cur = cur]
  IN  IF Len(units) <= 1 THEN <<text>>
      ELSE IF Len(units) <= n THEN units
      ELSE LastPart(FoldLeft(add, [parts |-> <<>>, cur |-> <<>>], units))

\* The model's parts are taken if they are n and cover 80 percent of the text.
Covers(parts, text, n) ==
  Len(parts) = n /\ 10 * NormLen(FlattenSeq(parts)) >= 8 * NormLen(text)

\* split_text; without an answer of the model, `answer` is empty.
SplitText(text, n, answer) ==
  IF n <= 1 THEN <<text>>
  ELSE IF Covers(answer, text, n) THEN answer ELSE NaiveSplit(text, n)
=============================================================================

------------------------- MODULE EvidenceIntelligence -------------------------
(***************************************************************************)
(* The pure functions of evidence_intelligence/: cutting a text into       *)
(* overlapping chunks, grouping summaries within a budget, and the choice  *)
(* of the route.  A text is its length and a summary the size at which it  *)
(* is rendered.                                                            *)
(***************************************************************************)
EXTENDS Integers, Sequences, SequencesExt

CONSTANTS
  ChunkCharacters,      \* CHUNK_CHARACTERS
  OverlapCharacters,    \* OVERLAP_CHARACTERS
  Budget,               \* MAX_CONSOLIDATION_INPUT_CHARACTERS
  MaxLength,            \* bound: longest text the functions are checked on
  MaxItems              \* bound: most summaries they are checked on

ASSUME PolicyAssumption ==
  /\ ChunkCharacters \in Nat /\ OverlapCharacters \in 0 .. ChunkCharacters - 1
  /\ Budget \in Nat /\ MaxLength \in Nat /\ MaxItems \in Nat

-----------------------------------------------------------------------------

Total(sizes) == FoldLeft(LAMBDA m, n : m + n, 0, sizes)
Smaller(m, n) == IF m < n THEN m ELSE n

\* Mutant: the next chunk starts behind the end of this one.
NextStartAfterGap(end) == end + 1

NextStart(end) == end - OverlapCharacters

\* chunk_text: the loop, started at offset `start` of a text of n characters.
ChunkText(n) ==
  LET from[start \in 0 .. n] ==
        LET end == Smaller(start + ChunkCharacters, n)
            chunk == <<[start |-> start, end |-> end]>>
        IN IF end = n THEN chunk ELSE chunk \o from[NextStart(end)]
  IN from[0]

\* Mutant: the delimiter between two summaries is not counted.
RenderedBare(size) == size

\* A rendered summary and the double newline behind it.
Rendered(size) == size + 2

\* group_within_budget, one summary at a time.
Grouped(groups, size) ==
  IF groups # <<>> /\ Total(Last(groups)) + Rendered(size) <= Budget
  THEN Front(groups) \o <<Append(Last(groups), Rendered(size))>>
  ELSE Append(groups, <<Rendered(size)>>)

GroupWithinBudget(sizes) == FoldLeft(Grouped, <<>>, sizes)

\* route_request: one model call is made in the request.
Route(sources, chunks) == IF sources = 1 /\ chunks = 1 THEN "direct" ELSE "durable"

-----------------------------------------------------------------------------
(* What they promise.                                                       *)

\* Every character of a text of n reaches the model, in chunks that are no
\* longer than the limit, overlap by the fixed amount, and each add something.
ChunksCover(n) ==
  LET chunks == ChunkText(n)
  IN /\ chunks[1].start = 0 /\ Last(chunks).end = n
     /\ \A i \in DOMAIN chunks : chunks[i].end - chunks[i].start \in 1 .. ChunkCharacters
     /\ \A i \in 1 .. Len(chunks) - 1 :
          /\ chunks[i + 1].start = chunks[i].end - OverlapCharacters
          /\ chunks[i + 1].end > chunks[i].end

\* The text a group is rendered to: its summaries with a delimiter between
\* two of them.
RenderedText(sizes, first, last) ==
  Total([i \in 1 .. last - first + 1 |-> sizes[first + i - 1]]) + 2 * (last - first)

\* Grouping keeps every summary, in order, in groups whose rendered text fits
\* the budget, and starts a group only when the summary does not fit the last
\* one; two summaries of at most half the budget never make two groups, so
\* consolidation of small summaries shrinks at every level.
GroupsFit(sizes) ==
  LET groups == GroupWithinBudget(sizes)
      count == Len(sizes)
      before[g \in 0 .. Len(groups)] == IF g = 0 THEN 0 ELSE before[g - 1] + Len(groups[g])
  IN /\ before[Len(groups)] = count
     /\ \A g \in DOMAIN groups :
          RenderedText(sizes, before[g - 1] + 1, before[g]) <= Budget
     /\ \A g \in 1 .. Len(groups) - 1 : Total(groups[g]) + groups[g + 1][1] > Budget
     /\ (\A i \in 1 .. count : 2 * (sizes[i] + 2) <= Budget) =>
          Len(groups) <= (count + 1) \div 2
=============================================================================

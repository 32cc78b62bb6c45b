---------------------- MODULE EvidenceIntelligenceProofs ----------------------
(***************************************************************************)
(* What the pure functions compute, for texts and summaries of any number  *)
(* and size.  Induction is over sets of natural numbers, by the least      *)
(* element of what is left (WFMin); a recursive function is shown to exist *)
(* before its equation is used.                                            *)
(***************************************************************************)
EXTENDS EvidenceIntelligence, WellFoundedInduction, TLAPS

-----------------------------------------------------------------------------
(* Induction over the natural numbers, and up to one of them.               *)

LEMMA Induction ==
  ASSUME NEW T, 0 \in T, \A n \in Nat : n \in T => n + 1 \in T
  PROVE  \A n \in Nat : n \in T
<1> DEFINE Below == OpToRel(<, Nat)
           Rest == Nat \ T
<1>1. SUFFICES ASSUME Rest # {} PROVE FALSE
  OBVIOUS
<1>2. \E x \in Rest : \A y \in Rest : ~ (<<y, x>> \in Below)
  <2>1. Rest \subseteq Nat
    OBVIOUS
  <2>2. IsWellFoundedOn(Below, Nat)
    BY NatLessThanWellFounded, Zenon
  <2> HIDE DEF Below, Rest
  <2> QED
    BY <1>1, <2>1, <2>2, WFMin
<1>3. PICK x \in Rest : \A y \in Rest : ~ (<<y, x>> \in Below)
  BY <1>2
<1>4. \A y \in Rest : ~ (y < x)
  BY <1>3 DEF OpToRel
<1>5. x - 1 \in Nat /\ x - 1 \in T
  BY <1>4
<1> QED
  BY <1>5

LEMMA InductionTo ==
  ASSUME NEW n \in Nat, NEW T, 0 \in T, \A k \in 0 .. n - 1 : k \in T => k + 1 \in T
  PROVE  \A k \in 0 .. n : k \in T
<1> DEFINE U == T \cup {k \in Nat : k > n}
<1>1. 0 \in U
  OBVIOUS
<1>2. \A k \in Nat : k \in U => k + 1 \in U
  OBVIOUS
<1>3. \A k \in Nat : k \in U
  <2> HIDE DEF U
  <2> QED
    BY <1>1, <1>2, Induction
<1> QED
  BY <1>3

-----------------------------------------------------------------------------
(* chunk_text.  One round of the loop that starts at an offset, in terms of  *)
(* what the later rounds give.                                              *)

Chunk == [start : Nat, end : Nat]
EndOf(start, n) == Smaller(start + ChunkCharacters, n)
ChunkAt(start, n) == [start |-> start, end |-> EndOf(start, n)]

Round(later, start, n) ==
  IF EndOf(start, n) = n THEN <<ChunkAt(start, n)>>
                         ELSE <<ChunkAt(start, n)>> \o later[NextStart(EndOf(start, n))]

Loop(n) == CHOOSE from : from = [start \in 0 .. n |-> Round(from, start, n)]

\* The offsets of a round: the chunk adds something, and a further round starts
\* behind this one's start and before the end of the text.
LEMMA RoundOffsets ==
  ASSUME NEW n \in Nat, NEW start \in 0 .. n
  PROVE  /\ EndOf(start, n) \in 0 .. n
         /\ start < n => EndOf(start, n) - start \in 1 .. ChunkCharacters
         /\ start = n => EndOf(start, n) = n
         /\ EndOf(start, n) # n =>
              /\ NextStart(EndOf(start, n)) \in start + 1 .. n - 1
              /\ NextStart(EndOf(start, n)) = EndOf(start, n) - OverlapCharacters
              /\ EndOf(NextStart(EndOf(start, n)), n) > EndOf(start, n)
BY PolicyAssumption DEF EndOf, Smaller, NextStart

\* The loop ends: its function is defined, from the last offset backwards.
LEMMA LoopDefined ==
  ASSUME NEW n \in Nat
  PROVE  Loop(n) = [start \in 0 .. n |-> Round(Loop(n), start, n)]
<1> DEFINE T == {k \in 0 .. n : \E g : g = [start \in n - k .. n |-> Round(g, start, n)]}
<1>1. 0 \in T
  <2> DEFINE g == [start \in n - 0 .. n |-> <<ChunkAt(start, n)>>]
  <2>1. g = [start \in n - 0 .. n |-> Round(g, start, n)]
    BY RoundOffsets DEF Round
  <2> HIDE DEF g
  <2> QED
    BY <2>1
<1>2. ASSUME NEW k \in 0 .. n - 1, k \in T
      PROVE  k + 1 \in T
  <2>1. PICK g : g = [start \in n - k .. n |-> Round(g, start, n)]
    BY <1>2
  <2> DEFINE h == [start \in n - (k + 1) .. n |->
                     IF start = n - (k + 1) THEN Round(g, start, n) ELSE g[start]]
  <2>2. \A start \in n - k .. n : h[start] = g[start]
    OBVIOUS
  <2>3. ASSUME NEW start \in n - (k + 1) .. n
        PROVE  Round(h, start, n) = Round(g, start, n)
    <3>1. start \in 0 .. n
      OBVIOUS
    <3>2. EndOf(start, n) # n => NextStart(EndOf(start, n)) \in n - k .. n
      <4>1. EndOf(start, n) # n => NextStart(EndOf(start, n)) \in start + 1 .. n - 1
        BY <3>1, RoundOffsets
      <4> QED
        BY <4>1
    <3> HIDE DEF h
    <3> QED
      BY <2>2, <3>2 DEF Round
  <2>4. ASSUME NEW start \in n - (k + 1) .. n
        PROVE  h[start] = Round(g, start, n)
    <3>1. CASE start = n - (k + 1)
      BY <3>1
    <3>2. CASE start # n - (k + 1)
      <4>1. start \in n - k .. n
        BY <3>2
      <4>2. g[start] = Round(g, start, n)
        BY <2>1, <4>1
      <4> QED
        BY <4>1, <4>2
    <3> QED
      BY <3>1, <3>2
  <2>5. h = [start \in n - (k + 1) .. n |-> Round(h, start, n)]
    <3>1. h = [start \in n - (k + 1) .. n |-> h[start]]
      OBVIOUS
    <3> HIDE DEF h
    <3> QED
      BY <2>3, <2>4, <3>1
  <2> HIDE DEF h
  <2>6. k + 1 \in 0 .. n
    OBVIOUS
  <2> QED
    BY <2>5, <2>6
<1>3. n \in T
  <2> HIDE DEF T
  <2>1. \A k \in 0 .. n : k \in T
    BY <1>1, <1>2, InductionTo
  <2> QED
    BY <2>1
<1>4. \E g : g = [start \in 0 .. n |-> Round(g, start, n)]
  <2>1. \E g : g = [start \in n - n .. n |-> Round(g, start, n)]
    BY <1>3
  <2>2. n - n = 0
    OBVIOUS
  <2> QED
    BY <2>1, <2>2
<1> QED
  BY <1>4, Zenon DEF Loop

LEMMA ChunksAreLoop ==
  ASSUME NEW n
  PROVE  ChunkText(n) = Loop(n)[0]
BY Zenon DEF ChunkText, Loop, Round, ChunkAt, EndOf

\* Chunks that cover a text of n characters from an offset on.
Cut(chunks, start, n) ==
  /\ chunks \in Seq(Chunk) /\ Len(chunks) > 0
  /\ chunks[1] = ChunkAt(start, n) /\ chunks[Len(chunks)].end = n
  /\ \A i \in 1 .. Len(chunks) : chunks[i].end - chunks[i].start \in 1 .. ChunkCharacters
  /\ \A i \in 1 .. Len(chunks) - 1 :
       /\ chunks[i + 1].start = chunks[i].end - OverlapCharacters
       /\ chunks[i + 1].end > chunks[i].end

\* A round in front of chunks that cover the rest.
LEMMA RoundCuts ==
  ASSUME NEW n \in Nat, NEW start \in 0 .. n - 1, NEW later,
         EndOf(start, n) # n =>
           Cut(later[NextStart(EndOf(start, n))], NextStart(EndOf(start, n)), n)
  PROVE  Cut(Round(later, start, n), start, n)
<1> DEFINE end == EndOf(start, n)
           first == ChunkAt(start, n)
           next == NextStart(end)
<1>1. /\ end \in 0 .. n /\ end - start \in 1 .. ChunkCharacters
      /\ end # n => /\ next \in start + 1 .. n - 1 /\ next = end - OverlapCharacters
                    /\ EndOf(next, n) > end
  BY RoundOffsets
<1>2. first \in Chunk /\ first.start = start /\ first.end = end
  BY <1>1 DEF ChunkAt, Chunk
<1>3. CASE end = n
  <2>1. Round(later, start, n) = <<first>>
    BY <1>3 DEF Round
  <2> HIDE DEF first, end
  <2> QED
    BY <1>1, <1>2, <1>3, <2>1 DEF Cut, first
<1>4. CASE end # n
  <2> DEFINE rest == later[next]
             all == <<first>> \o rest
  <2>1. Cut(rest, next, n) /\ Round(later, start, n) = all
    BY <1>4 DEF Round
  <2>2. rest[1].start = next /\ rest[1].end = EndOf(next, n)
    BY <2>1 DEF Cut, ChunkAt
  <2> HIDE DEF rest, first, end, next
  <2>3. rest \in Seq(Chunk) /\ Len(rest) \in Nat /\ Len(rest) > 0
    BY <2>1 DEF Cut
  <2>4. all \in Seq(Chunk) /\ Len(all) = Len(rest) + 1
    BY <1>2, <2>3
  <2>5. all[1] = first
    BY <1>2, <2>3
  <2>6. \A i \in 1 .. Len(rest) : all[i + 1] = rest[i]
    BY <1>2, <2>3
  <2> HIDE DEF all
  <2>7. all[Len(all)].end = n
    BY <2>1, <2>3, <2>4, <2>6 DEF Cut
  <2>8. ASSUME NEW i \in 1 .. Len(all)
        PROVE  all[i].end - all[i].start \in 1 .. ChunkCharacters
    <3>1. CASE i = 1
      BY <1>1, <1>2, <2>5, <3>1
    <3>2. CASE i # 1
      <4>1. i - 1 \in 1 .. Len(rest) /\ all[i] = rest[i - 1]
        BY <2>3, <2>4, <2>6, <3>2
      <4> QED
        BY <2>1, <4>1 DEF Cut
    <3> QED
      BY <3>1, <3>2
  <2>9. ASSUME NEW i \in 1 .. Len(all) - 1
        PROVE  /\ all[i + 1].start = all[i].end - OverlapCharacters
               /\ all[i + 1].end > all[i].end
    <3>1. all[i + 1] = rest[i]
      BY <2>3, <2>4, <2>6
    <3>2. CASE i = 1
      BY <1>1, <1>2, <1>4, <2>2, <2>5, <3>1, <3>2
    <3>3. CASE i # 1
      <4>1. i - 1 \in 1 .. Len(rest) - 1 /\ all[i] = rest[i - 1] /\ i - 1 + 1 = i
        BY <2>3, <2>4, <2>6, <3>3
      <4>2. /\ rest[i - 1 + 1].start = rest[i - 1].end - OverlapCharacters
            /\ rest[i - 1 + 1].end > rest[i - 1].end
        BY <2>1, <4>1 DEF Cut
      <4> QED
        BY <3>1, <4>1, <4>2
    <3> QED
      BY <3>2, <3>3
  <2>10. Cut(all, start, n)
    BY <2>3, <2>4, <2>5, <2>7, <2>8, <2>9 DEF Cut, first
  <2> QED
    BY <2>1, <2>10
<1> QED
  BY <1>3, <1>4

\* Every text that is not empty is cut into chunks that lose no character of it,
\* are no longer than the limit, overlap by the fixed amount and each add
\* something (chunking.py:17-30).
THEOREM EveryTextIsCovered == \A n \in Nat \ {0} : ChunksCover(n)
<1>1. SUFFICES ASSUME NEW n \in Nat, n > 0
               PROVE  ChunksCover(n)
  OBVIOUS
<1> DEFINE T == {k \in 0 .. n - 1 : \A s \in n - 1 - k .. n - 1 : Cut(Loop(n)[s], s, n)}
<1>2. \A s \in 0 .. n : Loop(n)[s] = Round(Loop(n), s, n)
  BY LoopDefined
<1>3. 0 \in T
  <2>1. EndOf(n - 1, n) = n
    BY <1>1, PolicyAssumption DEF EndOf, Smaller
  <2>2. Cut(Round(Loop(n), n - 1, n), n - 1, n)
    BY <1>1, <2>1, RoundCuts
  <2>3. Cut(Loop(n)[n - 1], n - 1, n)
    BY <1>1, <1>2, <2>2
  <2> QED
    BY <1>1, <2>3
<1>4. ASSUME NEW k \in 0 .. n - 1 - 1, k \in T
      PROVE  k + 1 \in T
  <2>1. \A s \in n - 1 - k .. n - 1 : Cut(Loop(n)[s], s, n)
    BY <1>4
  <2> DEFINE s0 == n - 1 - (k + 1)
  <2>2. s0 \in 0 .. n - 1
    BY <1>1
  <2>3. EndOf(s0, n) # n => NextStart(EndOf(s0, n)) \in s0 + 1 .. n - 1
    <3> HIDE DEF s0
    <3> QED
      BY <2>2, RoundOffsets
  <2>4. EndOf(s0, n) # n => Cut(Loop(n)[NextStart(EndOf(s0, n))], NextStart(EndOf(s0, n)), n)
    BY <1>1, <2>1, <2>3
  <2>5. Cut(Loop(n)[s0], s0, n)
    <3> HIDE DEF s0
    <3> QED
      BY <1>1, <1>2, <2>2, <2>4, RoundCuts
  <2>6. \A s \in s0 .. n - 1 : s = s0 \/ s \in n - 1 - k .. n - 1
    BY <1>1
  <2> QED
    BY <1>1, <2>1, <2>2, <2>5, <2>6
<1>5. n - 1 \in T
  <2> HIDE DEF T
  <2>1. n - 1 \in Nat
    BY <1>1
  <2>2. \A k \in 0 .. n - 1 : k \in T
    BY <1>3, <1>4, <2>1, InductionTo
  <2> QED
    BY <1>1, <2>2
<1>6. Cut(ChunkText(n), 0, n)
  BY <1>1, <1>5, ChunksAreLoop
<1> HIDE DEF T
<1>7. ChunkAt(0, n).start = 0
  BY DEF ChunkAt
<1>8. DOMAIN ChunkText(n) = 1 .. Len(ChunkText(n))
  BY <1>6 DEF Cut
<1> QED
  BY <1>6, <1>7, <1>8 DEF Cut, ChunksCover, Last

-----------------------------------------------------------------------------
(* Character counts.  A fold from the left takes the last index first, so    *)
(* that its value on the first k indices follows from that on k - 1 of them. *)

\* The largest of some indices that include the last one.
LEMMA LastIndex ==
  ASSUME NEW k \in Nat, NEW S \in SUBSET (1 .. k + 1), k + 1 \in S
  PROVE  Max(S) = k + 1
<1>1. \A x \in S : x =< k + 1
  OBVIOUS
<1> DEFINE P(m) == m \in S /\ \A x \in S : m >= x
<1>2. P(k + 1)
  BY <1>1
<1>3. \A m : P(m) => m = k + 1
  BY <1>1
<1>4. Max(S) = CHOOSE m : P(m)
  BY Zenon DEF Max
<1> HIDE DEF P
<1> QED
  BY <1>2, <1>3, <1>4

\* The two folds of the module, told apart by a name: a lemma that took the
\* folded operator as a parameter could not be instantiated.
Start(fold) == IF fold = "total" THEN 0 ELSE <<>>
With(fold, result, x) == IF fold = "total" THEN result + x ELSE Grouped(result, x)

FoldStep(fold, g, S, s) ==
  IF S = {} THEN Start(fold) ELSE With(fold, g[S \ {Max(S)}], s[Max(S)])

FoldOf(fold, s) == CHOOSE g : g = [S \in SUBSET (DOMAIN s) |-> FoldStep(fold, g, S, s)]

\* Total is the fold of that name.
LEMMA TotalIsFold ==
  ASSUME NEW s
  PROVE  Total(s) = FoldOf("total", s)[DOMAIN s]
<1> DEFINE P(g) == g = [S \in SUBSET (DOMAIN s) |-> FoldStep("total", g, S, s)]
           Q(g) == g = [S \in SUBSET (DOMAIN s) |->
                          IF S = {} THEN 0 ELSE g[S \ {Max(S)}] + s[Max(S)]]
<1>1. \A g : P(g) <=> Q(g)
  BY DEF FoldStep, Start, With
<1>2. Total(s) = (CHOOSE g : Q(g))[DOMAIN s]
  BY Zenon DEF Total, FoldLeft, MapThenFoldSet
<1>3. FoldOf("total", s) = CHOOSE g : P(g)
  BY Zenon DEF FoldOf
<1> HIDE DEF P, Q
<1>4. (CHOOSE g : P(g)) = (CHOOSE g : Q(g))
  BY <1>1
<1> QED
  BY <1>2, <1>3, <1>4

\* So is GroupWithinBudget.
LEMMA GroupsAreFold ==
  ASSUME NEW s
  PROVE  GroupWithinBudget(s) = FoldOf("groups", s)[DOMAIN s]
<1> DEFINE P(g) == g = [S \in SUBSET (DOMAIN s) |-> FoldStep("groups", g, S, s)]
           Q(g) == g = [S \in SUBSET (DOMAIN s) |->
                          IF S = {} THEN <<>> ELSE Grouped(g[S \ {Max(S)}], s[Max(S)])]
<1>1. \A g : P(g) <=> Q(g)
  BY DEF FoldStep, Start, With
<1>2. GroupWithinBudget(s) = (CHOOSE g : Q(g))[DOMAIN s]
  BY Zenon DEF GroupWithinBudget, FoldLeft, MapThenFoldSet
<1>3. FoldOf("groups", s) = CHOOSE g : P(g)
  BY Zenon DEF FoldOf
<1> HIDE DEF P, Q
<1>4. (CHOOSE g : P(g)) = (CHOOSE g : Q(g))
  BY <1>1
<1> QED
  BY <1>2, <1>3, <1>4

Solves(f, fold, s, n) == f = [S \in SUBSET (1 .. n) |-> FoldStep(fold, f, S, s)]

\* The fold is defined: its function is extended by one index after the other.
LEMMA FoldDefined ==
  ASSUME NEW n \in Nat, NEW fold, NEW s, DOMAIN s = 1 .. n
  PROVE  Solves(FoldOf(fold, s), fold, s, n)
<1> DEFINE T == {k \in 0 .. n : \E g : g = [S \in SUBSET (1 .. k) |-> FoldStep(fold, g, S, s)]}
<1>1. 0 \in T
  <2> DEFINE g == [S \in SUBSET (1 .. 0) |-> Start(fold)]
  <2>1. \A S \in SUBSET (1 .. 0) : S = {}
    OBVIOUS
  <2>2. g = [S \in SUBSET (1 .. 0) |-> FoldStep(fold, g, S, s)]
    BY <2>1 DEF FoldStep
  <2> HIDE DEF g
  <2> QED
    BY <2>2
<1>2. ASSUME NEW k \in 0 .. n - 1, k \in T
      PROVE  k + 1 \in T
  <2>1. PICK g : g = [S \in SUBSET (1 .. k) |-> FoldStep(fold, g, S, s)]
    BY <1>2
  <2> DEFINE h == [S \in SUBSET (1 .. k + 1) |->
                     IF k + 1 \in S THEN FoldStep(fold, g, S, s) ELSE g[S]]
  <2>2. \A S \in SUBSET (1 .. k) : S \in SUBSET (1 .. k + 1) /\ h[S] = g[S]
    OBVIOUS
  <2>3. ASSUME NEW S \in SUBSET (1 .. k + 1)
        PROVE  h[S] = FoldStep(fold, h, S, s)
    <3>1. S \ {Max(S)} \in SUBSET (1 .. k + 1)
      OBVIOUS
    <3>2. CASE k + 1 \in S
      <4>1. S \ {Max(S)} \in SUBSET (1 .. k)
        <5>1. Max(S) = k + 1
          BY <3>2, LastIndex
        <5>2. \A x \in S : x # k + 1 => x \in 1 .. k
          OBVIOUS
        <5> QED
          BY <5>1, <5>2
      <4>2. h[S] = FoldStep(fold, g, S, s)
        BY <3>2
      <4> HIDE DEF h
      <4> QED
        BY <2>2, <4>1, <4>2 DEF FoldStep
    <3>3. CASE k + 1 \notin S
      <4>1. S \in SUBSET (1 .. k) /\ S \ {Max(S)} \in SUBSET (1 .. k)
        <5>1. \A x \in S : x # k + 1 /\ x \in 1 .. k
          BY <3>3
        <5> QED
          BY <5>1
      <4>2. h[S] = g[S] /\ g[S] = FoldStep(fold, g, S, s)
        BY <2>1, <2>2, <4>1
      <4> HIDE DEF h
      <4> QED
        BY <2>2, <4>1, <4>2 DEF FoldStep
    <3> QED
      BY <3>2, <3>3
  <2>4. h = [S \in SUBSET (1 .. k + 1) |-> FoldStep(fold, h, S, s)]
    <3>1. h = [S \in SUBSET (1 .. k + 1) |-> h[S]]
      OBVIOUS
    <3> HIDE DEF h
    <3> QED
      BY <2>3, <3>1
  <2> HIDE DEF h
  <2>5. k + 1 \in 0 .. n
    OBVIOUS
  <2> QED
    BY <2>4, <2>5
<1>3. n \in T
  <2> HIDE DEF T
  <2>1. \A k \in 0 .. n : k \in T
    BY <1>1, <1>2, InductionTo
  <2> QED
    BY <2>1
<1>4. \E g : g = [S \in SUBSET (DOMAIN s) |-> FoldStep(fold, g, S, s)]
  BY <1>3
<1>5. FoldOf(fold, s) =
        [S \in SUBSET (DOMAIN s) |-> FoldStep(fold, FoldOf(fold, s), S, s)]
  BY <1>4, Zenon DEF FoldOf
<1> QED
  BY <1>5, Zenon DEF Solves

\* What a fold is of the first k elements, for each k up to n.
Accumulates(v, fold, s, n) ==
  v[0] = Start(fold) /\ \A k \in 0 .. n - 1 : v[k + 1] = With(fold, v[k], s[k + 1])

LEMMA FoldRuns ==
  ASSUME NEW n \in Nat, NEW fold, NEW s, DOMAIN s = 1 .. n
  PROVE  \E v : Accumulates(v, fold, s, n) /\ v[n] = FoldOf(fold, s)[DOMAIN s]
<1> DEFINE f == FoldOf(fold, s)
           v == [k \in 0 .. n |-> f[1 .. k]]
<1>1. f = [S \in SUBSET (1 .. n) |-> FoldStep(fold, f, S, s)]
  <2>1. Solves(f, fold, s, n)
    BY FoldDefined
  <2> HIDE DEF f
  <2> QED
    BY <2>1 DEF Solves
<1> HIDE DEF f
<1>2. f[1 .. 0] = Start(fold)
  <2>1. 1 .. 0 = {} /\ 1 .. 0 \in SUBSET (1 .. n)
    OBVIOUS
  <2>2. f[1 .. 0] = FoldStep(fold, f, 1 .. 0, s)
    BY <1>1, <2>1
  <2> QED
    BY <2>1, <2>2 DEF FoldStep
<1>3. ASSUME NEW k \in 0 .. n - 1
      PROVE  f[1 .. k + 1] = With(fold, f[1 .. k], s[k + 1])
  <2>1. Max(1 .. k + 1) = k + 1
    BY LastIndex
  <2>2. k + 1 \in 1 .. k + 1 /\ \A x \in 1 .. k + 1 : x \in 1 .. n
    OBVIOUS
  <2>3. 1 .. k + 1 # {} /\ 1 .. k + 1 \in SUBSET (1 .. n)
    BY <2>2
  <2>4. (1 .. k + 1) \ {k + 1} = 1 .. k
    OBVIOUS
  <2>5. f[1 .. k + 1] = FoldStep(fold, f, 1 .. k + 1, s)
    BY <1>1, <2>3
  <2> QED
    BY <2>1, <2>3, <2>4, <2>5 DEF FoldStep
<1>4. /\ v[0] = Start(fold) /\ v[n] = f[DOMAIN s]
      /\ \A k \in 0 .. n - 1 : v[k + 1] = With(fold, v[k], s[k + 1])
  BY <1>2, <1>3
<1> HIDE DEF v
<1> QED
  BY <1>4 DEF f, Accumulates

\* And running results determine the result.
LEMMA FoldFromRuns ==
  ASSUME NEW n \in Nat, NEW fold, NEW s, DOMAIN s = 1 .. n, NEW v, Accumulates(v, fold, s, n)
  PROVE  FoldOf(fold, s)[DOMAIN s] = v[n]
<1>1. PICK u : Accumulates(u, fold, s, n) /\ u[n] = FoldOf(fold, s)[DOMAIN s]
  BY FoldRuns
<1> DEFINE T == {k \in 0 .. n : u[k] = v[k]}
<1>2. 0 \in T
  BY <1>1 DEF Accumulates
<1>3. ASSUME NEW k \in 0 .. n - 1, k \in T
      PROVE  k + 1 \in T
  BY <1>1, <1>3 DEF Accumulates
<1>4. \A k \in 0 .. n : k \in T
  <2> HIDE DEF T
  <2> QED
    BY <1>2, <1>3, InductionTo
<1> QED
  BY <1>1, <1>4

\* A total is a natural number, nothing for the empty sequence, and grows by
\* what is appended.
LEMMA TotalFacts ==
  /\ Total(<<>>) = 0
  /\ \A s \in Seq(Nat) : Total(s) \in Nat
  /\ \A s \in Seq(Nat), x \in Nat : Total(Append(s, x)) = Total(s) + x
<1>1. Total(<<>>) = 0
  <2>1. DOMAIN <<>> = 1 .. 0
    OBVIOUS
  <2>2. PICK v : Accumulates(v, "total", <<>>, 0) /\ v[0] = FoldOf("total", <<>>)[DOMAIN <<>>]
    BY <2>1, FoldRuns
  <2> QED
    BY <2>2, TotalIsFold DEF Start, Accumulates
<1>2. ASSUME NEW s \in Seq(Nat)
      PROVE  /\ Total(s) \in Nat
             /\ \A x \in Nat : Total(Append(s, x)) = Total(s) + x
  <2>1. PICK n \in Nat : n = Len(s) /\ DOMAIN s = 1 .. n
    OBVIOUS
  <2>2. PICK v : Accumulates(v, "total", s, n) /\ v[n] = FoldOf("total", s)[DOMAIN s]
    BY <2>1, FoldRuns
  <2>3. v[0] = 0 /\ v[n] = Total(s) /\ \A k \in 0 .. n - 1 : v[k + 1] = v[k] + s[k + 1]
    BY <2>2, TotalIsFold DEF Start, With, Accumulates
  <2> DEFINE T == {k \in 0 .. n : v[k] \in Nat}
  <2>4. \A k \in 0 .. n : k \in T
    <3>1. 0 \in T
      BY <2>1, <2>3
    <3>2. \A k \in 0 .. n - 1 : k \in T => k + 1 \in T
      BY <2>1, <2>3
    <3> HIDE DEF T
    <3> QED
      BY <2>1, <3>1, <3>2, InductionTo
  <2>5. Total(s) \in Nat
    BY <2>1, <2>3, <2>4
  <2>6. ASSUME NEW x \in Nat
        PROVE  Total(Append(s, x)) = Total(s) + x
    <3> DEFINE t == Append(s, x)
               u == [k \in 0 .. n + 1 |-> IF k = n + 1 THEN v[n] + x ELSE v[k]]
    <3>1. DOMAIN t = 1 .. n + 1 /\ t[n + 1] = x /\ \A k \in 1 .. n : t[k] = s[k]
      BY <2>1
    <3> HIDE DEF t
    <3>2. u[0] = Start("total") /\ u[n + 1] = v[n] + x
      BY <2>1, <2>3 DEF Start
    <3>3. ASSUME NEW k \in 0 .. n
          PROVE  u[k + 1] = With("total", u[k], t[k + 1])
      <4>1. CASE k = n
        BY <2>1, <3>1, <4>1 DEF With
      <4>2. CASE k # n
        <5>1. k \in 0 .. n - 1 /\ k + 1 \in 1 .. n
          BY <2>1, <4>2
        <5> QED
          BY <2>1, <2>3, <3>1, <5>1 DEF With
      <4> QED
        BY <4>1, <4>2
    <3> HIDE DEF u
    <3>4. n + 1 \in Nat /\ Accumulates(u, "total", t, n + 1)
      BY <2>1, <3>2, <3>3 DEF Accumulates
    <3>5. FoldOf("total", t)[DOMAIN t] = u[n + 1]
      BY <3>1, <3>4, FoldFromRuns
    <3> QED
      BY <2>3, <3>2, <3>5, TotalIsFold DEF t
  <2> QED
    BY <2>5, <2>6
<1> QED
  BY <1>1, <1>2

-----------------------------------------------------------------------------
(* group_within_budget.  The invariant of its loop, after k summaries: b is  *)
(* the number of summaries up to the end of each group.                      *)

Boundaries(gs, b) ==
  /\ b \in [0 .. Len(gs) -> Nat] /\ b[0] = 0
  /\ \A g \in 1 .. Len(gs) : b[g] = b[g - 1] + Len(gs[g])

\* A group holds the summaries between its boundaries and fits the budget.
GroupFits(group, sizes, from) ==
  /\ Len(group) > 0 /\ Total(group) =< Budget
  /\ \A i \in 1 .. Len(group) : group[i] = Rendered(sizes[from + i])

Packed(gs, b, sizes, k) ==
  /\ gs \in Seq(Seq(Nat)) /\ Boundaries(gs, b)
  /\ b[Len(gs)] = k
  /\ \A g \in 1 .. Len(gs) : GroupFits(gs[g], sizes, b[g - 1])
  /\ \A g \in 1 .. Len(gs) - 1 : Total(gs[g]) + gs[g + 1][1] > Budget

Summaries(count) == [1 .. count -> 1 .. Budget - 2]

\* A summary that fits joins the last group.
LEMMA Joins ==
  ASSUME NEW count \in Nat, NEW sizes \in Summaries(count), NEW k \in 0 .. count - 1,
         NEW gs, NEW b, Packed(gs, b, sizes, k),
         gs # <<>>, Total(Last(gs)) + Rendered(sizes[k + 1]) =< Budget
  PROVE  \E c : Packed(Grouped(gs, sizes[k + 1]), c, sizes, k + 1)
<1> DEFINE size == Rendered(sizes[k + 1])
           group == Append(Last(gs), size)
           new == Front(gs) \o <<group>>
<1>1. PICK m \in Nat : m = Len(gs) /\ m > 0
  BY DEF Packed
<1>2. gs \in Seq(Seq(Nat)) /\ gs[m] \in Seq(Nat) /\ Last(gs) = gs[m]
  BY <1>1 DEF Packed, Last
<1>3. size \in Nat
  BY PolicyAssumption DEF Summaries, Rendered
<1>4. Grouped(gs, sizes[k + 1]) = new
  BY DEF Grouped
<1> HIDE DEF size
<1>5. /\ group \in Seq(Nat) /\ Len(group) = Len(gs[m]) + 1
      /\ \A i \in 1 .. Len(gs[m]) : group[i] = gs[m][i]
      /\ group[Len(gs[m]) + 1] = size
      /\ Total(group) = Total(gs[m]) + size
  <2>1. group = Append(gs[m], size)
    BY <1>2
  <2>2. Total(group) = Total(gs[m]) + size
    BY <1>2, <1>3, <2>1, TotalFacts
  <2> HIDE DEF group
  <2> QED
    BY <1>2, <1>3, <2>1, <2>2
<1> HIDE DEF group
<1>6. /\ new \in Seq(Seq(Nat)) /\ Len(new) = m /\ new[m] = group
      /\ \A g \in 1 .. m - 1 : new[g] = gs[g]
  <2> DEFINE front == Front(gs)
  <2>1. /\ front \in Seq(Seq(Nat)) /\ Len(front) = m - 1
        /\ \A g \in 1 .. m - 1 : front[g] = gs[g]
    <3>1. front = SubSeq(gs, 1, m - 1)
      BY <1>1 DEF Front
    <3> HIDE DEF front
    <3> QED
      BY <1>1, <1>2, <3>1
  <2>2. new = front \o <<group>>
    OBVIOUS
  <2> HIDE DEF front, new
  <2>3. Len(front) \in Nat /\ group \in Seq(Nat)
    BY <1>5, <2>1
  <2>4. new \in Seq(Seq(Nat)) /\ Len(new) = Len(front) + 1
    BY <2>1, <2>2, <2>3
  <2>5. new[Len(front) + 1] = group
    BY <2>1, <2>2, <2>3
  <2>6. \A g \in 1 .. Len(front) : new[g] = front[g]
    BY <2>1, <2>2, <2>3
  <2> QED
    BY <1>1, <2>1, <2>4, <2>5, <2>6
<1> HIDE DEF new
<1> DEFINE c == [b EXCEPT ![m] = k + 1]
<1>7. /\ b \in [0 .. m -> Nat] /\ b[0] = 0 /\ b[m] = k
      /\ \A g \in 1 .. m : b[g] = b[g - 1] + Len(gs[g])
  BY <1>1 DEF Packed, Boundaries
<1>8. c \in [0 .. m -> Nat] /\ c[m] = k + 1 /\ \A g \in 0 .. m - 1 : c[g] = b[g]
  BY <1>1, <1>7
<1> HIDE DEF c
<1>9. b[m - 1] + Len(gs[m]) = k /\ Len(gs[m]) \in Nat /\ b[m - 1] \in Nat
  <2>1. m \in 1 .. m /\ m - 1 \in 0 .. m
    BY <1>1
  <2>2. b[m] = b[m - 1] + Len(gs[m]) /\ b[m - 1] \in Nat
    BY <1>7, <2>1
  <2> QED
    BY <1>2, <1>7, <2>2
<1>10. Boundaries(new, c)
  <2>1. c[0] = 0
    BY <1>1, <1>7, <1>8
  <2>2. ASSUME NEW g \in 1 .. m
        PROVE  c[g] = c[g - 1] + Len(new[g])
    <3>1. CASE g = m
      <4>1. c[m - 1] = b[m - 1] /\ c[m] = k + 1
        BY <1>1, <1>8
      <4>2. Len(new[m]) = Len(gs[m]) + 1
        BY <1>5, <1>6
      <4>3. c[m] = c[m - 1] + Len(new[m])
        BY <1>9, <4>1, <4>2
      <4> QED
        BY <3>1, <4>3
    <3>2. CASE g # m
      <4>1. g \in 0 .. m - 1 /\ g - 1 \in 0 .. m - 1 /\ g \in 1 .. m - 1
        BY <1>1, <3>2
      <4> QED
        BY <1>6, <1>7, <1>8, <4>1
    <3> QED
      BY <3>1, <3>2
  <2> QED
    BY <1>6, <1>8, <2>1, <2>2 DEF Boundaries
<1>11. ASSUME NEW g \in 1 .. m
       PROVE  GroupFits(new[g], sizes, c[g - 1])
  <2>1. GroupFits(gs[g], sizes, b[g - 1]) /\ c[g - 1] = b[g - 1]
    BY <1>1, <1>8 DEF Packed
  <2>2. CASE g = m
    <3>1. Total(group) =< Budget
      BY <1>2, <1>5 DEF size
    <3>3. ASSUME NEW i \in 1 .. Len(group)
          PROVE  group[i] = Rendered(sizes[b[m - 1] + i])
      <4>1. CASE i = Len(gs[m]) + 1
        <5>1. b[m - 1] + i = k + 1
          BY <1>9, <4>1
        <5> QED
          BY <1>5, <4>1, <5>1 DEF size
      <4>2. CASE i # Len(gs[m]) + 1
        <5>1. i \in 1 .. Len(gs[m])
          BY <1>5, <1>9, <4>2
        <5> QED
          BY <1>5, <2>1, <2>2, <5>1 DEF GroupFits
      <4> QED
        BY <4>1, <4>2
    <3> QED
      BY <1>5, <1>6, <1>9, <2>1, <2>2, <3>1, <3>3 DEF GroupFits
  <2>3. CASE g # m
    <3>1. g \in 1 .. m - 1
      BY <1>1, <2>3
    <3> QED
      BY <1>6, <2>1, <3>1
  <2> QED
    BY <2>2, <2>3
<1>12. ASSUME NEW g \in 1 .. m - 1
       PROVE  Total(new[g]) + new[g + 1][1] > Budget
  <2>1. Total(gs[g]) + gs[g + 1][1] > Budget
    BY <1>1 DEF Packed
  <2>2. new[g] = gs[g]
    BY <1>6
  <2>3. new[g + 1][1] = gs[g + 1][1]
    <3>1. CASE g + 1 = m
      <4>1. 1 \in 1 .. Len(gs[m])
        <5>1. m \in 1 .. Len(gs)
          BY <1>1
        <5>2. GroupFits(gs[m], sizes, b[m - 1])
          BY <5>1 DEF Packed
        <5> QED
          BY <1>2, <5>2 DEF GroupFits
      <4> QED
        BY <1>5, <1>6, <3>1, <4>1
    <3>2. CASE g + 1 # m
      <4>1. g + 1 \in 1 .. m - 1
        BY <1>1, <3>2
      <4> QED
        BY <1>6, <4>1
    <3> QED
      BY <3>1, <3>2
  <2> QED
    BY <2>1, <2>2, <2>3
<1>13. Packed(new, c, sizes, k + 1)
  BY <1>6, <1>8, <1>10, <1>11, <1>12 DEF Packed
<1> QED
  BY <1>4, <1>13

\* A summary that does not fit starts a group.
LEMMA Opens ==
  ASSUME NEW count \in Nat, NEW sizes \in Summaries(count), NEW k \in 0 .. count - 1,
         NEW gs, NEW b, Packed(gs, b, sizes, k),
         ~ (gs # <<>> /\ Total(Last(gs)) + Rendered(sizes[k + 1]) =< Budget)
  PROVE  \E c : Packed(Grouped(gs, sizes[k + 1]), c, sizes, k + 1)
<1> DEFINE size == Rendered(sizes[k + 1])
           new == Append(gs, <<size>>)
<1>1. PICK m \in Nat : m = Len(gs)
  BY DEF Packed
<1>2. gs \in Seq(Seq(Nat))
  BY DEF Packed
<1>3. size \in Nat /\ size =< Budget
  BY PolicyAssumption DEF Summaries, Rendered
<1>4. Grouped(gs, sizes[k + 1]) = new
  BY DEF Grouped
<1>5. m > 0 => Total(gs[m]) + size > Budget
  <2>1. m > 0 => gs # <<>> /\ Last(gs) = gs[m] /\ gs[m] \in Seq(Nat)
    BY <1>1, <1>2 DEF Last
  <2>2. m > 0 => Total(gs[m]) \in Nat
    BY <2>1, TotalFacts
  <2> HIDE DEF size
  <2> QED
    BY <1>3, <2>1, <2>2, PolicyAssumption DEF size
<1> HIDE DEF size
<1> DEFINE group == <<size>>
<1>6. group \in Seq(Nat) /\ Len(group) = 1 /\ group[1] = size /\ Total(group) = size
  <2>1. group = Append(<<>>, size) /\ <<>> \in Seq(Nat)
    BY <1>3
  <2>2. Total(Append(<<>>, size)) = Total(<<>>) + size
    BY <1>3, <2>1, TotalFacts
  <2>3. Total(group) = size
    BY <1>3, <2>1, <2>2, TotalFacts
  <2> QED
    BY <1>3, <2>3
<1>7. /\ new \in Seq(Seq(Nat)) /\ Len(new) = m + 1 /\ new[m + 1] = group
      /\ \A g \in 1 .. m : new[g] = gs[g]
  BY <1>1, <1>2, <1>6
<1> HIDE DEF group, new
<1> DEFINE c == [g \in 0 .. m + 1 |-> IF g = m + 1 THEN k + 1 ELSE b[g]]
<1>8. /\ b \in [0 .. m -> Nat] /\ b[0] = 0 /\ b[m] = k
      /\ \A g \in 1 .. m : b[g] = b[g - 1] + Len(gs[g])
  BY <1>1 DEF Packed, Boundaries
<1>9. c \in [0 .. m + 1 -> Nat] /\ c[m + 1] = k + 1 /\ \A g \in 0 .. m : c[g] = b[g]
  BY <1>1, <1>8
<1> HIDE DEF c
<1>10. Boundaries(new, c)
  <2>1. ASSUME NEW g \in 1 .. m + 1
        PROVE  c[g] = c[g - 1] + Len(new[g])
    <3>1. CASE g = m + 1
      <4>1. c[g - 1] = k /\ c[g] = k + 1 /\ Len(new[g]) = 1
        BY <1>1, <1>6, <1>7, <1>8, <1>9, <3>1
      <4> QED
        BY <4>1
    <3>2. CASE g # m + 1
      <4>1. g \in 1 .. m /\ g \in 0 .. m /\ g - 1 \in 0 .. m
        BY <1>1, <3>2
      <4> QED
        BY <1>7, <1>8, <1>9, <4>1
    <3> QED
      BY <3>1, <3>2
  <2> QED
    BY <1>7, <1>8, <1>9, <2>1 DEF Boundaries
<1>11. ASSUME NEW g \in 1 .. m + 1
       PROVE  GroupFits(new[g], sizes, c[g - 1])
  <2>1. CASE g = m + 1
    <3>1. c[g - 1] = k
      BY <1>8, <1>9, <2>1
    <3>2. group[1] = Rendered(sizes[k + 1])
      BY <1>6 DEF size
    <3> QED
      <4>1. new[g] = group /\ \A i \in 1 .. Len(group) : i = 1
        BY <1>6, <1>7, <2>1
      <4>2. GroupFits(group, sizes, k)
        BY <1>3, <1>6, <3>2, <4>1 DEF GroupFits
      <4> QED
        BY <3>1, <4>1, <4>2
  <2>2. CASE g # m + 1
    <3>1. g \in 1 .. m /\ g - 1 \in 0 .. m
      BY <1>1, <2>2
    <3>2. GroupFits(gs[g], sizes, b[g - 1])
      BY <1>1, <3>1 DEF Packed
    <3> QED
      BY <1>7, <1>9, <3>1, <3>2
  <2> QED
    BY <2>1, <2>2
<1>12. ASSUME NEW g \in 1 .. m + 1 - 1
       PROVE  Total(new[g]) + new[g + 1][1] > Budget
  <2>1. CASE g = m
    <3>1. m > 0 /\ new[g] = gs[m] /\ new[g + 1][1] = size
      BY <1>1, <1>6, <1>7, <2>1
    <3> QED
      BY <1>5, <3>1
  <2>2. CASE g # m
    <3>1. g \in 1 .. m - 1 /\ new[g] = gs[g] /\ new[g + 1] = gs[g + 1]
      BY <1>1, <1>7, <2>2
    <3> QED
      BY <1>1, <3>1 DEF Packed
  <2> QED
    BY <2>1, <2>2
<1>13. Packed(new, c, sizes, k + 1)
  BY <1>7, <1>9, <1>10, <1>11, <1>12 DEF Packed
<1> QED
  BY <1>4, <1>13

\* The loop keeps its invariant to the end.
LEMMA LoopPacks ==
  ASSUME NEW count \in Nat, NEW sizes \in Summaries(count)
  PROVE  \E b : Packed(GroupWithinBudget(sizes), b, sizes, count)
<1>1. DOMAIN sizes = 1 .. count
  BY DEF Summaries
<1>2. PICK v : /\ Accumulates(v, "groups", sizes, count)
               /\ v[count] = FoldOf("groups", sizes)[DOMAIN sizes]
  BY <1>1, FoldRuns
<1>3. /\ v[0] = <<>> /\ v[count] = GroupWithinBudget(sizes)
      /\ \A k \in 0 .. count - 1 : v[k + 1] = Grouped(v[k], sizes[k + 1])
  BY <1>2, GroupsAreFold DEF Start, With, Accumulates
<1> DEFINE T == {k \in 0 .. count : \E b : Packed(v[k], b, sizes, k)}
<1>4. 0 \in T
  <2> DEFINE b == [g \in 0 .. 0 |-> 0]
  <2>1. Boundaries(<<>>, b)
    BY DEF Boundaries
  <2>2. Packed(<<>>, b, sizes, 0)
    BY <2>1 DEF Packed
  <2> HIDE DEF b
  <2> QED
    BY <1>3, <2>2
<1>5. ASSUME NEW k \in 0 .. count - 1, k \in T
      PROVE  k + 1 \in T
  <2>1. PICK b : Packed(v[k], b, sizes, k)
    BY <1>5
  <2>2. \E c : Packed(Grouped(v[k], sizes[k + 1]), c, sizes, k + 1)
    <3>1. CASE v[k] # <<>> /\ Total(Last(v[k])) + Rendered(sizes[k + 1]) =< Budget
      BY <2>1, <3>1, Joins
    <3>2. CASE ~ (v[k] # <<>> /\ Total(Last(v[k])) + Rendered(sizes[k + 1]) =< Budget)
      BY <2>1, <3>2, Opens
    <3> QED
      BY <3>1, <3>2
  <2>3. k + 1 \in 0 .. count
    OBVIOUS
  <2> QED
    BY <1>3, <2>2, <2>3
<1>6. count \in T
  <2> HIDE DEF T
  <2>1. \A k \in 0 .. count : k \in T
    BY <1>4, <1>5, InductionTo
  <2> QED
    BY <2>1
<1> QED
  BY <1>3, <1>6

\* GroupsFit counts the summaries by a function of its own: the same one.
LEMMA BoundariesUnique ==
  ASSUME NEW gs, NEW b, Len(gs) \in Nat, Boundaries(gs, b)
  PROVE  b = CHOOSE before : before =
               [g \in 0 .. Len(gs) |-> IF g = 0 THEN 0 ELSE before[g - 1] + Len(gs[g])]
<1> DEFINE P(f) == f = [g \in 0 .. Len(gs) |-> IF g = 0 THEN 0 ELSE f[g - 1] + Len(gs[g])]
<1>1. P(b)
  BY DEF Boundaries
<1>2. ASSUME NEW f, P(f)
      PROVE  f = b
  <2> DEFINE T == {g \in 0 .. Len(gs) : f[g] = b[g]}
  <2>1. f[0] = 0 /\ \A g \in 0 .. Len(gs) - 1 : f[g + 1] = f[g] + Len(gs[g + 1])
    BY <1>2
  <2>2. b[0] = 0 /\ \A g \in 0 .. Len(gs) - 1 : b[g + 1] = b[g] + Len(gs[g + 1])
    BY DEF Boundaries
  <2>3. 0 \in T
    BY <2>1, <2>2
  <2>4. \A g \in 0 .. Len(gs) - 1 : g \in T => g + 1 \in T
    BY <2>1, <2>2
  <2>5. \A g \in 0 .. Len(gs) : g \in T
    <3> HIDE DEF T
    <3> QED
      BY <2>3, <2>4, InductionTo
  <2>6. b = [g \in 0 .. Len(gs) |-> b[g]]
    BY DEF Boundaries
  <2>7. f = [g \in 0 .. Len(gs) |-> f[g]]
    BY <1>2
  <2> QED
    BY <2>5, <2>6, <2>7
<1>3. b = CHOOSE f : P(f)
  <2> HIDE DEF P
  <2> QED
    BY <1>1, <1>2
<1> QED
  BY <1>3

\* Sizes with a delimiter each add up to the sizes and the delimiters.
LEMMA TotalOfRendered ==
  ASSUME NEW n \in Nat, NEW bare, NEW full,
         DOMAIN bare = 1 .. n, DOMAIN full = 1 .. n,
         \A i \in 1 .. n : bare[i] \in Nat /\ full[i] = Rendered(bare[i])
  PROVE  Total(full) = Total(bare) + 2 * n
<1>1. PICK u : Accumulates(u, "total", bare, n) /\ u[n] = FoldOf("total", bare)[DOMAIN bare]
  BY FoldRuns
<1>2. PICK v : Accumulates(v, "total", full, n) /\ v[n] = FoldOf("total", full)[DOMAIN full]
  BY FoldRuns
<1>3. u[0] = 0 /\ v[0] = 0 /\ u[n] = Total(bare) /\ v[n] = Total(full)
  BY <1>1, <1>2, TotalIsFold DEF Start, Accumulates
<1>4. ASSUME NEW k \in 0 .. n - 1
      PROVE  /\ bare[k + 1] \in Nat /\ u[k + 1] = u[k] + bare[k + 1]
             /\ v[k + 1] = v[k] + (bare[k + 1] + 2)
  BY <1>1, <1>2 DEF With, Rendered, Accumulates
<1> DEFINE T == {k \in 0 .. n : u[k] \in Nat /\ v[k] = u[k] + 2 * k}
<1>5. 0 \in T
  BY <1>3
<1>6. ASSUME NEW k \in 0 .. n - 1, k \in T
      PROVE  k + 1 \in T
  BY <1>4, <1>6
<1>7. n \in T
  <2> HIDE DEF T
  <2>1. \A k \in 0 .. n : k \in T
    BY <1>5, <1>6, InductionTo
  <2> QED
    BY <2>1
<1> QED
  BY <1>3, <1>7

\* The text of a group, with a delimiter between two summaries only, fits.
LEMMA TextFits ==
  ASSUME NEW count \in Nat, NEW sizes \in Summaries(count),
         NEW from \in Nat, NEW m \in Nat, from + m =< count, m > 0,
         NEW group \in Seq(Nat), Len(group) = m, GroupFits(group, sizes, from)
  PROVE  RenderedText(sizes, from + 1, from + m) =< Budget
<1> DEFINE bare == [i \in 1 .. from + m - (from + 1) + 1 |-> sizes[from + 1 + i - 1]]
<1>1. from + m - (from + 1) + 1 = m /\ from + m - (from + 1) = m - 1
  OBVIOUS
<1>2. DOMAIN bare = 1 .. m
  BY <1>1
<1>3. ASSUME NEW i \in 1 .. m
      PROVE  bare[i] \in Nat /\ group[i] = Rendered(bare[i])
  <2>1. from + 1 + i - 1 = from + i /\ from + i \in 1 .. count
    OBVIOUS
  <2>2. bare[i] = sizes[from + i] /\ sizes[from + i] \in Nat
    BY <1>1, <2>1, PolicyAssumption DEF Summaries
  <2> QED
    BY <2>2 DEF GroupFits
<1>4. bare \in Seq(Nat)
  <2>1. bare = [i \in 1 .. m |-> bare[i]]
    BY <1>1
  <2>2. bare \in [1 .. m -> Nat]
    <3> HIDE DEF bare
    <3> QED
      BY <1>3, <2>1
  <2> HIDE DEF bare
  <2> QED
    BY <2>2
<1>5. RenderedText(sizes, from + 1, from + m) = Total(bare) + 2 * (m - 1)
  BY <1>1 DEF RenderedText
<1> HIDE DEF bare
<1>6. Total(group) = Total(bare) + 2 * m
  BY <1>2, <1>3, TotalOfRendered
<1>7. Total(bare) \in Nat
  BY <1>4, TotalFacts
<1> QED
  BY <1>5, <1>6, <1>7, PolicyAssumption DEF GroupFits

\* The boundaries grow, so that no group goes beyond the last summary.
LEMMA BoundariesGrow ==
  ASSUME NEW gs, NEW b, NEW sizes, NEW count \in Nat, Packed(gs, b, sizes, count)
  PROVE  \A g \in 0 .. Len(gs) : b[g] =< count
<1>1. PICK m \in Nat : m = Len(gs)
  BY DEF Packed
<1>2. /\ b \in [0 .. m -> Nat] /\ b[m] = count
      /\ \A g \in 1 .. m : b[g] = b[g - 1] + Len(gs[g])
  BY <1>1 DEF Packed, Boundaries
<1>3. \A g \in 1 .. m : Len(gs[g]) \in Nat
  BY <1>1 DEF Packed
<1> DEFINE T == {j \in 0 .. m : b[m - j] =< count}
<1>4. 0 \in T
  BY <1>2
<1>5. ASSUME NEW j \in 0 .. m - 1, j \in T
      PROVE  j + 1 \in T
  <2>1. m - j \in 1 .. m /\ m - j - 1 = m - (j + 1) /\ m - (j + 1) \in 0 .. m
    OBVIOUS
  <2>2. b[m - j] = b[m - (j + 1)] + Len(gs[m - j])
    BY <1>2, <2>1
  <2>3. b[m - j] \in Nat /\ b[m - (j + 1)] \in Nat /\ Len(gs[m - j]) \in Nat
    BY <1>2, <1>3, <2>1
  <2> QED
    BY <1>5, <2>1, <2>2, <2>3
<1>6. \A j \in 0 .. m : j \in T
  <2> HIDE DEF T
  <2> QED
    BY <1>4, <1>5, InductionTo
<1>7. ASSUME NEW g \in 0 .. m
      PROVE  b[g] =< count
  <2>1. m - g \in 0 .. m /\ m - (m - g) = g
    OBVIOUS
  <2> QED
    BY <1>6, <2>1
<1> QED
  BY <1>1, <1>7

\* When every summary takes half the budget at most, every group but the last
\* holds two.
LEMMA SmallSummariesPair ==
  ASSUME NEW count \in Nat, NEW sizes \in Summaries(count), NEW gs, NEW b,
         Packed(gs, b, sizes, count),
         \A i \in 1 .. count : 2 * (sizes[i] + 2) =< Budget
  PROVE  2 * Len(gs) =< count + 1
<1>1. PICK m \in Nat : m = Len(gs)
  BY DEF Packed
<1>2. /\ b \in [0 .. m -> Nat] /\ b[0] = 0 /\ b[m] = count
      /\ \A g \in 1 .. m : b[g] = b[g - 1] + Len(gs[g])
  BY <1>1 DEF Packed, Boundaries
<1>3. ASSUME NEW g \in 1 .. m
      PROVE  gs[g] \in Seq(Nat) /\ Len(gs[g]) \in Nat /\ Len(gs[g]) > 0
  BY <1>1 DEF Packed, GroupFits
<1>4. \A g \in 0 .. m : b[g] =< count
  BY <1>1, BoundariesGrow
<1>5. ASSUME NEW g \in 1 .. m
      PROVE  2 * gs[g][1] =< Budget /\ gs[g][1] \in Nat
  <2>1. g - 1 \in 0 .. m /\ b[g] = b[g - 1] + Len(gs[g]) /\ b[g] =< count
    BY <1>2, <1>4
  <2>2. b[g - 1] \in Nat /\ b[g - 1] + 1 \in 1 .. count
    BY <1>2, <1>3, <2>1
  <2>3. gs[g][1] = Rendered(sizes[b[g - 1] + 1])
    <3>1. 1 \in 1 .. Len(gs[g])
      BY <1>3
    <3> QED
      BY <1>1, <3>1 DEF Packed, GroupFits
  <2>4. sizes[b[g - 1] + 1] \in Nat
    BY <2>2, PolicyAssumption DEF Summaries
  <2> QED
    BY <2>2, <2>3, <2>4 DEF Rendered
<1>6. ASSUME NEW g \in 1 .. m - 1
      PROVE  Len(gs[g]) >= 2
  <2> g \in 1 .. m /\ g + 1 \in 1 .. m
    OBVIOUS
  <2>1. Len(gs[g]) # 1
    <3>1. SUFFICES ASSUME Len(gs[g]) = 1 PROVE FALSE
      OBVIOUS
    <3>2. Total(gs[g]) + gs[g + 1][1] > Budget
      BY <1>1 DEF Packed
    <3>3. gs[g] = Append(<<>>, gs[g][1]) /\ <<>> \in Seq(Nat)
      BY <1>3, <3>1
    <3>4. gs[g][1] \in Nat
      BY <1>5
    <3>5. Total(Append(<<>>, gs[g][1])) = Total(<<>>) + gs[g][1]
      BY <3>3, <3>4, TotalFacts
    <3>6. Total(gs[g]) = gs[g][1]
      BY <3>3, <3>4, <3>5, TotalFacts
    <3>7. 2 * gs[g][1] =< Budget /\ 2 * gs[g + 1][1] =< Budget /\ gs[g + 1][1] \in Nat
      BY <1>1, <1>5
    <3> QED
      BY <3>2, <3>4, <3>6, <3>7, PolicyAssumption
  <2>2. Len(gs[g]) \in Nat /\ Len(gs[g]) > 0
    BY <1>3
  <2>3. \A length \in Nat : length > 0 /\ length # 1 => length >= 2
    OBVIOUS
  <2> QED
    BY <2>1, <2>2, <2>3, Zenon
<1>7. CASE m = 0
  BY <1>1, <1>7
<1>8. CASE m > 0
  <2> DEFINE T == {g \in 0 .. m - 1 : b[g] >= 2 * g}
  <2>1. 0 \in T
    BY <1>2, <1>8
  <2>2. ASSUME NEW g \in 0 .. m - 1 - 1, g \in T
        PROVE  g + 1 \in T
    <3>1. b[g + 1] = b[g] + Len(gs[g + 1]) /\ b[g] \in Nat /\ Len(gs[g + 1]) \in Nat
      BY <1>2, <1>3
    <3>2. Len(gs[g + 1]) >= 2
      BY <1>6
    <3> QED
      BY <2>2, <3>1, <3>2
  <2>3. m - 1 \in T
    <3> HIDE DEF T
    <3>1. m - 1 \in Nat
      BY <1>8
    <3>2. \A g \in 0 .. m - 1 : g \in T
      BY <2>1, <2>2, <3>1, InductionTo
    <3> QED
      BY <1>8, <3>2
  <2>4. count = b[m - 1] + Len(gs[m]) /\ Len(gs[m]) \in Nat /\ Len(gs[m]) > 0 /\ b[m - 1] \in Nat
    <3>1. m \in 1 .. m /\ m - 1 \in 0 .. m
      BY <1>8
    <3> QED
      BY <1>2, <1>3, <3>1
  <2> QED
    BY <1>1, <2>3, <2>4
<1> QED
  BY <1>7, <1>8

\* Summaries that each fit the budget are grouped in order and without loss,
\* every group is rendered within the budget, no group could have taken in the
\* first summary of the next one, and summaries of half the budget at most at
\* least halve in number (consolidation.py:12-34).
THEOREM EveryGroupingFits ==
  \A count \in Nat : \A sizes \in Summaries(count) : GroupsFit(sizes)
<1> SUFFICES ASSUME NEW count \in Nat, NEW sizes \in Summaries(count)
             PROVE  GroupsFit(sizes)
  OBVIOUS
<1> DEFINE gs == GroupWithinBudget(sizes)
           Meets(before) ==
             /\ before[Len(gs)] = Len(sizes)
             /\ \A g \in DOMAIN gs :
                  RenderedText(sizes, before[g - 1] + 1, before[g]) <= Budget
             /\ \A g \in 1 .. Len(gs) - 1 : Total(gs[g]) + gs[g + 1][1] > Budget
             /\ (\A i \in 1 .. Len(sizes) : 2 * (sizes[i] + 2) <= Budget) =>
                  Len(gs) <= (Len(sizes) + 1) \div 2
<1>1. PICK b : Packed(gs, b, sizes, count)
  BY LoopPacks
<1>2. GroupsFit(sizes) <=>
        Meets(CHOOSE before : before =
               [g \in 0 .. Len(gs) |-> IF g = 0 THEN 0 ELSE before[g - 1] + Len(gs[g])])
  BY Zenon DEF GroupsFit
<1> HIDE DEF gs, Meets
<1>3. GroupsFit(sizes) <=> Meets(b)
  <2>1. Len(gs) \in Nat /\ Boundaries(gs, b)
    BY <1>1 DEF Packed
  <2> QED
    BY <1>2, <2>1, BoundariesUnique
<1>4. Len(sizes) = count
  <2>1. sizes \in Seq(Nat) /\ DOMAIN sizes = 1 .. count
    BY PolicyAssumption DEF Summaries
  <2> QED
    BY <2>1
<1>5. PICK m \in Nat : m = Len(gs) /\ DOMAIN gs = 1 .. m
  BY <1>1 DEF Packed
<1>6. ASSUME NEW g \in 1 .. m
      PROVE  RenderedText(sizes, b[g - 1] + 1, b[g]) =< Budget
  <2>1. /\ GroupFits(gs[g], sizes, b[g - 1]) /\ gs[g] \in Seq(Nat)
        /\ b[g] = b[g - 1] + Len(gs[g]) /\ b[g - 1] \in Nat
    <3>1. g \in 1 .. Len(gs) /\ g - 1 \in 0 .. Len(gs)
      BY <1>5
    <3>2. Boundaries(gs, b) /\ gs \in Seq(Seq(Nat)) /\ GroupFits(gs[g], sizes, b[g - 1])
      BY <1>1, <3>1 DEF Packed
    <3>3. b[g] = b[g - 1] + Len(gs[g]) /\ b[g - 1] \in Nat
      BY <3>1, <3>2 DEF Boundaries
    <3> QED
      BY <3>1, <3>2, <3>3
  <2>2. b[g] =< count
    BY <1>1, <1>5, BoundariesGrow
  <2>3. Len(gs[g]) \in Nat /\ Len(gs[g]) > 0
    BY <2>1 DEF GroupFits
  <2> QED
    BY <2>1, <2>2, <2>3, TextFits
<1>7. (\A i \in 1 .. count : 2 * (sizes[i] + 2) =< Budget) => Len(gs) =< (count + 1) \div 2
  <2>1. SUFFICES ASSUME \A i \in 1 .. count : 2 * (sizes[i] + 2) =< Budget
                 PROVE  Len(gs) =< (count + 1) \div 2
    OBVIOUS
  <2>2. 2 * m =< count + 1
    BY <1>1, <1>5, <2>1, SmallSummariesPair
  <2> QED
    BY <1>5, <2>2
<1>8. /\ b[Len(gs)] = count
      /\ \A g \in 1 .. Len(gs) - 1 : Total(gs[g]) + gs[g + 1][1] > Budget
  BY <1>1 DEF Packed
<1>9. Meets(b)
  BY <1>4, <1>5, <1>6, <1>7, <1>8 DEF Meets
<1> QED
  BY <1>3, <1>9

-----------------------------------------------------------------------------
(* _consolidate_bounded groups the summaries, summarizes each group, and      *)
(* starts over with the results until there is one group.                   *)

\* Summaries that take half the budget at most, with their delimiter.
Small(sizes) == \A i \in DOMAIN sizes : 2 * Rendered(sizes[i]) =< Budget

\* Summaries of which no two fit one group.
Large(sizes) == \A i \in DOMAIN sizes : 2 * Rendered(sizes[i]) > Budget

\* There is a group if there is a summary, and fewer groups than summaries if
\* there are several small ones.
LEMMA GroupingShrinks ==
  ASSUME NEW count \in Nat \ {0}, NEW sizes \in Summaries(count), Small(sizes)
  PROVE  /\ Len(GroupWithinBudget(sizes)) \in Nat \ {0}
         /\ 2 * Len(GroupWithinBudget(sizes)) =< count + 1
<1>1. PICK b : Packed(GroupWithinBudget(sizes), b, sizes, count)
  BY LoopPacks
<1>2. Len(GroupWithinBudget(sizes)) \in Nat
  BY <1>1 DEF Packed
<1>3. Len(GroupWithinBudget(sizes)) # 0
  <2> DEFINE gs == GroupWithinBudget(sizes)
  <2>1. b[Len(gs)] = count /\ b[0] = 0
    BY <1>1 DEF Packed, Boundaries
  <2> HIDE DEF gs
  <2>2. Len(gs) # 0
    BY <2>1
  <2> QED
    BY <2>2 DEF gs
<1>4. \A i \in 1 .. count : 2 * (sizes[i] + 2) =< Budget
  BY DEF Small, Rendered, Summaries
<1> QED
  BY <1>1, <1>2, <1>3, <1>4, SmallSummariesPair

\* The loop ends when the model's summaries stay small: there are never more
\* levels than there were summaries (evidence_summaries/service.py:280-302).
THEOREM ConsolidationEnds ==
  ASSUME NEW level, NEW count, \A l \in Nat : count[l] \in Nat \ {0},
         \A l \in Nat : level[l] \in Summaries(count[l]) /\ Small(level[l]),
         \A l \in Nat : count[l + 1] = Len(GroupWithinBudget(level[l]))
  PROVE  \E l \in 0 .. count[0] : Len(GroupWithinBudget(level[l])) = 1
<1>1. ASSUME NEW l \in Nat
      PROVE  /\ count[l] \in Nat \ {0} /\ count[l + 1] \in Nat \ {0}
             /\ 2 * count[l + 1] =< count[l] + 1
  <2>1. count[l] \in Nat \ {0} /\ count[l + 1] \in Nat \ {0}
    OBVIOUS
  <2>2. 2 * Len(GroupWithinBudget(level[l])) =< count[l] + 1
    BY <2>1, GroupingShrinks
  <2> QED
    BY <2>1, <2>2
<1>2. PICK n \in Nat : n = count[0]
  BY <1>1
<1>3. SUFFICES ASSUME \A l \in 0 .. n : count[l + 1] # 1
               PROVE  FALSE
  <2>1. ASSUME NEW l \in 0 .. n, count[l + 1] = 1
        PROVE  l \in 0 .. count[0] /\ Len(GroupWithinBudget(level[l])) = 1
    <3>1. l \in Nat
      OBVIOUS
    <3>2. count[l + 1] = Len(GroupWithinBudget(level[l]))
      BY <3>1, Zenon
    <3>3. Len(GroupWithinBudget(level[l])) = 1
      BY <2>1, <3>2, Zenon
    <3> QED
      BY <1>2, <3>3, Zenon
  <2> QED
    BY <2>1, Zenon
<1> DEFINE T == {k \in 0 .. n + 1 : k > 0 => count[k] + k =< n + 1}
<1>4. 0 \in T
  OBVIOUS
<1>n. PICK m \in Nat : m = n + 1
  OBVIOUS
<1>5. ASSUME NEW k \in 0 .. m - 1, k \in T
      PROVE  k + 1 \in T
  <2>1. /\ count[k] \in Nat \ {0} /\ count[k + 1] \in Nat \ {0}
        /\ 2 * count[k + 1] =< count[k] + 1 /\ count[k + 1] # 1
    <3>1. k \in 0 .. n
      BY <1>n
    <3> QED
      BY <1>1, <1>3, <3>1
  <2>2. count[k + 1] < count[k]
    <3>1. \A c, d \in Nat \ {0} : 2 * d =< c + 1 /\ d # 1 => d < c
      OBVIOUS
    <3> QED
      BY <2>1, <3>1, Zenon
  <2>3. count[k] + k =< n + 1 \/ k = 0
    BY <1>5
  <2>4. count[k + 1] + (k + 1) =< n + 1
    <3>1. CASE k = 0
      <4>1. \A d \in Nat : d < n => d + (0 + 1) =< n + 1
        OBVIOUS
      <4>2. count[k + 1] \in Nat /\ count[k + 1] < n
        BY <1>2, <2>1, <2>2, <3>1, Zenon
      <4> QED
        BY <3>1, <4>1, <4>2, Zenon
    <3>2. CASE count[k] + k =< n + 1
      <4>1. \A c, d, j \in Nat : d < c /\ c + j =< n + 1 => d + (j + 1) =< n + 1
        OBVIOUS
      <4>2. k \in Nat /\ count[k] \in Nat /\ count[k + 1] \in Nat
        BY <2>1
      <4> QED
        BY <2>2, <3>2, <4>1, <4>2, Zenon
    <3> QED
      BY <2>3, <3>1, <3>2
  <2>5. k + 1 \in 0 .. n + 1
    BY <1>n
  <2> QED
    BY <2>4, <2>5
<1>6. n + 1 \in T
  <2> HIDE DEF T
  <2>1. \A k \in 0 .. m - 1 : k \in T => k + 1 \in T
    BY <1>5
  <2>2. \A k \in 0 .. m : k \in T
    BY <1>4, <2>1, InductionTo, Zenon
  <2>3. m \in 0 .. m
    OBVIOUS
  <2> QED
    BY <1>n, <2>2, <2>3, Zenon
<1>7. count[n + 1] \in Nat \ {0}
  BY <1>1
<1> QED
  BY <1>6, <1>7

\* A total is not below that of its first two elements.
LEMMA TotalOfTwo ==
  ASSUME NEW s \in Seq(Nat), Len(s) >= 2
  PROVE  Total(s) >= s[1] + s[2]
<1>1. PICK n \in Nat : n = Len(s) /\ DOMAIN s = 1 .. n /\ n >= 2
  OBVIOUS
<1>2. PICK v : Accumulates(v, "total", s, n) /\ v[n] = FoldOf("total", s)[DOMAIN s]
  BY <1>1, FoldRuns
<1>3. v[0] = 0 /\ v[n] = Total(s) /\ \A k \in 0 .. n - 1 : v[k + 1] = v[k] + s[k + 1]
  BY <1>2, TotalIsFold DEF Start, With, Accumulates
<1>4. \A k \in 0 .. n - 1 : s[k + 1] \in Nat
  BY <1>1
<1>5. v[1] = s[1] /\ v[2] = s[1] + s[2]
  <2>1. v[0 + 1] = v[0] + s[0 + 1] /\ v[1 + 1] = v[1] + s[1 + 1]
    BY <1>1, <1>3
  <2>2. s[1] \in Nat
    BY <1>1
  <2> QED
    BY <1>3, <2>1, <2>2
<1> DEFINE T == {k \in 0 .. n - 2 : v[k + 2] \in Nat /\ v[k + 2] >= s[1] + s[2]}
<1>6. 0 \in T
  BY <1>1, <1>5
<1>7. ASSUME NEW k \in 0 .. n - 2 - 1, k \in T
      PROVE  k + 1 \in T
  <2>1. k + 2 \in 0 .. n - 1 /\ k + 1 + 2 = k + 2 + 1 /\ k + 1 \in 0 .. n - 2
    BY <1>1
  <2>2. v[k + 1 + 2] = v[k + 2] + s[k + 2 + 1] /\ s[k + 2 + 1] \in Nat
    BY <1>3, <1>4, <2>1
  <2>3. s[1] \in Nat /\ s[2] \in Nat
    BY <1>1
  <2> QED
    BY <1>7, <2>1, <2>2, <2>3
<1>8. n - 2 \in T
  <2> HIDE DEF T
  <2>1. n - 2 \in Nat
    BY <1>1
  <2>2. \A k \in 0 .. n - 2 : k \in T
    BY <1>6, <1>7, <2>1, InductionTo
  <2> QED
    BY <2>1, <2>2
<1>9. n - 2 + 2 = n
  BY <1>1
<1> QED
  BY <1>3, <1>8, <1>9

\* The condition is needed: summaries of more than half the budget each are put
\* into groups of one, and consolidation gets nowhere.  Nothing bounds a keyword
\* of a summary (evidence_summaries/service.py:88).
THEOREM LargeSummariesStall ==
  \A count \in Nat : \A sizes \in Summaries(count) :
    Large(sizes) => Len(GroupWithinBudget(sizes)) = count
<1> SUFFICES ASSUME NEW count \in Nat, NEW sizes \in Summaries(count), Large(sizes)
             PROVE  Len(GroupWithinBudget(sizes)) = count
  OBVIOUS
<1>1. PICK gs : gs = GroupWithinBudget(sizes)
  OBVIOUS
<1>2. PICK b : Packed(gs, b, sizes, count)
  BY <1>1, LoopPacks
<1>3. PICK m \in Nat : m = Len(gs)
  BY <1>2 DEF Packed
<1>4. /\ b \in [0 .. m -> Nat] /\ b[0] = 0 /\ b[m] = count
      /\ \A g \in 1 .. m : b[g] = b[g - 1] + Len(gs[g])
  BY <1>2, <1>3 DEF Packed, Boundaries
<1>5. ASSUME NEW g \in 1 .. m
      PROVE  Len(gs[g]) = 1
  <2>1. GroupFits(gs[g], sizes, b[g - 1]) /\ gs[g] \in Seq(Nat)
    BY <1>2, <1>3 DEF Packed
  <2>2. PICK length \in Nat : length = Len(gs[g]) /\ length > 0
    BY <2>1 DEF GroupFits
  <2>3. ASSUME length >= 2
        PROVE  FALSE
    <3>1. g - 1 \in 0 .. m /\ b[g] = b[g - 1] + length /\ b[g] =< count
      BY <1>2, <1>3, <1>4, <2>2, BoundariesGrow
    <3>2. b[g - 1] + 1 \in 1 .. count /\ b[g - 1] + 2 \in 1 .. count
      BY <1>4, <2>3, <3>1
    <3>3. /\ gs[g][1] = Rendered(sizes[b[g - 1] + 1])
          /\ gs[g][2] = Rendered(sizes[b[g - 1] + 2])
      <4>1. 1 \in 1 .. Len(gs[g]) /\ 2 \in 1 .. Len(gs[g])
        BY <2>2, <2>3
      <4> QED
        BY <2>1, <4>1 DEF GroupFits
    <3>4. DOMAIN sizes = 1 .. count
      BY DEF Summaries
    <3>5. 2 * gs[g][1] > Budget /\ 2 * gs[g][2] > Budget
      BY <3>2, <3>3, <3>4 DEF Large
    <3>6. Total(gs[g]) >= gs[g][1] + gs[g][2] /\ Total(gs[g]) \in Nat
      BY <2>1, <2>2, <2>3, TotalOfTwo, TotalFacts
    <3>7. Total(gs[g]) =< Budget
      BY <2>1 DEF GroupFits
    <3>8. gs[g][1] \in Nat /\ gs[g][2] \in Nat
      BY <2>1, <2>2, <2>3
    <3> QED
      BY <3>5, <3>6, <3>7, <3>8, PolicyAssumption
  <2>4. length = 1
    <3>1. \A l \in Nat : l > 0 /\ ~ (l >= 2) => l = 1
      OBVIOUS
    <3>2. ~ (length >= 2)
      BY <2>3
    <3> QED
      BY <2>2, <3>1, <3>2, Zenon
  <2> QED
    BY <2>2, <2>4
<1> DEFINE T == {g \in 0 .. m : b[g] = g}
<1>6. 0 \in T
  BY <1>4
<1>7. ASSUME NEW g \in 0 .. m - 1, g \in T
      PROVE  g + 1 \in T
  <2>1. b[g + 1] = b[g] + Len(gs[g + 1]) /\ Len(gs[g + 1]) = 1
    BY <1>4, <1>5
  <2> QED
    BY <1>7, <2>1
<1>8. m \in T
  <2> HIDE DEF T
  <2>1. \A g \in 0 .. m : g \in T
    BY <1>6, <1>7, InductionTo
  <2> QED
    BY <2>1
<1> QED
  BY <1>1, <1>3, <1>4, <1>8
=============================================================================

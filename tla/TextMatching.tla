---------------------------- MODULE TextMatching ----------------------------
(***************************************************************************)
(* How the text processor compares texts: the similarity of two texts      *)
(* (levenshtein.go) and the part of a text that resembles another one most *)
(* (smith_waterman.go). A text is the sequence of its chunks, the words    *)
(* between white space (normalizer.go), each known by its letters and      *)
(* digits (norm) and by these with its punctuation (normPunct).            *)
(*                                                                         *)
(* Distances are counted in halves and scores in tenths; the rounding of   *)
(* float32 is left out.                                                    *)
(***************************************************************************)
EXTENDS Integers, Sequences, FiniteSetsExt, SequencesExt

\* A chunk without letters and digits, such as a citation mark.
Symbolic(chunk) == chunk.norm = ""

\* NormalizeText(text, true) = "": nothing but symbols.
Blank(text) == \A i \in DOMAIN text : text[i].normPunct = ""

Indices(text) == [i \in DOMAIN text |-> i]
-----------------------------------------------------------------------------
(* levenshtein *)

\* What it costs to replace one chunk by another.
Replace(c, d) ==
    IF c.normPunct = d.normPunct THEN 0 ELSE IF c.norm = d.norm THEN 1 ELSE 2

\* What it costs to leave out or insert a chunk.
Gap(c) == IF Symbolic(c) THEN 1 ELSE 2

\* FAULT: a gap in the first text is charged for the chunk of that text.
NextRowSwapped(a, b, prev, i) ==
    FoldLeft(LAMBDA curr, j :
                Append(curr, Min({curr[j] + Gap(a[i]), prev[j + 1] + Gap(a[i]),
                                  prev[j] + Replace(a[i], b[j])})),
             <<2 * i>>, Indices(b))

\* The distances of the first i chunks of a to the beginnings of b. Chunks
\* left out at the beginning of a text cost 1, symbolic or not.
NextRow(a, b, prev, i) ==
    FoldLeft(LAMBDA curr, j :
                Append(curr, Min({curr[j] + Gap(b[j]), prev[j + 1] + Gap(a[i]),
                                  prev[j] + Replace(a[i], b[j])})),
             <<2 * i>>, Indices(b))

Distance(a, b) ==
    Last(FoldLeft(LAMBDA prev, i : NextRow(a, b, prev, i),
                  [j \in 1 .. Len(b) + 1 |-> 2 * (j - 1)], Indices(a)))

\* levenshtein(a, b) >= percent / 100; empty texts resemble nothing.
Resembles(a, b, percent) ==
    LET longer == Max({Len(a), Len(b)})
    IN  /\ a # <<>> /\ b # <<>>
        /\ 100 * (2 * longer - Distance(a, b)) >= percent * 2 * longer
-----------------------------------------------------------------------------
(* smithWaterman *)

Match(c, d) ==
    IF c.normPunct = d.normPunct THEN 10 ELSE IF c.norm = d.norm THEN 8 ELSE -10

Cell(score, start) == [score |-> score, start |-> start]

\* Entry (i, j) of the matrices: the best score of an alignment that ends at
\* chunk i of base and chunk j of block, and where in base the traceback from
\* there ends. Which gap is cheaper is read from the chunk before the gap.
NextCell(base, block, above, curr, i, j) ==
    LET none == Cell(0, i)
        diag == IF i > 1 /\ j > 1 THEN above[j - 1] ELSE none
        up == IF i > 1 THEN above[j] ELSE none
        left == IF j > 1 THEN curr[j - 1] ELSE none
        viaDiag == diag.score + Match(base[i], block[j])
        viaUp == up.score - 5 + IF i > 1 /\ Symbolic(base[i - 1]) THEN 4 ELSE 0
        viaLeft == left.score - 20
                   + IF j > 1 /\ Symbolic(block[j - 1]) THEN 4 ELSE 0
        best == Max({0, viaDiag, viaUp, viaLeft})
        From(cell) == Cell(best, IF cell.score = 0 THEN i ELSE cell.start)
    IN  IF best = 0 THEN none
        ELSE From(IF best = viaDiag THEN diag ELSE IF best = viaUp THEN up ELSE left)

Matrix(base, block) ==
    LET Row(above, i) ==
            FoldLeft(LAMBDA curr, j :
                        Append(curr, NextCell(base, block, above, curr, i, j)),
                     <<>>, Indices(block))
    IN  FoldLeft(LAMBDA rows, i :
                    Append(rows, Row(IF i > 1 THEN rows[i - 1] ELSE <<>>, i)),
                 <<>>, Indices(base))

\* FAULT: the first chunk counts as one before the block.
BestMatchEarly(base, block) ==
    LET last == Matrix(base, block)[Len(base)]
        best == Max({last[j].score : j \in DOMAIN block})
        cell == CHOOSE c \in Range(last) : c.score = best
    IN  IF base = <<>> \/ block = <<>>
        THEN [score |-> 0, start |-> 0, end |-> 0]
        ELSE [score |-> best, start |-> Max({1, cell.start - 1}), end |-> Len(base)]

\* The part of base that resembles block most; of several the last one. Its
\* score is 10 for every chunk of block when block occurs in it as it is.
BestMatch(base, block) ==
    LET rows == Matrix(base, block)
        Below(p, k, l) ==
            \/ rows[k][l].score < rows[p[1]][p[2]].score
            \/ /\ rows[k][l].score = rows[p[1]][p[2]].score
               /\ k < p[1] \/ (k = p[1] /\ l <= p[2])
        at == {p \in (DOMAIN base) \X (DOMAIN block) :
                \A k \in DOMAIN base, l \in DOMAIN block : Below(p, k, l)}
    IN  IF base = <<>> \/ block = <<>>
        THEN [score |-> 0, start |-> 0, end |-> 0]
        ELSE LET best == CHOOSE p \in at : TRUE
                 cell == rows[best[1]][best[2]]
             IN  [score |-> cell.score, start |-> cell.start, end |-> best[1]]
-----------------------------------------------------------------------------
(* What a similarity is: the least cost of an alignment *)

\* An alignment pairs the chunks at A with the same number of chunks at B, in
\* their order.
Alignments(a, b) ==
    {pair \in (SUBSET DOMAIN a) \X (SUBSET DOMAIN b) :
        Cardinality(pair[1]) = Cardinality(pair[2])}

\* The numbers in S in ascending order
Ordered(S) ==
    [k \in 1 .. Cardinality(S) |->
        CHOOSE i \in S : Cardinality({j \in S : j <= i}) = k]

SumOver(S, cost(_)) == MapThenSumSet(cost, S)

\* Before the first pair one of the texts begins: what is left out of it
\* there has the full price.
AlignmentCost(a, b, A, B) ==
    LET headA == {i \in DOMAIN a : \A p \in A : i < p}
        headB == {j \in DOMAIN b : \A q \in B : j < q}
        GapA(S) == SumOver(S, LAMBDA i : Gap(a[i]))
        GapB(S) == SumOver(S, LAMBDA j : Gap(b[j]))
    IN  SumOver(1 .. Cardinality(A),
                LAMBDA k : Replace(a[Ordered(A)[k]], b[Ordered(B)[k]]))
        + GapA(DOMAIN a \ (A \cup headA)) + GapB(DOMAIN b \ (B \cup headB))
        + Min({IF headA = {} THEN 2 * Cardinality(headB)
               ELSE 2 * Cardinality(headA) + GapB(headB),
               IF headB = {} THEN 2 * Cardinality(headA)
               ELSE 2 * Cardinality(headB) + GapA(headA)})

LeastCost(a, b) ==
    Min({AlignmentCost(a, b, pair[1], pair[2]) : pair \in Alignments(a, b)})

\* Some of the chunks of block, at least percent of them, are in text in their
\* order, up to punctuation.
HoldsMost(text, block, percent) ==
    \E pair \in Alignments(text, block) :
        /\ 100 * Cardinality(pair[2]) >= percent * Len(block)
        /\ \A k \in 1 .. Cardinality(pair[1]) :
            text[Ordered(pair[1])[k]].norm = block[Ordered(pair[2])[k]].norm
=============================================================================

----------------------------- MODULE TextBudget -----------------------------
(***************************************************************************)
(* What of a text is injected under a budget of tokens (core/budget.ts,    *)
(* core/inject.ts, buildStaticContext and buildDynamicContext of           *)
(* engine.ts): hits lose their last lines behind a notice that counts      *)
(* them, a summary loses its middle behind a marker that counts tokens.    *)
(*                                                                         *)
(* The loops are modelled as they run; the properties say what they must   *)
(* come to.  A text is a sequence of characters, of which only the cost    *)
(* and white space matter.  Notice and markers are as long as constants    *)
(* say, but for the digits of the numbers in them.                         *)
(***************************************************************************)
EXTENDS Integers, Sequences, SequencesExt, FiniteSets

CONSTANTS
    NoticeChars,   \* of renderBudgetNotice, without the number
    MiddleChars,   \* of the marker of truncateMiddle, without the number
    PartialMarker, \* tokens of the marker of fitPartialLine
    PartialFloor,  \* the budget from which a partial line is tried: above 10
    FramingTokens, \* label, warning and the two boundaries
    Radix,         \* 10, smaller in small instances
    MaxChars, MaxLine, MaxLines, MaxBudget \* bounds of the inputs

ASSUME BudgetAssumption ==
    /\ NoticeChars \in Nat /\ MiddleChars \in Nat /\ PartialMarker \in Nat /\ PartialFloor \in Nat
    /\ FramingTokens \in Nat /\ Radix \in Nat \ {0, 1}
    /\ MaxChars \in Nat /\ MaxLine \in Nat /\ MaxLines \in Nat /\ MaxBudget \in Nat

VARIABLES input, output
budgetVars == <<input, output>>

\* A quarter of a token, or a whole one.
Chars == {"wide", "narrow", "space"}
Quarters(ch) == IF ch = "wide" THEN 4 ELSE 1
Up(quarters) == (quarters + 3) \div 4
QuartersOf(text) == FoldLeft(LAMBDA sum, ch : sum + Quarters(ch), 0, text)
\* estimateTokens
Estimate(text) == Up(QuartersOf(text))

Digits(n) == CHOOSE d \in 1..n + 1 : n < Radix ^ d /\ (d = 1 \/ Radix ^ (d - 1) <= n)
NoticeTokens(n) == IF n = 0 THEN 0 ELSE Up(NoticeChars + Digits(n))
MiddleTokens(n) == Up(MiddleChars + Digits(n))
Least(a, b) == IF a < b THEN a ELSE b
AtLeast0(n) == IF n < 0 THEN 0 ELSE n

\* The loop of fitLines, of fitPartialLine and of takeTokens: up to the first
\* that does not fit.
Taken(costs, budget) ==
    FoldLeft(LAMBDA acc, cost : IF acc.full \/ acc.used + cost > budget THEN [acc EXCEPT !.full = TRUE]
                                ELSE [acc EXCEPT !.n = @ + 1, !.used = @ + cost],
             [n |-> 0, used |-> 0, full |-> FALSE], costs)

LineCosts(lines) == [i \in 1..Len(lines) |-> Estimate(lines[i])]
CharCosts(text) == [i \in 1..Len(text) |-> Quarters(text[i])]
FitLines(lines, budget) == Taken(LineCosts(lines), budget).n
TakeTokens(text, tokens, fromEnd) == Taken(CharCosts(IF fromEnd THEN Reverse(text) ELSE text), 4 * tokens).n

\* lines: whole ones.  partial: characters of the first one.
NoLines == [lines |-> 0, partial |-> 0, marker |-> FALSE, notice |-> 0]

FitPartialLine(line, budget) ==
    IF Estimate(line) <= budget THEN [NoLines EXCEPT !.partial = Len(line)]
    ELSE IF budget - PartialMarker < 1 THEN NoLines
    ELSE [NoLines EXCEPT !.partial = TakeTokens(line, budget - PartialMarker, FALSE), !.marker = TRUE]

\* Mutant: the longer notice takes the room that the lines have.
BodyOnce(lines, second, cut, dropped, budget) == second
\* A notice that has changed may be longer: once more, but it is not counted
\* again what that drops.
Body(lines, second, cut, dropped, budget) ==
    IF dropped = cut THEN second ELSE FitLines(lines, AtLeast0(budget - NoticeTokens(dropped)))

\* fitContext: fit, make room for the notice, and once more if it has changed.
FitContext(all, budget) ==
    LET clean == SelectSeq(all, LAMBDA line : line # <<>>)
        kept == SubSeq(clean, 1, FitLines(clean, budget))
        cut == Len(clean) - Len(kept)
        second == FitLines(kept, AtLeast0(budget - NoticeTokens(cut)))
        dropped == Len(clean) - second
        body == Body(kept, second, cut, dropped, budget)
        left == budget - NoticeTokens(dropped) - 1
    IN  IF cut = 0 THEN [NoLines EXCEPT !.lines = Len(clean)]
        ELSE IF body = 0 /\ budget > PartialFloor
             THEN [(IF left < 1 THEN NoLines ELSE FitPartialLine(Head(clean), left)) EXCEPT !.notice = dropped]
             ELSE [NoLines EXCEPT !.lines = body, !.notice = IF NoticeTokens(dropped) <= budget THEN dropped ELSE 0]

TrimEnd(text) == LET kept == {i \in 1..Len(text) : text[i] # "space"}
                 IN  SubSeq(text, 1, IF kept = {} THEN 0 ELSE CHOOSE i \in kept : \A k \in kept : k <= i)

\* truncateMiddle: the number of characters that stay at the head and the tail.
NoText == [whole |-> FALSE, head |-> 0, tail |-> 0, removed |-> 0]
TruncateMiddle(text, budget) ==
    LET total == Estimate(text)
        available == budget - MiddleTokens(total)
        head == TrimEnd(SubSeq(text, 1, TakeTokens(text, available \div 2, FALSE)))
        tail == TrimEnd(SubSeq(Reverse(text), 1, TakeTokens(text, available - available \div 2, TRUE)))
    IN  IF budget <= 0 THEN NoText
        ELSE IF total <= budget THEN [NoText EXCEPT !.whole = TRUE]
        ELSE IF available < 2 THEN NoText
        ELSE [whole |-> FALSE, head |-> Len(head), tail |-> Len(tail),
              removed |-> AtLeast0(total - Estimate(head) - Estimate(tail))]

\* renderMemoryContext: nothing, rather than an empty frame.
MemoryContext(text, budget) ==
    IF TrimEnd(text) = <<>> \/ budget - FramingTokens < 1 THEN NoText
    ELSE TruncateMiddle(Reverse(TrimEnd(Reverse(TrimEnd(text)))), budget - FramingTokens)

NoInput == [kind |-> "none"]
BudgetInit == input = NoInput /\ output = NoLines

\* buildDynamicContext
RenderHits(lines, budget) ==
    /\ input = NoInput
    /\ input' = [kind |-> "hits", lines |-> lines, budget |-> budget]
    /\ output' = FitContext(lines, budget)
\* buildStaticContext
RenderSummary(text, budget) ==
    /\ input = NoInput
    /\ input' = [kind |-> "summary", text |-> text, budget |-> budget]
    /\ output' = MemoryContext(text, budget)

SummaryTexts == UNION {[1..n -> Chars] : n \in 0..MaxChars}
HitLines == UNION {[1..n -> UNION {[1..k -> Chars \ {"space"}] : k \in 0..MaxLine}] : n \in 0..MaxLines}
BudgetNext ==
    \/ \E lines \in HitLines, budget \in 0..MaxBudget : RenderHits(lines, budget)
    \/ \E text \in SummaryTexts, budget \in 0..MaxBudget : RenderSummary(text, budget)

-----------------------------------------------------------------------------
BudgetTypeOK ==
    /\ input.kind \in {"none", "hits", "summary"}
    /\ input.kind = "summary" => output.head \in Nat /\ output.tail \in Nat /\ output.removed \in Nat
    /\ input.kind # "summary" => output.lines \in Nat /\ output.partial \in Nat /\ output.notice \in Nat

\* What of the hits comes out, piece by piece; newlines are not counted.
Spent(lines) ==
    FoldLeft(LAMBDA sum, cost : sum + cost, 0, LineCosts(SubSeq(lines, 1, output.lines)))
    + Estimate(IF lines = <<>> THEN <<>> ELSE SubSeq(Head(lines), 1, output.partial))
    + (IF output.marker THEN PartialMarker ELSE 0) + NoticeTokens(output.notice)

\* The hits that are injected and the notice are within the budget, all hits
\* are if they can be, no hit is left out that would fit with its notice, and
\* the notice counts those that are; it may count less only where it has grown
\* itself, because what its growth has cost is not counted.
HitsAreFitted ==
    input.kind = "hits" =>
        LET lines == SelectSeq(input.lines, LAMBDA line : line # <<>>)
            Sum(n) == FoldLeft(LAMBDA sum, cost : sum + cost, 0, SubSeq(LineCosts(lines), 1, n))
            left == Len(lines) - output.lines
        IN  /\ Spent(lines) <= input.budget
            /\ left = 0 <=> Sum(Len(lines)) <= input.budget
            /\ left > 0 => Sum(output.lines + 1) + NoticeTokens(left) > input.budget
            /\ output.notice > 0 =>
                  \/ output.notice = left
                  \/ output.notice < left /\ NoticeTokens(output.notice) > NoticeTokens(output.notice - 1)

\* A summary that fits is whole; of one that does not, what its marker leaves
\* out is missing, and head, marker and tail are within the budget together.
SummaryIsFitted ==
    input.kind = "summary" =>
        LET text == Reverse(TrimEnd(Reverse(TrimEnd(input.text))))
            room == input.budget - FramingTokens
            head == SubSeq(text, 1, output.head)
            tail == SubSeq(text, Len(text) - output.tail + 1, Len(text))
        IN  /\ output.whole <=> text # <<>> /\ room > 0 /\ Estimate(text) <= room
            /\ output.head + output.tail > 0 =>
                 /\ output.head + output.tail < Len(text)
                 /\ Up(QuartersOf(head) + QuartersOf(tail) + MiddleChars + Digits(output.removed)) <= room

\* What is injected is within its budget, and no less than it need be.
FittedIsRight == HitsAreFitted /\ SummaryIsFitted
=============================================================================

------------------------------- MODULE Recall -------------------------------
(***************************************************************************)
(* How the model gets at the workspace (core/search.ts, core/read.ts):     *)
(* a search over lines, ranked, freed of duplicates and capped; a file     *)
(* read in pages; and what of it counts as a use of a rollout, which is    *)
(* what keeps the rollout in the selection window.                         *)
(*                                                                         *)
(* A sentence is a line that the steps tell apart: how often it has each   *)
(* term, which terms stand together in it, whether the injection scan      *)
(* lets it pass, which summaries it cites, and its cost in tokens.         *)
(***************************************************************************)
EXTENDS Integers, Sequences, SequencesExt, FiniteSets

CONSTANTS
    Terms,           \* words of queries
    Sentences,       \* records: counts, together, safe, cites, cost
    DocLengths,      \* lines of each file, in the order of the scan: notes last
    SummaryOf,       \* for each file the rollout whose summary it is, or 0
    PendingDocs,     \* files of notes that are not applied
    RelOrder,        \* for each file its place in the order of the names
    KnownRollouts,   \* rollouts that have a row
    Weight(_, _),    \* of a term in so many of so many lines; the code takes a logarithm
    PhraseBonus,     \* PHRASE_SCORE_BONUS
    HitsPerFile,     \* MAX_HITS_PER_FILE
    HitLimits,       \* values of topK
    TokenLimits,     \* values of maxTokens
    LineLimits       \* values of maxLines; 0: none is given

Docs == DOMAIN DocLengths
ASSUME RecallAssumption ==
    /\ DocLengths \in Seq(Nat)
    /\ \A s \in Sentences : /\ s.counts \in [Terms -> Nat] /\ s.together \subseteq Terms /\ s.safe \in BOOLEAN
                            /\ s.cites \subseteq Nat /\ s.cost \in Nat
    /\ SummaryOf \in [Docs -> Nat] /\ RelOrder \in [Docs -> Nat] /\ PendingDocs \subseteq Docs
    /\ PhraseBonus \in Nat /\ HitsPerFile \in Nat \ {0} /\ HitLimits \subseteq Nat \ {0}
    /\ TokenLimits \subseteq Nat \ {0} /\ LineLimits \subseteq Nat /\ KnownRollouts \subseteq Nat \ {0}
\* A rarer term weighs no less.
ASSUME WeightAssumption ==
    LET lines == FoldLeft(LAMBDA n, l : n + l, 0, DocLengths)
    IN  \A df \in 1..lines : Weight(df, lines) \in Nat /\ (df = lines \/ Weight(df + 1, lines) <= Weight(df, lines))

VARIABLES
    library, \* the lines of each file
    asked,   \* the last search, and what came of it
    reader,  \* a file that is read in pages
    usage    \* rollouts that the last call counted as used

recallVars == <<library, asked, reader, usage>>

-----------------------------------------------------------------------------
(* searchMemory                                                            *)

Places == {p \in Docs \X (1..Max({0} \cup Range(DocLengths))) : p[2] <= DocLengths[p[1]]}
LineAt(place) == library[place[1]][place[2]]
Matches(query, place) == \E w \in query : LineAt(place).counts[w] > 0
Frequency(w) == Cardinality({p \in Places : LineAt(p).counts[w] > 0})

\* A line that is not safe is not a candidate, although its terms count as
\* frequent.
Candidates(query) == {p \in Places : Matches(query, p) /\ LineAt(p).safe}

Score(query, place) ==
    MapThenSumSet(LAMBDA w : LineAt(place).counts[w] * Weight(Frequency(w), Cardinality(Places)), query)
    + (IF Cardinality(query) > 1 /\ query \subseteq LineAt(place).together THEN PhraseBonus ELSE 0)

Scanned(p, q) == p[1] < q[1] \/ (p[1] = q[1] /\ p[2] < q[2])
Before(query, p, q) ==
    LET a == Score(query, p)
        b == Score(query, q)
    IN  \/ a > b
        \/ a = b /\ (RelOrder[p[1]] < RelOrder[q[1]] \/ (p[1] = q[1] /\ p[2] < q[2]))

\* Of equal lines the one that is scanned first.
Distinct(places) == {p \in places : \A q \in places : LineAt(q) = LineAt(p) => q = p \/ Scanned(p, q)}

\* Mutant: the cap is applied as the lines are scanned, not as they rank.
CappedAsScanned(ranked) ==
    SelectSeq(ranked, LAMBDA p : Cardinality({q \in ToSet(ranked) : q[1] = p[1] /\ q[2] < p[2]}) < HitsPerFile)
Capped(ranked) ==
    LET ahead(i) == {k \in 1..i - 1 : ranked[k][1] = ranked[i][1]}
    IN  FoldLeft(LAMBDA hits, i : IF Cardinality(ahead(i)) < HitsPerFile THEN Append(hits, ranked[i]) ELSE hits,
                 <<>>, [i \in 1..Len(ranked) |-> i])

Hits(query, limit) ==
    LET hits == Capped(SetToSortSeq(Distinct(Candidates(query)), LAMBDA p, q : Before(query, p, q)))
    IN  SubSeq(hits, 1, IF Len(hits) < limit THEN Len(hits) ELSE limit)

\* registerMemoryUsage: a hit in a summary names its file, any other hit the
\* summaries that its line cites; a rollout counts once in a call.
Named(p) == IF SummaryOf[p[1]] # 0 THEN {SummaryOf[p[1]]} ELSE LineAt(p).cites
Counted(hits) == (UNION {Named(p) : p \in {q \in ToSet(hits) : q[1] \notin PendingDocs}}) \cap KnownRollouts

-----------------------------------------------------------------------------
NotAsked == [query |-> {}, limit |-> 0, hits |-> <<>>]
NotReading == [state |-> "none", doc |-> 1, next |-> 1, got |-> <<>>]

Libraries == {l \in [Docs -> UNION {[1..n -> Sentences] : n \in Range(DocLengths)}] : \A d \in Docs : Len(l[d]) = DocLengths[d]}
RecallInit ==
    /\ library \in Libraries
    /\ asked = NotAsked /\ reader = NotReading /\ usage = {}

Search(query, limit) ==
    /\ asked = NotAsked /\ reader = NotReading
    /\ asked' = [query |-> query, limit |-> limit, hits |-> Hits(query, limit)]
    /\ usage' = Counted(asked'.hits)
    /\ UNCHANGED <<library, reader>>

\* readMemory: so many whole lines as the caps let through; of a first line
\* that is too long, what fits of it, and the same offset again.
Cost(lines) == FoldLeft(LAMBDA sum, s : sum + s.cost, 0, lines)
FittedLines(lines, tokens) == Max({0} \cup {n \in 1..Len(lines) : Cost(SubSeq(lines, 1, n)) <= tokens})

ReadPage(d, lines, tokens) ==
    /\ asked = NotAsked /\ (reader = NotReading \/ (reader.state = "reading" /\ reader.doc = d))
    /\ LET left == SubSeq(library[d], reader.next, DocLengths[d])
           page == IF lines = 0 \/ lines > Len(left) THEN left ELSE SubSeq(left, 1, lines)
           fitted == FittedLines(page, tokens)
           returned == SubSeq(page, 1, IF fitted = 0 THEN 1 ELSE fitted)
           truncated == fitted < Len(left)
           \* The scan may miss in a part what it finds in the line.
       IN  \E blocked \in {b \in BOOLEAN : IF \A s \in ToSet(returned) : s.safe THEN ~b ELSE b \/ fitted = 0} :
             /\ reader' = [state |-> IF blocked THEN "blocked" ELSE IF truncated THEN "reading" ELSE "ended", doc |-> d,
                           next |-> reader.next + fitted, got |-> IF blocked THEN reader.got ELSE reader.got \o SubSeq(page, 1, fitted)]
             /\ usage' = IF blocked THEN {} ELSE {SummaryOf[d]} \cap KnownRollouts
    /\ UNCHANGED <<library, asked>>

RecallNext ==
    \/ \E query \in SUBSET Terms \ {{}}, limit \in HitLimits : Search(query, limit)
    \/ \E d \in Docs \ PendingDocs, lines \in LineLimits, tokens \in TokenLimits : ReadPage(d, lines, tokens)
RecallSpec == RecallInit /\ [][RecallNext]_recallVars

-----------------------------------------------------------------------------
RecallTypeOK ==
    /\ \A d \in Docs : library[d] \in [1..DocLengths[d] -> Sentences]
    /\ ToSet(asked.hits) \subseteq Places /\ usage \subseteq KnownRollouts
    /\ reader.state \in {"none", "reading", "ended", "blocked"} /\ reader.next \in Nat /\ ToSet(reader.got) \subseteq Sentences

\* The hits are in the order of their rank and no two alike, and a line that
\* is left out stands behind as many of its own file as a file may have, or
\* behind all hits when there are as many as were asked for.
HitsAreBest ==
    LET hits == ToSet(asked.hits)
    IN  /\ \A i, k \in 1..Len(asked.hits) : i < k =>
             Before(asked.query, asked.hits[i], asked.hits[k]) /\ LineAt(asked.hits[i]) # LineAt(asked.hits[k])
        /\ \A p \in Distinct(Candidates(asked.query)) \ hits :
             \/ Len(asked.hits) = asked.limit /\ \A q \in hits : Before(asked.query, q, p)
             \/ Cardinality({q \in hits : q[1] = p[1] /\ Before(asked.query, q, p)}) = HitsPerFile

\* The pages of a file that is read to its end, each from where the one before
\* says, are the file, whatever caps they were read with.
PagesAreTheFile ==
    /\ reader.state \in {"reading", "ended"} => reader.got = SubSeq(library[reader.doc], 1, reader.next - 1)
    /\ reader.state = "ended" => reader.got = library[reader.doc]

RecallIsRight == HitsAreBest /\ PagesAreTheFile
=============================================================================

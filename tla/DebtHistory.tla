----------------------------- MODULE DebtHistory -----------------------------
(***************************************************************************)
(* `debt`: the reader of `git log --numstat` (core/git_parser.py), the     *)
(* penalties of the git and topology dimensions (core/debt_analyzer.py,    *)
(* core/topology.py) and the score they are weighed into.  Weights and     *)
(* ratios are in whole tenths and hundredths.                              *)
(***************************************************************************)
EXTENDS Integers, FiniteSets, SequencesExt, FiniteSetsExt

CONSTANT Missing   \* a dimension nothing was measured for

-----------------------------------------------------------------------------
(* The log.  A line is the header of a commit, the counts of a file, or    *)
(* the counts of a file whose path has one or two "|" in it (with a third  *)
(* one the reader raises, and there is no history at all).                 *)

\* Mutant: a commit is only stored when the log ends.
FlushNothing(acc) == acc.order

\* the commit that was being read is stored when something with "|" comes
Flush(acc) == IF acc.current = <<>> THEN acc.order ELSE acc.order \o acc.current

\* A path with "|" looks like a header but has too few parts to be one: the
\* commit is stored and stays the current one.
ReadLine(acc, line) ==
    CASE line.kind = "header" ->
            [acc EXCEPT !.order = Flush(acc), !.current = <<line.of>>]
      [] line.kind = "odd" -> [acc EXCEPT !.order = Flush(acc)]
      [] line.kind = "file" ->
            IF acc.current = <<>> THEN acc
            ELSE [acc EXCEPT !.files = @ \cup {<<acc.current[1], line.of>>}]

\* order: the commits as they were stored; files: what each one touches
ParseLog(log) ==
    LET read == FoldLeft(ReadLine, [order |-> <<>>, current |-> <<>>, files |-> {}], log)
    IN  [order |-> Flush(read), files |-> read.files]

\* change_frequency of _aggregate_file_metrics
ChangeFrequency(log, f) ==
    LET p == ParseLog(log)
    IN  Cardinality({i \in DOMAIN p.order : <<p.order[i], f>> \in p.files})

-----------------------------------------------------------------------------
(* Scores.                                                                 *)

AtLeast0(n) == IF n < 0 THEN 0 ELSE n
AtMost(n, cap) == IF n > cap THEN cap ELSE n

\* issues of the static layer, by severity
QualityScore(d) == AtLeast0(100 - (d.p0 * 10 + d.p1 * 5 + d.p2))

GitScore(d) == AtLeast0(100 - (AtMost(15 * d.hotspots, 40) + AtMost(8 * d.silos, 40)))

\* Mutant: the two penalties are swapped.
DensityPenaltySwapped(d) == IF d.density > 50 THEN 5 ELSE IF d.density > 30 THEN 10 ELSE 0

DensityPenalty(d) == IF d.density > 50 THEN 10 ELSE IF d.density > 30 THEN 5 ELSE 0

\* _compute_score; orphans out of entities, density in hundredths
TopologyScore(d) ==
    LET orphanPenalty == IF d.orphans * 5 > d.entities THEN 25
                         ELSE IF d.orphans * 10 > d.entities THEN 15 ELSE 0
    IN  AtLeast0(100 - (orphanPenalty + AtMost(5 * d.hubs, 20) + AtMost(5 * d.gods + 3 * d.fans, 25)
                        + AtMost(5 * d.placeholders, 15) + DensityPenalty(d)))

\* With --with-git the git score takes the place of the topology score; git
\* that could not be read at all counts as 100.
Structural(d) ==
    CASE d.git = "off" -> TopologyScore(d)
      [] d.git = "failed" -> 100
      [] d.git = "measured" -> GitScore(d)

\* the dimension without data is left out and its weight goes to the others
TotalScore(d) ==
    IF d.maintainability = Missing
    THEN (4 * QualityScore(d) + 3 * Structural(d)) \div 7
    ELSE (4 * QualityScore(d) + 3 * d.maintainability + 3 * Structural(d)) \div 10

Grade(d) ==
    LET t == TotalScore(d)
    IN  CASE t >= 90 -> "A" [] t \in 80..89 -> "B" [] t \in 70..79 -> "C"
          [] t \in 60..69 -> "D" [] t < 60 -> "F"
=============================================================================

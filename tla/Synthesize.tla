----------------------------- MODULE Synthesize -----------------------------
(***************************************************************************)
(* services/review_graph/synthesize.py: the specialists' results become    *)
(* one ranked findings list without duplicates.                            *)
(*                                                                         *)
(* A finding is [file, line, category, severity, summary].  Files are      *)
(* numbered in the order of their paths, a line is a number or None, and   *)
(* categories are opaque: NormalizedCategory says which of them differ     *)
(* only in case and punctuation.                                           *)
(***************************************************************************)
EXTENDS Integers, FiniteSets, SequencesExt

CONSTANTS
    None,
    NormalizedCategory   \* _normalized_category, as a function of categories

Severities == {"high", "medium", "low"}

SeverityRank == [severity \in Severities |->
    CASE severity = "high" -> 0 [] severity = "medium" -> 1 [] severity = "low" -> 2]

Finding ==
    [file: Int, line: Int \cup {None}, category: DOMAIN NormalizedCategory,
     severity: Severities, summary: STRING]

(* The dedupe key.                                                         *)
Key(f) == <<f.file, f.line, NormalizedCategory[f.category]>>

MoreSevere(f, g) == SeverityRank[f.severity] < SeverityRank[g.severity]

(* Sources are set here, whatever the model wrote.                         *)
WithSource(finding, name) ==
    [file |-> finding.file, line |-> finding.line, category |-> finding.category,
     severity |-> finding.severity, summary |-> finding.summary, sources |-> {name}]

(* Mutant: a failed result ends the merge instead of being passed over.    *)
Reported_StopsAtFailure(results) ==
    FlattenSeq([i \in DOMAIN results |->
        IF \A k \in 1..i : results[k].status = "ok"
        THEN [j \in DOMAIN results[i].findings |->
                 WithSource(results[i].findings[j], results[i].name)]
        ELSE <<>>])

(* The findings of the specialists that succeeded, in the order of the     *)
(* results.                                                                *)
Reported(results) ==
    FlattenSeq([i \in DOMAIN results |->
        IF results[i].status = "ok"
        THEN [j \in DOMAIN results[i].findings |->
                 WithSource(results[i].findings[j], results[i].name)]
        ELSE <<>>])

(* Mutant: the merge keeps the sources of one finding only.                *)
MergeFinding_OneSource(merged, finding) ==
    LET at == SelectInSeq(merged, LAMBDA f : Key(f) = Key(finding))
    IN  IF at = 0
        THEN Append(merged, finding)
        ELSE IF MoreSevere(finding, merged[at]) THEN [merged EXCEPT ![at] = finding] ELSE merged

(* One step of the merge: the dict of findings by key, as the sequence of  *)
(* its values in insertion order.  A duplicate replaces the existing       *)
(* finding only if it is more severe, and keeps its place.                 *)
MergeFinding(merged, finding) ==
    LET at == SelectInSeq(merged, LAMBDA f : Key(f) = Key(finding))
    IN  IF at = 0
        THEN Append(merged, finding)
        ELSE LET existing == merged[at]
                 keep == IF MoreSevere(finding, existing) THEN finding ELSE existing
             IN  [merged EXCEPT ![at] =
                     [keep EXCEPT !.sources = existing.sources \cup finding.sources]]

Merged(results) ==
    LET reported == Reported(results)
        merged[n \in 0..Len(reported)] ==
            IF n = 0 THEN <<>> ELSE MergeFinding(merged[n - 1], reported[n])
    IN  merged[Len(reported)]

(* Mutant: the list is sorted by place only.                               *)
SortKey_PlaceOnly(f) == <<0, f.file, IF f.line = None THEN 0 ELSE f.line>>

SortKey(f) == <<SeverityRank[f.severity], f.file, IF f.line = None THEN 0 ELSE f.line>>

Before(k, l) ==
    \/ k[1] < l[1]
    \/ k[1] = l[1] /\ k[2] < l[2]
    \/ k[1] = l[1] /\ k[2] = l[2] /\ k[3] < l[3]

(* sorted() is stable: findings with equal sort keys stay in place.  The   *)
(* finding at each place is the one with as many before it.                *)
Precedes(findings, i, j) ==
    \/ Before(SortKey(findings[i]), SortKey(findings[j]))
    \/ SortKey(findings[i]) = SortKey(findings[j]) /\ i < j

Place(findings, j) == Cardinality({i \in DOMAIN findings : Precedes(findings, i, j)}) + 1

Ranked(findings) ==
    [k \in DOMAIN findings |->
        findings[CHOOSE j \in DOMAIN findings : Place(findings, j) = k]]

(* Mutant: a specialist that timed out is not reported.                    *)
Incomplete_FailedOnly(results) ==
    {results[i].name : i \in {j \in DOMAIN results : results[j].status = "failed"}}

Incomplete(results) == {results[i].name : i \in {j \in DOMAIN results : results[j].status # "ok"}}

synthesize(results, max_findings) ==
    LET ranked == Ranked(Merged(results))
        cut    == IF Len(ranked) > max_findings THEN max_findings ELSE Len(ranked)
    IN  [findings               |-> SubSeq(ranked, 1, cut),
         incomplete_specialists |-> Incomplete(results),
         dropped_findings       |-> Len(ranked) - cut,
         all_failed             |-> /\ results # <<>>
                                    /\ \A i \in DOMAIN results : results[i].status # "ok"]

-----------------------------------------------------------------------------
(* The reference for the merge works on sets: a reported finding is kept   *)
(* if no finding with its key is more severe, or as severe and earlier,    *)
(* with the sources of all of them.                                        *)
SameKey(reported, i) == {j \in DOMAIN reported : Key(reported[j]) = Key(reported[i])}

Wins(reported, i) ==
    \A j \in SameKey(reported, i) \ {i} :
        \/ MoreSevere(reported[i], reported[j])
        \/ ~MoreSevere(reported[j], reported[i]) /\ i < j

Winner(reported, i) ==
    [reported[i] EXCEPT !.sources = UNION {reported[j].sources : j \in SameKey(reported, i)}]

ReferenceMerge(reported) ==
    {Winner(reported, i) : i \in {p \in DOMAIN reported : Wins(reported, p)}}
=============================================================================

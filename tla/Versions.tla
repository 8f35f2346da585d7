------------------------------ MODULE Versions ------------------------------
(***************************************************************************)
(* The version comparison of services/dependency_check.py.  A version text *)
(* is its dotted release numbers and a tag, what else the text holds: a    *)
(* pre-release suffix, an epoch, the rest of a range.  Its segments are    *)
(* all integers exactly when the tag is NoTag.                             *)
(***************************************************************************)
EXTENDS Integers, Sequences

CONSTANTS
    NoTag,   \* the tag of a text that is dotted integers only
    Tags     \* the other tags

ASSUME TagsAssumption == NoTag \notin Tags

Version == [release: Seq(Nat) \ {<<>>}, tag: Tags \cup {NoTag}]

(* _parse_numeric_tuple(v) is not None                                     *)
IsNumeric(v) == v.tag = NoTag

Longer(s, t) == IF Len(s) < Len(t) THEN Len(t) ELSE Len(s)

PadTo(s, n) == [i \in 1..n |-> IF i \in DOMAIN s THEN s[i] ELSE 0]

(* Python's order on tuples of one length.                                 *)
TupleLess(s, t, n) ==
    \E i \in 1..n : s[i] < t[i] /\ \A j \in 1..(i - 1) : s[j] = t[j]

(* Mutant: the tuples are compared as they are, a prefix being less.       *)
NumericLess_Unpadded(s, t) ==
    \/ \E i \in DOMAIN s \cap DOMAIN t : s[i] < t[i] /\ \A j \in 1..(i - 1) : s[j] = t[j]
    \/ Len(s) < Len(t) /\ \A j \in DOMAIN s : s[j] = t[j]

NumericLess(s, t) ==
    LET n == Longer(s, t) IN TupleLess(PadTo(s, n), PadTo(t, n), n)

is_outdated(declared, latest) ==
    IF IsNumeric(declared) /\ IsNumeric(latest)
    THEN NumericLess(declared.release, latest.release)
    ELSE declared # latest
=============================================================================

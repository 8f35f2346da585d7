------------------------------- MODULE Triage -------------------------------
(***************************************************************************)
(* services/review_graph/triage.py: one FileChange per file of the diff,   *)
(* without a model call.  A changed file is what the rules look at:        *)
(*   path         identifies the file                                      *)
(*   change       "added", "deleted", "renamed" or "modified"              *)
(*   binary       whether the diff marks it as binary                      *)
(*   directories  the kinds of its directory segments ({} at the root)     *)
(*   name         the kind of its file name; the tables of names and       *)
(*                suffixes are disjoint, so a name has one kind            *)
(*   long         whether its diff has over MAX_DIFF_LINES_PER_FILE lines  *)
(***************************************************************************)
EXTENDS Integers, FiniteSetsExt

ChangedFile(paths) ==
    [path: paths,
     change: {"added", "deleted", "renamed", "modified"},
     binary: BOOLEAN,
     directories: SUBSET {"vendored", "generated", "plain"},
     name: {"lockfile", "generated", "documentation", "manifest", "source"},
     long: BOOLEAN]

(* The reasons to skip a file, in the order they are tried.                *)
SkipReasons == <<"deleted", "binary", "lockfile", "vendored", "generated", "documentation">>

SkipApplies(f) ==
    [deleted       |-> f.change = "deleted",
     binary        |-> f.binary,
     lockfile      |-> f.name = "lockfile",
     vendored      |-> "vendored" \in f.directories,
     generated     |-> "generated" \in f.directories \/ f.name = "generated",
     documentation |-> f.name = "documentation"]

Reviewed == "reviewed"   \* skip_reason is None

SkipReason(f) ==
    LET matching == {i \in DOMAIN SkipReasons : SkipApplies(f)[SkipReasons[i]]}
    IN  IF matching = {} THEN Reviewed ELSE SkipReasons[Min(matching)]

is_root_manifest_path(f) == f.directories = {} /\ f.name = "manifest"

(* A skipped file keeps none of its diff; a long one is cut.               *)
DiffSlice(f) ==
    IF SkipReason(f) # Reviewed THEN "none" ELSE IF f.long THEN "truncated" ELSE "whole"

FileChange(f) ==
    [path        |-> f.path,
     status      |-> f.change,
     is_manifest |-> is_root_manifest_path(f),
     diff_text   |-> DiffSlice(f),
     skip_reason |-> SkipReason(f)]

triage_diff(diff) == {FileChange(f) : f \in diff}
=============================================================================

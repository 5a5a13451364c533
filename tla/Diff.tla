-------------------------------- MODULE Diff --------------------------------
(***************************************************************************)
(* The prefix/suffix binary diff of crates/posh/src/remote/sync.rs. A diff *)
(* keeps the longest common prefix and then the longest common suffix of   *)
(* the rest, and carries the bytes between them.                           *)
(***************************************************************************)
EXTENDS Integers, Sequences

\* The smallest element of a set of naturals.
Least(T) == CHOOSE x \in T : \A y \in T : x <= y

ShorterLen(old, new) == IF Len(old) < Len(new) THEN Len(old) ELSE Len(new)

\* The scan from the front stops at the first difference or where the
\* shorter stream ends.
PrefixLen(old, new) ==
    LET m == ShorterLen(old, new)
    IN  Least({k \in 0 .. m : k = m \/ old[k + 1] # new[k + 1]})

\* The scan from the back never runs into the prefix of either stream.
SuffixLen(old, new, prefix) ==
    LET m == ShorterLen(old, new) - prefix
    IN  Least({k \in 0 .. m : k = m \/ old[Len(old) - k] # new[Len(new) - k]})

MakeDiff(old, new) ==
    LET p == PrefixLen(old, new)
        s == SuffixLen(old, new, p)
    IN  [prefix |-> p, suffix |-> s,
         middle |-> SubSeq(new, p + 1, Len(new) - s)]

\* apply_diff returns Some.
Applicable(old, diff) == diff.prefix + diff.suffix <= Len(old)

ApplyDiff(old, diff) ==
    SubSeq(old, 1, diff.prefix)
      \o diff.middle
      \o SubSeq(old, Len(old) - diff.suffix + 1, Len(old))
=============================================================================

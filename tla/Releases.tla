------------------------------- MODULE Releases -------------------------------
(***************************************************************************)
(* internal/update: which of two versions is newer.  A version is the       *)
(* sequence of its dotted parts, a part a number or a text that is none.    *)
(***************************************************************************)
EXTENDS Integers, Sequences, FiniteSets

NotANumber == -1

\* The numbers before the first part that is not one.
parts(v) ==
    LET Bad == {i \in DOMAIN v : v[i] = NotANumber}
    IN  IF Bad = {} THEN v ELSE SubSeq(v, 1, (CHOOSE i \in Bad : \A j \in Bad : i <= j) - 1)

\* The first difference decides; a missing part counts as zero.
VersionNewer(a, b) ==
    LET Part(p, i) == IF i <= Len(p) THEN p[i] ELSE 0
        n == IF Len(parts(a)) > Len(parts(b)) THEN Len(parts(a)) ELSE Len(parts(b))
    IN  \E i \in 1 .. n :
            /\ Part(parts(a), i) > Part(parts(b), i)
            /\ \A j \in 1 .. i - 1 : Part(parts(a), j) = Part(parts(b), j)
=============================================================================

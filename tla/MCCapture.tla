------------------------------ MODULE MCCapture ------------------------------
(***************************************************************************)
(* A table with a plain column, an array out of line, a timestamp that is  *)
(* ignored and a column that is excluded.                                  *)
(***************************************************************************)
EXTENDS Capture, TLC

CONSTANTS s1, s2, k1, k2, v1, v2

TwoSessions == {s1, s2}

TwoIds == {k1, k2}

TwoValues == {v1, v2}

\* Updates that change nothing, an ignored, an excluded or an ordinary column.
SmallUpdates ==
    {{}, {"updatedAt"}, {"title"}, {"tags", "updatedAt"}, {"secret", "updatedAt"}}

\* Sessions, keys and values differ in nothing but their names.
NamesDoNotMatter ==
    Permutations(TwoSessions) \union Permutations(TwoIds)
                              \union Permutations(TwoValues)
=============================================================================

------------------------------- MODULE Arrays -------------------------------
(***************************************************************************)
(* Array.prototype.filter and sort, as the dashboard uses them.            *)
(*                                                                         *)
(* A sort leaves elements that compare as equal in the order they had,     *)
(* which SortSeq does not promise; and both are written so that their      *)
(* results can be reasoned about.                                          *)
(***************************************************************************)
EXTENDS Integers, SequencesExt

IsSeq(s) == s \in Seq(Range(s))

\* The elements at some of the indices, in order.
At(s, indices) ==
    LET kept[n \in 0 .. Len(s)] ==
            IF n = 0 THEN <<>>
            ELSE IF n \in indices THEN Append(kept[n - 1], s[n]) ELSE kept[n - 1]
    IN  kept[Len(s)]

filter(s, Test(_)) == At(s, {i \in DOMAIN s : Test(s[i])})

\* The enumeration of a finite set along a relation.
Along(S, R) ==
    CHOOSE p \in SetToSeqs(S) : \A i, j \in DOMAIN p : i < j => <<p[i], p[j]>> \in R

InOrder(S, Less(_, _)) == Along(S, {e \in S \X S : Less(e[1], e[2])})

\* The elements in the order of a relation on their indices.
Sorted(s, R) == [i \in DOMAIN s |-> s[Along(DOMAIN s, R)[i]]]

Stably(s, Less(_, _)) ==
    {e \in (DOMAIN s) \X (DOMAIN s) :
        \/ Less(s[e[1]], s[e[2]])
        \/ ~Less(s[e[2]], s[e[1]]) /\ e[1] < e[2]}

sort(s, Less(_, _)) == Sorted(s, Stably(s, Less))
=============================================================================

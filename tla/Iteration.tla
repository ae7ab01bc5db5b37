----------------------------- MODULE Iteration -----------------------------
(***************************************************************************)
(* Loops over the elements of a set or of a sequence, as recursive          *)
(* functions, so that proofs can follow them (module IterationProofs).      *)
(***************************************************************************)
EXTENDS Integers, Sequences, FiniteSets

\* the element of a set that a loop over it takes first
Pick(T) == CHOOSE x \in T : TRUE

\* the sum of f[x] over the elements x of the finite set S
SumOver(f, S) ==
    LET sum[T \in SUBSET S] == IF T = {} THEN 0 ELSE f[Pick(T)] + sum[T \ {Pick(T)}]
    IN  sum[S]

\* what a sequence has of a set, in the order of the sequence
Filter(s, S) ==
    LET kept[i \in 0 .. Len(s)] ==
            IF i = 0 THEN <<>>
            ELSE IF s[i] \in S THEN Append(kept[i - 1], s[i]) ELSE kept[i - 1]
    IN  kept[Len(s)]
=============================================================================

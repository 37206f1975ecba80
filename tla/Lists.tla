------------------------------- MODULE Lists -------------------------------
(***************************************************************************)
(* What the code does to lists of any kind: a comprehension with a         *)
(* condition, and sorted() of numbers.  Both are written so that they can  *)
(* be reasoned about, which the operators of the module TLC cannot.        *)
(***************************************************************************)
EXTENDS Integers, Sequences, FiniteSetsExt, Functions

\* The members of s that are in S, in their order.
Keeping(s, S) ==
  LET kept[i \in 0..Len(s)] ==
        IF i = 0 THEN <<>>
        ELSE IF s[i] \in S THEN Append(kept[i-1], s[i]) ELSE kept[i-1]
  IN  kept[Len(s)]

\* How many of s are below x, and how many no more than x.
Below(s, x)  == Cardinality({i \in DOMAIN s : s[i] < x})
NoMore(s, x) == Cardinality({i \in DOMAIN s : s[i] <= x})

\* The numbers in s in ascending order: place i is for the number that has fewer than i
\* below it and, with its equals, reaches i.
Ascending(s) ==
  [i \in DOMAIN s |-> CHOOSE x \in Range(s) : Below(s, x) < i /\ i <= NoMore(s, x)]
=============================================================================

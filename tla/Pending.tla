------------------------------- MODULE Pending -------------------------------
(***************************************************************************)
(* What a page waits for: the timers that are set and the requests that    *)
(* were sent.  The same one can be under way more than once, so that what  *)
(* is pending is a bag: a function that counts.                            *)
(***************************************************************************)
EXTENDS Integers

IsPending(b) == b \in [DOMAIN b -> Nat \ {0}]

\* Each of a set, once; each of a set, once more; one copy less.
Once(S) == [e \in S |-> 1]
Also(b, S) ==
    [e \in DOMAIN b \cup S |-> (IF e \in DOMAIN b THEN b[e] ELSE 0) + (IF e \in S THEN 1 ELSE 0)]
Less(b, x) ==
    [e \in {d \in DOMAIN b : d = x => b[d] > 1} |-> IF e = x THEN b[e] - 1 ELSE b[e]]

\* The copies of some of its members, each of its own.
Copies(b, S) == UNION {{x} \X (1 .. b[x]) : x \in S}

=============================================================================

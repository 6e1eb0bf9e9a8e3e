------------------------------ MODULE StepGraph ------------------------------
(***************************************************************************)
(* What a plan promises about its dependencies, apart from any code that   *)
(* walks them: the steps 1..n can be ranked so that every dependency goes  *)
(* from a lower to a higher rank.  A dependency is a pair                  *)
(* <<predecessor, dependent>> of step numbers.                             *)
(***************************************************************************)
EXTENDS Naturals

Edges(n) == (1..n) \X (1..n)

Acyclic(n, E) ==
  \E rank \in [1..n -> 1..n] : \A e \in E : rank[e[1]] < rank[e[2]]

\* The length of the longest chain of dependencies that ends in each step.
LongestChain(n, E) ==
  CHOOSE depth \in [1..n -> 0..n] :
    \A t \in 1..n :
      LET before == {depth[s] : s \in {s \in 1..n : <<s, t>> \in E}}
      IN  IF before = {} THEN depth[t] = 0
          ELSE /\ depth[t] - 1 \in before
               /\ \A d \in before : d < depth[t]
=============================================================================

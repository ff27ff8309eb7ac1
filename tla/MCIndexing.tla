------------------------------ MODULE MCIndexing ------------------------------
(***************************************************************************)
(* Checking Indexing on small texts and configurations, with embedders     *)
(* that answer in and out of order, number from one too high, leave the    *)
(* numbers out, repeat one, or send one item too few.                      *)
(***************************************************************************)
EXTENDS Indexing

Orders(n) == {[p \in 1..n |-> p],
              [p \in 1..n |-> n + 1 - p],
              [p \in 1..n |-> (p % n) + 1]}

Labels(n) == {[m \in 1..n |-> m], [m \in 1..n |-> m + 1], [m \in 1..n |-> 1],
              [m \in 1..n |-> IF m = n THEN 1 ELSE m]}

SmallReplies ==
    UNION {{[p \in 1..m |-> [index |-> label[order[p]], of |-> order[p]]] :
               order \in Orders(n), label \in Labels(n), m \in {n - 1, n}} : n \in 1..9}

SmallLengths  == 0..9
SmallSizes    == -1..5
SmallOverlaps == -2..6
SmallLimits   == {-1, 1, 2}
==============================================================================

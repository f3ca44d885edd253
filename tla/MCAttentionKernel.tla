------------------------- MODULE MCAttentionKernel -------------------------
(* Inputs with a first, a middle and a last maximum over the keys, and a    *)
(* row of ties; the partial dot products are computed from them.            *)
EXTENDS AttentionKernel

MCQ == [i \in Element |-> <<1, -1, 0, 2>>[i + 1]]
MCK == [i \in Element |-> <<-1, 1, 2, -2>>[i + 1]]
MCV == [i \in Element |-> i + 1]

MCDot ==
  [q \in Row |-> [k \in Row |->
    LET partial[n \in 0..HeadDim] ==
          IF n = 0 THEN 0
          ELSE partial[n - 1] + Q[Index(q, n - 1)] * K[Index(k, n - 1)]
    IN partial]]
=============================================================================

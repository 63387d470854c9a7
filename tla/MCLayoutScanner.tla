-------------------------- MODULE MCLayoutScanner --------------------------
(* LayoutScanner over all short documents for TLC: only the order of the    *)
(* columns matters, so they leave none out below the furthest.              *)
EXTENDS LayoutScanner, TLC

AllOrders == {d \in [1..Lines -> 0..Lines] : d[1] = 0 /\
                \E m \in 0..Lines : {0} \cup {d[i] : i \in 1..Lines} = 0..m}
=============================================================================

-------------------------- MODULE MCReceivedParts --------------------------
(***************************************************************************)
(* A small instance of ReceivedParts.  a1 and a2 are the parts of a melody *)
(* and b2 another second part under the same reference, sent at another    *)
(* time; g1 is a melody that does not decode; p1 and p2 are the parts of a *)
(* picture, r2 a rival of p2, and q1 is a picture of one part.             *)
(***************************************************************************)
EXTENDS ReceivedParts

CONSTANTS a1, a2, b2, g1, p1, p2, r2, q1, A, G, P, Q

MCTones == {a1, a2, b2, g1} \intersect Part

MCMessage == {A, G, P, Q}

MCMessageOf ==
    [f \in Part |-> CASE f \in {a1, a2, b2} -> A
                      [] f = g1            -> G
                      [] f \in {p1, p2, r2} -> P
                      [] OTHER             -> Q]

MCSeqOf == [f \in Part |-> IF f \in {a2, b2, p2, r2} THEN 2 ELSE 1]

MCStampOf == [f \in Part |-> IF f = b2 THEN 2 ELSE 1]

MCTotalOf == [m \in MCMessage |-> IF m \in {A, P} THEN 2 ELSE 1]

MCFactory == [u \in Unit |-> IF u = Settings THEN 0 ELSE <<NoSlot, NoSlot>>]

=============================================================================

-------------------------- MODULE MCMessageService --------------------------
(***************************************************************************)
(* Small instances of MessageService.  a1 and a2 are the parts of one      *)
(* message and b2 a different second part under the same concatenation     *)
(* reference; c1 and c2 make up a control message and ctl is one by itself; *)
(* s1 and t1 are messages of one part.                                     *)
(***************************************************************************)
EXTENDS MessageService

CONSTANTS a1, a2, b2, c1, c2, ctl, s1, t1, copy, Two, Ctl, Ctl1, OneS, OneT

MCGroup == {Two, Ctl, Ctl1, OneS, OneT}

MCGroupOf ==
    [f \in Frag |->
        CASE f \in {a1, a2, b2} -> Two
          [] f \in {c1, c2}     -> Ctl
          [] f = ctl            -> Ctl1
          [] f = s1             -> OneS
          [] OTHER              -> OneT]

MCSeqOf == [f \in Frag |-> IF f \in {a2, b2, c2} THEN 2 ELSE 1]

MCPartsOf == [g \in Group |-> IF g \in {Two, Ctl} THEN 2 ELSE 1]

MCControlGroup == {Ctl, Ctl1}

=============================================================================

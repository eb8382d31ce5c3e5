----------------------------- MODULE MCConsumer -----------------------------
(* Instances of Consumer for TLC. *)
EXTENDS Consumer, TLC

CONSTANTS cuda, v12, p1, p2

Offered(price, hourly, free, caps, health, rep, util) ==
  [price |-> price, hourly |-> hourly, free |-> free, caps |-> caps,
   health |-> health, rep |-> rep, util |-> util]

(* A good node, a dearer one of less repute without the version, one that   *)
(* is idle but down.                                                         *)
Good == Offered(1, 2, 2, {<<cuda, v12>>}, "healthy", 12, 5)
Busy == Offered(2, 1, 1, {<<cuda, None>>}, "degraded", 4, 5)
Down == Offered(1, 2, 2, {<<cuda, v12>>}, "unhealthy", 10, 0)
MCOffers == {Good, Busy, Down}
MCAtFirst == {(p1 :> Good) @@ (p2 :> Busy)}

MCSpecs == {[need |-> 1, caps |-> {<<cuda, v12>>}, ceiling |-> 0],
            [need |-> 1, caps |-> {<<cuda, None>>}, ceiling |-> 2]}
==============================================================================

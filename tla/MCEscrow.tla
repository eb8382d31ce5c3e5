------------------------------ MODULE MCEscrow ------------------------------
(* Instances of Escrow for TLC. *)
EXTENDS Escrow

(* Two legal splits (one leaves the provider a single basis point), and two *)
(* that creation must refuse: no share left, and a payee without account.   *)
MCSplits == {[storage |-> 1000, author |-> 500, named |-> {"storage", "author"}],
             [storage |-> 0, author |-> 9599, named |-> {"author"}],
             [storage |-> 9600, author |-> 0, named |-> {"storage"}],
             [storage |-> 700, author |-> 0, named |-> {"author"}]}

(* 0 is refused, 1 and 25 show rounding, 800 * 400 overflows U64Max. *)
MCAmounts == {0, 1, 25, 800}

MCTimeouts == {1, 2, 4, 5}
==============================================================================

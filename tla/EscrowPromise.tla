---------------------------- MODULE EscrowPromise ----------------------------
(***************************************************************************)
(* What the escrow program promises the two parties of a job, without any  *)
(* of its machinery (no clock, no shares, no signatures): the money locked *)
(* for a job leaves the vault exactly once, whole, and in one direction,   *)
(* either to the job's payees or back to its consumer.  Module Escrow      *)
(* implements this specification.                                          *)
(***************************************************************************)
EXTENDS Naturals

CONSTANTS Keys,      \* job accounts (the PDA of a consumer and a job id)
          Amounts    \* what a consumer may lock for one job

VARIABLES held,      \* held[k]: money locked for job k now
          paidOut,   \* paidOut[k]: all that payees of k ever received
          returned   \* returned[k]: all that k's consumer ever got back

pvars == <<held, paidOut, returned>>

Init == /\ held = [k \in Keys |-> 0]
        /\ paidOut = [k \in Keys |-> 0]
        /\ returned = [k \in Keys |-> 0]

(* The consumer locks a non-zero amount for a job that holds nothing. *)
Lock(k) == /\ held[k] = 0
           /\ \E a \in Amounts : a > 0 /\ held' = [held EXCEPT ![k] = a]
           /\ UNCHANGED <<paidOut, returned>>

(* Everything held for the job goes to its payees. *)
PayOut(k) == /\ held[k] > 0
             /\ paidOut' = [paidOut EXCEPT ![k] = @ + held[k]]
             /\ held' = [held EXCEPT ![k] = 0]
             /\ UNCHANGED returned

(* Everything held for the job goes back to its consumer. *)
Return(k) == /\ held[k] > 0
             /\ returned' = [returned EXCEPT ![k] = @ + held[k]]
             /\ held' = [held EXCEPT ![k] = 0]
             /\ UNCHANGED paidOut

Next == \E k \in Keys : Lock(k) \/ PayOut(k) \/ Return(k)

Spec == Init /\ [][Next]_pvars

(* RFC-0010, I1: money that is locked does not stay locked. *)
NothingStaysLocked == \A k \in Keys : (held[k] > 0) ~> (held[k] = 0)
==============================================================================

------------------------------- MODULE MCNode -------------------------------
(* Instances of Node for TLC. *)
EXTENDS Node, TLC

Ask(kind, k) == [kind |-> kind, key |-> k, pay |-> "escrow", auth |-> TRUE,
                 capable |-> TRUE, need |-> 1, dur |-> 0]

(* Kernels for any key, workloads that fit alone but not together, one the  *)
(* node cannot run, one without the consumer's signature, a demo payment.   *)
MCRequests ==
  {Ask("kernel", k) : k \in Keys} \cup {Ask("workload", k) : k \in Keys}
    \cup {[Ask("workload", k) EXCEPT !.capable = FALSE] : k \in Keys}
    \cup {[Ask("kernel", k) EXCEPT !.auth = FALSE] : k \in Keys}
    \cup {[Ask("kernel", k) EXCEPT !.pay = "demo"] : k \in Keys}

(* Endpoints, kernels and workloads, and a demo payment for the dev mode. *)
MCMixed == {Ask(kind, k) : kind \in {"endpoint", "kernel", "workload"}, k \in Keys}
             \cup {[Ask("kernel", k) EXCEPT !.pay = "demo"] : k \in Keys}

MCKernels == {Ask("kernel", k) : k \in Keys}

MCLong == {[Ask("workload", k) EXCEPT !.dur = 5] : k \in Keys}

NoSplits == {}

(* Handlers and keys are interchangeable; used for safety properties only. *)
Symmetry == Permutations(Calls) \cup Permutations(Keys)
==============================================================================

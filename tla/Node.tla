-------------------------------- MODULE Node --------------------------------
(***************************************************************************)
(* A provider node serving paid requests against the escrow program:       *)
(* admission (core.rs authorize, payments.rs verify_escrow, the set of     *)
(* served escrows), the permits that bound concurrent work, resource       *)
(* accounting, and the kernel, endpoint and workload paths to a signed     *)
(* result.  The chain is an instance of Escrow: consumers create, release  *)
(* and refund jobs while the node reads them over RPC.                     *)
(*                                                                         *)
(* A call is one request handler together with the blocking task it may    *)
(* leave behind.  The code between two awaits of a handler is one step;    *)
(* everything else of the node and the chain may happen in between.  A     *)
(* request that authorize refuses at once changes nothing and is no step.  *)
(* Timers (tokio::time::timeout, the HTTP client's) fire when they are     *)
(* due: the clock does not pass a running timer.  An admitted call goes on  *)
(* without awaiting, so no time passes for it either.                       *)
(***************************************************************************)
EXTENDS Integers, Sequences, FiniteSets, SequencesExt, FiniteSetsExt

CONSTANTS
  Keys, Providers, Cancellers, Amounts, Timeouts, Splits, NoJob, U64Max,
  MinTimeout, MaxTimeout, ChallengeWindow, Horizon, MaxCreates, \* as in Escrow
  Me,                \* this node, one of Providers
  Calls,             \* request handlers that may be active at once
  Requests,          \* requests that may arrive
  Price,             \* price_micro_usdc, the least an escrow must hold
  RequirePayment,    \* --require-payment
  JobTimeout,        \* JOB_TIMEOUT_SECS
  WorkloadTimeout,   \* WORKLOAD_TIMEOUT_SECS
  ReleaseSlack,      \* the 120 s added to it for release latency
  MaxWorkload,       \* the 3600 s cap on a requested duration
  RpcTimeout,        \* the 15 s of the RPC client
  MaxPrepare,        \* longest image pull; the code itself sets no limit
  MaxBusy,           \* MAX_CONCURRENT_JOBS
  Shared,            \* units of the one resource kind modelled
  MaxServed,         \* MAX_SERVED_ESCROWS
  MaxRestarts,       \* bound: crashes of the node
  MaxReceives,       \* bound: requests received
  NoReq              \* an idle handler has no request

VARIABLES clock, job, vault, ledger, results

Chain == INSTANCE Escrow
chain == <<clock, job, vault, ledger, results>>

(* JobRequest and WorkloadSpec.  `auth': the consumer's signature covers    *)
(* this job, this input and an expiry that is neither past nor too far      *)
(* (payments.rs auth_within_window, run_auth_message); `capable': the       *)
(* capabilities and the runtime the spec asks for exist on this node.       *)
RequestType ==
  [kind : {"kernel", "endpoint", "workload"}, key : Keys,
   pay : {"escrow", "demo", "token"}, auth : BOOLEAN,
   capable : BOOLEAN, need : Nat, dur : Nat]

ASSUME NodeAssumption ==
  /\ Chain!ConstantsAssumption
  /\ IsFiniteSet(Calls)
  /\ Me \in Providers
  /\ Requests \subseteq RequestType
  /\ {Price, JobTimeout, WorkloadTimeout, ReleaseSlack, MaxWorkload, RpcTimeout,
      MaxPrepare, MaxBusy, Shared, MaxServed, MaxRestarts, MaxReceives} \subseteq Nat
  /\ RequirePayment \in BOOLEAN
  /\ NoReq \notin Requests

VARIABLES
  call,              \* call[c]: the handler's state
  served,            \* ServedEscrows, oldest first
  busy,              \* free permits of the busy semaphore
  allocated,         \* Resources.allocated
  executions,        \* history: runs started for an escrow of key k
  restarts,          \* history: crashes so far
  receives           \* history: requests that passed the first checks

node == <<call, served, busy, allocated, executions, restarts, receives>>
vars == <<chain, node>>

Never == Horizon + 1

(* pc: idle | verifying | verified | admitted | preparing | running, and     *)
(* detached: the caller was cut loose, the blocking task goes on.           *)
(* asked: when the handler read its clock (`now' of authorize); deadline:   *)
(* that of the escrow it verified; creates and refunded, history: which     *)
(* incarnation of the account that was and what had been returned by then.  *)
CallType == [pc : {"idle", "verifying", "verified", "admitted", "preparing",
                   "running", "detached"},
             req : RequestType \cup {NoReq},
             asked : Nat, timer : Nat, deadline : Nat,
             creates : Nat, refunded : Nat]

IdleCall == [pc |-> "idle", req |-> NoReq, asked |-> 0, timer |-> Never,
             deadline |-> 0, creates |-> 0, refunded |-> 0]

Req(c) == call[c].req
Done(c) == call' = [call EXCEPT ![c] = IdleCall]
At(c, pc) == call[c].pc = pc

-----------------------------------------------------------------------------
(* Admission. *)

(* Mutant: no slack for release latency. *)
MinRemainingBare == WorkloadTimeout

MinRemaining == WorkloadTimeout + ReleaseSlack

WasServed(k) == k \in Range(served)

(* ServedEscrows::insert: a FIFO that forgets its oldest entry when full. *)
Insert(k) ==
  LET longer == Append(served, k)
  IN  served' = IF WasServed(k) THEN served
                ELSE IF Len(longer) > MaxServed THEN Tail(longer) ELSE longer

TimeLimit(r) == IF r.kind = "kernel" THEN JobTimeout
                ELSE IF r.dur > 0 THEN Min({r.dur, MaxWorkload})
                ELSE WorkloadTimeout

(* Bounds on the instance: so many requests, and time enough for a timer.   *)
WithinBounds(r) ==
  /\ receives < MaxReceives
  /\ clock + RpcTimeout + MaxPrepare + TimeLimit(r) <= Horizon

(* Mutant: demo payments pass whatever --require-payment says. *)
ReceiveDemo(c, r) ==
  /\ At(c, "idle")
  /\ WithinBounds(r)
  /\ receives' = receives + 1
  /\ r.pay = "escrow" => ~ WasServed(r.key)
  /\ call' = [call EXCEPT ![c] = [IdleCall EXCEPT
               !.pc = IF r.pay = "escrow" THEN "verifying" ELSE "admitted",
               !.req = r, !.asked = clock,
               !.timer = IF r.pay = "escrow" THEN clock + RpcTimeout ELSE clock]]
  /\ UNCHANGED <<chain, served, busy, allocated, executions, restarts>>

(* authorize up to its first await: an escrow that was served before is     *)
(* refused; a demo payment or the dev token passes unless payment is        *)
(* required.                                                                *)
Receive(c, r) ==
  /\ At(c, "idle")
  /\ WithinBounds(r)
  /\ receives' = receives + 1
  /\ \/ /\ r.pay = "escrow"
        /\ ~ WasServed(r.key)
        /\ call' = [call EXCEPT ![c] = [IdleCall EXCEPT
                     !.pc = "verifying", !.req = r, !.asked = clock,
                     !.timer = clock + RpcTimeout]]
     \/ /\ r.pay # "escrow"
        /\ ~ RequirePayment
        /\ call' = [call EXCEPT ![c] = [IdleCall EXCEPT
                     !.pc = "admitted", !.req = r, !.asked = clock,
                     !.timer = clock]]
  /\ UNCHANGED <<chain, served, busy, allocated, executions, restarts>>

(* verify_escrow's checks on the account as the RPC node sees it. *)
Verifies(c) ==
  LET k == Req(c).key
  IN  /\ job[k] # NoJob
      /\ job[k].state = "Active"
      /\ job[k].provider = Me
      /\ job[k].amount >= Price
      /\ job[k].deadline - call[c].asked >= MinRemaining
      /\ Req(c).auth

(* The RPC node answers getAccountInfo; a refusal ends the call. *)
ReadEscrow(c) ==
  /\ At(c, "verifying")
  /\ IF Verifies(c)
       THEN call' = [call EXCEPT ![c].pc = "verified",
                                 ![c].deadline = job[Req(c).key].deadline,
                                 ![c].creates = ledger[Req(c).key].creates,
                                 ![c].refunded = ledger[Req(c).key].refunded]
       ELSE Done(c)
  /\ UNCHANGED <<chain, served, busy, allocated, executions, restarts, receives>>

(* The RPC request fails or times out. *)
RpcFails(c) ==
  /\ call[c].pc \in {"verifying", "verified"}
  /\ Done(c)
  /\ UNCHANGED <<chain, served, busy, allocated, executions, restarts, receives>>

(* Mutant: a verified escrow is not remembered. *)
ReserveNothing(c) ==
  /\ At(c, "verified")
  /\ call' = [call EXCEPT ![c].pc = "admitted", ![c].timer = clock]
  /\ UNCHANGED <<chain, served, busy, allocated, executions, restarts, receives>>

(* The answer arrives: the escrow is reserved and the call admitted. *)
Reserve(c) ==
  /\ At(c, "verified")
  /\ Insert(Req(c).key)
  /\ call' = [call EXCEPT ![c].pc = "admitted", ![c].timer = clock]
  /\ UNCHANGED <<chain, busy, allocated, executions, restarts, receives>>

-----------------------------------------------------------------------------
(* Execution. *)

Fits(r) == r.need <= Shared - allocated

CountRun(r) ==
  executions' = IF r.pay = "escrow" THEN [executions EXCEPT ![r.key] = @ + 1]
                ELSE executions

(* Mutants: a kernel starts without a permit; its caller waits for ever. *)
StartKernelUnbounded(c) ==
  /\ At(c, "admitted") /\ Req(c).kind = "kernel"
  /\ busy' = busy - 1
  /\ CountRun(Req(c))
  /\ call' = [call EXCEPT ![c].pc = "running", ![c].timer = clock + TimeLimit(Req(c))]
  /\ UNCHANGED <<chain, served, allocated, restarts, receives>>

StartKernelUntimed(c) ==
  /\ At(c, "admitted") /\ Req(c).kind = "kernel"
  /\ busy > 0
  /\ busy' = busy - 1
  /\ CountRun(Req(c))
  /\ call' = [call EXCEPT ![c].pc = "running", ![c].timer = Never]
  /\ UNCHANGED <<chain, served, allocated, restarts, receives>>

(* submit_guarded: the permit moves into the blocking task. *)
StartKernel(c) ==
  /\ At(c, "admitted") /\ Req(c).kind = "kernel"
  /\ busy > 0
  /\ busy' = busy - 1
  /\ CountRun(Req(c))
  /\ call' = [call EXCEPT ![c].pc = "running", ![c].timer = clock + TimeLimit(Req(c))]
  /\ UNCHANGED <<chain, served, allocated, restarts, receives>>

(* run_endpoint_guarded: no permit and no time limit of the node's own. *)
StartEndpoint(c) ==
  /\ At(c, "admitted") /\ Req(c).kind = "endpoint"
  /\ CountRun(Req(c))
  /\ call' = [call EXCEPT ![c].pc = "running", ![c].timer = Never]
  /\ UNCHANGED <<chain, served, busy, allocated, restarts, receives>>

(* run_workload up to runtime.prepare. *)
StartWorkload(c) ==
  /\ At(c, "admitted") /\ Req(c).kind = "workload"
  /\ Req(c).capable
  /\ busy > 0
  /\ Fits(Req(c))
  /\ busy' = busy - 1
  /\ allocated' = allocated + Req(c).need
  /\ call' = [call EXCEPT ![c].pc = "preparing", ![c].timer = clock + MaxPrepare]
  /\ UNCHANGED <<chain, served, executions, restarts, receives>>

(* The early returns between admission and execution: no permit, missing    *)
(* capability or runtime, resources that do not fit.                         *)
Refuse(c) ==
  /\ At(c, "admitted")
  /\ \/ Req(c).kind = "kernel" /\ busy = 0
     \/ /\ Req(c).kind = "workload"
        /\ ~ Req(c).capable \/ busy = 0 \/ ~ Fits(Req(c))
  /\ Done(c)
  /\ UNCHANGED <<chain, served, busy, allocated, executions, restarts, receives>>

(* runtime.prepare returned: the container starts and its time limit runs. *)
RunWorkload(c) ==
  /\ At(c, "preparing")
  /\ CountRun(Req(c))
  /\ call' = [call EXCEPT ![c].pc = "running", ![c].timer = clock + TimeLimit(Req(c))]
  /\ UNCHANGED <<chain, served, busy, allocated, restarts, receives>>

(* What the end of a call gives back: every path but an endpoint's holds a  *)
(* permit, a workload also its resources (Resources::release saturates).    *)
GiveBack(c) ==
  /\ busy' = IF Req(c).kind = "endpoint" THEN busy ELSE busy + 1
  /\ allocated' = IF Req(c).kind # "workload" THEN allocated
                  ELSE IF Req(c).need > allocated THEN 0
                  ELSE allocated - Req(c).need
  /\ Done(c)

(* A result exists: it is signed for the job and answered. *)
Succeed(c) ==
  /\ call[c].pc \in {"running", "detached"}
  /\ results' = results \cup {<<Me, Req(c).key>>}
  /\ GiveBack(c)
  /\ UNCHANGED <<clock, job, vault, ledger, served, executions, restarts, receives>>

(* The kernel or the runtime fails, or a workload's time is up: an error    *)
(* response without a signature.  An endpoint signs its errors too.          *)
Fail(c) ==
  /\ \/ call[c].pc \in {"running", "detached"} /\ Req(c).kind # "endpoint"
     \/ At(c, "preparing")
  /\ GiveBack(c)
  /\ UNCHANGED <<chain, served, executions, restarts, receives>>

(* Mutant: the timeout frees the permit while the task runs on. *)
CutLooseEarly(c) ==
  /\ At(c, "running") /\ Req(c).kind = "kernel"
  /\ clock >= call[c].timer
  /\ busy' = busy + 1
  /\ call' = [call EXCEPT ![c].pc = "detached", ![c].timer = Never]
  /\ UNCHANGED <<chain, served, allocated, executions, restarts, receives>>

(* submit_guarded's timeout: the caller gets an error, the task runs on. *)
CutLoose(c) ==
  /\ At(c, "running") /\ Req(c).kind = "kernel"
  /\ clock >= call[c].timer
  /\ call' = [call EXCEPT ![c].pc = "detached", ![c].timer = Never]
  /\ UNCHANGED <<chain, served, busy, allocated, executions, restarts, receives>>

(* The process dies and starts again: everything but the chain and the      *)
(* results already handed out is memory (main.rs builds AppState anew).     *)
Restart ==
  /\ restarts < MaxRestarts
  /\ restarts' = restarts + 1
  /\ call' = [c \in Calls |-> IdleCall]
  /\ served' = <<>>
  /\ busy' = MaxBusy
  /\ allocated' = 0
  /\ UNCHANGED <<chain, executions, receives>>

-----------------------------------------------------------------------------
(* The system. *)

Init == /\ Chain!Init
        /\ call = [c \in Calls |-> IdleCall]
        /\ served = <<>>
        /\ busy = MaxBusy
        /\ allocated = 0
        /\ executions = [k \in Keys |-> 0]
        /\ restarts = 0
        /\ receives = 0

(* A chain step; time does not pass a timer that is due. *)
ChainStep == /\ Chain!ChainNext
             /\ clock' # clock => \A c \in Calls : clock < call[c].timer
             /\ UNCHANGED node

Admission(c) == \/ \E r \in Requests : Receive(c, r)
                \/ ReadEscrow(c) \/ RpcFails(c) \/ Reserve(c)

Execution(c) == \/ StartKernel(c) \/ StartEndpoint(c) \/ StartWorkload(c)
                \/ Refuse(c) \/ RunWorkload(c)
                \/ Succeed(c) \/ Fail(c) \/ CutLoose(c)

(* The end of the modelled time is no deadlock. *)
EndOfTime == clock = Horizon /\ UNCHANGED vars

Next == \/ ChainStep
        \/ \E c \in Calls : Admission(c) \/ Execution(c)
        \/ Restart
        \/ EndOfTime

Spec == Init /\ [][Next]_vars

(* The runtime polls every handler, the clock runs, and image pulls end.    *)
(* Nothing is assumed of kernels, endpoints or containers: only timers end  *)
(* them.                                                                     *)
Fairness ==
  /\ WF_vars(Chain!Tick /\ ChainStep)
  /\ \A c \in Calls :
       /\ WF_vars(ReadEscrow(c) \/ RpcFails(c) \/ Reserve(c))
       /\ WF_vars(StartKernel(c) \/ StartEndpoint(c) \/ StartWorkload(c) \/ Refuse(c))
       /\ WF_vars(RunWorkload(c))
       /\ WF_vars(CutLoose(c))
       /\ WF_vars(call[c].pc = "running" /\ Req(c).kind = "workload"
                    /\ clock >= call[c].timer /\ Fail(c))

FairSpec == Spec /\ Fairness

-----------------------------------------------------------------------------
(* Properties. *)

TypeOK == /\ Chain!TypeOK
          /\ call \in [Calls -> CallType]
          /\ served \in Seq(Keys) /\ Len(served) <= MaxServed /\ IsInjective(served)
          /\ busy \in Nat
          /\ allocated \in Nat
          /\ executions \in [Keys -> Nat]
          /\ restarts \in Nat
          /\ receives \in Nat

Working(c) == call[c].pc \in {"preparing", "running", "detached"}
HoldsPermit(c) == Working(c) /\ Req(c).kind # "endpoint"
HoldsResources(c) == Working(c) /\ Req(c).kind = "workload"
Units(c) == {c} \X (1 .. Req(c).need)
Held == UNION {Units(c) : c \in {d \in Calls : HoldsResources(d)}}

(* Every path of every handler, with its early returns, failures, timeouts  *)
(* and restarts, gives back exactly the permit and the resources it took:   *)
(* "resources ALWAYS return" (core.rs:800), and the permit of a kernel      *)
(* whose caller timed out stays taken until the work really ends.           *)
ReservationsAccounted ==
  /\ busy + Cardinality({c \in Calls : HoldsPermit(c)}) = MaxBusy
  /\ allocated = Cardinality(Held)
  /\ allocated <= Shared

(* A2 (core.rs:500, payments.rs:195): while the node works for an escrow    *)
(* whose caller is waiting, the deposit it verified has not been returned   *)
(* to the consumer, although the check used a clock read before the RPC and *)
(* the answer travelled; and the deadline has not come.  (A consumer that   *)
(* has paid early may open the account again; that is another deposit.)     *)
NotRefundedWhileWorking ==
  \A c \in Calls :
    call[c].pc \in {"admitted", "preparing", "running"}
      /\ Req(c).pay = "escrow" /\ Req(c).kind # "endpoint"
    => /\ ledger[Req(c).key].creates = call[c].creates
            => ledger[Req(c).key].refunded = call[c].refunded
       /\ clock < call[c].deadline

(* An escrow funds exactly one execution (core.rs:342, RFC-0010:84): the    *)
(* node never starts more runs for a job account than deposits were made    *)
(* into it.                                                                  *)
NoFreeExecution == \A k \in Keys : executions[k] <= ledger[k].creates

(* With payment required, a result signed by this node, which anyone can    *)
(* turn into a payout, comes from a run of this node against a funded job.  *)
SignedWorkWasFunded ==
  RequirePayment => \A k \in Keys : <<Me, k>> \in results =>
                      executions[k] > 0 /\ ledger[k].creates > 0

(* A call that is refused after admission without having run leaves its     *)
(* escrow usable: the set holds escrows "consumed by an admitted job"       *)
(* (core.rs:342), and the refusal says "try again shortly" (core.rs:661).    *)
RefusedIsNotBurned ==
  [][\A c \in Calls : Refuse(c) /\ Req(c).pay = "escrow"
       => Req(c).key \notin Range(served')]_vars

(* The default budget of a container workload covers the image pull         *)
(* (core.rs:738): from the request on it ends within the budget.            *)
PullWithinBudget ==
  \A c \in Calls :
    call[c].pc \in {"preparing", "running"} /\ Req(c).kind = "workload"
    => clock <= call[c].asked + RpcTimeout + TimeLimit(Req(c))

(* Every caller gets an answer, although nothing makes a kernel or a        *)
(* container end: timers cut the caller loose (endpoints have no timer).    *)
CallerAnswered ==
  \A c \in Calls :
    (call[c].pc \notin {"idle", "detached"} /\ Req(c).kind # "endpoint")
      ~> call[c].pc \in {"idle", "detached"}
==============================================================================

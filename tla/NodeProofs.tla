----------------------------- MODULE NodeProofs -----------------------------
(***************************************************************************)
(* Theorems about Node, for every set of keys, requests and handlers, every *)
(* number of permits and units, every time limit and any number of crashes. *)
(***************************************************************************)
EXTENDS Node, FiniteSetTheorems, TLAPS

-----------------------------------------------------------------------------
(* What a step of the chain does to one job account. *)

Same(k) == job'[k] = job[k] /\ ledger'[k] = ledger[k]

Opened(k) == /\ job[k] = NoJob
             /\ job'[k] # NoJob
             /\ job'[k].created = clock
             /\ ledger'[k].creates = ledger[k].creates + 1
             /\ ledger'[k].refunded = ledger[k].refunded

Paid(k) == /\ job'[k] = NoJob
           /\ ledger'[k].creates = ledger[k].creates
           /\ ledger'[k].refunded = ledger[k].refunded

Returned(k) == /\ job[k] # NoJob
               /\ job'[k] = NoJob
               /\ ledger'[k].creates = ledger[k].creates
               /\ \E signer : Chain!RefundAllowed(k, signer)

(* Shares are rounded down, so they stay natural numbers (lib.rs:541). *)
LEMMA CutIsNat ==
  ASSUME NEW a \in Nat, NEW bps \in Nat
  PROVE  Chain!Cut(a, bps) \in Nat
<1>1. a * bps \in Nat
  OBVIOUS
<1> DEFINE x == a * bps
<1> HIDE DEF x
<1>2. x \div 10000 \in Nat
  BY <1>1 DEF x
<1>3. QED
  BY <1>2 DEF Chain!Cut, Chain!BPS, x

(* Creating a job: the account was closed and its history counts one more.  *)
LEMMA InitEffect ==
  ASSUME Chain!TypeOK, NEW k \in Keys, NEW p \in Providers, NEW a \in Amounts,
         NEW t \in Timeouts, NEW s \in Chain!SplitType, Chain!InitJob(k, p, a, t, s)
  PROVE  /\ Chain!TypeOK'
         /\ Opened(k)
         /\ \A i \in Keys : i # k => Same(i)
         /\ UNCHANGED <<clock, results>>
<1>0. a \in Nat /\ t \in Nat /\ NoJob \notin Chain!JobType
  BY NodeAssumption DEF Chain!ConstantsAssumption
<1> DEFINE new == [provider |-> p, amount |-> a, created |-> clock,
                   deadline |-> clock + t, state |-> "Active", split |-> s]
<1>1. /\ job[k] = NoJob
      /\ job' = [job EXCEPT ![k] = new]
      /\ vault' = [vault EXCEPT ![k] = a]
      /\ ledger' = [ledger EXCEPT ![k].creates = @ + 1, ![k].deposited = @ + a]
      /\ UNCHANGED <<clock, results>>
  BY DEF Chain!InitJob, Chain!Open
<1>2. new \in Chain!JobType /\ new # NoJob
  BY <1>0 DEF Chain!TypeOK, Chain!JobType
<1>3. /\ ledger' \in [Keys -> Chain!LedgerType]
      /\ ledger'[k].creates = ledger[k].creates + 1
      /\ ledger'[k].refunded = ledger[k].refunded
      /\ \A i \in Keys : i # k => ledger'[i] = ledger[i]
  <2> DEFINE l == [ledger[k] EXCEPT !.creates = @ + 1, !.deposited = @ + a]
  <2>1. DOMAIN ledger = Keys /\ ledger[k] \in Chain!LedgerType
    BY DEF Chain!TypeOK
  <2>2. ledger' = [ledger EXCEPT ![k] = l]
    BY <1>1, <2>1
  <2>3. /\ l \in Chain!LedgerType
        /\ l.creates = ledger[k].creates + 1
        /\ l.refunded = ledger[k].refunded
    <3> DEFINE m == [ledger[k] EXCEPT !.creates = @ + 1]
    <3>1. /\ m \in Chain!LedgerType
          /\ m.creates = ledger[k].creates + 1
          /\ m.refunded = ledger[k].refunded
      BY <2>1 DEF Chain!LedgerType
    <3>2. l = [m EXCEPT !.deposited = @ + a]
      BY <2>1 DEF Chain!LedgerType
    <3> HIDE DEF m, l
    <3>3. QED
      BY <1>0, <3>1, <3>2 DEF Chain!LedgerType
  <2> HIDE DEF l
  <2>4. QED
    BY <2>1, <2>2, <2>3 DEF Chain!TypeOK
<1>4. /\ job' \in [Keys -> Chain!JobType \cup {NoJob}]
      /\ job'[k] = new
      /\ \A i \in Keys : i # k => job'[i] = job[i]
  BY <1>1, <1>2 DEF Chain!TypeOK
<1>5. vault' \in [Keys -> Nat]
  BY <1>0, <1>1 DEF Chain!TypeOK
<1>6. Chain!TypeOK'
  BY <1>1, <1>3, <1>4, <1>5 DEF Chain!TypeOK
<1>7. QED
  BY <1>1, <1>2, <1>3, <1>4, <1>6 DEF Opened, Same

(* Settling a job: the account closes, nothing is returned. *)
LEMMA SettleEffect ==
  ASSUME Chain!TypeOK, NEW k \in Keys, NEW supplied, Chain!Open(k),
         Chain!Settle(k, supplied), Chain!CloseJob(k), UNCHANGED <<clock, results>>
  PROVE  /\ Chain!TypeOK'
         /\ Paid(k)
         /\ \A i \in Keys : i # k => Same(i)
<1> DEFINE j == job[k]
           f == Chain!Cut(j.amount, Chain!PROTOCOL_FEE_BPS)
           cs == Chain!Cut(j.amount, j.split.storage)
           cu == Chain!Cut(j.amount, j.split.author)
           pr == j.amount - Chain!Deductions(j)
<1>1. /\ job' = [job EXCEPT ![k] = NoJob]
      /\ vault' = [vault EXCEPT ![k] = 0]
      /\ ledger' = [ledger EXCEPT ![k] = Chain!Paid(@, pr, f, cs, cu)]
      /\ Chain!Deductions(j) < j.amount
  BY DEF Chain!CloseJob, Chain!Settle, Chain!SettleChecks
<1>2. j.amount \in Nat /\ j.split.storage \in Nat /\ j.split.author \in Nat
  BY DEF Chain!TypeOK, Chain!Open, Chain!JobType, Chain!SplitType
<1>3. f \in Nat /\ cs \in Nat /\ cu \in Nat
  <2> HIDE DEF j
  <2>1. Chain!PROTOCOL_FEE_BPS \in Nat
    BY DEF Chain!PROTOCOL_FEE_BPS
  <2>2. QED
    BY <1>2, <2>1, CutIsNat
<1>4. Chain!Deductions(j) = f + cs + cu
  BY DEF Chain!Deductions
<1> HIDE DEF f, cs, cu
<1>5. pr \in Nat
  BY <1>1, <1>2, <1>3, <1>4
<1> HIDE DEF pr, j
<1>6. ledger[k] \in Chain!LedgerType
  BY DEF Chain!TypeOK
<1> DEFINE l == Chain!Paid(ledger[k], pr, f, cs, cu)
<1>7. /\ l \in Chain!LedgerType
      /\ l.creates = ledger[k].creates
      /\ l.refunded = ledger[k].refunded
  BY <1>3, <1>5, <1>6 DEF Chain!Paid, Chain!LedgerType
<1> HIDE DEF l
<1>8. ledger' = [ledger EXCEPT ![k] = l]
  BY <1>1 DEF l
<1>9. /\ ledger' \in [Keys -> Chain!LedgerType]
      /\ ledger'[k] = l
      /\ \A i \in Keys : i # k => ledger'[i] = ledger[i]
  BY <1>7, <1>8 DEF Chain!TypeOK
<1>10. /\ job' \in [Keys -> Chain!JobType \cup {NoJob}]
       /\ job'[k] = NoJob
       /\ \A i \in Keys : i # k => job'[i] = job[i]
  BY <1>1 DEF Chain!TypeOK
<1>11. QED
  BY <1>1, <1>7, <1>9, <1>10 DEF Chain!TypeOK, Paid, Same

(* Refunding a job: the account closes, by someone who was allowed to. *)
LEMMA RefundEffect ==
  ASSUME Chain!TypeOK, NEW k \in Keys, NEW signer, Chain!Refund(k, signer)
  PROVE  /\ Chain!TypeOK'
         /\ Returned(k)
         /\ \A i \in Keys : i # k => Same(i)
         /\ UNCHANGED <<clock, results>>
<1>1. /\ job[k] # NoJob
      /\ Chain!RefundAllowed(k, signer)
      /\ job' = [job EXCEPT ![k] = NoJob]
      /\ vault' = [vault EXCEPT ![k] = 0]
      /\ ledger' = [ledger EXCEPT ![k].refunded = @ + job[k].amount]
      /\ UNCHANGED <<clock, results>>
  BY DEF Chain!Refund, Chain!Open, Chain!CloseJob
<1>2. job[k].amount \in Nat
  BY <1>1 DEF Chain!TypeOK, Chain!JobType
<1>3. /\ ledger' \in [Keys -> Chain!LedgerType]
      /\ ledger'[k].creates = ledger[k].creates
      /\ \A i \in Keys : i # k => ledger'[i] = ledger[i]
  BY <1>1, <1>2 DEF Chain!TypeOK, Chain!LedgerType
<1>4. /\ job' \in [Keys -> Chain!JobType \cup {NoJob}]
      /\ job'[k] = NoJob
      /\ \A i \in Keys : i # k => job'[i] = job[i]
  BY <1>1 DEF Chain!TypeOK
<1>5. QED
  BY <1>1, <1>3, <1>4 DEF Chain!TypeOK, Returned, Same

(* A step of the chain keeps its types, touches one account at most, and    *)
(* moves the clock by one only when it touches none.                         *)
LEMMA ChainEffect ==
  ASSUME Chain!TypeOK, Chain!ChainNext
  PROVE  /\ Chain!TypeOK'
         /\ results' = results
         /\ \A k \in Keys : Same(k) \/ Opened(k) \/ Paid(k) \/ Returned(k)
         /\ \/ clock' = clock
            \/ /\ clock < Horizon
               /\ clock' = clock + 1
               /\ \A k \in Keys : Same(k)
<1>1. ASSUME NEW k \in Keys, NEW p \in Providers, NEW a \in Amounts, NEW t \in Timeouts,
             Chain!CreateJob(k, p, a, t)
             \/ \E s \in Splits : Chain!CreateJobSplit(k, p, a, t, s)
      PROVE  /\ Chain!TypeOK'
             /\ Opened(k)
             /\ \A i \in Keys : i # k => Same(i)
             /\ UNCHANGED <<clock, results>>
  <2>1. PICK s \in Chain!SplitType : Chain!InitJob(k, p, a, t, s)
    BY <1>1, NodeAssumption DEF Chain!ConstantsAssumption, Chain!CreateJob,
       Chain!CreateJobSplit, Chain!NoSplit, Chain!SplitType
  <2>2. QED
    BY <2>1, InitEffect
<1>2. ASSUME NEW k \in Keys, NEW supplied,
             Chain!Release(k, supplied) \/ Chain!ReleaseVerified(k, supplied)
      PROVE  /\ Chain!TypeOK'
             /\ Paid(k)
             /\ \A i \in Keys : i # k => Same(i)
             /\ UNCHANGED <<clock, results>>
  BY <1>2, SettleEffect DEF Chain!Release, Chain!ReleaseVerified
<1>3. CASE Chain!Tick
  BY <1>3 DEF Chain!Tick, Chain!TypeOK, Same
<1>4. QED
  BY <1>1, <1>2, <1>3, RefundEffect DEF Chain!ChainNext

-----------------------------------------------------------------------------
(* What a step of a handler does to its call record. *)

Others(c) == \A d \in Calls : d # c => call'[d] = call[d]

(* Handler c goes on at pc with timer t and keeps what it knows. *)
Goes(c, pc, t) ==
  /\ call' \in [Calls -> CallType]
  /\ Others(c)
  /\ call'[c].pc = pc /\ call'[c].timer = t
  /\ call'[c].req = call[c].req /\ call'[c].asked = call[c].asked
  /\ call'[c].deadline = call[c].deadline
  /\ call'[c].creates = call[c].creates /\ call'[c].refunded = call[c].refunded

Ends(c) == /\ call' \in [Calls -> CallType]
           /\ Others(c)
           /\ call'[c] = IdleCall

(* Setting the program counter and the timer leaves the rest of the record. *)
LEMMA GoesOn ==
  ASSUME call \in [Calls -> CallType], NEW c \in Calls,
         NEW pc \in {"admitted", "preparing", "running", "detached"}, NEW t \in Nat,
         call' = [call EXCEPT ![c].pc = pc, ![c].timer = t]
  PROVE  Goes(c, pc, t)
<1> DEFINE m == [call[c] EXCEPT !.pc = pc]
           n == [m EXCEPT !.timer = t]
<1>1. m \in CallType /\ m.pc = pc
  BY DEF CallType
<1>2. /\ m.req = call[c].req /\ m.asked = call[c].asked
      /\ m.deadline = call[c].deadline
      /\ m.creates = call[c].creates /\ m.refunded = call[c].refunded
  BY DEF CallType
<1> HIDE DEF m
<1>3. n \in CallType /\ n.pc = pc /\ n.timer = t
  BY <1>1 DEF CallType
<1>4. /\ n.req = call[c].req /\ n.asked = call[c].asked
      /\ n.deadline = call[c].deadline
      /\ n.creates = call[c].creates /\ n.refunded = call[c].refunded
  BY <1>1, <1>2 DEF CallType
<1>5. call' = [call EXCEPT ![c] = n]
  BY DEF m
<1> HIDE DEF n
<1>6. QED
  BY <1>3, <1>4, <1>5 DEF Goes, Others

(* The idle record is one. *)
LEMMA IdleTyped ==
  /\ IdleCall \in CallType
  /\ IdleCall.pc = "idle" /\ IdleCall.req = NoReq /\ IdleCall.asked = 0
  /\ IdleCall.timer = Never /\ IdleCall.deadline = 0
  /\ IdleCall.creates = 0 /\ IdleCall.refunded = 0
BY NodeAssumption DEF Chain!ConstantsAssumption, IdleCall, CallType, Never

(* A handler that is done is idle. *)
LEMMA EndsIdle ==
  ASSUME call \in [Calls -> CallType], NEW c \in Calls, Done(c)
  PROVE  Ends(c)
<1>1. call' = [call EXCEPT ![c] = IdleCall] /\ IdleCall \in CallType
  BY IdleTyped DEF Done
<1>2. QED
  BY <1>1 DEF Ends, Others

(* A busy handler has a request; only workloads are prepared, only kernels   *)
(* outlive their caller, and with payment required all carry an escrow.      *)
CallShape ==
  \A c \in Calls :
    /\ call[c].pc = "idle" => call[c] = IdleCall
    /\ call[c].pc # "idle" => Req(c) \in Requests
    /\ call[c].pc \in {"verifying", "verified"} => Req(c).pay = "escrow"
    /\ call[c].pc # "idle" /\ RequirePayment => Req(c).pay = "escrow"
    /\ At(c, "preparing") => Req(c).kind = "workload"
    /\ At(c, "detached") => Req(c).kind = "kernel"

(* ServedEscrows never holds an escrow twice and never exceeds its bound.   *)
LEMMA InsertTyped ==
  ASSUME served \in Seq(Keys), Len(served) <= MaxServed, IsInjective(served),
         NEW k \in Keys, Insert(k)
  PROVE  /\ served' \in Seq(Keys)
         /\ Len(served') <= MaxServed
         /\ IsInjective(served')
<1> DEFINE longer == Append(served, k)
<1>1. CASE WasServed(k)
  BY <1>1 DEF Insert
<1>2. CASE ~ WasServed(k)
  <2>1. /\ longer \in Seq(Keys)
        /\ Len(longer) = Len(served) + 1
        /\ Len(served) \in Nat
        /\ \A i \in 1 .. Len(served) : longer[i] = served[i]
        /\ longer[Len(served) + 1] = k
    OBVIOUS
  <2>2. \A i \in 1 .. Len(served) : served[i] # k
    BY <1>2 DEF WasServed, Range
  <2>3. \A i, j \in 1 .. Len(longer) : longer[i] = longer[j] => i = j
    BY <2>1, <2>2 DEF IsInjective
  <2> HIDE DEF longer
  <2>4. CASE Len(longer) > MaxServed
    <3>1. served' = Tail(longer)
      BY <1>2, <2>4 DEF Insert, longer
    <3>2. /\ Tail(longer) \in Seq(Keys)
          /\ Len(Tail(longer)) = Len(served)
          /\ \A i \in 1 .. Len(served) : Tail(longer)[i] = longer[i + 1]
      BY <2>1
    <3>3. \A i, j \in 1 .. Len(served) : Tail(longer)[i] = Tail(longer)[j] => i = j
      BY <2>1, <2>3, <3>2
    <3>4. DOMAIN Tail(longer) = 1 .. Len(served)
      BY <3>2
    <3>5. QED
      BY <3>1, <3>2, <3>3, <3>4 DEF IsInjective
  <2>5. CASE ~ Len(longer) > MaxServed
    <3>1. served' = longer
      BY <1>2, <2>5 DEF Insert, longer
    <3>2. DOMAIN longer = 1 .. Len(longer)
      BY <2>1
    <3>3. MaxServed \in Nat
      BY NodeAssumption
    <3>4. QED
      BY <2>1, <2>3, <2>5, <3>1, <3>2, <3>3 DEF IsInjective
  <2>6. QED
    BY <2>4, <2>5
<1>3. QED
  BY <1>1, <1>2

(* A request is fresh: its record starts from the idle one. *)
Begins(c, r, pc, t) ==
  /\ call' \in [Calls -> CallType]
  /\ Others(c)
  /\ call'[c].pc = pc /\ call'[c].req = r /\ call'[c].timer = t
  /\ call'[c].asked = clock

LEMMA ReceiveEffect ==
  ASSUME TypeOK, NEW c \in Calls, NEW r \in Requests, Receive(c, r)
  PROVE  /\ At(c, "idle")
         /\ \/ /\ r.pay = "escrow"
               /\ Begins(c, r, "verifying", clock + RpcTimeout)
            \/ /\ r.pay # "escrow"
               /\ ~ RequirePayment
               /\ Begins(c, r, "admitted", clock)
         /\ receives' = receives + 1
         /\ UNCHANGED <<chain, served, busy, allocated, executions, restarts>>
<1>1. /\ r \in RequestType /\ clock \in Nat /\ clock + RpcTimeout \in Nat
      /\ call \in [Calls -> CallType]
  BY NodeAssumption DEF TypeOK, Chain!TypeOK
<1>2. ASSUME NEW pc \in {"verifying", "admitted"}, NEW t \in Nat,
             call' = [call EXCEPT ![c] = [IdleCall EXCEPT
                        !.pc = pc, !.req = r, !.asked = clock, !.timer = t]]
      PROVE  Begins(c, r, pc, t)
  <2> DEFINE n == [IdleCall EXCEPT !.pc = pc, !.req = r, !.asked = clock, !.timer = t]
  <2>1. n \in CallType
    BY <1>1, IdleTyped DEF CallType
  <2>2. n.pc = pc /\ n.req = r /\ n.timer = t /\ n.asked = clock
    BY IdleTyped DEF CallType
  <2> HIDE DEF n
  <2>3. call' = [call EXCEPT ![c] = n]
    BY <1>2 DEF n
  <2>4. QED
    BY <1>1, <2>1, <2>2, <2>3 DEF Begins, Others
<1>3. QED
  BY <1>1, <1>2 DEF Receive

(* The answer of the RPC node is written down, or the call ends. *)
Learns(c) ==
  /\ call' \in [Calls -> CallType]
  /\ Others(c)
  /\ call'[c].pc = "verified" /\ call'[c].timer = call[c].timer
  /\ call'[c].req = call[c].req /\ call'[c].asked = call[c].asked
  /\ call'[c].deadline = job[Req(c).key].deadline
  /\ call'[c].creates = ledger[Req(c).key].creates
  /\ call'[c].refunded = ledger[Req(c).key].refunded

LEMMA ReadEffect ==
  ASSUME TypeOK, CallShape, NEW c \in Calls, ReadEscrow(c)
  PROVE  /\ At(c, "verifying")
         /\ Ends(c) \/ (Verifies(c) /\ Learns(c))
         /\ UNCHANGED <<chain, served, busy, allocated, executions, restarts, receives>>
<1>1. call \in [Calls -> CallType] /\ At(c, "verifying")
  BY DEF TypeOK, ReadEscrow
<1>2. ASSUME Verifies(c)
      PROVE  Learns(c)
  <2> DEFINE k == Req(c).key
             n == [call[c] EXCEPT !.pc = "verified", !.deadline = job[k].deadline,
                                  !.creates = ledger[k].creates,
                                  !.refunded = ledger[k].refunded]
  <2>1. /\ k \in Keys
        /\ job[k].deadline \in Nat
        /\ ledger[k].creates \in Nat /\ ledger[k].refunded \in Nat
    <3>1. k \in Keys
      BY <1>1, NodeAssumption DEF CallShape, At, Req, RequestType
    <3>2. job[k] \in Chain!JobType /\ ledger[k] \in Chain!LedgerType
      BY <1>2, <3>1 DEF TypeOK, Chain!TypeOK, Verifies
    <3>3. QED
      BY <3>1, <3>2 DEF Chain!JobType, Chain!LedgerType
  <2>2. n \in CallType
    BY <1>1, <2>1 DEF CallType
  <2>3. /\ n.pc = "verified" /\ n.timer = call[c].timer
        /\ n.req = call[c].req /\ n.asked = call[c].asked
    BY <1>1 DEF CallType
  <2>4. /\ n.deadline = job[k].deadline
        /\ n.creates = ledger[k].creates
        /\ n.refunded = ledger[k].refunded
    BY <1>1 DEF CallType
  <2>5. call' = [call EXCEPT ![c] = n]
    BY <1>1, <1>2 DEF ReadEscrow
  <2> HIDE DEF n
  <2>6. call' \in [Calls -> CallType] /\ call'[c] = n /\ Others(c)
    BY <1>1, <2>2, <2>5 DEF Others
  <2>7. QED
    BY <2>3, <2>4, <2>6 DEF Learns
<1>3. QED
  BY <1>1, <1>2, EndsIdle DEF ReadEscrow

(* A requested duration is cut at the cap (core.rs:797). *)
LEMMA TimeLimitTyped ==
  ASSUME NEW r \in Requests
  PROVE  TimeLimit(r) \in Nat
<1>1. r \in RequestType /\ {JobTimeout, WorkloadTimeout, MaxWorkload} \subseteq Nat
  BY NodeAssumption
<1>2. r.dur \in Nat
  BY <1>1 DEF RequestType
<1>3. Min({r.dur, MaxWorkload}) \in {r.dur, MaxWorkload}
  <2> DEFINE m == IF r.dur <= MaxWorkload THEN r.dur ELSE MaxWorkload
  <2>1. m \in {r.dur, MaxWorkload} /\ \A y \in {r.dur, MaxWorkload} : m <= y
    BY <1>1, <1>2
  <2>2. QED
    BY <2>1 DEF Min
<1>4. QED
  BY <1>1, <1>2, <1>3 DEF TimeLimit

(* What every other step of a handler does to its record. *)
LEMMA HandlerEffect ==
  ASSUME TypeOK, CallShape, NEW c \in Calls
  PROVE  /\ Reserve(c) => Goes(c, "admitted", clock)
         /\ StartKernel(c) => Goes(c, "running", clock + TimeLimit(Req(c)))
         /\ StartEndpoint(c) => Goes(c, "running", Never)
         /\ StartWorkload(c) => Goes(c, "preparing", clock + MaxPrepare)
         /\ RunWorkload(c) => Goes(c, "running", clock + TimeLimit(Req(c)))
         /\ CutLoose(c) => Goes(c, "detached", Never)
         /\ RpcFails(c) \/ Refuse(c) \/ Succeed(c) \/ Fail(c) => Ends(c)
<1>1. call \in [Calls -> CallType] /\ clock \in Nat
  BY DEF TypeOK, Chain!TypeOK
<1>2. Never \in Nat /\ clock + MaxPrepare \in Nat
  BY <1>1, NodeAssumption DEF Never, Chain!ConstantsAssumption
<1>3. ASSUME call[c].pc # "idle"
      PROVE  clock + TimeLimit(Req(c)) \in Nat
  BY <1>1, <1>3, TimeLimitTyped DEF CallShape
<1>4. Reserve(c) => Goes(c, "admitted", clock)
  BY <1>1, GoesOn DEF Reserve
<1>5. StartKernel(c) => Goes(c, "running", clock + TimeLimit(Req(c)))
  BY <1>1, <1>3, GoesOn DEF StartKernel, At
<1>6. StartEndpoint(c) => Goes(c, "running", Never)
  BY <1>1, <1>2, GoesOn DEF StartEndpoint
<1>7. StartWorkload(c) => Goes(c, "preparing", clock + MaxPrepare)
  BY <1>1, <1>2, GoesOn DEF StartWorkload
<1>8. RunWorkload(c) => Goes(c, "running", clock + TimeLimit(Req(c)))
  BY <1>1, <1>3, GoesOn DEF RunWorkload, At
<1>9. CutLoose(c) => Goes(c, "detached", Never)
  BY <1>1, <1>2, GoesOn DEF CutLoose
<1>10. RpcFails(c) \/ Refuse(c) \/ Succeed(c) \/ Fail(c) => Ends(c)
  BY <1>1, EndsIdle DEF RpcFails, Refuse, Succeed, Fail, GiveBack
<1>11. QED
  BY <1>4, <1>5, <1>6, <1>7, <1>8, <1>9, <1>10

(* The shape of the records survives a step of a handler. *)
LEMMA ShapeSteps ==
  ASSUME CallShape, NEW c \in Calls
  PROVE  /\ Ends(c) => CallShape'
         /\ call[c].pc # "idle" /\ Learns(c)
              /\ Req(c).pay = "escrow" => CallShape'
         /\ \A r \in Requests, t \in Nat :
              /\ r.pay = "escrow" /\ Begins(c, r, "verifying", t) => CallShape'
              /\ ~ RequirePayment /\ Begins(c, r, "admitted", t) => CallShape'
         /\ \A t \in Nat : call[c].pc # "idle" =>
              /\ Goes(c, "admitted", t) => CallShape'
              /\ Goes(c, "running", t) => CallShape'
              /\ Req(c).kind = "workload" /\ Goes(c, "preparing", t) => CallShape'
              /\ Req(c).kind = "kernel" /\ Goes(c, "detached", t) => CallShape'
<1> USE IdleTyped DEF CallShape, At, Req, Others
<1>1. Ends(c) => CallShape'
  BY DEF Ends
<1>2. call[c].pc # "idle" /\ Learns(c) /\ Req(c).pay = "escrow" => CallShape'
  BY DEF Learns
<1>3. ASSUME NEW r \in Requests, NEW t \in Nat
      PROVE  /\ r.pay = "escrow" /\ Begins(c, r, "verifying", t) => CallShape'
             /\ ~ RequirePayment /\ Begins(c, r, "admitted", t) => CallShape'
  BY DEF Begins
<1>4. ASSUME NEW t \in Nat, call[c].pc # "idle"
      PROVE  /\ Goes(c, "admitted", t) => CallShape'
             /\ Goes(c, "running", t) => CallShape'
             /\ Req(c).kind = "workload" /\ Goes(c, "preparing", t) => CallShape'
             /\ Req(c).kind = "kernel" /\ Goes(c, "detached", t) => CallShape'
  BY <1>4 DEF Goes
<1>5. QED
  BY <1>1, <1>2, <1>3, <1>4

-----------------------------------------------------------------------------
(* Type correctness. *)

(* The request of a busy handler. *)
LEMMA RequestTyped ==
  ASSUME CallShape, NEW c \in Calls, call[c].pc # "idle"
  PROVE  /\ Req(c) \in Requests
         /\ Req(c).key \in Keys
         /\ Req(c).need \in Nat
         /\ Req(c).kind \in {"kernel", "endpoint", "workload"}
<1>1. Req(c) \in Requests /\ Req(c) \in RequestType
  BY NodeAssumption DEF CallShape
<1>2. QED
  BY <1>1 DEF RequestType

(* Counting a run keeps the counters natural numbers. *)
LEMMA CountTyped ==
  ASSUME executions \in [Keys -> Nat], CallShape, NEW c \in Calls,
         call[c].pc # "idle", CountRun(Req(c))
  PROVE  executions' \in [Keys -> Nat]
<1>1. Req(c).key \in Keys
  BY RequestTyped
<1>2. QED
  BY <1>1 DEF CountRun

(* What the end of a call gives back keeps the counters natural numbers. *)
LEMMA GiveBackTyped ==
  ASSUME busy \in Nat, allocated \in Nat, CallShape, NEW c \in Calls,
         call[c].pc # "idle", GiveBack(c)
  PROVE  busy' \in Nat /\ allocated' \in Nat
<1>1. Req(c).need \in Nat
  BY RequestTyped
<1>2. QED
  BY <1>1 DEF GiveBack

(* Admission keeps the types and the shape. *)
LEMMA AdmissionTyped ==
  ASSUME TypeOK, CallShape, NEW c \in Calls, Admission(c)
  PROVE  TypeOK' /\ CallShape'
<1> USE DEF TypeOK, chain
<1>0. clock \in Nat /\ RpcTimeout \in Nat
  BY NodeAssumption DEF Chain!TypeOK
<1>1. ASSUME NEW r \in Requests, Receive(c, r)
      PROVE  TypeOK' /\ CallShape'
  <2>1. /\ \/ /\ r.pay = "escrow"
              /\ Begins(c, r, "verifying", clock + RpcTimeout)
           \/ /\ r.pay # "escrow"
              /\ ~ RequirePayment
              /\ Begins(c, r, "admitted", clock)
        /\ receives' = receives + 1
        /\ UNCHANGED <<chain, served, busy, allocated, executions, restarts>>
    BY <1>1, ReceiveEffect
  <2>2. CallShape'
    BY <1>0, <2>1, ShapeSteps
  <2>3. TypeOK'
    BY <2>1 DEF Begins, Chain!TypeOK
  <2>4. QED
    BY <2>2, <2>3
<1>2. CASE ReadEscrow(c)
  <2>1. /\ At(c, "verifying")
        /\ Ends(c) \/ (Verifies(c) /\ Learns(c))
        /\ UNCHANGED <<chain, served, busy, allocated, executions, restarts, receives>>
    BY <1>2, ReadEffect
  <2>2. CallShape'
    BY <2>1, ShapeSteps DEF At, CallShape
  <2>3. TypeOK'
    BY <2>1 DEF Ends, Learns, Chain!TypeOK
  <2>4. QED
    BY <2>2, <2>3
<1>3. CASE RpcFails(c)
  <2>1. Ends(c)
    BY <1>3, HandlerEffect
  <2>2. QED
    BY <1>3, <2>1, ShapeSteps DEF RpcFails, Ends, Chain!TypeOK
<1>4. CASE Reserve(c)
  <2>1. Goes(c, "admitted", clock) /\ call[c].pc # "idle"
    BY <1>4, HandlerEffect DEF Reserve, At
  <2>2. CallShape'
    BY <1>0, <2>1, ShapeSteps
  <2>3. served' \in Seq(Keys) /\ Len(served') <= MaxServed /\ IsInjective(served')
    BY <1>4, <2>1, RequestTyped, InsertTyped DEF Reserve
  <2>4. QED
    BY <1>4, <2>1, <2>2, <2>3 DEF Reserve, Goes, Chain!TypeOK
<1>5. QED
  BY <1>1, <1>2, <1>3, <1>4 DEF Admission

(* Execution keeps the types and the shape. *)
LEMMA ExecutionTyped ==
  ASSUME TypeOK, CallShape, NEW c \in Calls, Execution(c)
  PROVE  TypeOK' /\ CallShape'
<1> USE DEF TypeOK, chain
<1>0. /\ clock \in Nat /\ Never \in Nat /\ clock + MaxPrepare \in Nat
      /\ call[c].pc # "idle" => clock + TimeLimit(Req(c)) \in Nat
  BY NodeAssumption, TimeLimitTyped
     DEF Chain!TypeOK, Never, Chain!ConstantsAssumption, CallShape
<1>1. CASE StartKernel(c)
  <2>1. Goes(c, "running", clock + TimeLimit(Req(c))) /\ call[c].pc # "idle"
    BY <1>1, HandlerEffect DEF StartKernel, At
  <2>2. busy' \in Nat /\ executions' \in [Keys -> Nat]
    BY <1>1, <2>1, CountTyped DEF StartKernel
  <2>3. QED
    BY <1>0, <1>1, <2>1, <2>2, ShapeSteps DEF StartKernel, Goes, Chain!TypeOK
<1>2. CASE StartEndpoint(c)
  <2>1. Goes(c, "running", Never) /\ call[c].pc # "idle"
    BY <1>2, HandlerEffect DEF StartEndpoint, At
  <2>2. executions' \in [Keys -> Nat]
    BY <1>2, <2>1, CountTyped DEF StartEndpoint
  <2>3. QED
    BY <1>0, <1>2, <2>1, <2>2, ShapeSteps DEF StartEndpoint, Goes, Chain!TypeOK
<1>3. CASE StartWorkload(c)
  <2>1. /\ Goes(c, "preparing", clock + MaxPrepare) /\ call[c].pc # "idle"
        /\ Req(c).kind = "workload"
    BY <1>3, HandlerEffect DEF StartWorkload, At
  <2>2. busy' \in Nat /\ allocated' \in Nat
    BY <1>3, <2>1, RequestTyped DEF StartWorkload
  <2>3. QED
    BY <1>0, <1>3, <2>1, <2>2, ShapeSteps DEF StartWorkload, Goes, Chain!TypeOK
<1>4. CASE Refuse(c)
  <2>1. Ends(c)
    BY <1>4, HandlerEffect
  <2>2. QED
    BY <1>4, <2>1, ShapeSteps DEF Refuse, Ends, Chain!TypeOK
<1>5. CASE RunWorkload(c)
  <2>1. Goes(c, "running", clock + TimeLimit(Req(c))) /\ call[c].pc # "idle"
    BY <1>5, HandlerEffect DEF RunWorkload, At
  <2>2. executions' \in [Keys -> Nat]
    BY <1>5, <2>1, CountTyped DEF RunWorkload
  <2>3. QED
    BY <1>0, <1>5, <2>1, <2>2, ShapeSteps DEF RunWorkload, Goes, Chain!TypeOK
<1>6. CASE Succeed(c)
  <2>1. Ends(c) /\ call[c].pc # "idle" /\ GiveBack(c)
    BY <1>6, HandlerEffect DEF Succeed
  <2>2. busy' \in Nat /\ allocated' \in Nat
    BY <2>1, GiveBackTyped
  <2>3. results' \subseteq Providers \X Keys
    BY <1>6, <2>1, RequestTyped, NodeAssumption DEF Succeed, Chain!TypeOK
  <2>4. QED
    BY <1>6, <2>1, <2>2, <2>3, ShapeSteps DEF Succeed, Ends, Chain!TypeOK
<1>7. CASE Fail(c)
  <2>1. Ends(c) /\ call[c].pc # "idle" /\ GiveBack(c)
    BY <1>7, HandlerEffect DEF Fail, At
  <2>2. busy' \in Nat /\ allocated' \in Nat
    BY <2>1, GiveBackTyped
  <2>3. QED
    BY <1>7, <2>1, <2>2, ShapeSteps DEF Fail, Ends, Chain!TypeOK
<1>8. CASE CutLoose(c)
  <2>1. /\ Goes(c, "detached", Never) /\ call[c].pc # "idle"
        /\ Req(c).kind = "kernel"
    BY <1>8, HandlerEffect DEF CutLoose, At
  <2>2. QED
    BY <1>0, <1>8, <2>1, ShapeSteps DEF CutLoose, Goes, Chain!TypeOK
<1>9. QED
  BY <1>1, <1>2, <1>3, <1>4, <1>5, <1>6, <1>7, <1>8 DEF Execution

(* A restart leaves every handler idle. *)
LEMMA RestartTyped ==
  ASSUME TypeOK, Restart
  PROVE  /\ TypeOK' /\ CallShape'
         /\ \A c \in Calls : call'[c] = IdleCall
<1>1. \A c \in Calls : call'[c] = IdleCall
  BY DEF Restart
<1>2. call' \in [Calls -> CallType]
  BY IdleTyped DEF Restart
<1>3. CallShape'
  BY <1>1, IdleTyped DEF CallShape, At, Req
<1>4. served' \in Seq(Keys) /\ Len(served') <= MaxServed /\ IsInjective(served')
  BY NodeAssumption DEF Restart, IsInjective
<1>5. TypeOK'
  BY <1>2, <1>4, NodeAssumption DEF Restart, TypeOK, chain, Chain!TypeOK
<1>6. QED
  BY <1>1, <1>3, <1>5

(* No step, of the node or of the chain, takes the state out of its type. *)
LEMMA TypeStep ==
  ASSUME TypeOK, CallShape, [Next]_vars
  PROVE  TypeOK' /\ CallShape'
<1>1. CASE ChainStep
  <2>1. UNCHANGED node /\ Chain!TypeOK'
    BY <1>1, ChainEffect DEF ChainStep, TypeOK
  <2>2. QED
    BY <2>1 DEF node, TypeOK, CallShape, At, Req
<1>2. CASE EndOfTime \/ UNCHANGED vars
  BY <1>2 DEF EndOfTime, vars, chain, node, TypeOK, Chain!TypeOK, CallShape, At, Req
<1>3. QED
  BY <1>1, <1>2, AdmissionTyped, ExecutionTyped, RestartTyped DEF Next

LEMMA InitTyped == Init => TypeOK /\ CallShape
<1> SUFFICES ASSUME Init PROVE TypeOK /\ CallShape
  OBVIOUS
<1>1. Chain!TypeOK
  BY DEF Init, Chain!Init, Chain!TypeOK, Chain!LedgerType
<1>2. call \in [Calls -> CallType] /\ CallShape
  BY IdleTyped DEF Init, CallShape, At, Req
<1>3. served \in Seq(Keys) /\ Len(served) <= MaxServed /\ IsInjective(served)
  BY NodeAssumption DEF Init, IsInjective
<1>4. QED
  BY <1>1, <1>2, <1>3, NodeAssumption DEF Init, TypeOK

(* Type correctness of the node and the chain under it; in particular the   *)
(* set of served escrows stays within its bound and holds each escrow once   *)
(* (core.rs:347).                                                            *)
THEOREM NodeTypeCorrect == Spec => []TypeOK
<1>1. (TypeOK /\ CallShape) /\ [Next]_vars => (TypeOK /\ CallShape)'
  BY TypeStep
<1>2. QED
  BY InitTyped, <1>1, PTL DEF Spec

(* The handlers' view of the chain is the chain's own: whatever a node does *)
(* besides signing results leaves no trace there, so what is proved of every *)
(* behaviour of Escrow holds under this node.                                *)
THEOREM NodeOnlySigns == Spec => Chain!Spec
<1>1. (TypeOK /\ CallShape) /\ [Next]_vars => (TypeOK /\ CallShape)'
  BY TypeStep
<1>2. TypeOK /\ CallShape /\ [Next]_vars => [Chain!Next]_(Chain!vars)
  <2> SUFFICES ASSUME TypeOK, CallShape, [Next]_vars
               PROVE  Chain!Next \/ UNCHANGED Chain!vars
    OBVIOUS
  <2> USE DEF chain, Chain!vars
  <2>1. CASE ChainStep
    BY <2>1 DEF ChainStep, Chain!Next
  <2>2. ASSUME NEW c \in Calls, Admission(c)
        PROVE  UNCHANGED Chain!vars
    BY <2>2 DEF Admission, Receive, ReadEscrow, RpcFails, Reserve
  <2>3. ASSUME NEW c \in Calls, Execution(c), ~ Succeed(c)
        PROVE  UNCHANGED Chain!vars
    BY <2>3 DEF Execution, StartKernel, StartEndpoint, StartWorkload, Refuse,
                RunWorkload, Fail, CutLoose
  <2>4. ASSUME NEW c \in Calls, Succeed(c)
        PROVE  Chain!Next
    <3>1. Me \in Providers /\ Req(c).key \in Keys
      BY <2>4, RequestTyped, NodeAssumption DEF Succeed
    <3>2. Chain!SignResult(Me, Req(c).key)
      BY <2>4 DEF Succeed, Chain!SignResult
    <3>3. QED
      BY <3>1, <3>2 DEF Chain!Next
  <2>5. CASE Restart \/ EndOfTime \/ UNCHANGED vars
    BY <2>5 DEF Restart, EndOfTime, vars
  <2>6. QED
    BY <2>1, <2>2, <2>3, <2>4, <2>5 DEF Next
<1>3. Init => Chain!Init
  BY DEF Init
<1>4. QED
  BY InitTyped, <1>1, <1>2, <1>3, PTL DEF Spec, Chain!Spec

-----------------------------------------------------------------------------
(* Permits and resources. *)

Holders == {c \in Calls : HoldsPermit(c)}

(* The units a handler holds are as many as its request asks for. *)
LEMMA UnitsCount ==
  ASSUME NEW c, Req(c).need \in Nat
  PROVE  IsFiniteSet(Units(c)) /\ Cardinality(Units(c)) = Req(c).need
<1> DEFINE n == Req(c).need
<1>1. IsFiniteSet(1 .. n) /\ Cardinality(1 .. n) = n
  BY FS_Interval
<1>2. IsFiniteSet({c}) /\ Cardinality({c}) = 1
  BY FS_Singleton
<1>3. /\ IsFiniteSet({c} \X (1 .. n))
      /\ Cardinality({c} \X (1 .. n)) = 1 * n
  BY <1>1, <1>2, FS_Product
<1>4. QED
  BY <1>3 DEF Units

(* Taking elements that were not there adds their number. *)
LEMMA DisjointCount ==
  ASSUME NEW S, NEW T, IsFiniteSet(S), IsFiniteSet(T), S \cap T = {}
  PROVE  /\ IsFiniteSet(S \cup T)
         /\ Cardinality(S \cup T) = Cardinality(S) + Cardinality(T)
<1>1. Cardinality(S) \in Nat /\ Cardinality(T) \in Nat
  BY FS_CardinalityType
<1>2. QED
  BY <1>1, FS_Union, FS_EmptySet

(* A handler that starts to hold resources adds its units, one that stops   *)
(* takes them away, and they are no one else's.                              *)
LEMMA HeldChange ==
  ASSUME NEW c \in Calls, Others(c), call'[c].req = call[c].req
  PROVE  /\ ~ HoldsResources(c) /\ HoldsResources(c)'
              => Held' = Held \cup Units(c) /\ Held \cap Units(c) = {}
         /\ HoldsResources(c)' = HoldsResources(c) => Held' = Held
<1>1. \A d \in Calls : d # c => (HoldsResources(d)' <=> HoldsResources(d))
  BY DEF Others, HoldsResources, Working, Req
<1>2. \A d \in Calls : Units(d)' = Units(d)
  BY DEF Others, Units, Req
<1>3. QED
  BY <1>1, <1>2 DEF Held, Units

(* The same when the record of the handler is cleared. *)
LEMMA HeldCleared ==
  ASSUME NEW c \in Calls, Ends(c)
  PROVE  /\ HoldsResources(c)
              => Held = Held' \cup Units(c) /\ Held' \cap Units(c) = {}
         /\ ~ HoldsResources(c) => Held' = Held
<1>1. \A d \in Calls : d # c => /\ HoldsResources(d)' <=> HoldsResources(d)
                                /\ Units(d)' = Units(d)
  BY DEF Ends, Others, HoldsResources, Working, Req, Units
<1>2. ~ HoldsResources(c)'
  BY IdleTyped DEF Ends, HoldsResources, Working
<1>3. QED
  BY <1>1, <1>2 DEF Held, Units

(* The holders of permits change by the handler that moves. *)
LEMMA HoldersChange ==
  ASSUME NEW c \in Calls, Others(c)
  PROVE  /\ ~ HoldsPermit(c) /\ HoldsPermit(c)'
              => Holders' = Holders \cup {c} /\ c \notin Holders
         /\ HoldsPermit(c) /\ ~ HoldsPermit(c)'
              => Holders = Holders' \cup {c} /\ c \notin Holders'
         /\ HoldsPermit(c)' = HoldsPermit(c) => Holders' = Holders
<1>1. \A d \in Calls : d # c => (HoldsPermit(d)' <=> HoldsPermit(d))
  BY DEF Others, HoldsPermit, Working, Req
<1>2. QED
  BY <1>1 DEF Holders

(* The inductive form: what is held is finite. *)
Counts == ReservationsAccounted /\ IsFiniteSet(Held)

(* A step that changes neither who holds a permit nor who holds resources.  *)
LEMMA CountsQuiet ==
  ASSUME Counts, Holders' = Holders, Held' = Held, UNCHANGED <<busy, allocated>>
  PROVE  Counts'
BY DEF Counts, ReservationsAccounted, Holders

(* A handler takes a permit; a workload takes its resources too. *)
LEMMA TakeCounts ==
  ASSUME TypeOK, Counts, CallShape, NEW c \in Calls,
         Others(c), call'[c].req = call[c].req, ~ Working(c), Working(c)',
         call[c].pc # "idle", Req(c).kind # "endpoint",
         busy' = busy - 1,
         \/ Req(c).kind = "kernel" /\ allocated' = allocated
         \/ /\ Req(c).kind = "workload" /\ Fits(Req(c))
            /\ allocated' = allocated + Req(c).need
  PROVE  Counts'
<1>1. /\ IsFiniteSet(Holders) /\ Cardinality(Holders) \in Nat
      /\ busy \in Nat /\ allocated \in Nat
  BY NodeAssumption, FS_Subset, FS_CardinalityType DEF Holders, TypeOK
<1>2. Req(c)' = Req(c)
  BY DEF Req
<1>3. Holders' = Holders \cup {c} /\ c \notin Holders
  BY <1>2, HoldersChange DEF HoldsPermit
<1>4. busy' + Cardinality(Holders') = MaxBusy
  <2>1. Cardinality(Holders') = Cardinality(Holders) + 1
    BY <1>1, <1>3, FS_AddElement
  <2>2. busy + Cardinality(Holders) = MaxBusy
    BY DEF Counts, ReservationsAccounted, Holders
  <2>3. QED
    BY <1>1, <2>1, <2>2
<1>5. CASE Req(c).kind = "kernel"
  <2>1. Held' = Held
    BY <1>2, <1>5, HeldChange DEF HoldsResources
  <2>2. QED
    BY <1>4, <1>5, <2>1 DEF Counts, ReservationsAccounted, Holders
<1>6. CASE Req(c).kind = "workload"
  <2>1. Held' = Held \cup Units(c) /\ Held \cap Units(c) = {}
    BY <1>2, <1>6, HeldChange DEF HoldsResources
  <2>2. /\ Req(c).need \in Nat
        /\ IsFiniteSet(Units(c)) /\ Cardinality(Units(c)) = Req(c).need
    BY RequestTyped, UnitsCount
  <2>3. /\ IsFiniteSet(Held')
        /\ Cardinality(Held') = Cardinality(Held) + Req(c).need
    BY <2>1, <2>2, DisjointCount DEF Counts
  <2>4. /\ allocated' = allocated + Req(c).need
        /\ Req(c).need <= Shared - allocated /\ Shared \in Nat
    BY <1>6, NodeAssumption DEF Fits
  <2>5. allocated' = Cardinality(Held') /\ allocated' <= Shared
    BY <1>1, <2>2, <2>3, <2>4 DEF Counts, ReservationsAccounted
  <2>6. QED
    BY <1>4, <2>3, <2>5 DEF Counts, ReservationsAccounted, Holders
<1>7. QED
  BY <1>5, <1>6

(* The end of a call gives back what it held, no less and no more. *)
LEMMA GiveBackCounts ==
  ASSUME TypeOK, Counts, CallShape, NEW c \in Calls, Working(c), GiveBack(c)
  PROVE  Counts'
<1>1. /\ IsFiniteSet(Calls) /\ busy \in Nat /\ allocated \in Nat
      /\ call \in [Calls -> CallType]
      /\ call[c].pc # "idle"
  BY NodeAssumption DEF TypeOK, Working
<1>2. Ends(c) /\ Others(c)
  BY <1>1, EndsIdle DEF GiveBack, Ends
<1>3. ~ Working(c)'
  BY <1>2, IdleTyped DEF Ends, Working
<1>4. busy' + Cardinality(Holders') = MaxBusy
  <2>1. IsFiniteSet(Holders') /\ Cardinality(Holders') \in Nat
    BY <1>1, FS_Subset, FS_CardinalityType DEF Holders
  <2>2. CASE Req(c).kind = "endpoint"
    <3>1. Holders' = Holders /\ busy' = busy
      BY <1>2, <1>3, <2>2, HoldersChange DEF HoldsPermit, GiveBack
    <3>2. QED
      BY <3>1 DEF Counts, ReservationsAccounted, Holders
  <2>3. CASE Req(c).kind # "endpoint"
    <3>1. /\ Holders = Holders' \cup {c} /\ c \notin Holders'
          /\ busy' = busy + 1
      BY <1>2, <1>3, <2>3, HoldersChange DEF HoldsPermit, GiveBack
    <3>2. Cardinality(Holders) = Cardinality(Holders') + 1
      BY <2>1, <3>1, FS_AddElement
    <3>3. QED
      BY <1>1, <2>1, <3>1, <3>2 DEF Counts, ReservationsAccounted, Holders
  <2>4. QED
    BY <2>2, <2>3
<1>5. CASE Req(c).kind # "workload"
  <2>1. Held' = Held /\ allocated' = allocated
    BY <1>2, <1>5, HeldCleared DEF HoldsResources, GiveBack
  <2>2. QED
    BY <1>4, <2>1 DEF Counts, ReservationsAccounted, Holders
<1>6. CASE Req(c).kind = "workload"
  <2>1. Held = Held' \cup Units(c) /\ Held' \cap Units(c) = {}
    BY <1>2, <1>6, HeldCleared DEF HoldsResources
  <2>2. /\ Req(c).need \in Nat
        /\ IsFiniteSet(Units(c)) /\ Cardinality(Units(c)) = Req(c).need
    BY <1>1, RequestTyped, UnitsCount
  <2>3. IsFiniteSet(Held') /\ Cardinality(Held') \in Nat
    BY <2>1, FS_Subset, FS_CardinalityType DEF Counts
  <2>4. Cardinality(Held) = Cardinality(Held') + Req(c).need
    BY <2>1, <2>2, <2>3, DisjointCount
  <2>5. allocated = Cardinality(Held) /\ allocated <= Shared /\ Shared \in Nat
    BY NodeAssumption DEF Counts, ReservationsAccounted
  <2>6. allocated' = Cardinality(Held') /\ allocated' <= Shared
    BY <1>1, <1>6, <2>2, <2>3, <2>4, <2>5 DEF GiveBack
  <2>7. QED
    BY <1>4, <2>3, <2>6 DEF Counts, ReservationsAccounted, Holders
<1>7. QED
  BY <1>5, <1>6

(* No step of any handler, and no crash, loses or invents a permit or a unit. *)
LEMMA CountsStep ==
  ASSUME TypeOK, Counts, CallShape, [Next]_vars
  PROVE  Counts'
<1>1. ASSUME UNCHANGED <<call, busy, allocated>>
      PROVE  Counts'
  BY <1>1 DEF Counts, ReservationsAccounted, Held, Units, HoldsPermit, HoldsResources,
              Working, Req
<1>2. ASSUME NEW c \in Calls, Others(c), ~ Working(c), ~ Working(c)',
             UNCHANGED <<busy, allocated>>
      PROVE  Counts'
  <2>1. Holders' = Holders
    BY <1>2, HoldersChange DEF HoldsPermit
  <2>2. Held' = Held
    <3>1. ~ HoldsResources(c) /\ ~ HoldsResources(c)'
      BY <1>2 DEF HoldsResources
    <3>2. \A d \in Calls : d # c => /\ HoldsResources(d)' <=> HoldsResources(d)
                                    /\ Units(d)' = Units(d)
      BY <1>2 DEF Others, HoldsResources, Working, Req, Units
    <3>3. QED
      BY <3>1, <3>2 DEF Held
  <2>3. QED
    BY <1>2, <2>1, <2>2, CountsQuiet
<1>3. ASSUME NEW c \in Calls, Admission(c)
      PROVE  Counts'
  <2>1. ASSUME NEW r \in Requests, Receive(c, r)
        PROVE  Counts'
    BY <1>2, <2>1, ReceiveEffect DEF Begins, Working, At
  <2>2. CASE ReadEscrow(c)
    BY <1>2, <2>2, ReadEffect, IdleTyped DEF Ends, Learns, Working, At
  <2>3. CASE RpcFails(c)
    BY <1>2, <2>3, HandlerEffect, IdleTyped DEF RpcFails, Ends, Working
  <2>4. CASE Reserve(c)
    BY <1>2, <2>4, HandlerEffect DEF Reserve, Goes, Working, At
  <2>5. QED
    BY <1>3, <2>1, <2>2, <2>3, <2>4 DEF Admission
<1>4. ASSUME NEW c \in Calls, Others(c), Working(c), Working(c)',
             call'[c].req = call[c].req, UNCHANGED <<busy, allocated>>
      PROVE  Counts'
  <2>1. HoldsPermit(c)' = HoldsPermit(c) /\ HoldsResources(c)' = HoldsResources(c)
    BY <1>4 DEF HoldsPermit, HoldsResources, Req
  <2>2. QED
    BY <1>4, <2>1, HoldersChange, HeldChange, CountsQuiet
<1>5. ASSUME NEW c \in Calls, Execution(c)
      PROVE  Counts'
  <2>1. CASE StartKernel(c)
    BY <2>1, HandlerEffect, TakeCounts DEF StartKernel, Goes, Working, At
  <2>2. CASE StartEndpoint(c)
    <3>1. Goes(c, "running", Never) /\ Req(c).kind = "endpoint" /\ ~ Working(c)
      BY <2>2, HandlerEffect DEF StartEndpoint, Working, At
    <3>2. Others(c) /\ Req(c)' = Req(c)
      BY <3>1 DEF Goes, Req
    <3>3. Holders' = Holders /\ Held' = Held
      BY <3>1, <3>2, HoldersChange, HeldChange DEF HoldsPermit, HoldsResources, Req
    <3>4. QED
      BY <2>2, <3>3, CountsQuiet DEF StartEndpoint
  <2>3. CASE StartWorkload(c)
    BY <2>3, HandlerEffect, TakeCounts DEF StartWorkload, Goes, Working, At
  <2>4. CASE Refuse(c)
    BY <1>2, <2>4, HandlerEffect, IdleTyped DEF Refuse, Ends, Working, At
  <2>5. CASE RunWorkload(c)
    BY <1>4, <2>5, HandlerEffect DEF RunWorkload, Goes, Working, At
  <2>6. CASE Succeed(c) \/ Fail(c)
    BY <2>6, GiveBackCounts DEF Succeed, Fail, Working, At
  <2>7. CASE CutLoose(c)
    BY <1>4, <2>7, HandlerEffect DEF CutLoose, Goes, Working, At
  <2>8. QED
    BY <1>5, <2>1, <2>2, <2>3, <2>4, <2>5, <2>6, <2>7 DEF Execution
<1>6. CASE Restart
  <2>1. \A c \in Calls : ~ Working(c)'
    BY <1>6, RestartTyped, IdleTyped DEF Working
  <2>2. Holders' = {} /\ Held' = {}
    BY <2>1 DEF Holders, Held, HoldsPermit, HoldsResources
  <2>3. busy' = MaxBusy /\ allocated' = 0 /\ MaxBusy \in Nat /\ Shared \in Nat
    BY <1>6, NodeAssumption DEF Restart
  <2>4. QED
    BY <2>2, <2>3, FS_EmptySet DEF Counts, ReservationsAccounted, Holders
<1>7. CASE ChainStep \/ EndOfTime \/ UNCHANGED vars
  BY <1>1, <1>7 DEF ChainStep, EndOfTime, vars, node
<1>8. QED
  BY <1>3, <1>5, <1>6, <1>7 DEF Next

LEMMA InitCounts == Init => Counts
<1> SUFFICES ASSUME Init PROVE Counts
  OBVIOUS
<1>1. \A c \in Calls : ~ Working(c)
  BY IdleTyped DEF Init, Working
<1>2. Holders = {} /\ Held = {}
  BY <1>1 DEF Holders, Held, HoldsPermit, HoldsResources
<1>3. busy = MaxBusy /\ allocated = 0 /\ MaxBusy \in Nat /\ Shared \in Nat
  BY NodeAssumption DEF Init
<1>4. QED
  BY <1>2, <1>3, FS_EmptySet DEF Counts, ReservationsAccounted, Holders

(* "Resources ALWAYS return" (core.rs:800), for every number of handlers,   *)
(* permits and units and every interleaving: the free permits and the        *)
(* handlers that hold one always add up, and the allocation is exactly what  *)
(* the workloads under way asked for and never more than there is.           *)
THEOREM NothingLeaks == Spec => []ReservationsAccounted
<1> DEFINE I == TypeOK /\ CallShape /\ Counts
<1>1. Init => I
  BY InitTyped, InitCounts
<1>2. I /\ [Next]_vars => I'
  BY TypeStep, CountsStep
<1>3. I => ReservationsAccounted
  BY DEF Counts
<1>4. QED
  BY <1>1, <1>2, <1>3, PTL DEF Spec

-----------------------------------------------------------------------------
(* The deposit behind the work. *)

(* An open account was created at some time, and that has been counted. *)
AccountsCounted ==
  \A k \in Keys : job[k] # NoJob => ledger[k].creates > 0 /\ job[k].created <= clock

(* A handler past verification has seen its account; one that runs has been *)
(* counted as a run.                                                         *)
WorkFunded ==
  \A c \in Calls : call[c].pc \notin {"idle", "verifying"} /\ Req(c).pay = "escrow" =>
    /\ ledger[Req(c).key].creates > 0
    /\ call[c].pc \in {"running", "detached"} => executions[Req(c).key] > 0

Funded == AccountsCounted /\ WorkFunded /\ SignedWorkWasFunded

(* Timers are never overrun, and where a handler stands bounds its timer by *)
(* the clock it read when the request came.                                  *)
TimersRun ==
  /\ clock <= Horizon
  /\ \A c \in Calls :
       /\ clock <= call[c].timer
       /\ call[c].pc \in {"verifying", "verified", "admitted"}
            => call[c].timer <= call[c].asked + RpcTimeout
       /\ At(c, "preparing") => call[c].timer <= call[c].asked + RpcTimeout + MaxPrepare
       /\ At(c, "running") /\ Req(c).kind = "kernel"
            => call[c].timer <= call[c].asked + RpcTimeout + TimeLimit(Req(c))
       /\ At(c, "running") /\ Req(c).kind = "workload"
            => call[c].timer <= call[c].asked + RpcTimeout + MaxPrepare
                                              + TimeLimit(Req(c))

(* The handlers A2 is about, from the moment the escrow is verified. *)
Protected(c) == /\ call[c].pc \in {"verified", "admitted", "preparing", "running"}
                /\ Req(c).pay = "escrow" /\ Req(c).kind # "endpoint"

(* What such a handler knows of its account stays true of the incarnation   *)
(* it verified, which nobody can have had returned.                          *)
DepositStands ==
  \A c \in Calls : Protected(c) =>
    LET k == Req(c).key
    IN  /\ call[c].deadline - call[c].asked >= MinRemaining
        /\ call[c].creates <= ledger[k].creates
        /\ ledger[k].creates = call[c].creates =>
             /\ ledger[k].refunded = call[c].refunded
             /\ job[k] # NoJob => job[k].deadline = call[c].deadline /\ job[k].provider = Me

(* The margin kept before the deadline covers the time a paid request can   *)
(* take: the RPC call, a pull, and the run.  As deployed it does for kernels *)
(* and for workloads that ask for no more than the default time and pull     *)
(* their image in less than the slack; the node itself does not check it.    *)
MarginSuffices ==
  \A r \in Requests : r.pay = "escrow" =>
    /\ r.kind = "kernel" => RpcTimeout + TimeLimit(r) < MinRemaining
    /\ r.kind = "workload" => RpcTimeout + MaxPrepare + TimeLimit(r) < MinRemaining

(* A handler leaves the accounts and the clock alone. *)
LEMMA HandlerQuiet ==
  ASSUME NEW c \in Calls, Admission(c) \/ Execution(c)
  PROVE  UNCHANGED <<clock, job, vault, ledger>>
BY DEF chain, Admission, Receive, ReadEscrow, RpcFails, Reserve, Execution,
       StartKernel, StartEndpoint, StartWorkload, Refuse, RunWorkload, Succeed, Fail,
       CutLoose

(* The histories of creations and of runs never go back. *)
LEMMA Monotone ==
  ASSUME TypeOK, CallShape, [Next]_vars, NEW k \in Keys
  PROVE  /\ ledger[k].creates \in Nat /\ ledger'[k].creates \in Nat
         /\ ledger'[k].creates >= ledger[k].creates
         /\ executions[k] \in Nat /\ executions'[k] \in Nat
         /\ executions'[k] >= executions[k]
<1>1. /\ ledger[k].creates \in Nat /\ ledger'[k].creates \in Nat
      /\ executions[k] \in Nat /\ executions'[k] \in Nat
  BY TypeStep DEF TypeOK, Chain!TypeOK, Chain!LedgerType
<1>2. CASE ChainStep
  <2>1. Same(k) \/ Opened(k) \/ Paid(k) \/ Returned(k)
    BY <1>2, ChainEffect DEF ChainStep, TypeOK
  <2>2. executions' = executions
    BY <1>2 DEF ChainStep, node
  <2>3. QED
    BY <1>1, <2>1, <2>2 DEF Same, Opened, Paid, Returned
<1>3. ASSUME NEW c \in Calls, Admission(c) \/ Execution(c)
      PROVE  ledger' = ledger /\ executions'[k] >= executions[k]
  <2>1. ledger' = ledger
    BY <1>3, HandlerQuiet
  <2>2. ASSUME call[c].pc # "idle", CountRun(Req(c))
        PROVE  executions'[k] >= executions[k]
    BY <1>1, <2>2 DEF CountRun, TypeOK
  <2>3. executions' = executions \/ (call[c].pc # "idle" /\ CountRun(Req(c)))
    BY <1>3 DEF Admission, Receive, ReadEscrow, RpcFails, Reserve, Execution,
       StartKernel, StartEndpoint, StartWorkload, Refuse, RunWorkload, Succeed, Fail,
       CutLoose, At
  <2>4. QED
    BY <1>1, <2>1, <2>2, <2>3
<1>4. CASE Restart \/ EndOfTime \/ UNCHANGED vars
  BY <1>1, <1>4 DEF Restart, EndOfTime, vars, chain, node
<1>5. QED
  BY <1>1, <1>2, <1>3, <1>4 DEF Next

(* Accounts open only by being created. *)
LEMMA AccountsStep ==
  ASSUME TypeOK, CallShape, AccountsCounted, [Next]_vars
  PROVE  AccountsCounted'
<1>1. CASE ChainStep
  <2> SUFFICES ASSUME NEW k \in Keys, job'[k] # NoJob
               PROVE  ledger'[k].creates > 0 /\ job'[k].created <= clock'
    BY DEF AccountsCounted
  <2>1. /\ Same(k) \/ Opened(k) \/ Paid(k) \/ Returned(k)
        /\ clock' = clock \/ clock' = clock + 1
    BY <1>1, ChainEffect DEF ChainStep, TypeOK
  <2>2. /\ clock \in Nat
        /\ job[k] # NoJob => job[k].created \in Nat
        /\ ledger[k].creates \in Nat
    BY DEF TypeOK, Chain!TypeOK, Chain!JobType, Chain!LedgerType
  <2>3. QED
    BY <2>1, <2>2 DEF AccountsCounted, Same, Opened, Paid, Returned
<1>2. CASE UNCHANGED <<clock, job, ledger>>
  BY <1>2 DEF AccountsCounted
<1>3. QED
  BY <1>1, <1>2, HandlerQuiet DEF Next, Restart, EndOfTime, vars, chain

(* What a handler was told of its account stays counted. *)
LEMMA WorkFundedStep ==
  ASSUME TypeOK, CallShape, Funded, [Next]_vars
  PROVE  WorkFunded'
<1> DEFINE Good(d) == call[d].pc \notin {"idle", "verifying"} /\ Req(d).pay = "escrow" =>
              /\ ledger[Req(d).key].creates > 0
              /\ call[d].pc \in {"running", "detached"} => executions[Req(d).key] > 0
<1>1. \A k \in Keys : /\ ledger[k].creates \in Nat /\ ledger'[k].creates \in Nat
                      /\ ledger'[k].creates >= ledger[k].creates
                      /\ executions[k] \in Nat /\ executions'[k] \in Nat
                      /\ executions'[k] >= executions[k]
  BY Monotone
<1>2. \A d \in Calls : Good(d)
  BY DEF Funded, WorkFunded
<1>3. ASSUME NEW d \in Calls, call'[d] = call[d]
      PROVE  Good(d)'
  <2>1. call[d].pc # "idle" => Req(d).key \in Keys
    BY RequestTyped
  <2>2. QED
    BY <1>1, <1>2, <1>3, <2>1 DEF Req
<1>4. ASSUME NEW d \in Calls, call'[d] = IdleCall
      PROVE  Good(d)'
  BY <1>4, IdleTyped
<1>5. ASSUME NEW c \in Calls, Admission(c)
      PROVE  Good(c)'
  <2>1. ASSUME NEW r \in Requests, Receive(c, r)
        PROVE  Good(c)'
    BY <2>1, ReceiveEffect DEF Begins, Req
  <2>2. CASE ReadEscrow(c)
    <3>1. /\ At(c, "verifying")
          /\ Ends(c) \/ (Verifies(c) /\ Learns(c))
          /\ ledger' = ledger
      BY <2>2, ReadEffect DEF chain
    <3>2. Req(c).key \in Keys
      BY <3>1, RequestTyped DEF At
    <3>3. CASE Verifies(c) /\ Learns(c)
      BY <3>1, <3>2, <3>3 DEF Verifies, Learns, Req, Funded, AccountsCounted
    <3>4. QED
      BY <1>4, <3>1, <3>3 DEF Ends
  <2>3. CASE RpcFails(c)
    BY <1>4, <2>3, HandlerEffect DEF Ends
  <2>4. CASE Reserve(c)
    <3>1. /\ Goes(c, "admitted", clock) /\ At(c, "verified")
          /\ ledger' = ledger
      BY <2>4, HandlerEffect DEF Reserve, chain
    <3>2. QED
      BY <1>2, <3>1 DEF Goes, At, Req
  <2>5. QED
    BY <1>5, <2>1, <2>2, <2>3, <2>4 DEF Admission
<1>6. ASSUME NEW c \in Calls, Execution(c)
      PROVE  Good(c)'
  <2>0. ledger' = ledger
    BY <1>6, HandlerQuiet
  <2>1. ASSUME NEW t, Goes(c, "running", t), CountRun(Req(c)),
               call[c].pc \in {"admitted", "preparing"}
        PROVE  Good(c)'
    <3>1. Req(c).key \in Keys
      BY <2>1, RequestTyped
    <3>2. Req(c)' = Req(c)
      BY <2>1 DEF Goes, Req
    <3>3. Req(c).pay = "escrow" => executions'[Req(c).key] > 0
      BY <1>1, <2>1, <3>1 DEF CountRun, TypeOK
    <3>4. QED
      BY <1>2, <2>0, <2>1, <3>2, <3>3
  <2>2. CASE StartKernel(c)
    BY <2>1, <2>2, HandlerEffect DEF StartKernel, At
  <2>3. CASE StartEndpoint(c)
    BY <2>1, <2>3, HandlerEffect DEF StartEndpoint, At
  <2>4. CASE RunWorkload(c)
    BY <2>1, <2>4, HandlerEffect DEF RunWorkload, At
  <2>5. CASE StartWorkload(c)
    <3>1. Goes(c, "preparing", clock + MaxPrepare) /\ At(c, "admitted")
      BY <2>5, HandlerEffect DEF StartWorkload
    <3>2. QED
      BY <1>2, <2>0, <3>1 DEF Goes, At, Req
  <2>6. CASE CutLoose(c)
    <3>1. /\ Goes(c, "detached", Never) /\ At(c, "running")
          /\ executions' = executions
      BY <2>6, HandlerEffect DEF CutLoose
    <3>2. QED
      BY <1>2, <2>0, <3>1 DEF Goes, At, Req
  <2>7. CASE Refuse(c) \/ Succeed(c) \/ Fail(c)
    BY <1>4, <2>7, HandlerEffect DEF Ends
  <2>8. QED
    BY <1>6, <2>2, <2>3, <2>4, <2>5, <2>6, <2>7 DEF Execution
<1>7. \A d \in Calls : Good(d)'
  <2>1. CASE ChainStep \/ EndOfTime \/ UNCHANGED vars
    BY <1>3, <2>1 DEF ChainStep, EndOfTime, vars, node
  <2>2. CASE Restart
    BY <1>4, <2>2, RestartTyped
  <2>3. ASSUME NEW c \in Calls, Admission(c) \/ Execution(c)
        PROVE  Others(c)
    BY <2>3, ReceiveEffect, ReadEffect, HandlerEffect
       DEF Admission, Execution, Begins, Ends, Learns, Goes
  <2>4. QED
    BY <1>3, <1>5, <1>6, <2>1, <2>2, <2>3 DEF Next, Others
<1>8. QED
  BY <1>7 DEF WorkFunded

(* A result is signed only where a run ends, and runs are counted. *)
LEMMA SignedStep ==
  ASSUME TypeOK, CallShape, Funded, [Next]_vars
  PROVE  SignedWorkWasFunded'
<1> SUFFICES ASSUME RequirePayment, NEW k \in Keys, <<Me, k>> \in results'
             PROVE  executions'[k] > 0 /\ ledger'[k].creates > 0
  BY DEF SignedWorkWasFunded
<1>1. /\ ledger[k].creates \in Nat /\ ledger'[k].creates \in Nat
      /\ ledger'[k].creates >= ledger[k].creates
      /\ executions[k] \in Nat /\ executions'[k] \in Nat
      /\ executions'[k] >= executions[k]
  BY Monotone
<1>2. CASE <<Me, k>> \in results
  BY <1>1, <1>2 DEF Funded, SignedWorkWasFunded
<1>3. CASE <<Me, k>> \notin results
  <2>1. PICK c \in Calls : Succeed(c)
    <3>1. ASSUME NEW c \in Calls, Admission(c) \/ (Execution(c) /\ ~ Succeed(c))
          PROVE  results' = results
      BY <3>1 DEF chain, Admission, Receive, ReadEscrow, RpcFails, Reserve, Execution,
         StartKernel, StartEndpoint, StartWorkload, Refuse, RunWorkload, Fail, CutLoose
    <3>2. ChainStep => results' = results
      BY ChainEffect DEF ChainStep, TypeOK
    <3>3. QED
      BY <1>3, <3>1, <3>2 DEF Next, Restart, EndOfTime, vars, chain
  <2>2. k = Req(c).key /\ call[c].pc \in {"running", "detached"}
    BY <1>3, <2>1 DEF Succeed
  <2>3. Req(c).pay = "escrow"
    BY <2>2 DEF CallShape
  <2>4. ledger[k].creates > 0 /\ executions[k] > 0
    BY <2>2, <2>3 DEF Funded, WorkFunded
  <2>5. QED
    BY <1>1, <2>4
<1>4. QED
  BY <1>2, <1>3

(* With --require-payment, whatever the consumers and the other handlers do,  *)
(* a signature of this node stands for a run of its own against a deposit:   *)
(* what turns the signature into a payout pays for work (core.rs:342).        *)
THEOREM SignaturesAreFunded == Spec => []SignedWorkWasFunded
<1> DEFINE I == TypeOK /\ CallShape /\ Funded
<1>1. Init => I
  <2>1. Init => AccountsCounted /\ SignedWorkWasFunded
    BY DEF Init, Chain!Init, AccountsCounted, SignedWorkWasFunded
  <2>2. Init => WorkFunded
    BY IdleTyped DEF Init, WorkFunded
  <2>3. QED
    BY InitTyped, <2>1, <2>2 DEF Funded
<1>2. I /\ [Next]_vars => I'
  BY TypeStep, AccountsStep, WorkFundedStep, SignedStep DEF Funded
<1>3. I => SignedWorkWasFunded
  BY DEF Funded
<1>4. QED
  BY <1>1, <1>2, <1>3, PTL DEF Spec

(* Time: no step overruns a timer, and none is set further ahead than the   *)
(* stage of the call allows.                                                 *)
LEMMA TimersStep ==
  ASSUME TypeOK, CallShape, TimersRun, [Next]_vars
  PROVE  TimersRun'
<1> DEFINE Timed(d) ==
       /\ clock <= call[d].timer
       /\ call[d].pc \in {"verifying", "verified", "admitted"}
            => call[d].timer <= call[d].asked + RpcTimeout
       /\ At(d, "preparing") => call[d].timer <= call[d].asked + RpcTimeout + MaxPrepare
       /\ At(d, "running") /\ Req(d).kind = "kernel"
            => call[d].timer <= call[d].asked + RpcTimeout + TimeLimit(Req(d))
       /\ At(d, "running") /\ Req(d).kind = "workload"
            => call[d].timer <= call[d].asked + RpcTimeout + MaxPrepare
                                              + TimeLimit(Req(d))
<1> USE DEF At, Req
<1>1. /\ clock \in Nat /\ clock <= Horizon /\ Horizon \in Nat
      /\ RpcTimeout \in Nat /\ MaxPrepare \in Nat
      /\ \A d \in Calls : /\ call[d].timer \in Nat /\ call[d].asked \in Nat
                          /\ call[d].pc # "idle" => TimeLimit(Req(d)) \in Nat
  BY NodeAssumption, TimeLimitTyped DEF TypeOK, Chain!TypeOK, CallType, TimersRun,
     Chain!ConstantsAssumption, CallShape
<1>2. \A d \in Calls : Timed(d)
  BY DEF TimersRun
<1>3. ASSUME NEW d \in Calls, call'[d] = call[d], clock' = clock
      PROVE  Timed(d)'
  <2>1. /\ Req(d)' = Req(d)
        /\ TimeLimit(Req(d))' = TimeLimit(Req(d))
    BY <1>3 DEF TimeLimit
  <2>2. QED
    BY <1>2, <1>3, <2>1
<1>4. ASSUME NEW d \in Calls, call'[d] = IdleCall, clock' = clock
      PROVE  Timed(d)'
  BY <1>1, <1>4, IdleTyped DEF Never
<1>5. CASE ChainStep
  <2>1. call' = call
    BY <1>5 DEF ChainStep, node
  <2>2. CASE clock' = clock
    BY <1>1, <1>3, <2>1, <2>2 DEF TimersRun
  <2>3. CASE clock' # clock
    <3>1. clock < Horizon /\ clock' = clock + 1
      BY <1>5, <2>3, ChainEffect DEF ChainStep, TypeOK
    <3>2. ASSUME NEW d \in Calls
          PROVE  Timed(d)'
      <4>1. clock < call[d].timer
        BY <1>5, <2>3 DEF ChainStep
      <4>2. /\ Req(d)' = Req(d)
            /\ TimeLimit(Req(d))' = TimeLimit(Req(d))
        BY <2>1 DEF TimeLimit
      <4>3. clock' <= call'[d].timer
        BY <1>1, <2>1, <3>1, <4>1
      <4>4. QED
        BY <1>2, <2>1, <4>2, <4>3
    <3>3. QED
      BY <1>1, <3>1, <3>2 DEF TimersRun
  <2>4. QED
    BY <2>2, <2>3
<1>6. ASSUME NEW c \in Calls, Admission(c)
      PROVE  Timed(c)' /\ Others(c)
  <2>0. clock' = clock
    BY <1>6, HandlerQuiet
  <2>1. ASSUME NEW r \in Requests, Receive(c, r)
        PROVE  Timed(c)' /\ Others(c)
    BY <1>1, <2>0, <2>1, ReceiveEffect DEF Begins
  <2>2. CASE ReadEscrow(c)
    <3>1. /\ At(c, "verifying")
          /\ Ends(c) \/ Learns(c)
      BY <2>2, ReadEffect
    <3>2. QED
      BY <1>2, <1>4, <2>0, <3>1 DEF Ends, Learns
  <2>3. CASE RpcFails(c)
    BY <1>4, <2>0, <2>3, HandlerEffect DEF Ends
  <2>4. CASE Reserve(c)
    <3>1. Goes(c, "admitted", clock) /\ At(c, "verified")
      BY <2>4, HandlerEffect DEF Reserve
    <3>2. clock <= call[c].asked + RpcTimeout
      BY <1>1, <1>2, <3>1
    <3>3. QED
      BY <1>1, <2>0, <3>1, <3>2 DEF Goes
  <2>5. QED
    BY <1>6, <2>1, <2>2, <2>3, <2>4 DEF Admission
<1>7. ASSUME NEW c \in Calls, Execution(c)
      PROVE  Timed(c)' /\ Others(c)
  <2>0. clock' = clock
    BY <1>7, HandlerQuiet
  <2>1. ASSUME NEW pc, NEW t, Goes(c, pc, t)
        PROVE  /\ Req(c)' = Req(c) /\ Others(c)
               /\ TimeLimit(Req(c))' = TimeLimit(Req(c))
               /\ call'[c].pc = pc /\ call'[c].timer = t
               /\ call'[c].asked = call[c].asked
    BY <2>1 DEF Goes, TimeLimit
  <2>2. CASE StartKernel(c)
    <3>1. /\ Goes(c, "running", clock + TimeLimit(Req(c))) /\ At(c, "admitted")
          /\ Req(c).kind = "kernel"
      BY <2>2, HandlerEffect DEF StartKernel
    <3>2. /\ TimeLimit(Req(c)) \in Nat
          /\ clock <= call[c].asked + RpcTimeout
      BY <1>1, <1>2, <3>1
    <3> DEFINE l == TimeLimit(Req(c))
    <3>3. /\ clock' <= clock + l
          /\ clock + l <= call[c].asked + RpcTimeout + l
      BY <1>1, <2>0, <3>2
    <3>4. QED
      BY <2>1, <3>1, <3>3
  <2>3. CASE StartEndpoint(c)
    <3>1. Goes(c, "running", Never) /\ Req(c).kind = "endpoint"
      BY <2>3, HandlerEffect DEF StartEndpoint
    <3>2. QED
      BY <1>1, <2>0, <2>1, <3>1 DEF Never
  <2>4. CASE StartWorkload(c)
    <3>1. Goes(c, "preparing", clock + MaxPrepare) /\ At(c, "admitted")
      BY <2>4, HandlerEffect DEF StartWorkload
    <3>2. /\ clock' <= clock + MaxPrepare
          /\ clock + MaxPrepare <= call[c].asked + RpcTimeout + MaxPrepare
      BY <1>1, <1>2, <2>0, <3>1
    <3>3. QED
      BY <2>1, <3>1, <3>2
  <2>5. CASE RunWorkload(c)
    <3>1. /\ Goes(c, "running", clock + TimeLimit(Req(c))) /\ At(c, "preparing")
          /\ Req(c).kind = "workload"
      BY <2>5, HandlerEffect DEF RunWorkload, CallShape
    <3>2. /\ TimeLimit(Req(c)) \in Nat
          /\ clock <= call[c].asked + RpcTimeout + MaxPrepare
      BY <1>1, <1>2, <3>1
    <3> DEFINE l == TimeLimit(Req(c))
    <3>3. /\ clock' <= clock + l
          /\ clock + l <= call[c].asked + RpcTimeout + MaxPrepare + l
      BY <1>1, <2>0, <3>2
    <3>4. QED
      BY <2>1, <3>1, <3>3
  <2>6. CASE CutLoose(c)
    <3>1. Goes(c, "detached", Never)
      BY <2>6, HandlerEffect
    <3>2. QED
      BY <1>1, <2>0, <2>1, <3>1 DEF Never
  <2>7. CASE Refuse(c) \/ Succeed(c) \/ Fail(c)
    BY <1>4, <2>0, <2>7, HandlerEffect DEF Ends
  <2>8. QED
    BY <1>7, <2>2, <2>3, <2>4, <2>5, <2>6, <2>7 DEF Execution
<1>8. ASSUME NEW c \in Calls, Admission(c) \/ Execution(c)
      PROVE  TimersRun'
  <2>1. Timed(c)' /\ Others(c) /\ clock' = clock
    BY <1>6, <1>7, <1>8, HandlerQuiet
  <2>2. \A d \in Calls : Timed(d)'
    BY <1>3, <2>1 DEF Others
  <2>3. QED
    BY <1>1, <2>1, <2>2 DEF TimersRun
<1>9. CASE Restart \/ EndOfTime \/ UNCHANGED vars
  <2>1. clock' = clock
    BY <1>9 DEF Restart, EndOfTime, vars, chain
  <2>2. \A d \in Calls : Timed(d)'
    BY <1>3, <1>4, <1>9, <2>1, RestartTyped DEF EndOfTime, vars, node
  <2>3. QED
    BY <1>1, <2>1, <2>2 DEF TimersRun
<1>10. QED
  BY <1>5, <1>8, <1>9 DEF Next

(* Whatever stage a protected handler is at, the deadline has not come. *)
LEMMA InTime ==
  ASSUME MarginSuffices, TypeOK, CallShape, TimersRun, DepositStands,
         NEW c \in Calls, Protected(c)
  PROVE  clock < call[c].deadline
<1> DEFINE r == Req(c)
           l == TimeLimit(r)
<1>1. /\ clock \in Nat /\ RpcTimeout \in Nat /\ MaxPrepare \in Nat
      /\ WorkloadTimeout \in Nat /\ ReleaseSlack \in Nat
      /\ call[c].timer \in Nat /\ call[c].asked \in Nat /\ call[c].deadline \in Nat
  BY NodeAssumption DEF TypeOK, Chain!TypeOK, CallType
<1>2. r \in Requests /\ l \in Nat /\ r.kind \in {"kernel", "workload"} /\ r.pay = "escrow"
  BY RequestTyped, TimeLimitTyped DEF Protected
<1>3. MinRemaining \in Nat /\ call[c].asked + MinRemaining <= call[c].deadline
  BY <1>1 DEF DepositStands, MinRemaining
<1>4. call[c].timer < call[c].asked + MinRemaining
  <2> DEFINE x == MinRemaining
             a == call[c].asked
             t == call[c].timer
  <2>1. /\ r.kind = "kernel" => RpcTimeout + l < x
        /\ r.kind = "workload" => RpcTimeout + MaxPrepare + l < x
    BY <1>2 DEF MarginSuffices
  <2>2. /\ At(c, "verified") \/ At(c, "admitted") => t <= a + RpcTimeout
        /\ At(c, "preparing") => t <= a + RpcTimeout + MaxPrepare /\ r.kind = "workload"
        /\ At(c, "running") /\ r.kind = "kernel" => t <= a + RpcTimeout + l
        /\ At(c, "running") /\ r.kind = "workload" => t <= a + RpcTimeout + MaxPrepare + l
    BY DEF TimersRun, CallShape, At
  <2>3. x \in Nat /\ a \in Nat /\ t \in Nat
    BY <1>1, <1>3
  <2> HIDE DEF x, a, t, l, r
  <2>4. ASSUME At(c, "verified") \/ At(c, "admitted")
        PROVE  t < a + x
    BY <1>1, <1>2, <2>1, <2>2, <2>3, <2>4
  <2>5. ASSUME At(c, "preparing")
        PROVE  t < a + x
    BY <1>1, <1>2, <2>1, <2>2, <2>3, <2>5
  <2>6. ASSUME At(c, "running")
        PROVE  t < a + x
    BY <1>1, <1>2, <2>1, <2>2, <2>3, <2>6
  <2>7. t < a + x
    BY <2>4, <2>5, <2>6 DEF Protected, At
  <2>8. QED
    BY <2>7 DEF t, a, x
<1>5. clock <= call[c].timer
  BY DEF TimersRun
<1>6. QED
  BY <1>1, <1>3, <1>4, <1>5

(* Nobody can have a verified deposit returned while a call is at work on it:  *)
(* not the node, which signs no refund; not the authority, for there is no    *)
(* holdback; not the consumer, for the deadline has not come.                 *)
LEMMA DepositStep ==
  ASSUME MarginSuffices, Me \notin Cancellers, ChallengeWindow = 0,
         TypeOK, CallShape, AccountsCounted, TimersRun, DepositStands, [Next]_vars
  PROVE  DepositStands'
<1> DEFINE Stands(d) ==
      Protected(d) =>
        LET k == Req(d).key
        IN  /\ call[d].deadline - call[d].asked >= MinRemaining
            /\ call[d].creates <= ledger[k].creates
            /\ ledger[k].creates = call[d].creates =>
                 /\ ledger[k].refunded = call[d].refunded
                 /\ job[k] # NoJob => /\ job[k].deadline = call[d].deadline
                                      /\ job[k].provider = Me
<1>1. \A d \in Calls : Stands(d)
  BY DEF DepositStands
<1>2. CASE ChainStep
  <2> SUFFICES ASSUME NEW c \in Calls, Protected(c)'
               PROVE  Stands(c)'
    BY DEF DepositStands
  <2>1. call' = call
    BY <1>2 DEF ChainStep, node
  <2>2. Protected(c) /\ Req(c)' = Req(c)
    BY <2>1 DEF Protected, Req
  <2> DEFINE k == Req(c).key
  <2>3. /\ k \in Keys /\ call[c].creates \in Nat /\ ledger[k].creates \in Nat
        /\ clock \in Nat /\ call[c].deadline \in Nat
    BY <2>2, RequestTyped DEF TypeOK, Chain!TypeOK, Chain!LedgerType, CallType, Protected
  <2>4. Same(k) \/ Opened(k) \/ Paid(k) \/ Returned(k)
    BY <1>2, <2>3, ChainEffect DEF ChainStep, TypeOK
  <2>5. Stands(c) /\ clock < call[c].deadline
    BY <1>1, <2>2, InTime
  <2>6. Returned(k) => ledger[k].creates # call[c].creates
    <3> SUFFICES ASSUME Returned(k), ledger[k].creates = call[c].creates
                 PROVE  FALSE
      OBVIOUS
    <3>1. /\ job[k] # NoJob
          /\ job[k].deadline = call[c].deadline /\ job[k].provider = Me
      BY <2>2, <2>5 DEF Returned
    <3>2. job[k].created \in Nat /\ job[k].created <= clock
      BY <2>3, <3>1 DEF AccountsCounted, TypeOK, Chain!TypeOK, Chain!JobType
    <3>3. PICK signer : Chain!RefundAllowed(k, signer)
      BY DEF Returned
    <3>4. QED
      BY <2>3, <2>5, <3>1, <3>2, <3>3 DEF Chain!RefundAllowed
  <2> HIDE DEF k
  <2>7. /\ call[c].creates <= ledger'[k].creates
        /\ ledger'[k].creates = call[c].creates =>
             /\ ledger'[k].refunded = call[c].refunded
             /\ job'[k] # NoJob => /\ job'[k].deadline = call[c].deadline
                                   /\ job'[k].provider = Me
    BY <2>2, <2>3, <2>4, <2>5, <2>6 DEF Same, Opened, Paid, Returned, k
  <2>8. QED
    BY <2>1, <2>2, <2>5, <2>7 DEF k, Req
<1>3. ASSUME NEW d \in Calls, call'[d] = call[d], UNCHANGED <<job, ledger>>
      PROVE  Stands(d)'
  BY <1>1, <1>3 DEF Protected, Req
<1>4. ASSUME NEW d \in Calls, call'[d] = IdleCall
      PROVE  Stands(d)'
  BY <1>4, IdleTyped DEF Protected
<1>5. ASSUME NEW c \in Calls, NEW pc, NEW t, Goes(c, pc, t), UNCHANGED <<job, ledger>>,
             pc = "detached" \/ call[c].pc \in {"verified", "admitted", "preparing", "running"}
      PROVE  Stands(c)' /\ Others(c)
  <2>1. /\ Req(c)' = Req(c) /\ Others(c)
        /\ Protected(c)' => Protected(c)
        /\ call'[c].asked = call[c].asked /\ call'[c].deadline = call[c].deadline
        /\ call'[c].creates = call[c].creates /\ call'[c].refunded = call[c].refunded
    BY <1>5 DEF Goes, Req, Protected
  <2>2. QED
    BY <1>1, <1>5, <2>1
<1>6. ASSUME NEW c \in Calls, Admission(c) \/ Execution(c)
      PROVE  Stands(c)' /\ Others(c)
  <2>1. UNCHANGED <<job, ledger>>
    BY <1>6, HandlerQuiet
  <2>2. ASSUME NEW r \in Requests, Receive(c, r)
        PROVE  Stands(c)' /\ Others(c)
    BY <2>2, ReceiveEffect DEF Begins, Protected, Req
  <2>3. CASE ReadEscrow(c)
    <3>1. At(c, "verifying") /\ (Ends(c) \/ (Verifies(c) /\ Learns(c)))
      BY <2>3, ReadEffect
    <3>2. Req(c).key \in Keys
      BY <3>1, RequestTyped DEF At
    <3>3. CASE Verifies(c) /\ Learns(c)
      <4>1. /\ Req(c)' = Req(c) /\ Others(c)
            /\ call'[c].asked = call[c].asked
            /\ call'[c].deadline = job[Req(c).key].deadline
            /\ call'[c].creates = ledger[Req(c).key].creates
            /\ call'[c].refunded = ledger[Req(c).key].refunded
        BY <3>3 DEF Learns, Req
      <4>2. /\ job[Req(c).key].deadline - call[c].asked >= MinRemaining
            /\ job[Req(c).key].provider = Me
        BY <3>3 DEF Verifies
      <4>3. ledger[Req(c).key].creates \in Nat
        BY <3>2 DEF TypeOK, Chain!TypeOK, Chain!LedgerType
      <4>4. QED
        BY <2>1, <4>1, <4>2, <4>3
    <3>4. QED
      BY <1>4, <3>1, <3>3 DEF Ends
  <2>4. CASE RpcFails(c) \/ Refuse(c) \/ Succeed(c) \/ Fail(c)
    BY <1>4, <2>4, HandlerEffect DEF Ends
  <2>5. CASE Reserve(c) \/ StartKernel(c) \/ StartEndpoint(c) \/ StartWorkload(c)
    BY <1>5, <2>1, <2>5, HandlerEffect
       DEF Reserve, StartKernel, StartEndpoint, StartWorkload, At
  <2>6. CASE RunWorkload(c) \/ CutLoose(c)
    BY <1>5, <2>1, <2>6, HandlerEffect DEF RunWorkload, CutLoose, At
  <2>7. QED
    BY <1>6, <2>2, <2>3, <2>4, <2>5, <2>6 DEF Admission, Execution
<1>7. CASE EndOfTime \/ UNCHANGED vars
  <2>1. \A d \in Calls : Stands(d)'
    BY <1>3, <1>7 DEF EndOfTime, vars, chain, node
  <2>2. QED
    BY <2>1 DEF DepositStands
<1>8. CASE Restart
  <2>1. \A d \in Calls : Stands(d)'
    BY <1>4, <1>8, RestartTyped
  <2>2. QED
    BY <2>1 DEF DepositStands
<1>9. ASSUME NEW c \in Calls, Admission(c) \/ Execution(c)
      PROVE  DepositStands'
  <2>1. \A d \in Calls : Stands(d)'
    BY <1>3, <1>6, <1>9, HandlerQuiet DEF Others
  <2>2. QED
    BY <2>1 DEF DepositStands
<1>10. QED
  BY <1>2, <1>7, <1>8, <1>9 DEF Next

(* A2 (core.rs:500), for any number of handlers, crashes, re-created accounts *)
(* and stale clocks: if the margin covers what requests take, the chain has   *)
(* no holdback and this node's wallet signs no refunds, a call whose caller   *)
(* waits never works on a deposit that was returned, or past its deadline.    *)
THEOREM WorkStaysPaid ==
  ASSUME MarginSuffices, Me \notin Cancellers, ChallengeWindow = 0
  PROVE  Spec => []NotRefundedWhileWorking
<1> DEFINE I == TypeOK /\ CallShape /\ AccountsCounted /\ TimersRun /\ DepositStands
<1>1. Init => I
  <2>1. Init => AccountsCounted
    BY DEF Init, Chain!Init, AccountsCounted
  <2>2. Init => TimersRun
    BY IdleTyped, NodeAssumption
       DEF Init, Chain!Init, TimersRun, At, Never, Chain!ConstantsAssumption
  <2>3. Init => DepositStands
    BY IdleTyped DEF Init, DepositStands, Protected
  <2>4. QED
    BY InitTyped, <2>1, <2>2, <2>3
<1>2. I /\ [Next]_vars => I'
  BY TypeStep, AccountsStep, TimersStep, DepositStep
<1>3. I => NotRefundedWhileWorking
  <2> SUFFICES ASSUME I, NEW c \in Calls, Protected(c)
               PROVE  /\ ledger[Req(c).key].creates = call[c].creates
                           => ledger[Req(c).key].refunded = call[c].refunded
                      /\ clock < call[c].deadline
    BY DEF NotRefundedWhileWorking, Protected
  <2>1. QED
    BY InTime DEF DepositStands
<1>4. QED
  BY <1>1, <1>2, <1>3, PTL DEF Spec

-----------------------------------------------------------------------------
(* One execution for one deposit. *)

(* A sequence without repetitions is no longer than what it draws from.     *)
LEMMA InjectiveLength ==
  ASSUME NEW K, IsFiniteSet(K), NEW s \in Seq(K), IsInjective(s)
  PROVE  Len(s) <= Cardinality(K)
<1>1. /\ Len(s) \in Nat
      /\ s \in [1 .. Len(s) -> K]
      /\ DOMAIN s = 1 .. Len(s)
  OBVIOUS
<1>2. s \in Injection(1 .. Len(s), K)
  BY <1>1 DEF IsInjective, Injection
<1>3. Cardinality(1 .. Len(s)) <= Cardinality(K)
  BY <1>2, FS_Injection
<1>4. Cardinality(1 .. Len(s)) = Len(s)
  BY <1>1, FS_Interval
<1>5. QED
  BY <1>3, <1>4

(* With room for every escrow, the set of served ones forgets none.         *)
LEMMA InsertRemembers ==
  ASSUME IsFiniteSet(Keys), Cardinality(Keys) <= MaxServed, TypeOK,
         NEW k \in Keys, Insert(k)
  PROVE  Range(served') = Range(served) \cup {k}
<1> DEFINE longer == Append(served, k)
<1>1. served \in Seq(Keys) /\ IsInjective(served)
  BY DEF TypeOK
<1>2. CASE WasServed(k)
  BY <1>2 DEF Insert, WasServed
<1>3. CASE ~ WasServed(k)
  <2>1. /\ longer \in Seq(Keys)
        /\ Len(longer) = Len(served) + 1
        /\ Len(served) \in Nat
        /\ DOMAIN longer = 1 .. (Len(served) + 1)
        /\ \A i \in 1 .. Len(served) : longer[i] = served[i]
        /\ longer[Len(served) + 1] = k
    BY <1>1
  <2>2. DOMAIN served = 1 .. Len(served)
    BY <1>1
  <2>3. \A i \in 1 .. Len(served) : served[i] # k
    BY <1>3, <2>2 DEF WasServed, Range
  <2>4. IsInjective(longer)
    <3>1. \A i, j \in 1 .. Len(served) : served[i] = served[j] => i = j
      BY <1>1, <2>2 DEF IsInjective
    <3>2. \A i, j \in 1 .. (Len(served) + 1) : longer[i] = longer[j] => i = j
      BY <2>1, <2>3, <3>1
    <3>3. QED
      BY <2>1, <3>2 DEF IsInjective
  <2>5. Len(longer) <= Cardinality(Keys)
    BY <2>1, <2>4, InjectiveLength
  <2>6. Cardinality(Keys) \in Nat /\ MaxServed \in Nat
    BY FS_CardinalityType, NodeAssumption
  <2> HIDE DEF longer
  <2>7. ~ (Len(longer) > MaxServed)
    BY <2>1, <2>5, <2>6
  <2>8. served' = longer
    BY <1>3, <2>7 DEF Insert, longer
  <2>9. Range(longer) = Range(served) \cup {k}
    BY <2>1, <2>2 DEF Range
  <2>10. QED
    BY <2>8, <2>9
<1>4. QED
  BY <1>2, <1>3

(* With one handler: an escrow is run at most once, and only after it was   *)
(* found in no served entry, found funded, and entered.                      *)
RunsOnce ==
  /\ \A k \in Keys : /\ executions[k] <= 1
                     /\ executions[k] > 0 => WasServed(k) /\ ledger[k].creates > 0
  /\ \A c \in Calls : call[c].pc # "idle" /\ Req(c).pay = "escrow" =>
       /\ call[c].pc \in {"verifying", "verified"} => ~ WasServed(Req(c).key)
       /\ call[c].pc \in {"admitted", "preparing"}
            => WasServed(Req(c).key) /\ executions[Req(c).key] = 0

LEMMA RunsOnceStep ==
  ASSUME \A c, d \in Calls : c = d, MaxRestarts = 0,
         IsFiniteSet(Keys), Cardinality(Keys) <= MaxServed,
         TypeOK, CallShape, Funded, RunsOnce, [Next]_vars
  PROVE  RunsOnce'
<1> DEFINE Ran(k) == /\ executions[k] <= 1
                     /\ executions[k] > 0 => WasServed(k) /\ ledger[k].creates > 0
           Queued(d) == call[d].pc # "idle" /\ Req(d).pay = "escrow" =>
               /\ call[d].pc \in {"verifying", "verified"} => ~ WasServed(Req(d).key)
               /\ call[d].pc \in {"admitted", "preparing"}
                    => WasServed(Req(d).key) /\ executions[Req(d).key] = 0
<1>1. /\ \A k \in Keys : Ran(k)
      /\ \A d \in Calls : Queued(d)
  BY DEF RunsOnce
<1>2. SUFFICES /\ \A k \in Keys : Ran(k)'
               /\ \A d \in Calls : Queued(d)'
  BY DEF RunsOnce
<1>3. \A k \in Keys : /\ ledger[k].creates \in Nat /\ ledger'[k].creates \in Nat
                      /\ ledger'[k].creates >= ledger[k].creates
                      /\ executions[k] \in Nat
  BY Monotone
<1>4. ASSUME UNCHANGED <<served, executions>>
      PROVE  \A k \in Keys : Ran(k)'
  BY <1>1, <1>3, <1>4 DEF WasServed
<1>5. ASSUME NEW d \in Calls, call'[d] = call[d], UNCHANGED <<served, executions>>
      PROVE  Queued(d)'
  BY <1>1, <1>5 DEF WasServed, Req
<1>6. CASE ChainStep \/ EndOfTime \/ UNCHANGED vars
  <2>1. UNCHANGED <<call, served, executions>>
    BY <1>6 DEF ChainStep, EndOfTime, vars, node
  <2>2. QED
    BY <1>4, <1>5, <2>1
<1>7. CASE Restart
  BY <1>7 DEF Restart, TypeOK
<1>8. ASSUME NEW c \in Calls, Ends(c), UNCHANGED <<served, executions>>
      PROVE  (\A k \in Keys : Ran(k)') /\ Queued(c)'
  BY <1>4, <1>8, IdleTyped DEF Ends
<1>9. ASSUME NEW c \in Calls, NEW t, Goes(c, "running", t), CountRun(Req(c)),
             call[c].pc \in {"admitted", "preparing"}, UNCHANGED <<served, ledger>>
      PROVE  (\A k \in Keys : Ran(k)') /\ Queued(c)'
  <2>1. Req(c).key \in Keys /\ executions \in [Keys -> Nat]
    BY <1>9, RequestTyped DEF TypeOK
  <2>2. Queued(c)'
    BY <1>9 DEF Goes
  <2>3. CASE Req(c).pay = "escrow"
    <3>1. /\ WasServed(Req(c).key) /\ executions[Req(c).key] = 0
          /\ ledger[Req(c).key].creates > 0
      BY <1>1, <1>9, <2>3 DEF Funded, WorkFunded
    <3>2. executions' = [executions EXCEPT ![Req(c).key] = @ + 1]
      BY <1>9, <2>3 DEF CountRun
    <3>3. QED
      BY <1>1, <1>9, <2>1, <2>2, <3>1, <3>2 DEF WasServed
  <2>4. CASE Req(c).pay # "escrow"
    BY <1>4, <1>9, <2>2, <2>4 DEF CountRun
  <2>5. QED
    BY <2>3, <2>4
<1>10. ASSUME NEW c \in Calls, Admission(c)
       PROVE  (\A k \in Keys : Ran(k)') /\ Queued(c)'
  <2>1. ASSUME NEW r \in Requests, Receive(c, r)
        PROVE  (\A k \in Keys : Ran(k)') /\ Queued(c)'
    <3>1. /\ \/ r.pay = "escrow" /\ Begins(c, r, "verifying", clock + RpcTimeout)
             \/ r.pay # "escrow" /\ Begins(c, r, "admitted", clock)
          /\ UNCHANGED <<served, executions>>
      BY <2>1, ReceiveEffect
    <3>2. r.pay = "escrow" => ~ WasServed(r.key)
      BY <2>1 DEF Receive
    <3>3. Queued(c)'
      BY <3>1, <3>2 DEF Begins, Req, WasServed
    <3>4. QED
      BY <1>4, <3>1, <3>3
  <2>2. CASE ReadEscrow(c)
    <3>1. /\ At(c, "verifying") /\ (Ends(c) \/ Learns(c))
          /\ UNCHANGED <<served, executions>>
      BY <2>2, ReadEffect
    <3>2. Learns(c) => Queued(c)'
      BY <1>1, <3>1 DEF Learns, Req, At, WasServed
    <3>3. QED
      BY <1>4, <1>8, <3>1, <3>2
  <2>3. CASE RpcFails(c)
    BY <1>8, <2>3, HandlerEffect DEF RpcFails
  <2>4. CASE Reserve(c)
    <3>1. /\ Goes(c, "admitted", clock) /\ At(c, "verified")
          /\ Insert(Req(c).key) /\ UNCHANGED <<executions, ledger>>
      BY <2>4, HandlerEffect DEF Reserve, chain
    <3>2. Req(c).key \in Keys /\ Req(c).pay = "escrow"
      BY <3>1, RequestTyped DEF At, CallShape
    <3>3. Range(served') = Range(served) \cup {Req(c).key}
      BY <3>1, <3>2, InsertRemembers
    <3>4. ~ WasServed(Req(c).key)
      BY <1>1, <3>1, <3>2 DEF At
    <3>5. executions[Req(c).key] = 0
      BY <1>1, <1>3, <3>2, <3>4
    <3>6. Req(c)' = Req(c) /\ call'[c].pc = "admitted"
      BY <3>1 DEF Goes, Req
    <3>7. Queued(c)'
      BY <3>1, <3>3, <3>5, <3>6 DEF WasServed
    <3>8. \A k \in Keys : Ran(k)'
      BY <1>1, <3>1, <3>3 DEF WasServed
    <3>9. QED
      BY <3>7, <3>8
  <2>5. QED
    BY <1>10, <2>1, <2>2, <2>3, <2>4 DEF Admission
<1>11. ASSUME NEW c \in Calls, Execution(c)
       PROVE  (\A k \in Keys : Ran(k)') /\ Queued(c)'
  <2>1. CASE StartKernel(c)
    BY <1>9, <2>1, HandlerEffect DEF StartKernel, At, chain
  <2>2. CASE StartEndpoint(c)
    BY <1>9, <2>2, HandlerEffect DEF StartEndpoint, At, chain
  <2>3. CASE RunWorkload(c)
    BY <1>9, <2>3, HandlerEffect DEF RunWorkload, At, chain
  <2>4. CASE StartWorkload(c)
    <3>1. /\ Goes(c, "preparing", clock + MaxPrepare) /\ At(c, "admitted")
          /\ UNCHANGED <<served, executions>>
      BY <2>4, HandlerEffect DEF StartWorkload
    <3>2. QED
      BY <1>1, <1>4, <3>1 DEF Goes, At, Req, WasServed
  <2>5. CASE CutLoose(c)
    <3>1. Goes(c, "detached", Never) /\ UNCHANGED <<served, executions>>
      BY <2>5, HandlerEffect DEF CutLoose
    <3>2. QED
      BY <1>4, <3>1 DEF Goes
  <2>6. CASE Refuse(c) \/ Succeed(c) \/ Fail(c)
    BY <1>8, <2>6, HandlerEffect DEF Refuse, Succeed, Fail
  <2>7. QED
    BY <1>11, <2>1, <2>2, <2>3, <2>4, <2>5, <2>6 DEF Execution
<1>12. QED
  BY <1>6, <1>7, <1>10, <1>11 DEF Next

(* "An escrow funds exactly one execution" (core.rs:342), for a node that   *)
(* handles one request at a time, has not been restarted and has room to     *)
(* remember every escrow: for every number of escrows, deposits and requests *)
(* and every interleaving with the chain.  Two handlers break it (the run    *)
(* node_race), and so does a restart or a full set.                          *)
THEOREM OneHandlerRunsOnce ==
  ASSUME \A c, d \in Calls : c = d, MaxRestarts = 0,
         IsFiniteSet(Keys), Cardinality(Keys) <= MaxServed
  PROVE  Spec => []NoFreeExecution
<1> DEFINE I == TypeOK /\ CallShape /\ Funded /\ RunsOnce
<1>1. Init => I
  <2>1. Init => AccountsCounted /\ SignedWorkWasFunded
    BY DEF Init, Chain!Init, AccountsCounted, SignedWorkWasFunded
  <2>2. Init => WorkFunded
    BY IdleTyped DEF Init, WorkFunded
  <2>3. Init => RunsOnce
    BY IdleTyped DEF Init, RunsOnce
  <2>4. QED
    BY InitTyped, <2>1, <2>2, <2>3 DEF Funded
<1>2. I /\ [Next]_vars => I'
  BY TypeStep, AccountsStep, WorkFundedStep, SignedStep, RunsOnceStep DEF Funded
<1>3. I => NoFreeExecution
  <2>1. ASSUME I, NEW k \in Keys
        PROVE  executions[k] <= ledger[k].creates
    <3>1. executions[k] \in Nat /\ ledger[k].creates \in Nat
      BY <2>1 DEF TypeOK, Chain!TypeOK, Chain!LedgerType
    <3>2. executions[k] <= 1 /\ (executions[k] > 0 => ledger[k].creates > 0)
      BY <2>1 DEF RunsOnce
    <3>3. QED
      BY <3>1, <3>2
  <2>2. QED
    BY <2>1 DEF NoFreeExecution
<1>4. QED
  BY <1>1, <1>2, <1>3, PTL DEF Spec

-----------------------------------------------------------------------------
(* How far the race of two handlers for one escrow goes. *)

(* The handlers that may still start a run for an escrow. *)
Waiting(k) ==
  {c \in Calls : /\ call[c].pc \in {"verifying", "verified", "admitted", "preparing"}
                 /\ Req(c).pay = "escrow" /\ Req(c).key = k}

(* An escrow that is not in the set of served ones has had no run since the *)
(* node started, and none is due; once it is in the set nobody joins those   *)
(* who wait, and every run takes one of them away.                           *)
Raced(k) ==
  LET n == Cardinality(Calls)
  IN  /\ WasServed(k) => executions[k] + Cardinality(Waiting(k)) <= restarts * n + n
      /\ ~ WasServed(k) =>
           /\ executions[k] <= restarts * n
           /\ \A c \in Waiting(k) : call[c].pc \in {"verifying", "verified"}

RaceInv == \A k \in Keys : Raced(k)

LEMMA WaitingCount ==
  ASSUME NEW k
  PROVE  /\ IsFiniteSet(Waiting(k)) /\ Cardinality(Waiting(k)) \in Nat
         /\ Cardinality(Waiting(k)) <= Cardinality(Calls)
         /\ Cardinality(Calls) \in Nat
<1>1. Waiting(k) \in SUBSET Calls /\ IsFiniteSet(Calls)
  BY NodeAssumption DEF Waiting
<1>2. QED
  BY <1>1, FS_Subset, FS_CardinalityType

(* The product in the bound, as one number. *)
LEMMA BoundGrows ==
  ASSUME NEW r \in Nat, NEW n \in Nat
  PROVE  /\ r * n \in Nat /\ (r + 1) * n = r * n + n
BY SMTT(30)

(* A step that starts no run, enters nothing and lets nobody join those who *)
(* wait for an escrow that was served.                                       *)
LEMMA RaceQuiet ==
  ASSUME TypeOK, TypeOK', NEW k \in Keys, Raced(k),
         executions'[k] = executions[k], UNCHANGED <<served, restarts>>,
         WasServed(k) => Waiting(k)' \subseteq Waiting(k),
         ~ WasServed(k) =>
           \A c \in Waiting(k)' : call'[c].pc \in {"verifying", "verified"}
  PROVE  Raced(k)'
<1> DEFINE n == Cardinality(Calls)
           b == restarts * n
           w == Cardinality(Waiting(k))
           v == Cardinality(Waiting(k)')
<1>1. n \in Nat /\ b \in Nat /\ restarts \in Nat
  BY WaitingCount, BoundGrows DEF TypeOK
<1>2. w \in Nat /\ IsFiniteSet(Waiting(k)) /\ executions[k] \in Nat
  BY WaitingCount DEF TypeOK
<1>3. WasServed(k)' <=> WasServed(k)
  BY DEF WasServed
<1>4. CASE WasServed(k)
  <2>1. v <= w /\ v \in Nat
    BY <1>2, <1>4, FS_Subset, FS_CardinalityType
  <2>2. executions[k] + w <= b + n
    BY <1>4 DEF Raced
  <2> HIDE DEF n, b, w, v
  <2>3. executions'[k] + v <= b + n
    BY <1>1, <1>2, <2>1, <2>2
  <2>4. QED
    BY <1>3, <1>4, <2>3 DEF Raced, n, b, v
<1>5. CASE ~ WasServed(k)
  BY <1>3, <1>5 DEF Raced
<1>6. QED
  BY <1>4, <1>5

(* Who waits changes only by the handler that moves. *)
LEMMA WaitingChange ==
  ASSUME NEW c \in Calls, Others(c), NEW k
  PROVE  /\ Waiting(k)' \subseteq Waiting(k) \cup {c}
         /\ c \notin Waiting(k)' => Waiting(k)' = Waiting(k) \ {c}
         /\ \A d \in Calls : d # c => call'[d] = call[d]
BY DEF Others, Waiting, Req

LEMMA RaceEnds ==
  ASSUME TypeOK, TypeOK', RaceInv, NEW c \in Calls, Ends(c),
         UNCHANGED <<served, executions, restarts>>
  PROVE  RaceInv'
<1>1. SUFFICES ASSUME NEW k \in Keys PROVE Raced(k)'
  BY DEF RaceInv
<1>2. c \notin Waiting(k)'
  BY IdleTyped DEF Ends, Waiting
<1>3. Waiting(k)' = Waiting(k) \ {c} /\ \A d \in Calls : d # c => call'[d] = call[d]
  BY <1>2, WaitingChange DEF Ends
<1>4. ~ WasServed(k) =>
        \A d \in Waiting(k)' : call'[d].pc \in {"verifying", "verified"}
  BY <1>2, <1>3 DEF RaceInv, Raced, Waiting
<1>5. QED
  BY <1>3, <1>4, RaceQuiet DEF RaceInv

(* A handler that waits starts its run. *)
LEMMA RaceRuns ==
  ASSUME TypeOK, TypeOK', RaceInv, CallShape, NEW c \in Calls, NEW t,
         Goes(c, "running", t), CountRun(Req(c)),
         call[c].pc \in {"admitted", "preparing"}, UNCHANGED <<served, restarts>>
  PROVE  RaceInv'
<1>1. SUFFICES ASSUME NEW k \in Keys PROVE Raced(k)'
  BY DEF RaceInv
<1>2. c \notin Waiting(k)'
  BY DEF Goes, Waiting
<1>3. Waiting(k)' = Waiting(k) \ {c} /\ \A d \in Calls : d # c => call'[d] = call[d]
  BY <1>2, WaitingChange DEF Goes
<1>4. ~ WasServed(k) =>
        \A d \in Waiting(k)' : call'[d].pc \in {"verifying", "verified"}
  BY <1>2, <1>3 DEF RaceInv, Raced, Waiting
<1>5. Req(c).key \in Keys /\ executions \in [Keys -> Nat]
  BY RequestTyped DEF TypeOK
<1>6. CASE Req(c).pay = "escrow" /\ Req(c).key = k
  <2> DEFINE n == Cardinality(Calls)
             b == restarts * n
             w == Cardinality(Waiting(k))
             v == Cardinality(Waiting(k)')
  <2>1. c \in Waiting(k)
    BY <1>6 DEF Waiting
  <2>2. WasServed(k)
    BY <2>1 DEF RaceInv, Raced
  <2>3. executions[k] + w <= b + n
    BY <2>2 DEF RaceInv, Raced
  <2>4. executions'[k] = executions[k] + 1 /\ executions[k] \in Nat
    BY <1>5, <1>6 DEF CountRun
  <2>5. v = w - 1 /\ w \in Nat
    BY <1>3, <2>1, WaitingCount, FS_RemoveElement
  <2>6. n \in Nat /\ b \in Nat
    BY WaitingCount, BoundGrows DEF TypeOK
  <2> HIDE DEF n, b, w, v
  <2>7. executions'[k] + v <= b + n
    BY <2>3, <2>4, <2>5, <2>6
  <2>8. QED
    BY <2>2, <2>7 DEF Raced, WasServed, n, b, v
<1>7. CASE ~ (Req(c).pay = "escrow" /\ Req(c).key = k)
  <2>1. executions'[k] = executions[k]
    BY <1>5, <1>7 DEF CountRun
  <2>2. QED
    BY <1>3, <1>4, <2>1, RaceQuiet DEF RaceInv
<1>8. QED
  BY <1>6, <1>7

(* A handler goes on without a run, and with no place among those who wait  *)
(* that it did not have.                                                     *)
LEMMA RaceMoves ==
  ASSUME TypeOK, TypeOK', RaceInv, NEW c \in Calls, Others(c),
         UNCHANGED <<served, executions, restarts>>,
         \A k \in Keys : c \in Waiting(k)' =>
           /\ WasServed(k) => c \in Waiting(k)
           /\ \/ call'[c].pc \in {"verifying", "verified"}
              \/ c \in Waiting(k) /\ call[c].pc \in {"admitted", "preparing"}
  PROVE  RaceInv'
<1>1. SUFFICES ASSUME NEW k \in Keys PROVE Raced(k)'
  BY DEF RaceInv
<1>2. /\ Waiting(k)' \subseteq Waiting(k) \cup {c}
      /\ \A d \in Calls : d # c => call'[d] = call[d]
  BY WaitingChange
<1>3. WasServed(k) => Waiting(k)' \subseteq Waiting(k)
  BY <1>2
<1>4. ~ WasServed(k) =>
        \A d \in Waiting(k)' : call'[d].pc \in {"verifying", "verified"}
  BY <1>2 DEF RaceInv, Raced, Waiting
<1>5. QED
  BY <1>3, <1>4, RaceQuiet DEF RaceInv

LEMMA RaceReserves ==
  ASSUME IsFiniteSet(Keys), Cardinality(Keys) <= MaxServed,
         TypeOK, TypeOK', CallShape, RaceInv, NEW c \in Calls, Reserve(c)
  PROVE  RaceInv'
<1>1. /\ Goes(c, "admitted", clock) /\ At(c, "verified")
      /\ Insert(Req(c).key) /\ UNCHANGED <<executions, restarts>>
  BY HandlerEffect DEF Reserve
<1>2. Req(c).key \in Keys /\ Req(c).pay = "escrow"
  BY <1>1, RequestTyped DEF At, CallShape
<1>3. \A k : WasServed(k)' <=> WasServed(k) \/ k = Req(c).key
  BY <1>1, <1>2, InsertRemembers DEF WasServed
<1>4. SUFFICES ASSUME NEW k \in Keys PROVE Raced(k)'
  BY DEF RaceInv
<1>5. Waiting(k)' = Waiting(k) /\ \A d \in Calls : d # c => call'[d] = call[d]
  <2>1. Req(c)' = Req(c) /\ call'[c].pc = "admitted" /\ call[c].pc = "verified"
    BY <1>1 DEF Goes, At, Req
  <2>2. \A d \in Calls : d # c => call'[d] = call[d] /\ Req(d)' = Req(d)
    BY <1>1 DEF Goes, Others, Req
  <2>3. QED
    BY <2>1, <2>2 DEF Waiting
<1>6. CASE k = Req(c).key /\ ~ WasServed(k)
  <2> DEFINE n == Cardinality(Calls)
             b == restarts * n
             v == Cardinality(Waiting(k)')
  <2>1. executions[k] <= b
    BY <1>6 DEF RaceInv, Raced
  <2>2. n \in Nat /\ b \in Nat /\ executions[k] \in Nat
    BY WaitingCount, BoundGrows DEF TypeOK
  <2>3. v \in Nat /\ v <= n
    BY <1>5, WaitingCount
  <2> HIDE DEF n, b, v
  <2>4. executions[k] + v <= b + n
    BY <2>1, <2>2, <2>3
  <2>5. QED
    BY <1>1, <1>3, <1>6, <2>4 DEF Raced, n, b, v
<1>7. CASE WasServed(k)
  BY <1>1, <1>3, <1>5, <1>7 DEF RaceInv, Raced
<1>8. CASE k # Req(c).key /\ ~ WasServed(k)
  <2>1. c \notin Waiting(k)
    BY <1>8 DEF Waiting
  <2>2. \A d \in Waiting(k) : call'[d].pc \in {"verifying", "verified"}
    BY <1>5, <1>8, <2>1 DEF RaceInv, Raced, Waiting
  <2>3. QED
    BY <1>1, <1>3, <1>5, <1>8, <2>2 DEF RaceInv, Raced
<1>9. QED
  BY <1>6, <1>7, <1>8

LEMMA RaceStep ==
  ASSUME IsFiniteSet(Keys), Cardinality(Keys) <= MaxServed,
         TypeOK, TypeOK', CallShape, RaceInv, [Next]_vars
  PROVE  RaceInv'
<1>1. CASE ChainStep \/ EndOfTime \/ UNCHANGED vars
  <2>1. UNCHANGED <<call, served, executions, restarts>>
    BY <1>1 DEF ChainStep, EndOfTime, vars, node
  <2>2. QED
    BY <2>1 DEF RaceInv, Raced, Waiting, WasServed, Req
<1>2. CASE Restart
  <2>1. SUFFICES ASSUME NEW k \in Keys PROVE Raced(k)'
    BY DEF RaceInv
  <2>2. ~ WasServed(k)' /\ Waiting(k)' = {}
    BY <1>2, IdleTyped DEF Restart, WasServed, Range, Waiting
  <2> DEFINE n == Cardinality(Calls)
             b == restarts * n
             w == Cardinality(Waiting(k))
  <2>3. n \in Nat /\ b \in Nat /\ w \in Nat /\ executions[k] \in Nat
    BY WaitingCount, BoundGrows DEF TypeOK
  <2>4. restarts' * n = b + n
    BY <1>2, <2>3, BoundGrows DEF Restart, TypeOK
  <2>5. executions[k] + w <= b + n \/ executions[k] <= b
    BY DEF RaceInv, Raced
  <2> HIDE DEF n, b, w
  <2>6. executions[k] <= b + n
    BY <2>3, <2>5
  <2>7. executions'[k] <= restarts' * n
    BY <1>2, <2>4, <2>6 DEF Restart
  <2>8. QED
    BY <2>2, <2>7 DEF Raced, n
<1>3. ASSUME NEW c \in Calls, Admission(c) PROVE RaceInv'
  <2>1. ASSUME NEW r \in Requests, Receive(c, r) PROVE RaceInv'
    <3>1. /\ \/ r.pay = "escrow" /\ Begins(c, r, "verifying", clock + RpcTimeout)
             \/ r.pay # "escrow" /\ Begins(c, r, "admitted", clock)
          /\ UNCHANGED <<served, executions>>
      BY <2>1, ReceiveEffect
    <3>2. (r.pay = "escrow" => ~ WasServed(r.key)) /\ restarts' = restarts
      BY <2>1 DEF Receive
    <3>3. \A k \in Keys : c \in Waiting(k)' =>
            ~ WasServed(k) /\ call'[c].pc \in {"verifying", "verified"}
      BY <3>1, <3>2 DEF Begins, Waiting, Req
    <3>4. Others(c)
      BY <3>1 DEF Begins
    <3>5. QED
      BY <3>1, <3>2, <3>3, <3>4, RaceMoves
  <2>2. CASE ReadEscrow(c)
    <3>1. /\ At(c, "verifying") /\ (Ends(c) \/ Learns(c))
          /\ UNCHANGED <<served, executions, restarts>>
      BY <2>2, ReadEffect DEF ReadEscrow
    <3>2. ASSUME Learns(c) PROVE RaceInv'
      <4>1. \A k \in Keys : c \in Waiting(k)' =>
              c \in Waiting(k) /\ call'[c].pc \in {"verifying", "verified"}
        BY <3>1, <3>2 DEF Learns, Waiting, Req, At
      <4>2. Others(c)
        BY <3>2 DEF Learns
      <4>3. QED
        BY <3>1, <4>1, <4>2, RaceMoves
    <3>3. QED
      BY <3>1, <3>2, RaceEnds
  <2>3. CASE RpcFails(c)
    BY <2>3, HandlerEffect, RaceEnds DEF RpcFails
  <2>4. CASE Reserve(c)
    BY <2>4, RaceReserves
  <2>5. QED
    BY <1>3, <2>1, <2>2, <2>3, <2>4 DEF Admission
<1>4. ASSUME NEW c \in Calls, Execution(c) PROVE RaceInv'
  <2>1. CASE StartKernel(c)
    BY <2>1, HandlerEffect, RaceRuns DEF StartKernel, At
  <2>2. CASE StartEndpoint(c)
    BY <2>2, HandlerEffect, RaceRuns DEF StartEndpoint, At
  <2>3. CASE RunWorkload(c)
    BY <2>3, HandlerEffect, RaceRuns DEF RunWorkload, At
  <2>4. CASE StartWorkload(c)
    <3>1. /\ Goes(c, "preparing", clock + MaxPrepare) /\ At(c, "admitted")
          /\ UNCHANGED <<served, executions, restarts>>
      BY <2>4, HandlerEffect DEF StartWorkload
    <3>2. \A k \in Keys : c \in Waiting(k)' =>
            c \in Waiting(k) /\ call[c].pc \in {"admitted", "preparing"}
      BY <3>1 DEF Goes, Waiting, Req, At
    <3>3. QED
      BY <3>1, <3>2, RaceMoves DEF Goes
  <2>5. CASE CutLoose(c)
    <3>1. Goes(c, "detached", Never) /\ UNCHANGED <<served, executions, restarts>>
      BY <2>5, HandlerEffect DEF CutLoose
    <3>2. \A k \in Keys : c \notin Waiting(k)'
      BY <3>1 DEF Goes, Waiting
    <3>3. QED
      BY <3>1, <3>2, RaceMoves DEF Goes
  <2>6. CASE Refuse(c) \/ Succeed(c) \/ Fail(c)
    BY <2>6, HandlerEffect, RaceEnds DEF Refuse, Succeed, Fail
  <2>7. QED
    BY <1>4, <2>1, <2>2, <2>3, <2>4, <2>5, <2>6 DEF Execution
<1>5. QED
  BY <1>1, <1>2, <1>3, <1>4 DEF Next

(* How far the node strays from "an escrow funds exactly one execution"      *)
(* (core.rs:342): for any number of handlers that race for one escrow        *)
(* between the look at the set of served ones and the entry into it          *)
(* (core.rs:642 and :673), and however often the node is restarted and        *)
(* forgets the set, no more runs are started for it than there are handlers, *)
(* in each of the node's lives.  The bound is reached.                        *)
THEOREM RaceIsBounded ==
  ASSUME IsFiniteSet(Keys), Cardinality(Keys) <= MaxServed
  PROVE  Spec => [](\A k \in Keys : executions[k] <= (restarts + 1) * Cardinality(Calls))
<1> DEFINE I == TypeOK /\ CallShape /\ RaceInv
           Bounded == \A k \in Keys : executions[k] <= (restarts + 1) * Cardinality(Calls)
<1>1. Init => I
  <2>1. ASSUME Init, NEW k \in Keys PROVE Raced(k)
    <3>1. ~ WasServed(k) /\ Waiting(k) = {}
      BY <2>1, IdleTyped DEF Init, WasServed, Range, Waiting
    <3>2. executions[k] = 0 /\ restarts * Cardinality(Calls) \in Nat
      BY <2>1, WaitingCount, BoundGrows DEF Init
    <3>3. QED
      BY <3>1, <3>2 DEF Raced
  <2>2. QED
    BY <2>1, InitTyped DEF RaceInv
<1>2. I /\ [Next]_vars => I'
  BY TypeStep, RaceStep
<1>3. I => Bounded
  <2>1. SUFFICES ASSUME I, NEW k \in Keys
                 PROVE  executions[k] <= (restarts + 1) * Cardinality(Calls)
    OBVIOUS
  <2> DEFINE n == Cardinality(Calls)
             b == restarts * n
             w == Cardinality(Waiting(k))
  <2>2. n \in Nat /\ b \in Nat /\ w \in Nat /\ executions[k] \in Nat
    BY <2>1, WaitingCount, BoundGrows DEF TypeOK
  <2>3. (restarts + 1) * n = b + n
    BY <2>1, <2>2, BoundGrows DEF TypeOK
  <2>4. executions[k] + w <= b + n \/ executions[k] <= b
    BY <2>1 DEF RaceInv, Raced
  <2> HIDE DEF n, b, w
  <2>5. executions[k] <= b + n
    BY <2>2, <2>4
  <2>6. QED
    BY <2>3, <2>5 DEF n
<1>4. QED
  BY <1>1, <1>2, <1>3, PTL DEF Spec
==============================================================================

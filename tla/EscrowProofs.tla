---------------------------- MODULE EscrowProofs ----------------------------
(***************************************************************************)
(* Theorems about Escrow, for every set of keys, providers, amounts and    *)
(* timeouts, every scaling of u64 and every challenge window shorter than  *)
(* the shortest timeout.                                                   *)
(***************************************************************************)
EXTENDS Escrow, Integers, TLAPS

-----------------------------------------------------------------------------
(* Arithmetic of the shares. *)

(* Division by 10000 rounds down by less than one unit (settle's `cut',      *)
(* lib.rs:541).                                                              *)
LEMMA CutBounds ==
  ASSUME NEW x \in Nat
  PROVE  /\ x \div BPS \in Nat
         /\ BPS * (x \div BPS) <= x
         /\ x < BPS * (x \div BPS) + BPS
BY DEF BPS

(* The check on basis points at creation leaves the provider a strictly     *)
(* positive share at release, short of its exact share by nothing and above *)
(* it by less than three units (init_job's comment, lib.rs:448).             *)
THEOREM SharesLeaveProvider ==
  ASSUME NEW j \in JobType, j.amount > 0, SplitAccepted(j.split)
  PROVE  LET left == BPS - PROTOCOL_FEE_BPS - j.split.storage - j.split.author
         IN  /\ Deductions(j) \in Nat
             /\ Deductions(j) < j.amount
             /\ BPS * (j.amount - Deductions(j)) >= left * j.amount
             /\ BPS * (j.amount - Deductions(j)) < left * j.amount + 3 * BPS
<1> DEFINE a == j.amount
           s == j.split.storage
           u == j.split.author
           f == Cut(a, 400)
           cs == Cut(a, s)
           cu == Cut(a, u)
<1>1. a \in Nat /\ a > 0 /\ s \in Nat /\ u \in Nat /\ 400 + s + u < 10000
  BY DEF JobType, SplitType, SplitAccepted, PROTOCOL_FEE_BPS, BPS
<1> HIDE DEF a, s, u
<1>2. /\ f \in Nat /\ 10000 * f <= a * 400 /\ a * 400 < 10000 * f + 10000
      /\ cs \in Nat /\ 10000 * cs <= a * s /\ a * s < 10000 * cs + 10000
      /\ cu \in Nat /\ 10000 * cu <= a * u /\ a * u < 10000 * cu + 10000
  <2>1. a * 400 \in Nat /\ a * s \in Nat /\ a * u \in Nat
    BY <1>1
  <2> DEFINE xf == a * 400
             xs == a * s
             xu == a * u
  <2>2. f = xf \div BPS /\ cs = xs \div BPS /\ cu = xu \div BPS
    BY DEF Cut
  <2> HIDE DEF f, cs, cu, xf, xs, xu
  <2>3. xf \in Nat /\ xs \in Nat /\ xu \in Nat
    BY <2>1 DEF xf, xs, xu
  <2>4. /\ f \in Nat /\ 10000 * f <= xf /\ xf < 10000 * f + 10000
        /\ cs \in Nat /\ 10000 * cs <= xs /\ xs < 10000 * cs + 10000
        /\ cu \in Nat /\ 10000 * cu <= xu /\ xu < 10000 * cu + 10000
    BY <2>2, <2>3, CutBounds DEF BPS
  <2>5. QED
    BY <2>4 DEF xf, xs, xu, f, cs, cu
<1>3. Deductions(j) = f + cs + cu
  BY DEF Deductions, PROTOCOL_FEE_BPS, a, s, u
<1> HIDE DEF f, cs, cu
<1>4. PICK r \in Nat : r > 0 /\ 10000 = 400 + s + u + r
  <2>1. /\ 10000 - 400 - s - u \in Nat
        /\ 10000 - 400 - s - u > 0
        /\ 10000 = 400 + s + u + (10000 - 400 - s - u)
    BY <1>1
  <2>2. QED
    BY <2>1
<1>5. a * 10000 = a * 400 + a * s + a * u + a * r
  BY <1>1, <1>4
<1>6. a * r > 0 /\ a * s \in Nat /\ a * u \in Nat /\ a * r \in Nat
  BY <1>1, <1>4
<1>7. 10000 * (f + cs + cu) <= 10000 * a - a * r
  BY <1>1, <1>2, <1>5, <1>6
<1>8. 10000 * a - a * r < 10000 * (f + cs + cu) + 30000
  BY <1>1, <1>2, <1>5, <1>6
<1>9. /\ f + cs + cu \in Nat
      /\ f + cs + cu < a
      /\ 10000 * (a - (f + cs + cu)) >= r * a
      /\ 10000 * (a - (f + cs + cu)) < r * a + 30000
  <2>1. r * a = a * r
    BY <1>1, <1>4
  <2>2. QED
    BY <1>1, <1>2, <1>6, <1>7, <1>8, <2>1
<1>10. 10000 - 400 - s - u = r
  BY <1>1, <1>4
<1>11. QED
  BY <1>3, <1>9, <1>10 DEF a, s, u, BPS, PROTOCOL_FEE_BPS

-----------------------------------------------------------------------------
(* Type correctness. *)

(* No instruction, however it interleaves with the others, takes the state  *)
(* out of its type: in particular an amount held or paid is never negative. *)
LEMMA TypeStep ==
  ASSUME TypeOK, [Next]_vars
  PROVE  TypeOK'
<1> USE ConstantsAssumption
<1>1. ASSUME NEW k \in Keys, NEW p \in Providers, NEW a \in Amounts,
             NEW t \in Timeouts, NEW s \in SplitType, InitJob(k, p, a, t, s)
      PROVE TypeOK'
  <2>1. [provider |-> p, amount |-> a, created |-> clock,
         deadline |-> clock + t, state |-> "Active", split |-> s] \in JobType
    BY DEF TypeOK, JobType
  <2>2. job' \in [Keys -> JobType \cup {NoJob}]
    BY <1>1, <2>1 DEF TypeOK, InitJob
  <2>3. vault' \in [Keys -> Nat]
    BY <1>1 DEF TypeOK, InitJob
  <2>4. ledger' \in [Keys -> LedgerType]
    BY <1>1 DEF TypeOK, InitJob, LedgerType
  <2>5. QED
    BY <1>1, <2>2, <2>3, <2>4 DEF TypeOK, InitJob
<1>2. NoSplit \in SplitType
  BY DEF NoSplit, SplitType
<1>3. ASSUME NEW k \in Keys, NEW supplied \in SUBSET {"storage", "author"},
             Open(k), Settle(k, supplied), CloseJob(k), UNCHANGED <<clock, results>>
      PROVE TypeOK'
  <2> DEFINE j == job[k]
  <2>1. j \in JobType
    BY <1>3 DEF TypeOK, Open
  <2> DEFINE f == Cut(j.amount, PROTOCOL_FEE_BPS)
             cs == Cut(j.amount, j.split.storage)
             cu == Cut(j.amount, j.split.author)
             pr == j.amount - Deductions(j)
  <2>2. f \in Nat /\ cs \in Nat /\ cu \in Nat /\ pr \in Nat
    <3>1. j.amount \in Nat /\ j.split.storage \in Nat /\ j.split.author \in Nat
      BY <2>1 DEF JobType, SplitType
    <3>2. j.amount * 400 \in Nat /\ j.amount * j.split.storage \in Nat
            /\ j.amount * j.split.author \in Nat
      BY <3>1
    <3> HIDE DEF j
    <3>3. f \in Nat /\ cs \in Nat /\ cu \in Nat
      BY <3>2, CutBounds DEF Cut, PROTOCOL_FEE_BPS
    <3>4. Deductions(j) < j.amount
      BY <1>3 DEF Settle, SettleChecks, j
    <3>5. Deductions(j) = f + cs + cu
      BY DEF Deductions
    <3> HIDE DEF f, cs, cu
    <3>6. QED
      BY <3>1, <3>3, <3>4, <3>5
  <2>3. /\ vault' = [vault EXCEPT ![k] = 0]
        /\ ledger' = [ledger EXCEPT ![k] = Paid(@, pr, f, cs, cu)]
    BY <1>3 DEF Settle
  <2> HIDE DEF f, cs, cu, pr
  <2>4. ledger' \in [Keys -> LedgerType]
    <3>1. ledger[k] \in LedgerType
      BY DEF TypeOK
    <3>2. Paid(ledger[k], pr, f, cs, cu) \in LedgerType
      BY <3>1, <2>2 DEF Paid, LedgerType
    <3>3. QED
      BY <3>2, <2>3 DEF TypeOK
  <2>5. job' \in [Keys -> JobType \cup {NoJob}]
    BY <1>3 DEF CloseJob, TypeOK
  <2>6. QED
    BY <1>3, <2>3, <2>4, <2>5 DEF TypeOK
<1>4. ASSUME NEW k \in Keys, NEW signer, Refund(k, signer)
      PROVE TypeOK'
  <2>1. job[k] \in JobType
    BY <1>4 DEF Refund, TypeOK, Open
  <2>2. job[k].amount \in Nat
    BY <2>1 DEF JobType
  <2>3. ledger' \in [Keys -> LedgerType]
    BY <1>4, <2>2 DEF Refund, TypeOK, LedgerType
  <2>4. QED
    BY <1>4, <2>3 DEF Refund, CloseJob, TypeOK
<1>5. CASE ChainNext
  <2>1. ASSUME NEW k \in Keys, NEW p \in Providers, NEW a \in Amounts,
               NEW t \in Timeouts, CreateJob(k, p, a, t)
        PROVE TypeOK'
    BY <1>1, <1>2, <2>1 DEF CreateJob
  <2>2. ASSUME NEW k \in Keys, NEW p \in Providers, NEW a \in Amounts,
               NEW t \in Timeouts, NEW s \in Splits, CreateJobSplit(k, p, a, t, s)
        PROVE TypeOK'
    BY <1>1, <2>2 DEF CreateJobSplit
  <2>3. ASSUME NEW k \in Keys, NEW supplied \in SUBSET {"storage", "author"},
               Release(k, supplied) \/ ReleaseVerified(k, supplied)
        PROVE TypeOK'
    BY <1>3, <2>3 DEF Release, ReleaseVerified
  <2>4. CASE Tick
    BY <2>4 DEF Tick, TypeOK
  <2>5. QED
    BY <1>4, <1>5, <2>1, <2>2, <2>3, <2>4 DEF ChainNext
<1>6. ASSUME NEW p \in Providers, NEW k \in Keys, SignResult(p, k)
      PROVE TypeOK'
  BY <1>6 DEF SignResult, TypeOK
<1>7. CASE UNCHANGED vars
  BY <1>7 DEF vars, TypeOK
<1>8. QED
  BY <1>5, <1>6, <1>7 DEF Next

(* Type correctness, for every value of the constants. *)
THEOREM TypeCorrect == Spec => []TypeOK
<1>1. Init => TypeOK
  BY DEF Init, TypeOK, LedgerType
<1>2. TypeOK /\ [Next]_vars => TypeOK'
  BY TypeStep
<1>3. QED
  BY <1>1, <1>2, PTL DEF Spec

-----------------------------------------------------------------------------
(* The inductive invariant.  Conservation is not inductive alone: a refund   *)
(* adds the job's amount, so it must be what the vault holds; and settling   *)
(* needs every open job's split to have passed the check at creation.        *)

SplitsAccepted == \A k \in Keys : Open(k) => SplitAccepted(job[k].split)

IInv == /\ TypeOK
        /\ VaultBacksJob
        /\ Conservation
        /\ SplitsAccepted
        /\ PayableBeforeReclaim

(* A settlement moves all the vault holds into the payees' columns of its   *)
(* own key and touches no other key.                                         *)
LEMMA SettleEffect ==
  ASSUME TypeOK, TypeOK', NEW k \in Keys, NEW supplied, Open(k), Settle(k, supplied)
  PROVE  /\ PaidOut(k)' = PaidOut(k) + vault[k]
         /\ ledger'[k].refunded = ledger[k].refunded
         /\ ledger'[k].deposited = ledger[k].deposited
         /\ vault' = [vault EXCEPT ![k] = 0]
         /\ \A i \in Keys : i # k => ledger'[i] = ledger[i]
<1> DEFINE j == job[k]
           f == Cut(j.amount, PROTOCOL_FEE_BPS)
           cs == Cut(j.amount, j.split.storage)
           cu == Cut(j.amount, j.split.author)
           pr == j.amount - Deductions(j)
<1>1. /\ vault[k] = pr + f + cs + cu
      /\ vault' = [vault EXCEPT ![k] = 0]
      /\ ledger' = [ledger EXCEPT ![k] = Paid(@, pr, f, cs, cu)]
  BY DEF Settle
<1>2. f \in Nat /\ cs \in Nat /\ cu \in Nat
  <2>1. j \in JobType
    BY DEF TypeOK, Open
  <2>2. j.amount \in Nat /\ j.split.storage \in Nat /\ j.split.author \in Nat
    BY <2>1 DEF JobType, SplitType
  <2>3. j.amount * 400 \in Nat /\ j.amount * j.split.storage \in Nat
          /\ j.amount * j.split.author \in Nat
    BY <2>2
  <2> HIDE DEF j
  <2>4. QED
    BY <2>3, CutBounds DEF Cut, PROTOCOL_FEE_BPS
<1>3. pr \in Int
  <2>1. j.amount \in Nat
    BY DEF TypeOK, Open, JobType
  <2>2. Deductions(j) = f + cs + cu
    BY DEF Deductions
  <2> HIDE DEF j, f, cs, cu
  <2>3. QED
    BY <1>2, <2>1, <2>2
<1> HIDE DEF f, cs, cu, pr
<1>4. ledger[k] \in LedgerType /\ ledger'[k] = Paid(ledger[k], pr, f, cs, cu)
  BY <1>1 DEF TypeOK
<1>5. PaidOut(k)' = PaidOut(k) + (pr + f + cs + cu)
  BY <1>2, <1>3, <1>4 DEF PaidOut, Paid, LedgerType
<1>6. QED
  BY <1>1, <1>4, <1>5 DEF Paid, TypeOK

(* Settling and closing a job preserves the invariant. *)
LEMMA SettlePreserves ==
  ASSUME IInv, TypeOK', NEW k \in Keys, NEW supplied,
         Open(k), Settle(k, supplied), CloseJob(k), UNCHANGED <<clock, results>>
  PROVE  IInv'
<1> USE DEF IInv
<1>1. /\ PaidOut(k)' = PaidOut(k) + vault[k]
      /\ ledger'[k].refunded = ledger[k].refunded
      /\ ledger'[k].deposited = ledger[k].deposited
      /\ vault' = [vault EXCEPT ![k] = 0]
      /\ \A i \in Keys : i # k => ledger'[i] = ledger[i]
  BY SettleEffect
<1>2. job' = [job EXCEPT ![k] = NoJob]
  BY DEF CloseJob
<1>3. VaultBacksJob'
  BY <1>1, <1>2 DEF VaultBacksJob, Open, TypeOK
<1>4. Conservation'
  <2> SUFFICES ASSUME NEW i \in Keys
               PROVE  (ledger[i].deposited = vault[i] + PaidOut(i) + ledger[i].refunded)'
    BY DEF Conservation
  <2>1. CASE i = k
    <3>1. /\ vault[k] \in Nat /\ PaidOut(k) \in Nat /\ ledger[k].refunded \in Nat
          /\ vault'[k] = 0
      BY <1>1 DEF TypeOK, LedgerType, PaidOut
    <3>2. ledger[k].deposited = vault[k] + PaidOut(k) + ledger[k].refunded
      BY DEF Conservation
    <3>3. QED
      BY <1>1, <2>1, <3>1, <3>2
  <2>2. CASE i # k
    <3>1. vault'[i] = vault[i] /\ ledger'[i] = ledger[i]
      BY <1>1, <2>2 DEF TypeOK
    <3>2. QED
      BY <3>1 DEF Conservation, PaidOut
  <2>3. QED
    BY <2>1, <2>2
<1>5. SplitsAccepted' /\ PayableBeforeReclaim'
  BY <1>2 DEF SplitsAccepted, PayableBeforeReclaim, Open, TypeOK
<1>6. QED
  BY <1>3, <1>4, <1>5

(* Locking money for a new job preserves the invariant. *)
LEMMA CreatePreserves ==
  ASSUME IInv, TypeOK', NEW k \in Keys, NEW p \in Providers, NEW a \in Amounts,
         NEW t \in Timeouts, NEW s \in SplitType, InitJob(k, p, a, t, s)
  PROVE  IInv'
<1> USE ConstantsAssumption DEF IInv
<1> DEFINE new == [provider |-> p, amount |-> a, created |-> clock,
                   deadline |-> clock + t, state |-> "Active", split |-> s]
<1>1. /\ ~ Open(k) /\ a \in Nat /\ a > 0 /\ t \in Nat
      /\ job' = [job EXCEPT ![k] = new]
      /\ vault' = [vault EXCEPT ![k] = a]
      /\ ledger' = [ledger EXCEPT ![k].creates = @ + 1, ![k].deposited = @ + a]
      /\ MinTimeout <= t /\ t <= MaxTimeout /\ SplitAccepted(s)
      /\ clock' = clock
  BY DEF InitJob, TimeoutAccepted
<1>2. new \in JobType
  BY <1>1 DEF TypeOK, JobType
<1>3. new # NoJob
  BY <1>2
<1>4. VaultBacksJob'
  BY <1>1, <1>3 DEF VaultBacksJob, Open, TypeOK
<1>5. Conservation'
  <2> SUFFICES ASSUME NEW i \in Keys
               PROVE  (ledger[i].deposited = vault[i] + PaidOut(i) + ledger[i].refunded)'
    BY DEF Conservation
  <2>1. CASE i = k
    <3>1. ledger[k] \in LedgerType /\ vault[k] = 0 /\ vault'[k] = a
      BY <1>1 DEF TypeOK, VaultBacksJob
    <3>2. /\ ledger'[k].deposited = ledger[k].deposited + a
          /\ ledger'[k].refunded = ledger[k].refunded
          /\ PaidOut(k)' = PaidOut(k)
      BY <1>1, <3>1 DEF TypeOK, LedgerType, PaidOut
    <3>3. ledger[k].deposited = vault[k] + PaidOut(k) + ledger[k].refunded
      BY DEF Conservation
    <3>4. PaidOut(k) \in Nat /\ ledger[k].refunded \in Nat
      BY <3>1 DEF PaidOut, LedgerType
    <3>5. QED
      BY <1>1, <2>1, <3>1, <3>2, <3>3, <3>4
  <2>2. CASE i # k
    <3>1. vault'[i] = vault[i] /\ ledger'[i] = ledger[i]
      BY <1>1, <2>2 DEF TypeOK
    <3>2. QED
      BY <3>1 DEF Conservation, PaidOut
  <2>3. QED
    BY <2>1, <2>2
<1>6. SplitsAccepted'
  BY <1>1 DEF SplitsAccepted, Open, TypeOK
<1>7. PayableBeforeReclaim'
  <2>1. \A i \in Keys : i # k => job'[i] = job[i]
    BY <1>1 DEF TypeOK
  <2>2. job'[k] = new
    BY <1>1 DEF TypeOK
  <2>3. /\ clock \in Nat
        /\ clock + ChallengeWindow < clock + t
        /\ clock + t <= clock + MaxTimeout
    BY <1>1, WindowAssumption DEF TypeOK
  <2>4. QED
    BY <1>1, <2>1, <2>2, <2>3 DEF PayableBeforeReclaim, Open
<1>8. QED
  BY <1>4, <1>5, <1>6, <1>7

(* Refunding and closing a job preserves the invariant. *)
LEMMA RefundPreserves ==
  ASSUME IInv, TypeOK', NEW k \in Keys, NEW signer, Refund(k, signer)
  PROVE  IInv'
<1> USE DEF IInv
<1>1. /\ Open(k) /\ vault[k] = job[k].amount
      /\ job' = [job EXCEPT ![k] = NoJob]
      /\ vault' = [vault EXCEPT ![k] = 0]
      /\ ledger' = [ledger EXCEPT ![k].refunded = @ + job[k].amount]
      /\ clock' = clock
  BY DEF Refund, CloseJob
<1>2. VaultBacksJob'
  BY <1>1 DEF VaultBacksJob, Open, TypeOK
<1>3. Conservation'
  <2> SUFFICES ASSUME NEW i \in Keys
               PROVE  (ledger[i].deposited = vault[i] + PaidOut(i) + ledger[i].refunded)'
    BY DEF Conservation
  <2>1. CASE i = k
    <3>1. ledger[k] \in LedgerType /\ vault[k] \in Nat /\ vault'[k] = 0
      BY <1>1 DEF TypeOK
    <3>2. /\ ledger'[k].deposited = ledger[k].deposited
          /\ ledger'[k].refunded = ledger[k].refunded + vault[k]
          /\ PaidOut(k)' = PaidOut(k)
      BY <1>1, <3>1 DEF TypeOK, LedgerType, PaidOut
    <3>3. ledger[k].deposited = vault[k] + PaidOut(k) + ledger[k].refunded
      BY DEF Conservation
    <3>4. PaidOut(k) \in Nat /\ ledger[k].refunded \in Nat
      BY <3>1 DEF PaidOut, LedgerType
    <3>5. QED
      BY <2>1, <3>1, <3>2, <3>3, <3>4
  <2>2. CASE i # k
    <3>1. vault'[i] = vault[i] /\ ledger'[i] = ledger[i]
      BY <1>1, <2>2 DEF TypeOK
    <3>2. QED
      BY <3>1 DEF Conservation, PaidOut
  <2>3. QED
    BY <2>1, <2>2
<1>4. SplitsAccepted' /\ PayableBeforeReclaim'
  BY <1>1 DEF SplitsAccepted, PayableBeforeReclaim, Open, TypeOK
<1>5. QED
  BY <1>2, <1>3, <1>4

(* The inductive step: every action, one by one, preserves the invariant. *)
LEMMA Inductive ==
  ASSUME IInv, [Next]_vars
  PROVE  IInv'
<1> USE ConstantsAssumption
<1>1. TypeOK'
  BY TypeStep DEF IInv
<1>2. NoSplit \in SplitType
  BY DEF NoSplit, SplitType
<1>3. ASSUME NEW k \in Keys, NEW p \in Providers, NEW a \in Amounts,
             NEW t \in Timeouts, CreateJob(k, p, a, t)
      PROVE IInv'
  BY <1>1, <1>2, <1>3, CreatePreserves DEF CreateJob
<1>4. ASSUME NEW k \in Keys, NEW p \in Providers, NEW a \in Amounts,
             NEW t \in Timeouts, NEW s \in Splits, CreateJobSplit(k, p, a, t, s)
      PROVE IInv'
  BY <1>1, <1>4, CreatePreserves DEF CreateJobSplit
<1>5. ASSUME NEW k \in Keys, NEW supplied,
             Release(k, supplied) \/ ReleaseVerified(k, supplied)
      PROVE IInv'
  BY <1>1, <1>5, SettlePreserves DEF Release, ReleaseVerified
<1>6. ASSUME NEW k \in Keys, NEW signer, Refund(k, signer)
      PROVE IInv'
  BY <1>1, <1>6, RefundPreserves
<1>7. CASE Tick
  <2>1. clock \in Nat /\ clock' = clock + 1 /\ UNCHANGED <<job, vault, ledger>>
    BY <1>7 DEF Tick, IInv, TypeOK
  <2>2. (VaultBacksJob /\ Conservation /\ SplitsAccepted)'
    BY <2>1 DEF IInv, VaultBacksJob, Conservation, SplitsAccepted, Open, PaidOut
  <2>3. PayableBeforeReclaim'
    <3> SUFFICES ASSUME NEW k \in Keys, Open(k)
                 PROVE  /\ job[k].created <= clock'
                        /\ job[k].created + ChallengeWindow < job[k].deadline
                        /\ job[k].deadline <= job[k].created + MaxTimeout
      BY <2>1 DEF PayableBeforeReclaim, Open
    <3>1. job[k].created \in Nat
      BY DEF IInv, TypeOK, Open, JobType
    <3>2. QED
      BY <2>1, <3>1 DEF IInv, PayableBeforeReclaim
  <2>4. QED
    BY <1>1, <2>2, <2>3 DEF IInv
<1>8. CASE (\E p \in Providers, k \in Keys : SignResult(p, k)) \/ UNCHANGED vars
  <2>1. UNCHANGED <<clock, job, vault, ledger>>
    BY <1>8 DEF SignResult, vars
  <2>2. QED
    BY <1>1, <2>1 DEF IInv, VaultBacksJob, Conservation, SplitsAccepted,
                      PayableBeforeReclaim, Open, PaidOut
<1>9. QED
  BY <1>3, <1>4, <1>5, <1>6, <1>7, <1>8 DEF Next, ChainNext

(* Before the first job is created the invariant holds. *)
LEMMA InitIInv == Init => IInv
<1> SUFFICES ASSUME Init PROVE IInv
  OBVIOUS
<1>1. TypeOK
  BY DEF Init, TypeOK, LedgerType
<1>2. VaultBacksJob /\ Conservation /\ SplitsAccepted /\ PayableBeforeReclaim
  BY DEF Init, VaultBacksJob, Conservation, SplitsAccepted, PayableBeforeReclaim,
         Open, PaidOut
<1>3. QED
  BY <1>1, <1>2 DEF IInv

(* The invariant holds in every reachable state, whatever the constants. *)
LEMMA Invariance == Spec => []IInv
<1>1. IInv /\ [Next]_vars => IInv'
  BY Inductive
<1>2. QED
  BY InitIInv, <1>1, PTL DEF Spec

(* A job account and a funded vault exist together, and the money in and    *)
(* out of a key balances over every sequence of instructions.                *)
THEOREM MoneyIsBacked == Spec => [](VaultBacksJob /\ Conservation)
<1>1. IInv => VaultBacksJob /\ Conservation
  BY DEF IInv
<1>2. QED
  BY Invariance, <1>1, PTL

(* Whatever the clock and the timeouts, an open job's holdback ends before  *)
(* its consumer can reclaim, and its deadline is within the cap.             *)
THEOREM ReclaimAfterWindow == Spec => []PayableBeforeReclaim
<1>1. IInv => PayableBeforeReclaim
  BY DEF IInv
<1>2. QED
  BY Invariance, <1>1, PTL

(* A job that creation accepted can be settled, for every amount and split  *)
(* whose products fit a u64: the check on basis points is the right one.     *)
THEOREM AcceptedJobsSettle == Spec => []CreationImpliesSettlement
<1>1. IInv => CreationImpliesSettlement
  <2> SUFFICES ASSUME IInv, NEW k \in Keys, Open(k), ~ SettleOverflows(job[k])
               PROVE  LET j == job[k]
                          providerBps == BPS - PROTOCOL_FEE_BPS - j.split.storage
                                                                - j.split.author
                          provider == j.amount - Deductions(j)
                      IN  /\ SettleChecks(j, {"storage", "author"})
                          /\ BPS * provider >= providerBps * j.amount
                          /\ BPS * provider < providerBps * j.amount + 3 * BPS
    BY DEF CreationImpliesSettlement
  <2>1. job[k] \in JobType /\ job[k].amount > 0 /\ SplitAccepted(job[k].split)
    BY DEF IInv, TypeOK, VaultBacksJob, SplitsAccepted, Open
  <2>2. QED
    BY <2>1, SharesLeaveProvider DEF SettleChecks
<1>2. QED
  BY Invariance, <1>1, PTL

-----------------------------------------------------------------------------
(* The exits of a job, and the refinement. *)

(* What a payout and a refund of k do to k's money. *)
LEMMA PayoutEffect ==
  ASSUME IInv, TypeOK', NEW k \in Keys, NEW supplied,
         Release(k, supplied) \/ ReleaseVerified(k, supplied)
  PROVE  /\ Open(k) /\ clock >= job[k].created + ChallengeWindow
         /\ vault[k] = job[k].amount /\ job[k].amount \in Nat /\ job[k].amount > 0
         /\ PaidOut(k) \in Nat /\ ledger[k].refunded \in Nat
         /\ PaidOut(k)' = PaidOut(k) + job[k].amount
         /\ ledger'[k].refunded = ledger[k].refunded
         /\ vault' = [vault EXCEPT ![k] = 0]
         /\ job' = [job EXCEPT ![k] = NoJob]
         /\ \A i \in Keys : i # k => ledger'[i] = ledger[i]
<1>1. /\ Open(k) /\ Settle(k, supplied) /\ CloseJob(k)
      /\ clock >= job[k].created + ChallengeWindow
  BY DEF Release, ReleaseVerified, WindowElapsed
<1>2. vault[k] = job[k].amount /\ job[k].amount \in Nat /\ job[k].amount > 0
  BY <1>1 DEF IInv, VaultBacksJob, TypeOK
<1>3. ledger[k] \in LedgerType
  BY DEF IInv, TypeOK
<1>4. PaidOut(k) \in Nat /\ ledger[k].refunded \in Nat
  BY <1>3 DEF LedgerType, PaidOut
<1>5. QED
  BY <1>1, <1>2, <1>4, SettleEffect DEF CloseJob, IInv

(* A refund empties the vault of its own key into the refunded column and   *)
(* touches no other key.                                                     *)
LEMMA RefundEffect ==
  ASSUME IInv, TypeOK', NEW k \in Keys, NEW signer, Refund(k, signer)
  PROVE  /\ Open(k) /\ RefundAllowed(k, signer)
         /\ vault[k] = job[k].amount /\ job[k].amount \in Nat /\ job[k].amount > 0
         /\ PaidOut(k) \in Nat /\ ledger[k].refunded \in Nat
         /\ PaidOut(k)' = PaidOut(k)
         /\ ledger'[k].refunded = ledger[k].refunded + job[k].amount
         /\ vault' = [vault EXCEPT ![k] = 0]
         /\ job' = [job EXCEPT ![k] = NoJob]
         /\ \A i \in Keys : i # k => ledger'[i] = ledger[i]
<1>1. /\ Open(k) /\ RefundAllowed(k, signer)
      /\ vault' = [vault EXCEPT ![k] = 0]
      /\ ledger' = [ledger EXCEPT ![k].refunded = @ + job[k].amount]
      /\ job' = [job EXCEPT ![k] = NoJob]
  BY DEF Refund, CloseJob
<1>2. vault[k] = job[k].amount /\ job[k].amount \in Nat /\ job[k].amount > 0
  BY <1>1 DEF IInv, VaultBacksJob, TypeOK
<1>3. ledger[k] \in LedgerType /\ DOMAIN ledger = Keys
  BY DEF IInv, TypeOK
<1>4. PaidOut(k) \in Nat /\ ledger[k].refunded \in Nat
  BY <1>3 DEF LedgerType, PaidOut
<1>5. /\ PaidOut(k)' = PaidOut(k)
      /\ ledger'[k].refunded = ledger[k].refunded + job[k].amount
      /\ \A i \in Keys : i # k => ledger'[i] = ledger[i]
  BY <1>1, <1>3 DEF PaidOut, LedgerType, IInv, TypeOK
<1>6. QED
  BY <1>1, <1>2, <1>4, <1>5

(* A job that is not the subject of a step stays open or closed. *)
LEMMA ExitStep ==
  ASSUME IInv, [Next]_vars, NEW k \in Keys
  PROVE  ExitOf(k)
<1>1. TypeOK' /\ TypeOK
  BY TypeStep DEF IInv
<1>2. ASSUME NEW i \in Keys, NEW p, NEW a, NEW t, NEW s, InitJob(i, p, a, t, s)
      PROVE ExitOf(k)
  <2>1. /\ ~ Open(i)
        /\ job' = [job EXCEPT ![i] = [provider |-> p, amount |-> a,
                      created |-> clock, deadline |-> clock + t,
                      state |-> "Active", split |-> s]]
    BY <1>2 DEF InitJob
  <2>2. Open(k) => Open(k)'
    BY <1>1, <2>1 DEF Open, TypeOK
  <2>3. QED
    BY <2>2 DEF ExitOf
<1>3. ASSUME NEW i \in Keys, NEW supplied,
             Release(i, supplied) \/ ReleaseVerified(i, supplied)
      PROVE ExitOf(k)
  <2>1. CASE i = k
    <3>1. job[k].created \in Nat /\ clock \in Nat /\ ChallengeWindow \in Nat
      BY <1>1, <1>3, <2>1, PayoutEffect, ConstantsAssumption DEF TypeOK, Open, JobType
    <3>2. /\ PaidOut(k)' = PaidOut(k) + job[k].amount
          /\ ledger'[k].refunded = ledger[k].refunded
          /\ PaidOut(k) \in Nat /\ ledger[k].refunded \in Nat
          /\ job[k].amount \in Nat
          /\ clock >= job[k].created + ChallengeWindow
      BY <1>1, <1>3, <2>1, PayoutEffect
    <3>3. QED
      BY <3>1, <3>2 DEF ExitOf
  <2>2. CASE i # k
    <3>1. job'[k] = job[k]
      BY <1>1, <1>3, <2>2, PayoutEffect DEF TypeOK
    <3>2. QED
      BY <3>1 DEF ExitOf, Open
  <2>3. QED
    BY <2>1, <2>2
<1>4. ASSUME NEW i \in Keys, NEW signer, Refund(i, signer)
      PROVE ExitOf(k)
  <2>1. CASE i = k
    <3>1. /\ job[k].created \in Nat /\ job[k].deadline \in Nat
          /\ clock \in Nat /\ ChallengeWindow \in Nat
      BY <1>1, <1>4, <2>1, RefundEffect, ConstantsAssumption DEF TypeOK, Open, JobType
    <3>2. /\ PaidOut(k)' = PaidOut(k)
          /\ ledger'[k].refunded = ledger[k].refunded + job[k].amount
          /\ PaidOut(k) \in Nat /\ ledger[k].refunded \in Nat
          /\ job[k].amount \in Nat
          /\ RefundAllowed(k, signer)
      BY <1>1, <1>4, <2>1, RefundEffect
    <3>3. QED
      BY <3>1, <3>2 DEF ExitOf, RefundAllowed
  <2>2. CASE i # k
    <3>1. job'[k] = job[k]
      BY <1>1, <1>4, <2>2, RefundEffect DEF TypeOK
    <3>2. QED
      BY <3>1 DEF ExitOf, Open
  <2>3. QED
    BY <2>1, <2>2
<1>5. ASSUME UNCHANGED job
      PROVE ExitOf(k)
  BY <1>5 DEF ExitOf, Open
<1>6. QED
  BY <1>2, <1>3, <1>4, <1>5 DEF Next, ChainNext, CreateJob, CreateJobSplit, Tick,
                                SignResult, vars

(* Before the holdback ends only a refund closes a job; from then to the    *)
(* deadline only a payout closes the job of a provider that never cancels;  *)
(* and every exit is whole and one-way.                                      *)
THEOREM ExitsFollowPhases == Spec => ExitsByPhase
<1>1. IInv /\ [Next]_vars => [\A k \in Keys : ExitOf(k)]_vars
  BY ExitStep
<1>2. QED
  BY Invariance, <1>1, PTL DEF Spec, ExitsByPhase

(* Escrow implements EscrowPromise: every deposit leaves its vault once,    *)
(* whole, and in one direction.                                              *)
THEOREM EscrowKeepsPromise == Spec => KeepsPromise
<1> USE ConstantsAssumption
<1>1. Init => Promise!Init
  <2> SUFFICES ASSUME Init PROVE Promise!Init
    OBVIOUS
  <2>1. ASSUME NEW k \in Keys
        PROVE  vault[k] = 0 /\ PaidOut(k) = 0 /\ ledger[k].refunded = 0
    <3>1. /\ vault[k] = 0 /\ ledger[k].provider = 0 /\ ledger[k].fee = 0
          /\ ledger[k].storage = 0 /\ ledger[k].author = 0 /\ ledger[k].refunded = 0
      BY DEF Init
    <3>2. QED
      BY <3>1 DEF PaidOut
  <2>2. QED
    BY <2>1 DEF Init, Promise!Init
<1>2. IInv /\ [Next]_vars => [Promise!Next]_(Promise!pvars)
  <2> SUFFICES ASSUME IInv, [Next]_vars
               PROVE  [Promise!Next]_(Promise!pvars)
    OBVIOUS
  <2> DEFINE paid == [k \in Keys |-> PaidOut(k)]
             back == [k \in Keys |-> ledger[k].refunded]
  <2>1. TypeOK /\ TypeOK'
    BY TypeStep DEF IInv
  <2>2. ASSUME NEW k \in Keys, NEW p \in Providers, NEW a \in Amounts, NEW t, NEW s,
               InitJob(k, p, a, t, s)
        PROVE  Promise!Lock(k)
    <3>1. /\ ~ Open(k) /\ a > 0 /\ vault' = [vault EXCEPT ![k] = a]
          /\ ledger' = [ledger EXCEPT ![k].creates = @ + 1, ![k].deposited = @ + a]
      BY <2>2 DEF InitJob
    <3>2. vault[k] = 0
      BY <3>1 DEF IInv, VaultBacksJob
    <3>3. \A i \in Keys : PaidOut(i)' = PaidOut(i)
                          /\ ledger'[i].refunded = ledger[i].refunded
      BY <2>1, <3>1 DEF PaidOut, TypeOK, LedgerType
    <3>4. paid' = paid /\ back' = back
      BY <3>3
    <3>5. QED
      BY <3>1, <3>2, <3>4 DEF Promise!Lock
  <2>3. ASSUME NEW k \in Keys, NEW supplied,
               Release(k, supplied) \/ ReleaseVerified(k, supplied)
        PROVE  Promise!PayOut(k)
    <3>1. /\ vault[k] > 0 /\ vault' = [vault EXCEPT ![k] = 0]
          /\ PaidOut(k)' = PaidOut(k) + vault[k]
          /\ ledger'[k].refunded = ledger[k].refunded
          /\ \A i \in Keys : i # k => ledger'[i] = ledger[i]
      BY <2>1, <2>3, PayoutEffect
    <3>2. \A i \in Keys : i # k => PaidOut(i)' = PaidOut(i)
      BY <3>1 DEF PaidOut
    <3>3. paid' = [paid EXCEPT ![k] = @ + vault[k]]
      BY <3>1, <3>2
    <3>4. back' = back
      BY <3>1
    <3>5. QED
      BY <3>1, <3>3, <3>4 DEF Promise!PayOut
  <2>4. ASSUME NEW k \in Keys, NEW signer, Refund(k, signer)
        PROVE  Promise!Return(k)
    <3>1. /\ vault[k] > 0 /\ vault' = [vault EXCEPT ![k] = 0]
          /\ PaidOut(k)' = PaidOut(k)
          /\ ledger'[k].refunded = ledger[k].refunded + vault[k]
          /\ \A i \in Keys : i # k => ledger'[i] = ledger[i]
      BY <2>1, <2>4, RefundEffect
    <3>2. \A i \in Keys : PaidOut(i)' = PaidOut(i)
      BY <3>1 DEF PaidOut
    <3>3. paid' = paid
      BY <3>2
    <3>4. back' = [back EXCEPT ![k] = @ + vault[k]]
      BY <3>1
    <3>5. QED
      BY <3>1, <3>3, <3>4 DEF Promise!Return
  <2>5. ASSUME UNCHANGED <<vault, ledger>>
        PROVE  UNCHANGED Promise!pvars
    BY <2>5 DEF Promise!pvars, PaidOut
  <2>6. QED
    BY <2>2, <2>3, <2>4, <2>5 DEF Next, ChainNext, CreateJob, CreateJobSplit, Tick,
       SignResult, vars, Promise!Next
<1>3. QED
  BY Invariance, <1>1, <1>2, PTL DEF Spec, KeepsPromise, Promise!Spec
==============================================================================

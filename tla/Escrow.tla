------------------------------- MODULE Escrow -------------------------------
(***************************************************************************)
(* The on-chain escrow program (contracts/programs/cloudiy-escrow): job    *)
(* accounts, their token vaults, the five instructions that touch them and *)
(* the cluster's clock.                                                    *)
(*                                                                         *)
(* Every instruction is one atomic step, as a Solana transaction is: it    *)
(* either passes all its checks and takes effect or leaves no trace.  A    *)
(* job account is addressed by (consumer, job id); that pair is a key      *)
(* here, and it can be created again once the account has been closed.     *)
(* Account constraints (mint, token owner, PDA seeds) only let an          *)
(* instruction name the accounts the job itself records, so the payees of  *)
(* a step are read off the job.  `provider' stands for both the payout     *)
(* wallet and the node key recorded beside it.                             *)
(***************************************************************************)
EXTENDS Naturals

CONSTANTS
  Keys,              \* job accounts, one per (consumer, job id)
  Providers,         \* provider identities
  Cancellers,        \* providers that may ever sign a voluntary refund
  Amounts,           \* amounts a caller may ask to lock
  Timeouts,          \* timeouts a caller may ask for, legal or not
  Splits,            \* storage / author splits a caller may ask for
  NoJob,             \* the account does not exist
  U64Max,            \* largest u64 (scaled down for model checking)
  MinTimeout,        \* 60 s in the code
  MaxTimeout,        \* MAX_TIMEOUT_SECS
  ChallengeWindow,   \* CHALLENGE_WINDOW_SECS (0 as deployed)
  Horizon,           \* bound: the clock stops here
  MaxCreates         \* bound: how often one key is created

PROTOCOL_FEE_BPS == 400
BPS == 10000

SplitType == [storage : Nat, author : Nat, named : SUBSET {"storage", "author"}]
NoSplit == [storage |-> 0, author |-> 0, named |-> {}]

(* struct Job; the bump seed and the mint are left out. *)
JobType == [provider : Providers, amount : Nat, created : Nat, deadline : Nat,
            state : {"Active", "Released", "Refunded"}, split : SplitType]

(* What one key's vault took in and paid out, over all its incarnations. *)
LedgerType == [creates : Nat, deposited : Nat, provider : Nat, fee : Nat,
               storage : Nat, author : Nat, refunded : Nat]

ASSUME ConstantsAssumption ==
  /\ Cancellers \subseteq Providers
  /\ Amounts \subseteq Nat
  /\ Timeouts \subseteq Nat
  /\ Splits \subseteq SplitType
  /\ NoJob \notin JobType
  /\ U64Max \in Nat
  /\ MinTimeout \in Nat
  /\ MaxTimeout \in Nat
  /\ ChallengeWindow \in Nat
  /\ Horizon \in Nat
  /\ MaxCreates \in Nat

(* The holdback closes before the shortest job's deadline.  As deployed     *)
(* 0 < 60; a redeploy that raises the window must keep it.                   *)
ASSUME WindowAssumption == ChallengeWindow < MinTimeout

VARIABLES
  clock,             \* Clock::unix_timestamp
  job,               \* job[k]: the Job account, or NoJob
  vault,             \* vault[k]: token balance of the job's vault
  ledger,            \* ledger[k]: history of the vault's transfers
  results            \* <<p, k>>: p's node key has signed a result for k

chainVars == <<job, vault, ledger>>
vars == <<clock, job, vault, ledger, results>>

Open(k) == job[k] # NoJob

-----------------------------------------------------------------------------
(* Shares of a settled job. *)

MulOverflows(a, bps) == a * bps > U64Max

Cut(a, bps) == (a * bps) \div BPS

Deductions(j) ==
  Cut(j.amount, PROTOCOL_FEE_BPS) + Cut(j.amount, j.split.storage)
                                  + Cut(j.amount, j.split.author)

SettleOverflows(j) == \/ MulOverflows(j.amount, PROTOCOL_FEE_BPS)
                      \/ MulOverflows(j.amount, j.split.storage)
                      \/ MulOverflows(j.amount, j.split.author)

(* The checks of settle: no overflow, something left for the provider, and  *)
(* a token account supplied for each payee with a share.                     *)
SettleChecks(j, supplied) ==
  /\ ~ SettleOverflows(j)
  /\ Deductions(j) < j.amount
  /\ j.split.storage = 0 \/ "storage" \in supplied
  /\ j.split.author = 0 \/ "author" \in supplied

(* The transfers of one settlement, entered in a ledger l. *)
Paid(l, provider, fee, storage, author) ==
  [creates |-> l.creates, deposited |-> l.deposited, refunded |-> l.refunded,
   provider |-> l.provider + provider, fee |-> l.fee + fee,
   storage |-> l.storage + storage, author |-> l.author + author]

(* Closing a token account fails unless it is empty, so the transfers must  *)
(* add up to the vault's balance.                                            *)
Settle(k, supplied) ==
  LET j == job[k]
      fee == Cut(j.amount, PROTOCOL_FEE_BPS)
      storage == Cut(j.amount, j.split.storage)
      author == Cut(j.amount, j.split.author)
      provider == j.amount - Deductions(j)
  IN  /\ SettleChecks(j, supplied)
      /\ vault[k] = provider + fee + storage + author
      /\ vault' = [vault EXCEPT ![k] = 0]
      /\ ledger' = [ledger EXCEPT ![k] = Paid(@, provider, fee, storage, author)]

-----------------------------------------------------------------------------
(* Instructions. *)

(* Mutant: the bps check forgets the protocol fee. *)
SplitWithoutFee(s) ==
  /\ s.storage + s.author < BPS
  /\ s.storage = 0 \/ "storage" \in s.named
  /\ s.author = 0 \/ "author" \in s.named

SplitAccepted(s) ==
  /\ PROTOCOL_FEE_BPS + s.storage + s.author < BPS
  /\ s.storage = 0 \/ "storage" \in s.named
  /\ s.author = 0 \/ "author" \in s.named

(* Mutant: no shortest timeout. *)
TimeoutCapped(t) == t <= MaxTimeout

TimeoutAccepted(t) == MinTimeout <= t /\ t <= MaxTimeout

(* Bounds on the instance, not checks of the program. *)
WithinBounds(k, t) == clock + t <= Horizon /\ ledger[k].creates < MaxCreates

(* Mutant: the account may exist already (init_if_needed). *)
InitJobAgain(k, p, a, t, s) ==
  /\ a > 0
  /\ TimeoutAccepted(t)
  /\ SplitAccepted(s)
  /\ WithinBounds(k, t)
  /\ job' = [job EXCEPT ![k] =
               [provider |-> p, amount |-> a, created |-> clock,
                deadline |-> clock + t, state |-> "Active", split |-> s]]
  /\ vault' = [vault EXCEPT ![k] = a]
  /\ ledger' = [ledger EXCEPT ![k].creates = @ + 1, ![k].deposited = @ + a]
  /\ UNCHANGED <<clock, results>>

InitJob(k, p, a, t, s) ==
  /\ ~ Open(k)
  /\ a > 0
  /\ TimeoutAccepted(t)
  /\ SplitAccepted(s)
  /\ WithinBounds(k, t)
  /\ job' = [job EXCEPT ![k] =
               [provider |-> p, amount |-> a, created |-> clock,
                deadline |-> clock + t, state |-> "Active", split |-> s]]
  /\ vault' = [vault EXCEPT ![k] = a]
  /\ ledger' = [ledger EXCEPT ![k].creates = @ + 1, ![k].deposited = @ + a]
  /\ UNCHANGED <<clock, results>>

CreateJob(k, p, a, t) == InitJob(k, p, a, t, NoSplit)

CreateJobSplit(k, p, a, t, s) == InitJob(k, p, a, t, s)

WindowElapsed(k) == clock >= job[k].created + ChallengeWindow

(* The account is closed to the consumer at the end of the instruction. *)
CloseJob(k) == job' = [job EXCEPT ![k] = NoJob]

(* The consumer confirms delivery. *)
Release(k, supplied) ==
  /\ Open(k)
  /\ job[k].state = "Active"
  /\ WindowElapsed(k)
  /\ Settle(k, supplied)
  /\ CloseJob(k)
  /\ UNCHANGED <<clock, results>>

(* Anyone submits the provider's signed result. *)
ReleaseVerified(k, supplied) ==
  /\ Open(k)
  /\ job[k].state = "Active"
  /\ WindowElapsed(k)
  /\ <<job[k].provider, k>> \in results
  /\ Settle(k, supplied)
  /\ CloseJob(k)
  /\ UNCHANGED <<clock, results>>

(* Mutants: the authority's window never closes; the consumer cannot reclaim. *)
RefundAnytime(k, signer) ==
  \/ signer = "provider" /\ job[k].provider \in Cancellers
  \/ signer = "consumer" /\ clock >= job[k].deadline
  \/ signer = "authority"

RefundNoReclaim(k, signer) ==
  \/ signer = "provider" /\ job[k].provider \in Cancellers
  \/ signer = "authority" /\ clock < job[k].created + ChallengeWindow

RefundAllowed(k, signer) ==
  \/ signer = "provider" /\ job[k].provider \in Cancellers
  \/ signer = "consumer" /\ clock >= job[k].deadline
  \/ signer = "authority" /\ clock < job[k].created + ChallengeWindow

(* Mutant: the refund withholds the fee, which nobody receives. *)
RefundLessFee(k, signer) ==
  /\ Open(k)
  /\ job[k].state = "Active"
  /\ RefundAllowed(k, signer)
  /\ vault' = [vault EXCEPT ![k] = 0]
  /\ ledger' = [ledger EXCEPT ![k].refunded =
                   @ + job[k].amount - Cut(job[k].amount, PROTOCOL_FEE_BPS)]
  /\ CloseJob(k)
  /\ UNCHANGED <<clock, results>>

Refund(k, signer) ==
  /\ Open(k)
  /\ job[k].state = "Active"
  /\ RefundAllowed(k, signer)
  /\ vault[k] = job[k].amount
  /\ vault' = [vault EXCEPT ![k] = 0]
  /\ ledger' = [ledger EXCEPT ![k].refunded = @ + job[k].amount]
  /\ CloseJob(k)
  /\ UNCHANGED <<clock, results>>

-----------------------------------------------------------------------------
(* Off-chain: a provider's node signs a result; time passes. *)

(* Mutant: job and provider swapped in the signed message. *)
SignSwapped(p, k) ==
  /\ results' = results \cup {<<k, p>>}
  /\ UNCHANGED <<clock, job, vault, ledger>>

SignResult(p, k) ==
  /\ results' = results \cup {<<p, k>>}
  /\ UNCHANGED <<clock, job, vault, ledger>>

Tick == /\ clock < Horizon
        /\ clock' = clock + 1
        /\ UNCHANGED <<job, vault, ledger, results>>

Init == /\ clock = 0
        /\ job = [k \in Keys |-> NoJob]
        /\ vault = [k \in Keys |-> 0]
        /\ ledger = [k \in Keys |->
                       [creates |-> 0, deposited |-> 0, provider |-> 0, fee |-> 0,
                        storage |-> 0, author |-> 0, refunded |-> 0]]
        /\ results = {}

(* What the chain does of its own; Next adds the signing of results. *)
ChainNext ==
  \/ \E k \in Keys, p \in Providers, a \in Amounts, t \in Timeouts :
       \/ CreateJob(k, p, a, t)
       \/ \E s \in Splits : CreateJobSplit(k, p, a, t, s)
  \/ \E k \in Keys, supplied \in SUBSET {"storage", "author"} :
       Release(k, supplied) \/ ReleaseVerified(k, supplied)
  \/ \E k \in Keys, signer \in {"provider", "consumer", "authority"} :
       Refund(k, signer)
  \/ Tick

Next == ChainNext \/ \E p \in Providers, k \in Keys : SignResult(p, k)

Spec == Init /\ [][Next]_vars

(* Time passes, and a consumer whose deadline has passed keeps submitting   *)
(* its refund (the program never makes anyone act).                          *)
Fairness == /\ WF_vars(Tick)
            /\ \A k \in Keys : WF_vars(Refund(k, "consumer"))

FairSpec == Spec /\ Fairness

-----------------------------------------------------------------------------
(* Properties. *)

TypeOK == /\ clock \in Nat
          /\ job \in [Keys -> JobType \cup {NoJob}]
          /\ vault \in [Keys -> Nat]
          /\ ledger \in [Keys -> LedgerType]
          /\ results \subseteq Providers \X Keys

PaidOut(k) == ledger[k].provider + ledger[k].fee + ledger[k].storage + ledger[k].author

(* A job account exists exactly while its vault holds its whole amount:     *)
(* no instruction leaves a funded vault without a job that can release it,  *)
(* or a job whose vault is short (lib.rs settle, refund, init_job).          *)
VaultBacksJob ==
  \A k \in Keys : IF Open(k) THEN /\ vault[k] = job[k].amount
                                  /\ job[k].amount > 0
                                  /\ job[k].state = "Active"
                             ELSE vault[k] = 0

(* Over every incarnation of a key, what went in is what is held plus what  *)
(* the payees and the consumer got: the split never loses or mints money    *)
(* (the invariant stated above JobSplit, lib.rs:510).                        *)
Conservation ==
  \A k \in Keys : ledger[k].deposited = vault[k] + PaidOut(k) + ledger[k].refunded

(* The bps check made when a job is created is enough for the arithmetic    *)
(* made when it is released: unless a product overflows u64, every open job *)
(* can be settled by a caller that supplies the payees, and the provider's  *)
(* share is its bps of the amount plus less than three units of dust.       *)
CreationImpliesSettlement ==
  \A k \in Keys : Open(k) /\ ~ SettleOverflows(job[k]) =>
    LET j == job[k]
        providerBps == BPS - PROTOCOL_FEE_BPS - j.split.storage - j.split.author
        provider == j.amount - Deductions(j)
    IN  /\ SettleChecks(j, {"storage", "author"})
        /\ BPS * provider >= providerBps * j.amount
        /\ BPS * provider < providerBps * j.amount + 3 * BPS

(* Every open job has a moment at which its provider can be paid and the    *)
(* consumer cannot yet take the money back: the holdback ends strictly      *)
(* before the deadline, and the deadline is never beyond the cap            *)
(* (lib.rs:9, the bound on how long funds can be locked).                    *)
PayableBeforeReclaim ==
  \A k \in Keys : Open(k) =>
    /\ job[k].created <= clock
    /\ job[k].created + ChallengeWindow < job[k].deadline
    /\ job[k].deadline <= job[k].created + MaxTimeout

(* How one key's job may be closed by a step. *)
ExitOf(k) ==
  Open(k) /\ ~ Open(k)' =>
    LET inWindow == clock < job[k].created + ChallengeWindow
        due == clock >= job[k].deadline
        paid == PaidOut(k)' - PaidOut(k)
        back == ledger'[k].refunded - ledger[k].refunded
    IN  /\ paid + back = job[k].amount
        /\ paid = 0 \/ back = 0
        /\ inWindow => paid = 0
        /\ ~ inWindow /\ ~ due /\ job[k].provider \notin Cancellers => back = 0

(* The life of a job has three phases and each has its own exits.  While the *)
(* challenge window is open a job can only be refunded (RFC-0006 6.2: a      *)
(* clawback and a payout never compete); from then to the deadline the job   *)
(* of a provider that never cancels can only be paid out, whoever signs      *)
(* what; only after the deadline do payout and reclaim race.  Every exit     *)
(* moves the whole amount in one direction.                                  *)
ExitsByPhase == [][\A k \in Keys : ExitOf(k)]_vars

Promise == INSTANCE EscrowPromise WITH
  held <- vault,
  paidOut <- [k \in Keys |-> PaidOut(k)],
  returned <- [k \in Keys |-> ledger[k].refunded]

(* Each deposit leaves its vault once, whole and in one direction. *)
KeepsPromise == Promise!Spec

(* I1 of RFC-0010: with time passing and the consumer asking for its money, *)
(* no vault stays funded.                                                    *)
FundsNeverStuck == Promise!NothingStaysLocked
==============================================================================

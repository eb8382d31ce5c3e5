------------------------ MODULE ReplicatedRunProofs ------------------------
(***************************************************************************)
(* Theorems about ReplicatedRun, for every number of replicas, any liars    *)
(* and cancellers among them, and every set of answers.                     *)
(***************************************************************************)
EXTENDS ReplicatedRun, FiniteSetTheorems, WellFoundedInduction, TLAPS

-----------------------------------------------------------------------------
(* What a step of the chain does to the account of one replica. *)

Others(k) == \A i \in Providers : i # k => job'[i] = job[i]

Opens(k) == Chain!TypeOK' /\ Others(k)

Closes(k) == Chain!TypeOK' /\ Others(k) /\ ~ Chain!Open(k)'

(* Shares are rounded down, so they stay natural numbers (lib.rs:541). *)
LEMMA CutIsNat ==
  ASSUME NEW a \in Nat, NEW bps \in Nat
  PROVE  Chain!Cut(a, bps) \in Nat
<1> DEFINE x == a * bps
<1>1. x \in Nat
  OBVIOUS
<1> HIDE DEF x
<1>2. x \div 10000 \in Nat
  BY <1>1
<1>3. QED
  BY <1>2 DEF Chain!Cut, Chain!BPS, x

(* The one kind of job a run creates. *)
LEMMA CreateOpens ==
  ASSUME Chain!TypeOK, NEW k \in Providers, Chain!CreateJob(k, k, Amount, Timeout)
  PROVE  Opens(k)
<1> DEFINE new == [provider |-> k, amount |-> Amount, created |-> clock,
                   deadline |-> clock + Timeout, state |-> "Active",
                   split |-> Chain!NoSplit]
<1>1. /\ job' = [job EXCEPT ![k] = new]
      /\ vault' = [vault EXCEPT ![k] = Amount]
      /\ ledger' = [ledger EXCEPT ![k].creates = @ + 1, ![k].deposited = @ + Amount]
      /\ UNCHANGED <<clock, results>>
  BY DEF Chain!CreateJob, Chain!InitJob
<1>2. Amount \in Nat /\ Timeout \in Nat
  BY QuorumAssumption DEF Chain!ConstantsAssumption
<1>3. new \in Chain!JobType
  BY <1>2 DEF Chain!TypeOK, Chain!JobType, Chain!NoSplit, Chain!SplitType
<1>4. ledger' \in [Providers -> Chain!LedgerType]
  <2> DEFINE m == [ledger[k] EXCEPT !.creates = @ + 1]
             l == [m EXCEPT !.deposited = @ + Amount]
  <2>1. DOMAIN ledger = Providers /\ ledger[k] \in Chain!LedgerType
    BY DEF Chain!TypeOK
  <2>2. m \in Chain!LedgerType
    BY <2>1 DEF Chain!LedgerType
  <2>3. ledger' = [ledger EXCEPT ![k] = l]
    BY <1>1, <2>1
  <2> HIDE DEF m
  <2>4. l \in Chain!LedgerType
    BY <1>2, <2>2 DEF Chain!LedgerType
  <2> HIDE DEF l
  <2>5. QED
    BY <2>3, <2>4 DEF Chain!TypeOK
<1> HIDE DEF new
<1>5. QED
  BY <1>1, <1>2, <1>3, <1>4 DEF Chain!TypeOK, Opens, Others

(* Settling a job, by whichever instruction, closes its account. *)
LEMMA SettleCloses ==
  ASSUME Chain!TypeOK, NEW k \in Providers, Chain!Open(k),
         Chain!Settle(k, {}), Chain!CloseJob(k), UNCHANGED <<clock, results>>
  PROVE  Closes(k)
<1> DEFINE j == job[k]
           f == Chain!Cut(j.amount, Chain!PROTOCOL_FEE_BPS)
           cs == Chain!Cut(j.amount, j.split.storage)
           cu == Chain!Cut(j.amount, j.split.author)
           pr == j.amount - Chain!Deductions(j)
<1>1. /\ job' = [job EXCEPT ![k] = NoJob]
      /\ vault' = [vault EXCEPT ![k] = 0]
      /\ ledger' = [ledger EXCEPT ![k] = Chain!Paid(@, pr, f, cs, cu)]
      /\ Chain!Deductions(j) < j.amount
  BY DEF Chain!CloseJob, Chain!Settle, Chain!SettleChecks
<1>2. j.amount \in Nat /\ j.split.storage \in Nat /\ j.split.author \in Nat
  BY DEF Chain!TypeOK, Chain!Open, Chain!JobType, Chain!SplitType
<1>3. f \in Nat /\ cs \in Nat /\ cu \in Nat
  <2> HIDE DEF j
  <2>1. Chain!PROTOCOL_FEE_BPS \in Nat
    BY DEF Chain!PROTOCOL_FEE_BPS
  <2>2. QED
    BY <1>2, <2>1, CutIsNat
<1>4. Chain!Deductions(j) = f + cs + cu
  BY DEF Chain!Deductions
<1> HIDE DEF f, cs, cu
<1>5. pr \in Nat
  BY <1>1, <1>2, <1>3, <1>4
<1> HIDE DEF pr, j
<1> DEFINE l == Chain!Paid(ledger[k], pr, f, cs, cu)
<1>6. l \in Chain!LedgerType
  BY <1>3, <1>5 DEF Chain!TypeOK, Chain!Paid, Chain!LedgerType
<1>7. ledger' = [ledger EXCEPT ![k] = l]
  BY <1>1
<1> HIDE DEF l
<1>8. ledger' \in [Providers -> Chain!LedgerType]
  BY <1>6, <1>7 DEF Chain!TypeOK
<1>9. QED
  BY <1>1, <1>8 DEF Chain!TypeOK, Closes, Others, Chain!Open

(* So does refunding it. *)
LEMMA RefundCloses ==
  ASSUME Chain!TypeOK, NEW k \in Providers, NEW signer, Chain!Refund(k, signer)
  PROVE  Closes(k)
<1>1. /\ job[k] # NoJob
      /\ job' = [job EXCEPT ![k] = NoJob]
      /\ vault' = [vault EXCEPT ![k] = 0]
      /\ ledger' = [ledger EXCEPT ![k].refunded = @ + job[k].amount]
      /\ UNCHANGED <<clock, results>>
  BY DEF Chain!Refund, Chain!Open, Chain!CloseJob
<1>2. job[k].amount \in Nat
  BY <1>1 DEF Chain!TypeOK, Chain!JobType
<1>3. ledger' \in [Providers -> Chain!LedgerType]
  BY <1>1, <1>2 DEF Chain!TypeOK, Chain!LedgerType
<1>4. QED
  BY <1>1, <1>3 DEF Chain!TypeOK, Closes, Others, Chain!Open

(* Signing a result and the passing of time leave every account alone. *)
LEMMA SignKeeps ==
  ASSUME Chain!TypeOK, NEW k \in Providers, Chain!SignResult(k, k)
  PROVE  Chain!TypeOK' /\ job' = job
BY DEF Chain!TypeOK, Chain!SignResult

LEMMA TickKeeps ==
  ASSUME Chain!TypeOK, Chain!Tick
  PROVE  Chain!TypeOK' /\ job' = job
BY DEF Chain!TypeOK, Chain!Tick

(* How the steps of the cluster and of the others touch the accounts. *)
LEMMA LandEffect ==
  ASSUME Chain!TypeOK, NEW tx \in Tx, Land(tx)
  PROVE  IF tx.op = "create" THEN Opens(tx.key) ELSE Closes(tx.key)
<1>1. tx.key \in Providers
  BY DEF Tx
<1>2. QED
  BY <1>1, CreateOpens, SettleCloses DEF Land, Chain!ReleaseVerified

LEMMA ClosingSteps ==
  ASSUME Chain!TypeOK, NEW p \in Providers,
         SelfSettle(p) \/ Cancel(p) \/ Reclaim(p) \/ PayByHand(p)
  PROVE  Closes(p) /\ UNCHANGED <<run, flight, landed>>
BY SettleCloses, RefundCloses DEF SelfSettle, Cancel, Reclaim, PayByHand,
   Chain!ReleaseVerified, Chain!Release

(* The run itself only signs. *)
LEMMA RunKeepsAccounts ==
  ASSUME Chain!TypeOK, targets \in [1 .. Replicas -> Providers], at \in Nat \ {0}, Run
  PROVE  Chain!TypeOK' /\ job' = job
<1>1. UNCHANGED chain \/ (at <= Replicas /\ Chain!SignResult(Target, Target))
  BY DEF Run, FundFails, SendCreate, CreateConfirmed, CreateFails, Answer, NoReply, Tally,
     SendRelease, ReleaseFails, ReleaseConfirmed, Report, Sign
<1>2. CASE UNCHANGED chain
  BY <1>2 DEF chain, Chain!TypeOK
<1>3. CASE at <= Replicas /\ Chain!SignResult(Target, Target)
  <2>1. Target \in Providers
    BY <1>3, QuorumAssumption DEF Target
  <2>2. QED
    BY <1>3, <2>1, SignKeeps
<1>4. QED
  BY <1>1, <1>2, <1>3

-----------------------------------------------------------------------------
(* The tally. *)

(* A least number exists. *)
LEMMA MinIsLeast ==
  ASSUME NEW S \in SUBSET Nat, S # {}
  PROVE  Min(S) \in S /\ \A y \in S : Min(S) <= y
<1>1. PICK x \in S : \A y \in S : ~ (<<y, x>> \in OpToRel(<, Nat))
  BY NatLessThanWellFounded, WFMin
<1>2. ASSUME NEW y \in S
      PROVE  x <= y
  <2>1. <<y, x>> \in Nat \X Nat /\ <<y, x>> \notin OpToRel(<, Nat)
    BY <1>1
  <2>2. ~ y < x
    BY <2>1 DEF OpToRel
  <2>3. QED
    BY <2>2
<1>3. QED
  BY <1>2 DEF Min

(* The replicas settled next is a winner, or there is none left. *)
LEMMA NextWinnerIsOne ==
  ASSUME Replicas \in Nat, NEW i \in 1 .. Replicas + 1
  PROVE  /\ NextWinner(i) \in i .. Replicas + 1
         /\ NextWinner(i) <= Replicas => targets[NextWinner(i)] \in Winners
<1> DEFINE S == {j \in i .. Replicas : targets[j] \in Winners} \cup {Replicas + 1}
<1>1. S \in SUBSET Nat /\ S # {} /\ S \subseteq i .. Replicas + 1
  OBVIOUS
<1>2. NextWinner(i) \in S
  BY <1>1, MinIsLeast DEF NextWinner
<1>3. QED
  BY <1>1, <1>2

(* The replicas asked are as many as were requested. *)
LEMMA TargetsCounted ==
  ASSUME Replicas \in Nat, targets \in [1 .. Replicas -> Providers], IsInjective(targets)
  PROVE  /\ IsFiniteSet(Range(targets))
         /\ Cardinality(Range(targets)) = Replicas
<1>1. targets \in Surjection(1 .. Replicas, Range(targets))
  BY DEF Surjection, Range
<1>2. targets \in Injection(1 .. Replicas, Range(targets))
  BY <1>1 DEF Injection, Surjection, IsInjective
<1>3. IsFiniteSet(1 .. Replicas) /\ Cardinality(1 .. Replicas) = Replicas
  BY FS_Interval
<1>4. QED
  BY <1>1, <1>2, <1>3, FS_Surjection

Placed ==
  /\ targets \in [1 .. Replicas -> Providers] /\ IsInjective(targets)
  /\ pc \in {"funding", "creating"} =>
       /\ at \in 1 .. Replicas
       /\ \A i \in 1 .. Replicas : targets[i] \in funded <=> i < at
  /\ pc \in {"running", "settling"} => at \in 1 .. Replicas + 1
  /\ pc = "releasing" => at \in 1 .. Replicas
  /\ pc \in {"settling", "releasing"} => mode = "release"
  /\ mode = "free" => pc \in {"running", "ended"} /\ funded = {}
  /\ pc \in {"running", "settling", "releasing"} /\ mode # "free" =>
       \A i \in 1 .. Replicas : targets[i] \in funded

(* The tally finds a largest group. *)
LEMMA BestIsLargest ==
  ASSUME Replicas \in Nat, targets \in [1 .. Replicas -> Providers], IsInjective(targets)
  PROVE  /\ Best \in Outputs
         /\ \A o \in Outputs : Cardinality(Group(o)) <= Cardinality(Group(Best))
<1>1. \A o \in Outputs : /\ Cardinality(Group(o)) \in Nat
                         /\ Cardinality(Group(o)) <= Replicas
  <2>1. ASSUME NEW o \in Outputs
        PROVE  IsFiniteSet(Group(o)) /\ Cardinality(Group(o)) <= Replicas
    <3>1. Group(o) \in SUBSET Range(targets)
      BY DEF Group
    <3>2. QED
      BY <3>1, TargetsCounted, FS_Subset
  <2>2. QED
    BY <2>1, FS_CardinalityType
<1> DEFINE short == {Replicas - Cardinality(Group(o)) : o \in Outputs}
           largest == {o \in Outputs : \A other \in Outputs :
                         Cardinality(Group(other)) <= Cardinality(Group(o))}
<1>2. short \in SUBSET Nat /\ short # {}
  BY <1>1, QuorumAssumption
<1>3. PICK o \in Outputs : Min(short) = Replicas - Cardinality(Group(o))
  BY <1>2, MinIsLeast
<1>4. ASSUME NEW other \in Outputs
      PROVE  Cardinality(Group(other)) <= Cardinality(Group(o))
  <2>1. Replicas - Cardinality(Group(other)) \in short
    OBVIOUS
  <2>2. Replicas - Cardinality(Group(o)) <= Replicas - Cardinality(Group(other))
    BY <1>2, <1>3, <2>1, MinIsLeast
  <2>3. QED
    BY <1>1, <2>2
<1>5. largest \in SUBSET Nat /\ largest # {}
  BY <1>4, QuorumAssumption
<1>6. Best \in largest
  BY <1>5, MinIsLeast DEF Best
<1>7. QED
  BY <1>6

(* Replicas that do not lie give the right answer or none. *)
Honest == \A p \in Providers \ Liars : answer[p] \in {Right, NoAnswer}

(* A group that outnumbers the liars has an honest member. *)
LEMMA OutnumberedLiars ==
  ASSUME Replicas \in Nat, targets \in [1 .. Replicas -> Providers], IsInjective(targets),
         Honest, Reached, ~ Majority(Liars \cap Range(targets))
  PROVE  Best = Right
<1> DEFINE L == Liars \cap Range(targets)
<1>1. /\ IsFiniteSet(L) /\ Cardinality(L) \in Nat
      /\ IsFiniteSet(Group(Best)) /\ Cardinality(Group(Best)) \in Nat
  <2>1. L \in SUBSET Range(targets) /\ Group(Best) \in SUBSET Range(targets)
    BY DEF Group
  <2>2. QED
    BY <2>1, TargetsCounted, FS_Subset, FS_CardinalityType
<1>2. Cardinality(L) < Cardinality(Group(Best))
  BY <1>1 DEF Reached, Threshold, Majority
<1>3. ~ (Group(Best) \in SUBSET L)
  BY <1>1, <1>2, FS_Subset
<1>4. PICK p \in Group(Best) : p \notin Liars
  BY <1>3 DEF Group
<1>5. p \in Providers /\ answer[p] = Best
  BY <1>4 DEF Group, Range
<1>6. Best \in Outputs
  BY BestIsLargest
<1>7. QED
  BY <1>4, <1>5, <1>6, QuorumAssumption DEF Honest

(* A majority is larger than every other group. *)
LEMMA MajorityWins ==
  ASSUME Replicas \in Nat, targets \in [1 .. Replicas -> Providers], IsInjective(targets),
         Majority(Group(Right))
  PROVE  Reached /\ Best = Right
<1> DEFINE R == Range(targets)
           b == Cardinality(Group(Best))
           r == Cardinality(Group(Right))
<1>1. /\ Group(Best) \in SUBSET R /\ Group(Right) \in SUBSET R
      /\ IsFiniteSet(R) /\ Cardinality(R) = Replicas
  BY TargetsCounted DEF Group
<1>2. b \in Nat /\ r \in Nat
  BY <1>1, FS_Subset, FS_CardinalityType
<1>3. r <= b /\ 2 * r > Replicas
  BY BestIsLargest, QuorumAssumption DEF Majority
<1>4. Group(Best) \cap Group(Right) # {}
  <2>1. b + r > Cardinality(R)
    <3> HIDE DEF b, r
    <3>1. QED
      BY <1>1, <1>2, <1>3
  <2>2. QED
    BY <1>1, <2>1, FS_MajoritiesIntersect
<1>5. Best = Right
  BY <1>4 DEF Group
<1>6. b >= Threshold
  <2> HIDE DEF b, r
  <2>1. QED
    BY <1>2, <1>3 DEF Threshold
<1>7. QED
  BY <1>5, <1>6 DEF Reached

-----------------------------------------------------------------------------
(* Types, and where the run is. *)

Inv == TypeOK /\ Placed /\ Honest

LEMMA InitInv == Init => Inv
<1> SUFFICES ASSUME Init PROVE Inv
  OBVIOUS
<1> USE QuorumAssumption
<1>1. Replicas \in Nat \ {0}
  OBVIOUS
<1>2. Chain!TypeOK
  BY DEF Init, Chain!Init, Chain!TypeOK, Chain!LedgerType
<1>3. targets \in Seq(Providers)
  BY <1>1 DEF Init
<1>4. TypeOK
  BY <1>1, <1>2, <1>3 DEF Init, TypeOK
<1>5. Placed
  BY <1>1 DEF Init, Placed
<1>6. QED
  BY <1>4, <1>5 DEF Init, Inv, Honest

(* A step of the run keeps its types and its place. *)
LEMMA RunInv ==
  ASSUME Inv, Run
  PROVE  Inv'
<1> USE DEF Inv
<1>1. Replicas \in Nat \ {0}
  BY QuorumAssumption
<1>2. pc # "ended" /\ UNCHANGED <<mode, targets>>
  BY DEF Run, FundFails, SendCreate, CreateConfirmed, CreateFails, Answer, NoReply, Tally,
     SendRelease, ReleaseFails, ReleaseConfirmed, Report
<1>3. at \in 1 .. Replicas + 1
  BY <1>1, <1>2 DEF TypeOK, Placed
<1>4. Chain!TypeOK'
  BY <1>1, <1>3, RunKeepsAccounts DEF TypeOK, Placed
<1>5. at <= Replicas => Target \in Providers
  BY <1>3 DEF Placed, Target
<1>6. CASE FundFails \/ CreateFails \/ Report
  BY <1>1, <1>2, <1>4, <1>6 DEF FundFails, CreateFails, Report, End, Goto, TypeOK, Placed, Honest
<1>7. CASE SendCreate
  <2>1. Create(Target) \in Tx
    BY <1>1, <1>5, <1>7 DEF SendCreate, Placed, Tx, Create
  <2>2. QED
    BY <1>1, <1>2, <1>4, <1>7, <2>1 DEF SendCreate, Goto, TypeOK, Placed, Honest
<1>8. CASE CreateConfirmed
  <2>1. at \in 1 .. Replicas /\ Target \in Providers
    BY <1>5, <1>8 DEF CreateConfirmed, Placed
  <2>2. \A i \in 1 .. Replicas : targets[i] \in funded' <=> i < at + 1
    <3>1. ASSUME NEW i \in 1 .. Replicas
          PROVE  targets[i] \in funded' <=> i < at + 1
      <4>1. targets[i] = targets[at] <=> i = at
        BY <2>1 DEF Placed, IsInjective
      <4>2. funded' = funded \cup {targets[at]}
        BY <1>8 DEF CreateConfirmed, Target
      <4>3. targets[i] \in funded <=> i < at
        BY <1>8 DEF CreateConfirmed, Placed
      <4>4. QED
        BY <2>1, <4>1, <4>2, <4>3
    <3>2. QED
      BY <3>1
  <2>3. mode # "free"
    BY <1>8 DEF CreateConfirmed, Placed
  <2>4. funded' \subseteq Providers /\ funded \subseteq funded'
    BY <1>8, <2>1 DEF CreateConfirmed, TypeOK
  <2>5. CASE at < Replicas
    BY <1>1, <1>2, <1>4, <1>8, <2>1, <2>2, <2>3, <2>4, <2>5
       DEF CreateConfirmed, Goto, TypeOK, Placed, Honest
  <2>6. CASE ~ at < Replicas
    <3>1. \A i \in 1 .. Replicas : targets[i] \in funded'
      BY <1>1, <2>1, <2>2, <2>6
    <3>2. QED
      BY <1>1, <1>2, <1>4, <1>8, <2>1, <2>3, <2>4, <2>6, <3>1
         DEF CreateConfirmed, Goto, TypeOK, Placed, Honest
  <2>7. QED
    BY <2>5, <2>6
<1>9. ASSUME NEW o \in Outputs, Answer(o)
      PROVE  Inv'
  <2>1. Target \in Providers
    BY <1>5, <1>9 DEF Answer
  <2>2. answer' \in [Providers -> Outputs \cup {NoAnswer}] /\ Honest'
    BY <1>9, <2>1 DEF Answer, TypeOK, Honest
  <2>3. QED
    BY <1>1, <1>2, <1>3, <1>4, <1>9, <2>2 DEF Answer, Goto, TypeOK, Placed
<1>10. CASE NoReply
  BY <1>1, <1>2, <1>3, <1>4, <1>10 DEF NoReply, Goto, TypeOK, Placed, Honest
<1>11. CASE Tally
  <2>1. NextWinner(1) \in 1 .. Replicas + 1
    BY <1>1, NextWinnerIsOne
  <2>2. UNCHANGED <<mode, targets, funded, answer, settled, flight, landed>>
    BY <1>11 DEF Tally
  <2>3. \/ pc' = "ended" /\ at' = 0 /\ reported' \subseteq funded /\ listed' \subseteq funded
        \/ /\ pc' = "settling" /\ at' = NextWinner(1) /\ mode = "release"
           /\ UNCHANGED <<reported, listed>>
    BY <1>11 DEF Tally, End, Goto
  <2>4. pc = "running"
    BY <1>11 DEF Tally
  <2> HIDE DEF Inv
  <2>5. TypeOK' /\ Placed' /\ Honest'
    BY <1>1, <1>4, <2>1, <2>2, <2>3, <2>4 DEF Inv, TypeOK, Placed, Honest
  <2>6. QED
    BY <2>5 DEF Inv
<1>12. CASE SendRelease
  <2>1. Pay(Target) \in Tx
    BY <1>5, <1>12 DEF SendRelease, Tx, Pay
  <2>2. QED
    BY <1>1, <1>2, <1>3, <1>4, <1>12, <2>1 DEF SendRelease, Goto, TypeOK, Placed, Honest
<1>13. CASE ReleaseFails \/ ReleaseConfirmed
  <2>1. at \in 1 .. Replicas /\ pc \in {"settling", "releasing"}
    BY <1>3, <1>13 DEF ReleaseFails, ReleaseConfirmed, Placed
  <2>2. NextWinner(at + 1) \in 1 .. Replicas + 1
    BY <1>1, <2>1, NextWinnerIsOne
  <2>3. Target \in funded
    BY <2>1 DEF Placed, Target
  <2>4. /\ pc' = "settling" /\ at' = NextWinner(at + 1)
        /\ settled' \subseteq settled \cup {Target}
        /\ UNCHANGED <<mode, targets, funded, answer, reported, listed, flight, landed>>
    BY <1>13 DEF ReleaseFails, ReleaseConfirmed, Goto
  <2>5. QED
    BY <1>1, <1>4, <2>1, <2>2, <2>3, <2>4 DEF TypeOK, Placed, Honest
<1>14. QED
  BY <1>6, <1>7, <1>8, <1>9, <1>10, <1>11, <1>12, <1>13 DEF Run

(* The cluster and the others leave the run where it is. *)
LEMMA OthersInv ==
  ASSUME Inv, UNCHANGED run, Chain!TypeOK', flight' \subseteq Tx, landed' \subseteq Tx
  PROVE  Inv'
BY DEF Inv, TypeOK, Placed, Honest, run

LEMMA NextInv == Inv /\ [Next]_vars => Inv'
<1> SUFFICES ASSUME Inv, [Next]_vars PROVE Inv'
  OBVIOUS
<1>0. Chain!TypeOK /\ flight \subseteq Tx /\ landed \subseteq Tx
  BY DEF Inv, TypeOK
<1>1. CASE Run
  BY <1>1, RunInv
<1>2. ASSUME NEW tx \in Tx, Land(tx)
      PROVE  Inv'
  <2>1. Chain!TypeOK'
    BY <1>0, <1>2, LandEffect DEF Opens, Closes
  <2>2. QED
    BY <1>0, <1>2, <2>1, OthersInv DEF Land
<1>3. ASSUME NEW tx \in Tx, Discard(tx)
      PROVE  Inv'
  <2>1. Chain!TypeOK'
    BY <1>0, <1>3 DEF Discard, chain, Chain!TypeOK
  <2>2. QED
    BY <1>0, <1>3, <2>1, OthersInv DEF Discard
<1>4. ASSUME NEW p \in Providers, LiarSigns(p)
      PROVE  Inv'
  <2>1. Chain!TypeOK'
    BY <1>0, <1>4, SignKeeps DEF LiarSigns
  <2>2. QED
    BY <1>0, <1>4, <2>1, OthersInv DEF LiarSigns
<1>5. ASSUME NEW p \in Providers, SelfSettle(p) \/ Cancel(p) \/ Reclaim(p) \/ PayByHand(p)
      PROVE  Inv'
  BY <1>0, <1>5, ClosingSteps, OthersInv DEF Closes
<1>6. CASE Tick
  BY <1>0, <1>6, TickKeeps, OthersInv DEF Tick
<1>7. CASE UNCHANGED vars
  <2>1. Chain!TypeOK'
    BY <1>0, <1>7 DEF vars, chain, Chain!TypeOK
  <2>2. QED
    BY <1>0, <1>7, <2>1, OthersInv DEF vars
<1>8. QED
  BY <1>1, <1>2, <1>3, <1>4, <1>5, <1>6, <1>7 DEF Next, EndOfTime

(* Every state of a run is well typed: a replica is settled or reported only *)
(* when its escrow was funded (client.rs run_quorum).                        *)
THEOREM RunTypeCorrect == Spec => []TypeOK
<1>1. Inv => TypeOK
  BY DEF Inv
<1>2. QED
  BY <1>1, InitInv, NextInv, PTL DEF Spec

-----------------------------------------------------------------------------
(* The answer. *)

(* Whatever the number of replicas and whoever of them lies, stays silent or *)
(* settles on its own: an accepted answer is the right one unless the liars  *)
(* are a majority, and a majority of right answers is accepted               *)
(* (quorum.rs tally, RFC-0008 4).                                            *)
THEOREM AcceptedIsRight == Spec => []ResultIntegrity
<1>1. Inv => ResultIntegrity
  <2> SUFFICES ASSUME Inv PROVE ResultIntegrity
    OBVIOUS
  <2>1. /\ Replicas \in Nat /\ targets \in [1 .. Replicas -> Providers]
        /\ IsInjective(targets) /\ Honest
    BY QuorumAssumption DEF Inv, Placed
  <2>2. QED
    BY <2>1, OutnumberedLiars, MajorityWins DEF ResultIntegrity
<1>2. QED
  BY <1>1, InitInv, NextInv, PTL DEF Spec

-----------------------------------------------------------------------------
(* The money. *)

(* The escrow of a replica: it is only there once its transaction landed;   *)
(* that transaction is only in flight while the run waits for it, and once  *)
(* it landed the run knows, or waits for it still.                           *)
Created(p) ==
  /\ Chain!Open(p) => Create(p) \in landed
  /\ p \in funded => Create(p) \in landed
  /\ Create(p) \in landed => p \in funded \/ (pc = "creating" /\ p = Target)
  /\ Create(p) \in flight => /\ pc = "creating" /\ p = Target
                             /\ Create(p) \notin landed

(* Its release is sent when all are funded, and leaves nothing behind. *)
Released(p) ==
  /\ Pay(p) \in flight \cup landed => pc \in {"settling", "releasing", "ended"}
  /\ Pay(p) \in landed => ~ Chain!Open(p)
  /\ p \in settled => Pay(p) \in landed

Accounted == \A p \in Providers : Created(p) /\ Released(p)

MoneyInv == Inv /\ Accounted /\ NothingStranded

(* A creation and a release are two transactions, each of its own replica. *)
LEMMA TxDiffer ==
  /\ \A p, q \in Providers : Create(p) # Pay(q)
  /\ \A p, q \in Providers : Create(p) = Create(q) => p = q
  /\ \A p, q \in Providers : Pay(p) = Pay(q) => p = q
  /\ \A tx \in Tx : /\ tx.key \in Providers
                    /\ tx = IF tx.op = "create" THEN Create(tx.key) ELSE Pay(tx.key)
BY DEF Create, Pay, Tx

(* A step of the run changes no account, so only what it knows can go wrong. *)
LEMMA RunAccounted ==
  ASSUME ~ Late, MoneyInv, Run
  PROVE  Accounted' /\ NothingStranded'
<1>1. Replicas \in Nat \ {0} /\ Late = FALSE
  BY QuorumAssumption
<1>2. Inv /\ Accounted
  BY DEF MoneyInv
<1>3. pc # "ended" /\ UNCHANGED targets
  BY DEF Run, FundFails, SendCreate, CreateConfirmed, CreateFails, Answer, NoReply, Tally,
     SendRelease, ReleaseFails, ReleaseConfirmed, Report
<1>4. at \in 1 .. Replicas + 1 /\ targets \in [1 .. Replicas -> Providers]
  BY <1>1, <1>2, <1>3 DEF Inv, TypeOK, Placed
<1>5. job' = job
  BY <1>1, <1>2, <1>4, RunKeepsAccounts DEF Inv, TypeOK
<1>6. at <= Replicas => Target \in Providers
  BY <1>4 DEF Target
<1>7. \A p \in Providers : Chain!Open(p)' <=> Chain!Open(p)
  BY <1>5 DEF Chain!Open
<1> USE TxDiffer
<1>8. CASE FundFails \/ CreateFails
  BY <1>1, <1>2, <1>7, <1>8 DEF FundFails, CreateFails, GivesUp, End, Goto, Accounted,
     Created, Released, NothingStranded
<1>9. CASE SendCreate
  <2>1. Target \notin funded /\ Target \in Providers /\ pc = "funding" /\ at \in 1 .. Replicas
    BY <1>2, <1>6, <1>9 DEF SendCreate, Inv, Placed, Target
  <2>2. pc' = "creating" /\ Target' = Target
    BY <1>3, <1>9 DEF SendCreate, Goto, Target
  <2>3. flight' = flight \cup {Create(Target)} /\ UNCHANGED <<funded, settled, landed>>
    BY <1>9 DEF SendCreate
  <2>4. QED
    BY <1>2, <1>7, <2>1, <2>2, <2>3 DEF Accounted, Created, Released, NothingStranded
<1>10. CASE CreateConfirmed
  <2>1. Target \in Providers /\ pc = "creating" /\ Create(Target) \in landed
    BY <1>2, <1>6, <1>10 DEF CreateConfirmed, Inv, Placed
  <2>2. pc' \in {"funding", "running"} /\ funded' = funded \cup {Target}
        /\ UNCHANGED <<settled, flight, landed>>
    BY <1>10 DEF CreateConfirmed, Goto
  <2>3. QED
    BY <1>2, <1>7, <2>1, <2>2 DEF Accounted, Created, Released, NothingStranded
<1>11. CASE (\E o \in Outputs : Answer(o)) \/ NoReply
  <2>1. pc = "running" /\ pc' = "running" /\ UNCHANGED <<funded, settled, flight, landed>>
    BY <1>11 DEF Answer, NoReply, Goto
  <2>2. QED
    BY <1>2, <1>7, <2>1 DEF Accounted, Created, Released, NothingStranded
<1>12. CASE Tally
  <2>1. pc = "running" /\ UNCHANGED <<funded, settled, flight, landed>>
    BY <1>12 DEF Tally
  <2>2. \A p \in Providers : Chain!Open(p) => p \in funded
    BY <1>2, <2>1 DEF Accounted, Created
  <2>3. \/ pc' = "settling"
        \/ pc' = "ended" /\ (mode = "free" \/ funded \subseteq reported' \cup listed')
    BY <1>12 DEF Tally, End, Goto
  <2>4. mode = "free" => funded = {}
    BY <1>2 DEF Inv, Placed
  <2>5. QED
    BY <1>2, <1>7, <2>1, <2>2, <2>3, <2>4 DEF Accounted, Created, Released, NothingStranded
<1>13. CASE SendRelease
  <2>1. Target \in Providers /\ pc = "settling" /\ Chain!Open(Target)
    BY <1>6, <1>13 DEF SendRelease
  <2>2. pc' = "releasing" /\ flight' = flight \cup {Pay(Target)}
        /\ UNCHANGED <<funded, settled, landed>>
    BY <1>13 DEF SendRelease, Goto
  <2>3. QED
    BY <1>2, <1>7, <2>1, <2>2 DEF Accounted, Created, Released, NothingStranded
<1>14. CASE ReleaseFails
  <2>1. pc \in {"settling", "releasing"} /\ pc' = "settling"
        /\ UNCHANGED <<funded, settled, flight, landed>>
    BY <1>14 DEF ReleaseFails, Goto
  <2>2. QED
    BY <1>2, <1>7, <2>1 DEF Accounted, Created, Released, NothingStranded
<1>15. CASE ReleaseConfirmed
  <2>1. Pay(Target) \in landed /\ pc = "releasing" /\ pc' = "settling"
        /\ settled' = settled \cup {Target} /\ UNCHANGED <<funded, flight, landed>>
    BY <1>15 DEF ReleaseConfirmed, Goto
  <2>2. QED
    BY <1>2, <1>7, <2>1 DEF Accounted, Created, Released, NothingStranded
<1>16. CASE Report
  <2>1. pc = "settling" /\ pc' = "ended" /\ reported' = funded \ settled
        /\ UNCHANGED <<funded, settled, flight, landed>>
    BY <1>16 DEF Report, End, Goto
  <2>2. QED
    BY <1>2, <1>7, <2>1 DEF Accounted, Created, Released, NothingStranded
<1>17. QED
  BY <1>8, <1>9, <1>10, <1>11, <1>12, <1>13, <1>14, <1>15, <1>16 DEF Run

(* Whoever closes an account, no money is left in it to be stranded. *)
LEMMA ClosingAccounted ==
  ASSUME MoneyInv, UNCHANGED run, NEW k \in Providers, Closes(k),
         UNCHANGED <<flight, landed>>
  PROVE  Accounted' /\ NothingStranded'
<1>1. \A p \in Providers : Chain!Open(p)' => Chain!Open(p)
  BY DEF Closes, Others, Chain!Open
<1>2. Target' = Target
  BY DEF run, Target
<1>3. QED
  BY <1>1, <1>2 DEF MoneyInv, Accounted, Created, Released, NothingStranded, run

LEMMA NextAccounted == ~ Late /\ MoneyInv /\ [Next]_vars => MoneyInv'
<1> SUFFICES ASSUME ~ Late, MoneyInv, [Next]_vars PROVE Accounted' /\ NothingStranded'
  BY NextInv DEF MoneyInv
<1>0. Inv /\ Accounted /\ NothingStranded /\ Chain!TypeOK
  BY DEF MoneyInv, Inv, TypeOK
<1>1. CASE Run
  BY <1>1, RunAccounted
<1>2. ASSUME NEW tx \in Tx, Land(tx)
      PROVE  Accounted' /\ NothingStranded'
  <2>1. /\ tx \in flight /\ flight' = flight \ {tx} /\ landed' = landed \cup {tx}
        /\ UNCHANGED <<pc, funded, settled, reported, listed>> /\ Target' = Target
    BY <1>2 DEF Land, run, Target
  <2>2. CASE tx.op = "create"
    <3>1. tx = Create(tx.key) /\ tx.key \in Providers
      BY <2>2, TxDiffer
    <3>2. pc = "creating" /\ tx.key = Target
      BY <1>0, <2>1, <3>1 DEF Accounted, Created
    <3>3. \A p \in Providers : Chain!Open(p)' => Chain!Open(p) \/ p = tx.key
      BY <1>0, <1>2, <2>2, LandEffect DEF Opens, Others, Chain!Open
    <3>4. QED
      BY <1>0, <2>1, <3>1, <3>2, <3>3, TxDiffer
         DEF Accounted, Created, Released, NothingStranded
  <2>3. CASE tx.op # "create"
    <3>1. tx = Pay(tx.key) /\ tx.key \in Providers
      BY <2>3, TxDiffer
    <3>2. /\ \A p \in Providers : Chain!Open(p)' => Chain!Open(p)
          /\ ~ Chain!Open(tx.key)'
      BY <1>0, <1>2, <2>3, LandEffect DEF Closes, Others, Chain!Open
    <3>3. QED
      BY <1>0, <2>1, <3>1, <3>2, TxDiffer
         DEF Accounted, Created, Released, NothingStranded
  <2>4. QED
    BY <2>2, <2>3
<1>3. ASSUME NEW tx \in Tx, Discard(tx)
      PROVE  Accounted' /\ NothingStranded'
  <2>1. flight' \subseteq flight /\ UNCHANGED <<job, pc, funded, settled, reported, listed, landed>>
        /\ Target' = Target
    BY <1>3 DEF Discard, chain, run, Target
  <2>2. QED
    BY <1>0, <2>1 DEF Accounted, Created, Released, NothingStranded, Chain!Open
<1>4. ASSUME NEW p \in Providers,
             SelfSettle(p) \/ Cancel(p) \/ Reclaim(p) \/ PayByHand(p)
      PROVE  Accounted' /\ NothingStranded'
  BY <1>0, <1>4, ClosingSteps, ClosingAccounted
<1>5. ASSUME UNCHANGED <<job, run, flight, landed>>
      PROVE  Accounted' /\ NothingStranded'
  BY <1>0, <1>5 DEF Accounted, Created, Released, NothingStranded, Chain!Open, run, Target
<1>6. ASSUME NEW p \in Providers, LiarSigns(p)
      PROVE  Accounted' /\ NothingStranded'
  BY <1>0, <1>5, <1>6, SignKeeps DEF LiarSigns
<1>7. CASE Tick
  BY <1>0, <1>5, <1>7, TickKeeps DEF Tick
<1>8. CASE UNCHANGED vars
  BY <1>5, <1>8 DEF vars, chain
<1>9. QED
  BY <1>1, <1>2, <1>3, <1>4, <1>6, <1>7, <1>8 DEF Next, EndOfTime

(* While the wait for a confirmation only ends with what became of the       *)
(* transaction, no way out of a run leaves money in an escrow it did not     *)
(* name to the user (client.rs:303), whatever fails, lands late or is        *)
(* settled behind its back.                                                  *)
THEOREM EscrowsAreNamed ==
  ASSUME ~ Late
  PROVE  Spec => []NothingStranded
<1>1. Init => MoneyInv
  <2> SUFFICES ASSUME Init PROVE MoneyInv
    OBVIOUS
  <2>1. \A p \in Providers : ~ Chain!Open(p)
    BY DEF Init, Chain!Init, Chain!Open
  <2>2. QED
    BY <2>1, InitInv DEF MoneyInv, Init, Accounted, Created, Released, NothingStranded
<1>2. MoneyInv /\ [Next]_vars => MoneyInv'
  BY NextAccounted
<1>3. MoneyInv => NothingStranded
  BY DEF MoneyInv
<1>4. QED
  BY <1>1, <1>2, <1>3, PTL DEF Spec

-----------------------------------------------------------------------------
(* Who is paid. *)

(* The run pays a replica, or lists it for the user to pay. *)
Paid(p) == Pay(p) \in flight \cup landed \/ p \in settled \cup listed

(* Nobody is paid before the tally, and nobody then but those that gave the *)
(* answer that won it.                                                       *)
WinnersPaid ==
  /\ pc \in {"settling", "releasing"} => Reached
  /\ (pc = "settling" /\ at <= Replicas) \/ pc = "releasing" => Target \in Winners
  /\ \A p \in Providers : Paid(p) =>
       pc \in {"settling", "releasing", "ended"} /\ Reached /\ p \in Winners

(* The tally is over the answers and the replicas. *)
LEMMA SameTally ==
  ASSUME UNCHANGED <<answer, targets>>
  PROVE  (Reached' <=> Reached) /\ Winners' = Winners
<1>1. \A o \in Outputs : Group(o)' = Group(o)
  BY DEF Group
<1>2. Best' = Best
  BY <1>1 DEF Best
<1>3. Group(Best)' = Group(Best)
  BY <1>2 DEF Group
<1>4. QED
  BY <1>3 DEF Reached, Winners

(* Once the answers are in nothing of the tally changes. *)
LEMMA WinnersStay ==
  ASSUME WinnersPaid, UNCHANGED <<answer, targets>>,
         \A p \in Providers : Paid(p)' => Paid(p),
         pc' = pc \/ pc' = "ended",
         at' = at
  PROVE  WinnersPaid'
<1>1. (Reached' <=> Reached) /\ Winners' = Winners /\ Target' = Target
  BY SameTally DEF Target
<1>2. QED
  BY <1>1 DEF WinnersPaid

LEMMA RunPaysWinners ==
  ASSUME Inv, WinnersPaid, Run
  PROVE  WinnersPaid'
<1>1. Replicas \in Nat \ {0}
  BY QuorumAssumption
<1>2. ASSUME pc \notin {"settling", "releasing", "ended"}, UNCHANGED <<flight, landed, settled>>,
             pc' \notin {"settling", "releasing"}, listed' = {}
      PROVE  WinnersPaid'
  BY <1>2 DEF WinnersPaid, Paid
<1>3. ASSUME pc \notin {"settling", "releasing", "ended"}
      PROVE  \A p \in Providers : ~ Paid(p)
  BY <1>3 DEF WinnersPaid
<1>4. CASE FundFails \/ CreateFails
  BY <1>2, <1>4 DEF FundFails, CreateFails, End, Goto
<1>5. CASE SendCreate
  <2>1. \A p \in Providers : ~ Paid(p)'
    <3>1. \A p \in Providers : ~ Paid(p)
      BY <1>3, <1>5 DEF SendCreate
    <3>2. \A p \in Providers : Pay(p) # Create(Target)
      BY DEF Pay, Create
    <3>3. QED
      BY <1>5, <3>1, <3>2 DEF SendCreate, Paid
  <2>2. QED
    BY <1>5, <2>1 DEF SendCreate, Goto, WinnersPaid
<1>6. CASE CreateConfirmed \/ NoReply \/ \E o \in Outputs : Answer(o)
  <2>1. \A p \in Providers : ~ Paid(p)
    BY <1>3, <1>6 DEF CreateConfirmed, NoReply, Answer
  <2>2. UNCHANGED <<flight, landed, settled, listed>> /\ pc' \notin {"settling", "releasing"}
    BY <1>6 DEF CreateConfirmed, NoReply, Answer, Goto
  <2>3. QED
    BY <2>1, <2>2 DEF WinnersPaid, Paid
<1>7. CASE Tally
  <2>1. pc = "running" /\ UNCHANGED <<answer, targets, settled, flight, landed>>
    BY <1>7 DEF Tally
  <2>2. (Reached' <=> Reached) /\ Winners' = Winners
    BY <2>1, SameTally
  <2>3. \A p \in Providers : ~ Paid(p)
    BY <1>3, <2>1
  <2>4. CASE pc' = "ended"
    <3>1. listed' \subseteq Winners /\ (listed' # {} => Reached)
      BY <1>7, <2>4 DEF Tally, End, Goto
    <3>2. QED
      BY <2>1, <2>2, <2>3, <2>4, <3>1 DEF WinnersPaid, Paid
  <2>5. CASE pc' # "ended"
    <3>1. Reached /\ pc' = "settling" /\ at' = NextWinner(1) /\ listed' = listed
      BY <1>7, <2>5 DEF Tally, End, Goto
    <3>2. at' <= Replicas => targets[at'] \in Winners
      BY <1>1, <3>1, NextWinnerIsOne
    <3>3. Target' = targets[at']
      BY <2>1 DEF Target
    <3>4. QED
      BY <2>1, <2>2, <2>3, <3>1, <3>2, <3>3 DEF WinnersPaid, Paid
  <2>6. QED
    BY <2>4, <2>5
<1>8. CASE SendRelease
  <2>1. /\ pc = "settling" /\ at <= Replicas /\ pc' = "releasing" /\ at' = at
        /\ flight' = flight \cup {Pay(Target)}
        /\ UNCHANGED <<answer, targets, settled, listed, landed>>
    BY <1>8 DEF SendRelease, Goto
  <2>2. (Reached' <=> Reached) /\ Winners' = Winners /\ Target' = Target
    BY <2>1, SameTally DEF Target
  <2>3. Reached /\ Target \in Winners
    BY <2>1 DEF WinnersPaid
  <2>4. \A p \in Providers : Paid(p)' => Paid(p) \/ p = Target
    BY <2>1 DEF Paid, Pay
  <2>5. QED
    BY <2>1, <2>2, <2>3, <2>4 DEF WinnersPaid
<1>9. CASE ReleaseFails \/ ReleaseConfirmed
  <2>1. /\ pc \in {"settling", "releasing"} /\ pc' = "settling" /\ at' = NextWinner(at + 1)
        /\ UNCHANGED <<answer, targets, flight, landed, listed>>
        /\ settled' = settled \/ (Pay(Target) \in landed /\ settled' = settled \cup {Target})
    BY <1>9 DEF ReleaseFails, ReleaseConfirmed, Goto
  <2>2. at \in 1 .. Replicas
    BY <1>9 DEF ReleaseFails, ReleaseConfirmed, Inv, Placed
  <2>3. (Reached' <=> Reached) /\ Winners' = Winners /\ Target' = targets[at']
    BY <2>1, SameTally DEF Target
  <2>4. at' <= Replicas => Target' \in Winners'
    BY <1>1, <2>1, <2>2, <2>3, NextWinnerIsOne
  <2>5. \A p \in Providers : Paid(p)' => Paid(p)
    BY <2>1 DEF Paid
  <2>6. QED
    BY <2>1, <2>3, <2>4, <2>5 DEF WinnersPaid
<1>10. CASE Report
  <2>1. /\ pc = "settling" /\ pc' = "ended" /\ listed' = {}
        /\ UNCHANGED <<answer, targets, settled, flight, landed>>
    BY <1>10 DEF Report, End, Goto
  <2>2. (Reached' <=> Reached) /\ Winners' = Winners
    BY <2>1, SameTally
  <2>3. \A p \in Providers : Paid(p)' => Paid(p)
    BY <2>1 DEF Paid
  <2>4. QED
    BY <2>1, <2>2, <2>3 DEF WinnersPaid
<1>11. QED
  BY <1>4, <1>5, <1>6, <1>7, <1>8, <1>9, <1>10 DEF Run

LEMMA NextPaysWinners == Inv /\ WinnersPaid /\ [Next]_vars => WinnersPaid'
<1> SUFFICES ASSUME Inv, WinnersPaid, [Next]_vars PROVE WinnersPaid'
  OBVIOUS
<1>1. CASE Run
  BY <1>1, RunPaysWinners
<1>2. ASSUME UNCHANGED run, flight' \cup landed' \subseteq flight \cup landed
      PROVE  WinnersPaid'
  <2>1. \A p \in Providers : Paid(p)' => Paid(p)
    BY <1>2 DEF Paid, run
  <2>2. QED
    BY <1>2, <2>1, WinnersStay DEF run
<1>3. ASSUME NEW tx \in Tx, Land(tx) \/ Discard(tx)
      PROVE  UNCHANGED run /\ flight' \cup landed' \subseteq flight \cup landed
  BY <1>3 DEF Land, Discard
<1>4. ASSUME NEW p \in Providers,
             LiarSigns(p) \/ SelfSettle(p) \/ Cancel(p) \/ Reclaim(p) \/ PayByHand(p)
      PROVE  UNCHANGED <<run, flight, landed>>
  BY <1>4 DEF LiarSigns, SelfSettle, Cancel, Reclaim, PayByHand
<1>5. ASSUME Tick \/ EndOfTime \/ UNCHANGED vars
      PROVE  UNCHANGED <<run, flight, landed>>
  BY <1>5 DEF Tick, EndOfTime, vars
<1>6. QED
  BY <1>1, <1>2, <1>3, <1>4, <1>5 DEF Next

(* Whatever fails, lands late or is given up: the run releases, and lists to *)
(* be released by hand, only escrows of replicas that gave the answer of a   *)
(* majority of the replicas asked - and that is the right one unless the     *)
(* liars are a majority (client.rs run_quorum, RFC-0008 4).  A provider that *)
(* signed may still settle its own escrow: release_verified takes any payer. *)
THEOREM OnlyTheMajorityIsPaid ==
  Spec => [](\A p \in Providers : Paid(p) =>
               /\ Majority(Group(answer[p])) /\ p \in Range(targets)
               /\ ~ Majority(Liars \cap Range(targets)) => answer[p] = Right)
<1> DEFINE Fair == \A p \in Providers : Paid(p) =>
                     /\ Majority(Group(answer[p])) /\ p \in Range(targets)
                     /\ ~ Majority(Liars \cap Range(targets)) => answer[p] = Right
<1>1. Init => WinnersPaid
  BY DEF Init, WinnersPaid, Paid
<1>2. Inv /\ WinnersPaid => Fair
  <2> SUFFICES ASSUME Inv, WinnersPaid, NEW p \in Providers, Paid(p)
               PROVE  /\ Majority(Group(answer[p])) /\ p \in Range(targets)
                      /\ ~ Majority(Liars \cap Range(targets)) => answer[p] = Right
    OBVIOUS
  <2>1. /\ Replicas \in Nat /\ targets \in [1 .. Replicas -> Providers]
        /\ IsInjective(targets) /\ Honest
    BY QuorumAssumption DEF Inv, Placed
  <2>2. Reached /\ answer[p] = Best /\ p \in Range(targets)
    BY DEF WinnersPaid, Winners, Group
  <2>3. Cardinality(Group(Best)) \in Nat
    <3>1. Group(Best) \in SUBSET Range(targets)
      BY DEF Group
    <3>2. QED
      BY <2>1, <3>1, TargetsCounted, FS_Subset, FS_CardinalityType
  <2>4. Majority(Group(Best))
    BY <2>1, <2>2, <2>3 DEF Reached, Threshold, Majority
  <2>5. QED
    BY <2>1, <2>2, <2>4, OutnumberedLiars
<1> HIDE DEF Fair
<1>3. Spec => []Fair
  BY <1>1, <1>2, InitInv, NextInv, NextPaysWinners, PTL DEF Spec
<1>4. QED
  BY <1>3 DEF Fair

-----------------------------------------------------------------------------
(* The chain. *)

(* Whatever a run and the others do on the cluster is what the escrow        *)
(* program allows, so that all theorems about Escrow hold of a run's escrows.*)
THEOREM RunKeepsToChain == Spec => Chain!Spec
<1>1. Init => Chain!Init
  BY DEF Init
<1>2. Inv /\ [Next]_vars => [Chain!Next]_(Chain!vars)
  <2> SUFFICES ASSUME Inv, [Next]_vars PROVE [Chain!Next]_(Chain!vars)
    OBVIOUS
  <2>1. CASE Run
    <3>1. pc # "ended"
      BY <2>1 DEF Run, FundFails, SendCreate, CreateConfirmed, CreateFails, Answer, NoReply,
         Tally, SendRelease, ReleaseFails, ReleaseConfirmed, Report
    <3>2. at \in 1 .. Replicas + 1
      BY <3>1, QuorumAssumption DEF Inv, TypeOK, Placed
    <3>3. UNCHANGED chain \/ (at <= Replicas /\ Chain!SignResult(Target, Target))
      BY <2>1 DEF Run, FundFails, SendCreate, CreateConfirmed, CreateFails, Answer, NoReply,
         Tally, SendRelease, ReleaseFails, ReleaseConfirmed, Report, Sign
    <3>4. at <= Replicas => Target \in Providers
      BY <3>2 DEF Inv, Placed, Target
    <3>5. QED
      BY <3>3, <3>4 DEF chain, Chain!vars, Chain!Next
  <2>2. ASSUME NEW tx \in Tx, Land(tx)
        PROVE  Chain!Next
    BY <2>2 DEF Land, Tx, Chain!Next, Chain!ChainNext
  <2>3. ASSUME NEW p \in Providers,
               LiarSigns(p) \/ SelfSettle(p) \/ Cancel(p) \/ Reclaim(p) \/ PayByHand(p)
        PROVE  Chain!Next
    BY <2>3 DEF LiarSigns, SelfSettle, Cancel, Reclaim, PayByHand, Chain!Next, Chain!ChainNext
  <2>4. QED
    BY <2>1, <2>2, <2>3 DEF Next, Discard, Tick, EndOfTime, vars, chain, Chain!vars,
       Chain!Next, Chain!ChainNext
<1>3. QED
  BY <1>1, <1>2, InitInv, NextInv, PTL DEF Spec, Chain!Spec
==============================================================================

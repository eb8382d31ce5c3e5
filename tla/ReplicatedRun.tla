--------------------------- MODULE ReplicatedRun ---------------------------
(***************************************************************************)
(* Replicated settlement (client.rs run_quorum, solana.rs, the tally of    *)
(* sdk/quorum.rs; RFC-0008): one run of a consumer that funds one escrow   *)
(* per replica, asks the replicas one after the other, tallies the signed  *)
(* answers and releases the escrows of the majority.  The escrow program   *)
(* is an instance of Escrow whose variables are shared; the job account of *)
(* a replica is named by its provider, since a run makes one for each.     *)
(*                                                                         *)
(* A transaction that was sent is in flight until it lands or is dropped,  *)
(* whatever its sender has concluded meanwhile.  An answer stands for the  *)
(* SHA-256 of its bytes, a number; unsigned answers and answers with a bad *)
(* signature are errors of the SDK's submit, like no answer at all.        *)
(***************************************************************************)
EXTENDS Integers, Sequences, FiniteSets, SequencesExt, FiniteSetsExt

CONSTANTS
  Providers, Cancellers, NoJob, U64Max, MinTimeout, MaxTimeout,
  ChallengeWindow, Horizon,    \* as in Escrow
  Liars,             \* providers that may sign anything
  Outputs, Right,    \* hashes of answers; that of the right one
  NoAnswer,          \* no signed answer
  Replicas,          \* --replicas
  Modes,             \* of "free", "pay" (--pay), "release" (--pay --release)
  Amount, Timeout,   \* of every escrow
  Margin,            \* what a provider wants to be left until the deadline
  Late               \* waiting for confirmation may end before the transaction does

VARIABLES clock, job, vault, ledger, results

Chain == INSTANCE Escrow WITH
  Keys <- Providers, Amounts <- {Amount}, Timeouts <- {Timeout}, Splits <- {},
  MaxCreates <- 1
chain == <<clock, job, vault, ledger, results>>

ASSUME QuorumAssumption ==
  /\ Chain!ConstantsAssumption
  /\ Liars \subseteq Providers
  /\ Outputs \subseteq Nat /\ Right \in Outputs
  /\ NoAnswer \notin Outputs
  /\ Replicas \in 1..Cardinality(Providers)
  /\ Modes \subseteq {"free", "pay", "release"}
  /\ Margin \in Nat /\ Late \in BOOLEAN

VARIABLES
  mode, targets,     \* how the run was started; resolve_targets' choice
  pc, at,            \* where the run is: the phase and the replica
  funded,            \* `funded': replicas whose escrow is confirmed
  answer,            \* answer[p]: signature-verified answer of p
  settled,           \* `settled': winners whose release is confirmed
  reported, listed,  \* escrows printed as refundable; as to be settled by hand
  flight, landed     \* transactions sent: not landed yet; landed

run == <<mode, targets, pc, at, funded, answer, settled, reported, listed>>
vars == <<chain, run, flight, landed>>

Tx == [op : {"create", "release"}, key : Providers]
Create(k) == [op |-> "create", key |-> k]
Pay(k) == [op |-> "release", key |-> k]

-----------------------------------------------------------------------------
(* The tally. *)

(* Mutant: a majority of those that answered is enough. *)
MajorityOfVoters == Cardinality({p \in Providers : answer[p] # NoAnswer}) \div 2 + 1

Threshold == Replicas \div 2 + 1

Group(o) == {p \in Range(targets) : answer[p] = o}

(* The largest group; of equally large ones that with the lowest hash. *)
Best == Min({o \in Outputs : \A other \in Outputs :
                               Cardinality(Group(other)) <= Cardinality(Group(o))})

Reached == Cardinality(Group(Best)) >= Threshold

Winners == Group(Best)

(* The place of the first winner from the i-th replica on; the places after  *)
(* the last one when there is none.  Replicas are settled in that order.     *)
NextWinner(i) == Min({j \in i .. Replicas : targets[j] \in Winners} \cup {Replicas + 1})

-----------------------------------------------------------------------------
(* The run. *)

Target == targets[at]
Goto(phase, i) == pc' = phase /\ at' = i

(* Mutant: only the losers of a tally are reported. *)
EndSilently(refundable, byHand) ==
  /\ Goto("ended", 0)
  /\ reported' = {p \in refundable : answer[p] # NoAnswer} /\ listed' = byHand

End(refundable, byHand) ==
  /\ Goto("ended", 0)
  /\ reported' = refundable /\ listed' = byHand

(* The provider cannot be reached or quoted, the wallet is empty, the RPC   *)
(* node fails before anything is sent: the run is aborted.                   *)
FundFails ==
  /\ pc = "funding"
  /\ End(funded, {})
  /\ UNCHANGED <<chain, mode, targets, funded, answer, settled, flight, landed>>

SendCreate ==
  /\ pc = "funding"
  /\ Goto("creating", at)
  /\ flight' = flight \cup {Create(Target)}
  /\ UNCHANGED <<chain, mode, targets, funded, answer, settled, reported, listed, landed>>

(* await_confirmation saw the transaction; the next replica, or the first    *)
(* question when all are funded.                                             *)
CreateConfirmed ==
  /\ pc = "creating" /\ Create(Target) \in landed
  /\ funded' = funded \cup {Target}
  /\ IF at < Replicas THEN Goto("funding", at + 1) ELSE Goto("running", 1)
  /\ UNCHANGED <<chain, mode, targets, answer, settled, reported, listed, flight, landed>>

(* What await_confirmation can end with otherwise: the transaction failed,   *)
(* or the RPC node did or time was up, which says nothing about it.          *)
GivesUp(tx) == Late \/ tx \notin flight \cup landed

CreateFails ==
  /\ pc = "creating" /\ GivesUp(Create(Target))
  /\ End(funded, {})
  /\ UNCHANGED <<chain, mode, targets, funded, answer, settled, flight, landed>>

(* A provider runs a job that is free, or whose escrow leaves enough time. *)
Accepts(p) == \/ mode = "free"
              \/ Chain!Open(p) /\ job[p].deadline - clock >= Margin

Sign(p) == IF mode = "free" THEN UNCHANGED chain ELSE Chain!SignResult(p, p)

Answer(o) ==
  /\ pc = "running" /\ at <= Replicas
  /\ Target \in Liars \/ (o = Right /\ Accepts(Target))
  /\ answer' = [answer EXCEPT ![Target] = o]
  /\ Sign(Target)
  /\ Goto("running", at + 1)
  /\ UNCHANGED <<mode, targets, funded, settled, reported, listed, flight, landed>>

(* Mutant: no answer counts as an empty one. *)
NoReplyEmpty ==
  /\ pc = "running" /\ at <= Replicas
  /\ answer' = [answer EXCEPT ![Target] = 0]
  /\ Goto("running", at + 1)
  /\ UNCHANGED <<chain, mode, targets, funded, settled, reported, listed, flight, landed>>

(* Refused, unreachable, broken off or unsigned; the replica may have run   *)
(* the job and signed all the same.                                          *)
NoReply ==
  /\ pc = "running" /\ at <= Replicas
  /\ UNCHANGED chain \/ (Accepts(Target) /\ Sign(Target))
  /\ Goto("running", at + 1)
  /\ UNCHANGED <<mode, targets, funded, answer, settled, reported, listed, flight, landed>>

Tally ==
  /\ pc = "running" /\ at > Replicas
  /\ \/ ~ Reached /\ End(funded, {})
     \/ Reached /\ mode = "free" /\ End({}, {})
     \/ Reached /\ mode = "pay" /\ End(funded \ Winners, funded \cap Winners)
     \/ Reached /\ mode = "release" /\ Goto("settling", NextWinner(1)) /\ UNCHANGED <<reported, listed>>
  /\ UNCHANGED <<chain, mode, targets, funded, answer, settled, flight, landed>>

(* fetch_job found the account: its release is sent. *)
SendRelease ==
  /\ pc = "settling" /\ at <= Replicas
  /\ Chain!Open(Target)
  /\ Goto("releasing", at)
  /\ flight' = flight \cup {Pay(Target)}
  /\ UNCHANGED <<chain, mode, targets, funded, answer, settled, reported, listed, landed>>

(* The account is gone, or the RPC node fails, before or after sending. *)
ReleaseFails ==
  /\ \/ pc = "settling" /\ at <= Replicas
     \/ pc = "releasing" /\ GivesUp(Pay(Target))
  /\ Goto("settling", NextWinner(at + 1))
  /\ UNCHANGED <<chain, mode, targets, funded, answer, settled, reported, listed, flight, landed>>

ReleaseConfirmed ==
  /\ pc = "releasing" /\ Pay(Target) \in landed
  /\ settled' = settled \cup {Target}
  /\ Goto("settling", NextWinner(at + 1))
  /\ UNCHANGED <<chain, mode, targets, funded, answer, reported, listed, flight, landed>>

Report ==
  /\ pc = "settling" /\ at > Replicas
  /\ End(funded \ settled, {})
  /\ UNCHANGED <<chain, mode, targets, funded, answer, settled, flight, landed>>

-----------------------------------------------------------------------------
(* The cluster and the others. *)

Land(tx) ==
  /\ tx \in flight
  /\ IF tx.op = "create" THEN Chain!CreateJob(tx.key, tx.key, Amount, Timeout)
                         ELSE Chain!ReleaseVerified(tx.key, {})
  /\ flight' = flight \ {tx}
  /\ landed' = landed \cup {tx}
  /\ UNCHANGED run

(* It fails on chain, or its blockhash expires. *)
Discard(tx) ==
  /\ tx \in flight
  /\ flight' = flight \ {tx}
  /\ UNCHANGED <<chain, run, landed>>

LiarSigns(p) ==
  /\ p \in Liars /\ Chain!Open(p)
  /\ Chain!SignResult(p, p)
  /\ UNCHANGED <<run, flight, landed>>

(* release_verified takes any payer: a provider may settle its own escrow. *)
SelfSettle(p) ==
  /\ Chain!ReleaseVerified(p, {})
  /\ UNCHANGED <<run, flight, landed>>

Cancel(p) ==
  /\ Chain!Refund(p, "provider")
  /\ UNCHANGED <<run, flight, landed>>

(* The user acts on what the run printed. *)
Reclaim(p) ==
  /\ pc = "ended" /\ p \in reported \cup listed
  /\ Chain!Refund(p, "consumer")
  /\ UNCHANGED <<run, flight, landed>>

PayByHand(p) ==
  /\ pc = "ended" /\ p \in listed
  /\ Chain!Release(p, {})
  /\ UNCHANGED <<run, flight, landed>>

Tick == Chain!Tick /\ UNCHANGED <<run, flight, landed>>

Init ==
  /\ Chain!Init
  /\ mode \in Modes
  /\ targets \in {s \in [1..Replicas -> Providers] : IsInjective(s)}
  /\ pc = (IF mode = "free" THEN "running" ELSE "funding") /\ at = 1
  /\ funded = {} /\ settled = {} /\ reported = {} /\ listed = {}
  /\ answer = [p \in Providers |-> NoAnswer]
  /\ flight = {} /\ landed = {}

Run == \/ FundFails \/ SendCreate \/ CreateConfirmed \/ CreateFails
       \/ (\E o \in Outputs : Answer(o)) \/ NoReply \/ Tally
       \/ SendRelease \/ ReleaseFails \/ ReleaseConfirmed \/ Report

(* The end of the modelled time is no deadlock. *)
EndOfTime == clock = Horizon /\ UNCHANGED vars

Next == \/ Run
        \/ \E tx \in Tx : Land(tx) \/ Discard(tx)
        \/ \E p \in Providers :
             LiarSigns(p) \/ SelfSettle(p) \/ Cancel(p) \/ Reclaim(p) \/ PayByHand(p)
        \/ Tick
        \/ EndOfTime

Spec == Init /\ [][Next]_vars

(* Calls return, with an answer or an error; transactions land or expire;   *)
(* the user reclaims what is due.                                            *)
Fairness == /\ WF_vars(Run)
            /\ WF_vars(Tick)
            /\ \A tx \in Tx : WF_vars(Land(tx) \/ Discard(tx))
            /\ \A p \in Providers : WF_vars(Reclaim(p))

FairSpec == Spec /\ Fairness

-----------------------------------------------------------------------------
(* Properties. *)

(* More than half of the requested replicas. *)
Majority(S) == 2 * Cardinality(S) > Replicas

TypeOK ==
  /\ Chain!TypeOK
  /\ mode \in Modes
  /\ targets \in Seq(Providers)
  /\ pc \in {"funding", "creating", "running", "settling", "releasing", "ended"}
  /\ at \in 0..(Replicas + 1)
  /\ answer \in [Providers -> Outputs \cup {NoAnswer}]
  /\ funded \subseteq Providers /\ settled \subseteq funded
  /\ reported \subseteq funded /\ listed \subseteq funded
  /\ flight \subseteq Tx /\ landed \subseteq Tx

(* RFC-0008 4: with fewer liars among the replicas than a majority, an      *)
(* answer the run accepts is the right one, whoever stays silent; and if a   *)
(* majority gave the right answer it is accepted.                            *)
ResultIntegrity ==
  pc \in {"settling", "releasing"} \/ (pc = "running" /\ at > Replicas) =>
    /\ Reached /\ ~ Majority(Liars \cap Range(targets)) => Best = Right
    /\ Majority(Group(Right)) => Reached /\ Best = Right

(* When a run has ended, whatever way, every escrow that still holds money  *)
(* was shown to the user (client.rs:303, "never silently stranded").         *)
NothingStranded ==
  pc = "ended" => \A p \in Providers : Chain!Open(p) => p \in reported \cup listed

(* Every stake leaves its vault: to a provider that signed, or back.        *)
EveryStakeLeaves == \A p \in Providers : Chain!Open(p) ~> ~ Chain!Open(p)
==============================================================================

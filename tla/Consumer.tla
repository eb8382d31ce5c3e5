------------------------------ MODULE Consumer ------------------------------
(***************************************************************************)
(* The consumer's side of a paid job: the MCP server's session with its    *)
(* spend caps (mcp.rs), the same steps from the command line (client.rs),  *)
(* the placement of workloads (scheduler/src/lib.rs), the client of the    *)
(* SDK, and the transactions they send (solana.rs).  The provider and the  *)
(* chain are as much of Node and Escrow as the consumer meets.             *)
(*                                                                         *)
(* The MCP server answers one request after the other; the command line is *)
(* another process with the same wallet.  Amounts come as decimal USDC and *)
(* are locked in whole micro-USDC: here they are counted in half micros,   *)
(* so that an amount may fall between two.                                 *)
(***************************************************************************)
EXTENDS Integers, Sequences, FiniteSets, SequencesExt

CONSTANTS
  Providers, Escrows,
  Offers,         \* what a provider may announce and charge
  AtFirst,        \* what the providers may offer at first
  Specs,          \* workloads
  Asks,           \* amounts a caller names, in half micros
  Quoted,         \* no amount named: the provider's price
  MaxPerJob,      \* --max-per-job-usdc, in half micros
  MaxSpend,       \* --max-spend-usdc, in half micros
  ReadOnly,       \* --read-only
  AllowMainnet, ClusterIsMainnet, RpcIsNonMainnet,
  MaxRuns,        \* bound: runs, launches and deployments
  MaxChanges,     \* bound: changes of what providers offer
  None

Callers == {"mcp", "cli"}
Health == {"healthy", "degraded", "unhealthy"}
Outputs == {"bytes", "empty"}

(* An offer: what a job and what an hour cost, what is free of the one       *)
(* resource kind modelled, the capabilities as pairs of a name and a         *)
(* version, the health, and reputation and utilization in tenths.  A         *)
(* workload: what it needs, its capabilities, and its price ceiling.          *)
ASSUME ConsumerAssumption ==
  /\ IsFiniteSet(Providers)
  /\ \A o \in Offers : o.price \in Nat /\ o.rep \in Int /\ o.util \in Int /\ o.health \in Health
  /\ AtFirst \subseteq [Providers -> Offers]
  /\ Asks \subseteq Int /\ Quoted \notin Int
  /\ {MaxPerJob, MaxSpend, MaxRuns, MaxChanges} \subseteq Nat
  /\ {ReadOnly, AllowMainnet, ClusterIsMainnet, RpcIsNonMainnet} \subseteq BOOLEAN
  /\ None \notin Providers \cup Escrows \cup Specs

VARIABLES
  offer,      \* offer[p]: what the provider charges, and what it announces
  esc,        \* esc[e]: the escrow on the chain; whether its provider reserved it,
              \* and the verified result its consumer holds
  call,       \* call[c]: what a caller is doing
  reported,   \* escrows whose account and job id a caller was told
  spent,      \* Session.spent_micro_usdc
  locked,     \* history: what the escrows reported to the session hold
  runs, changes

vars == <<offer, esc, call, reported, spent, locked, runs, changes>>

Idle == [pc |-> "idle", tool |-> None, p |-> None, e |-> None, amount |-> 0,
         spec |-> None, from |-> {}]

NoEscrow == [state |-> "none", provider |-> None, amount |-> 0, time |-> "runway",
             served |-> FALSE, result |-> None]

(* What nobody reads of an escrow that is over is left out. *)
Over(state) == [NoEscrow EXCEPT !.state = state]

At(c, pc) == call[c].pc = pc
Goto(c, pc) == call' = [call EXCEPT ![c].pc = pc]
Done(c) == call' = [call EXCEPT ![c] = Idle]

-----------------------------------------------------------------------------
(* Placement (scheduler/src/lib.rs). *)

HealthyOnly(o) == o.health # "unhealthy"
ResourceFit(s, o) == s.need <= o.free
PriceCeiling(s, o) == s.ceiling = 0 \/ o.hourly <= s.ceiling

(* A version that is asked for must be the same; one that is not may be any. *)
Satisfies(offered, required) ==
  offered[1] = required[1] /\ required[2] \in {None, offered[2]}

CapabilityMatch(s, o) == \A r \in s.caps : \E c \in o.caps : Satisfies(c, r)

(* Mutant: the capabilities are not looked at. *)
AdmitsAny(s, o) == HealthyOnly(o) /\ ResourceFit(s, o) /\ PriceCeiling(s, o)

Admits(s, o) ==
  HealthyOnly(o) /\ ResourceFit(s, o) /\ CapabilityMatch(s, o) /\ PriceCeiling(s, o)

Clamp(x) == IF x < 0 THEN 0 ELSE IF x > 10 THEN 10 ELSE x

HealthBonus(o) == CASE o.health = "healthy" -> 10
                    [] o.health = "degraded" -> 3
                    [] OTHER -> 0

(* HighReputation 0.5, LowUtilization 0.3, HealthBonus 0.2. *)
Score(o) == 5 * Clamp(o.rep) + 3 * Clamp(10 - o.util) + 2 * HealthBonus(o)

(* Pipeline::place: the best score, the earlier in the list among equals.   *)
Pick(s, list) ==
  LET fit == {i \in DOMAIN list : Admits(s, offer[list[i]])}
      best == {i \in fit : \A j \in fit : Score(offer[list[j]]) <= Score(offer[list[i]])}
  IN  IF fit = {} THEN None
      ELSE list[CHOOSE i \in best : \A j \in best : i <= j]

-----------------------------------------------------------------------------
(* Tools and commands begin. *)

(* serve refuses to start where USDC is real; tool_definitions and          *)
(* call_tool leave out the tools that pay on a server that only reads.       *)
MainnetGuard == AllowMainnet \/ (~ ClusterIsMainnet /\ RpcIsNonMainnet)
MayCall(c) == At(c, "idle") /\ (c = "mcp" => MainnetGuard)
MayPay(c) == MayCall(c) /\ (c = "mcp" => ~ ReadOnly)

CheckCaps(a) == a > 0 /\ a <= MaxPerJob /\ 2 * spent + a <= MaxSpend

(* cloudiy_pay_escrow asks the provider for its price if no amount is       *)
(* named, checks the caps, and then has fund_escrow do the rest; the        *)
(* command line goes to fund_escrow at once.                                 *)
PayEscrow(c, p, ask) ==
  /\ MayPay(c)
  /\ LET a == IF c = "mcp" /\ ask = Quoted THEN 2 * offer[p].price ELSE ask
     IN  /\ c = "mcp" => CheckCaps(a)
         /\ call' = [call EXCEPT ![c] = [Idle EXCEPT !.pc = "funding", !.tool = "pay",
                                           !.p = p, !.amount = a]]
  /\ UNCHANGED <<offer, esc, reported, spent, locked, runs, changes>>

(* Mutant: fund_escrow asks for the price again. *)
FundAmountAgain(c) == 2 * offer[call[c].p].price

FundAmount(c) == IF call[c].amount = Quoted THEN 2 * offer[call[c].p].price ELSE call[c].amount

(* Half micros to micros, the nearest; below zero it saturates. *)
Round(a) == IF a < 0 THEN 0 ELSE (a + 1) \div 2

(* fund_escrow and create_job up to sendTransaction: a fresh job id, and    *)
(* therefore a fresh account.                                                *)
SendCreate(c) ==
  /\ At(c, "funding") /\ FundAmount(c) > 0
  /\ \E e \in Escrows :
       /\ esc[e].state = "none"
       /\ esc' = [esc EXCEPT ![e].state = "sent", ![e].provider = call[c].p,
                             ![e].amount = Round(FundAmount(c))]
       /\ call' = [call EXCEPT ![c].pc = "sending", ![c].e = e,
                               ![c].amount = Round(FundAmount(c))]
  /\ UNCHANGED <<offer, reported, spent, locked, runs, changes>>

(* No wallet, no answer, no payout address, an RPC error, or none of forty  *)
(* polls saw the transaction: the caller gets an error.                      *)
FundFails(c) ==
  /\ At(c, "funding") \/ At(c, "sending")
  /\ Done(c)
  /\ UNCHANGED <<offer, esc, reported, spent, locked, runs, changes>>

(* await_confirmation saw it.  Only the session counts. *)
Confirmed(c) ==
  /\ At(c, "sending") /\ esc[call[c].e].state \notin {"sent", "dropped"}
  /\ reported' = reported \cup {call[c].e}
  /\ locked' = locked + (IF c = "mcp" THEN call[c].amount ELSE 0)
  /\ spent' = spent + (IF c = "mcp" THEN call[c].amount ELSE 0)
  /\ Done(c)
  /\ UNCHANGED <<offer, esc, runs, changes>>

(* A request goes to a provider: named by the caller, or placed over the    *)
(* announcements that some directory gave.                                   *)
Request(c, tool, p, e, s, from) ==
  /\ MayCall(c) /\ runs < MaxRuns
  /\ runs' = runs + 1
  /\ call' = [call EXCEPT ![c] = [Idle EXCEPT !.pc = "asked", !.tool = tool, !.p = p,
                                    !.e = e, !.spec = s, !.from = from]]
  /\ UNCHANGED <<offer, esc, reported, spent, locked, changes>>

(* resolve_target, and the same in cloudiy_launch and cloudiy_deploy.  With *)
(* no list, or nobody on it that fits, the call is over.                     *)
Placed(c, tool, e, s) ==
  \E listed \in SUBSET Providers : \E list \in SetToSeqs(listed) :
    Pick(s, list) # None /\ Request(c, tool, Pick(s, list), e, s, listed)

(* cloudiy_run_job and `cloudiy run': the job id of an escrow is pinned, and *)
(* the consumer signs for it.                                                *)
RunJob(c, p, e) == e \in reported /\ Request(c, "run", p, e, None, {})

(* `cloudiy run' without --to places a job whatever provider its escrow     *)
(* names.                                                                    *)
RunPlaced(e, s) == e \in reported /\ Placed("cli", "run", e, s)

(* cloudiy_launch, `cloudiy launch' and `cloudiy deploy': no escrow.         *)
Launch(c, s) == Placed(c, "workload", None, s)

(* cloudiy_deploy can carry an escrow. *)
Deploy(p, e, s) == e \in reported /\ Request("mcp", "workload", p, e, s, {})

-----------------------------------------------------------------------------
(* The provider. *)

(* SubmitOptions::job_id pins the id; run_workload always draws a new one.  *)
JobId(c) == IF call[c].tool = "run" THEN call[c].e ELSE None

Pays(e, p) ==
  /\ esc[e].state = "locked" /\ esc[e].provider = p
  /\ esc[e].amount >= offer[p].price
  /\ esc[e].time = "runway" /\ ~ esc[e].served

(* authorize: an escrow is reserved before anything else is looked at.      *)
Authorize(c) ==
  /\ At(c, "asked")
  /\ \/ /\ call[c].e = None
        /\ UNCHANGED esc
     \/ /\ call[c].e # None /\ JobId(c) = call[c].e /\ Pays(call[c].e, call[c].p)
        /\ esc' = [esc EXCEPT ![call[c].e].served = TRUE]
  /\ call' = [call EXCEPT ![c].pc = "admitted", ![c].from = {}]
  /\ UNCHANGED <<offer, reported, spent, locked, runs, changes>>

(* PaymentRequired: the caller is told the price. *)
PaymentRequired(c) ==
  /\ At(c, "asked")
  /\ call[c].e # None => ~ (JobId(c) = call[c].e /\ Pays(call[c].e, call[c].p))
  /\ Done(c)
  /\ UNCHANGED <<offer, esc, reported, spent, locked, runs, changes>>

CanRun(c) ==
  call[c].spec # None => /\ ResourceFit(call[c].spec, offer[call[c].p])
                         /\ CapabilityMatch(call[c].spec, offer[call[c].p])

(* No permit, no such capability or resource, or a job that fails. *)
JobFails(c) ==
  /\ At(c, "admitted")
  /\ Done(c)
  /\ UNCHANGED <<offer, esc, reported, spent, locked, runs, changes>>

(* The signed result, checked against the node that was dialled.  `cloudiy  *)
(* run --release' goes on to release the escrow.                             *)
Answer(c, out) ==
  /\ At(c, "admitted") /\ CanRun(c)
  /\ LET e == call[c].e
         open == e # None /\ esc[e].state = "locked"
     IN  /\ esc' = IF open THEN [esc EXCEPT ![e].result = out] ELSE esc
         /\ \/ Done(c)
            \/ /\ c = "cli" /\ open
               /\ Goto(c, "releasing")
  /\ UNCHANGED <<offer, reported, spent, locked, runs, changes>>

-----------------------------------------------------------------------------
(* The money afterwards. *)

(* cloudiy_release_verified: input and output are required arguments, and   *)
(* an empty one counts as missing (req_str).                                 *)
ReleaseVerified(e) ==
  /\ MayPay("mcp") /\ esc[e].result = "bytes"
  /\ esc[e].state = "locked"
  /\ call' = [call EXCEPT !["mcp"] = [Idle EXCEPT !.pc = "releasing", !.tool = "release", !.e = e]]
  /\ UNCHANGED <<offer, esc, reported, spent, locked, runs, changes>>

(* `cloudiy release': the consumer's word is enough. *)
Release(e) ==
  /\ MayCall("cli") /\ e \in reported
  /\ esc[e].state = "locked"
  /\ call' = [call EXCEPT !["cli"] = [Idle EXCEPT !.pc = "releasing", !.tool = "release", !.e = e]]
  /\ UNCHANGED <<offer, esc, reported, spent, locked, runs, changes>>

(* Mutant: only for escrows whose job nobody took. *)
RefundUnserved(c, e) ==
  /\ MayPay(c) /\ e \in reported
  /\ esc[e].state = "locked" /\ ~ esc[e].served
  /\ call' = [call EXCEPT ![c] = [Idle EXCEPT !.pc = "refunding", !.tool = "refund", !.e = e]]
  /\ UNCHANGED <<offer, esc, reported, spent, locked, runs, changes>>

(* cloudiy_refund and `cloudiy refund'; the deadline is the chain's matter.  *)
Refund(c, e) ==
  /\ MayPay(c) /\ e \in reported
  /\ esc[e].state = "locked"
  /\ call' = [call EXCEPT ![c] = [Idle EXCEPT !.pc = "refunding", !.tool = "refund", !.e = e]]
  /\ UNCHANGED <<offer, esc, reported, spent, locked, runs, changes>>

(* The transaction is executed, if the program accepts it. *)
Executed(c) ==
  /\ At(c, "releasing") \/ (At(c, "refunding") /\ esc[call[c].e].time = "expired")
  /\ esc[call[c].e].state = "locked"
  /\ esc' = [esc EXCEPT ![call[c].e] = Over(IF At(c, "releasing") THEN "paid" ELSE "refunded")]
  /\ Done(c)
  /\ UNCHANGED <<offer, reported, spent, locked, runs, changes>>

(* It is refused, lost, or not seen in time. *)
TxFails(c) ==
  /\ At(c, "releasing") \/ At(c, "refunding")
  /\ Done(c)
  /\ UNCHANGED <<offer, esc, reported, spent, locked, runs, changes>>

-----------------------------------------------------------------------------
(* The chain and the providers. *)

Only(e, to) ==
  /\ esc' = to
  /\ UNCHANGED <<offer, call, reported, spent, locked, runs, changes>>

(* A create_job is executed, soon or after its sender gave up on it, or     *)
(* never.                                                                    *)
Land(e) == esc[e].state = "sent" /\ Only(e, [esc EXCEPT ![e].state = "locked"])
Drop(e) == esc[e].state = "sent" /\ Only(e, [esc EXCEPT ![e] = Over("dropped")])

(* First too little time is left for a job, then the deadline passes. *)
TimePasses(e) ==
  /\ esc[e].state = "locked" /\ esc[e].time # "expired"
  /\ Only(e, [esc EXCEPT ![e].time = IF @ = "runway" THEN "short" ELSE "expired"])

(* Bound: the names of escrows that are over are used again. *)
Forget(e) ==
  /\ esc[e].state \in {"paid", "refunded", "dropped"} /\ \A c \in Callers : call[c].e # e
  /\ esc' = [esc EXCEPT ![e] = NoEscrow]
  /\ reported' = reported \ {e}
  /\ UNCHANGED <<offer, call, spent, locked, runs, changes>>

(* A provider may send the money back at any time. *)
Cancel(e) == esc[e].state = "locked" /\ Only(e, [esc EXCEPT ![e] = Over("refunded")])

Change(p, o) ==
  /\ changes < MaxChanges /\ o # offer[p]
  /\ changes' = changes + 1
  /\ offer' = [offer EXCEPT ![p] = o]
  /\ UNCHANGED <<esc, call, reported, spent, locked, runs>>

-----------------------------------------------------------------------------
Init ==
  /\ offer \in AtFirst
  /\ esc = [e \in Escrows |-> NoEscrow]
  /\ call = [c \in Callers |-> Idle]
  /\ reported = {}
  /\ spent = 0 /\ locked = 0 /\ runs = 0 /\ changes = 0

Begin(c) ==
  \/ \E p \in Providers, a \in Asks \cup {Quoted} : PayEscrow(c, p, a)
  \/ \E p \in Providers, e \in Escrows : RunJob(c, p, e)
  \/ \E s \in Specs : Launch(c, s)
  \/ \E e \in Escrows : Refund(c, e)

BeginOne ==
  \/ \E e \in Escrows, s \in Specs : RunPlaced(e, s)
  \/ \E p \in Providers, e \in Escrows, s \in Specs : Deploy(p, e, s)
  \/ \E e \in Escrows : ReleaseVerified(e) \/ Release(e)

Continue(c) ==
  \/ SendCreate(c) \/ FundFails(c) \/ Confirmed(c)
  \/ Authorize(c) \/ PaymentRequired(c) \/ JobFails(c)
  \/ \E out \in Outputs : Answer(c, out)
  \/ Executed(c) \/ TxFails(c)

Environment ==
  \/ \E e \in Escrows : Land(e) \/ Drop(e) \/ TimePasses(e) \/ Cancel(e) \/ Forget(e)
  \/ \E p \in Providers, o \in Offers : Change(p, o)

Next == (\E c \in Callers : Begin(c) \/ Continue(c)) \/ BeginOne \/ Environment

Spec == Init /\ [][Next]_vars

(* Requests are answered and time passes; whoever holds a result releases   *)
(* its escrow and otherwise asks for a refund, again when that failed; the   *)
(* chain executes one of the transactions it is sent.                        *)
Releasable(e) == esc[e].result = "bytes"
SettlesUp ==
  \A e \in Escrows :
    /\ WF_vars(TimePasses(e))
    /\ SF_vars(ReleaseVerified(e))
    /\ SF_vars(~ Releasable(e) /\ Refund("mcp", e))

FairSpec ==
  /\ Spec
  /\ \A c \in Callers : WF_vars(Continue(c)) /\ SF_vars(Executed(c))
  /\ SettlesUp

-----------------------------------------------------------------------------
(* The types of the variables; a transaction on its way locks something.    *)
TypeOK ==
  /\ offer \in [Providers -> Offers]
  /\ esc \in [Escrows -> [state : {"none", "sent", "dropped", "locked", "paid", "refunded"},
                          provider : Providers \cup {None}, amount : Nat,
                          time : {"runway", "short", "expired"}, served : BOOLEAN,
                          result : Outputs \cup {None}]]
  /\ \A e \in Escrows : esc[e].state \in {"sent", "locked"} => esc[e].amount > 0
  /\ call \in [Callers ->
       [pc : {"idle", "funding", "sending", "asked", "admitted", "releasing", "refunding"},
        tool : {"pay", "run", "workload", "release", "refund", None},
        p : Providers \cup {None}, e : Escrows \cup {None}, amount : Int \cup {Quoted},
        spec : Specs \cup {None}, from : SUBSET Providers]]
  /\ reported \subseteq Escrows
  /\ spent \in Nat /\ locked \in Nat /\ runs \in 0..MaxRuns /\ changes \in 0..MaxChanges

(* The caps bound what the session is told it has locked: never more than   *)
(* the session's cap, and never more in one job than the job's, but for the  *)
(* half micro by which fund_escrow rounds up after the check, whatever       *)
(* providers charge in between.                                              *)
CapIsKept ==
  /\ 2 * locked <= MaxSpend + 1
  /\ At("mcp", "sending") => 2 * call["mcp"].amount <= MaxPerJob + 1

(* A workload is placed on a provider that, by its announcement, can run it, *)
(* and never on one that another candidate equals in reputation, idleness    *)
(* and health and beats in one of them.                                      *)
CanRunIt(s, o) ==
  /\ o.health # "unhealthy" /\ s.need <= o.free
  /\ \A r \in s.caps : \E c \in o.caps : Satisfies(c, r)
  /\ s.ceiling = 0 \/ o.hourly <= s.ceiling
Healthier(o, q) == o.health = "degraded" /\ q.health = "healthy"
Dominates(q, o) ==
  /\ Clamp(q.rep) >= Clamp(o.rep) /\ Clamp(q.util) <= Clamp(o.util) /\ ~ Healthier(q, o)
  /\ Clamp(q.rep) > Clamp(o.rep) \/ Clamp(q.util) < Clamp(o.util) \/ Healthier(o, q)
PlacementIsSound ==
  [][\A c \in Callers :
       (At(c, "idle") /\ call'[c].from # {}) =>
         LET s == call'[c].spec
             o == offer[call'[c].p]
         IN  /\ CanRunIt(s, o)
             /\ \A q \in call'[c].from : CanRunIt(s, offer[q]) => ~ Dominates(offer[q], o)]_vars

(* An escrow the caller knows of ends paid or refunded, although runs fail,  *)
(* answers and transactions are lost, prices change, and the wallet is used  *)
(* from two programs.                                                        *)
EscrowsEnd == \A e \in Escrows : (e \in reported) ~> (esc[e].state # "locked")

(* What the caps are documented to gate is what is locked, reported or not.  *)
(* It does not hold: a create_job may land after its sender gave up on it.   *)
NothingUnderTheCap ==
  \A e \in Escrows : esc[e].state = "locked" =>
    e \in reported \/ \E c \in Callers : call[c].pc = "sending" /\ call[c].e = e

(* An escrow that pays the provider, with time enough and not used before,   *)
(* gets its workload past authorize (mcp.rs:250-255, `Pay keyless with       *)
(* escrow_account + job_id').  It does not hold.                             *)
PaidDeployRuns ==
  [][\A c \in Callers :
       (At(c, "asked") /\ call[c].e # None /\ Pays(call[c].e, call[c].p)) =>
         call'[c].pc \in {"asked", "admitted"}]_vars
=============================================================================

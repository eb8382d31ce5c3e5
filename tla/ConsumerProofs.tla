--------------------------- MODULE ConsumerProofs ---------------------------
(***************************************************************************)
(* The spend caps of an MCP session, for every cap, every set of providers *)
(* and prices and every amount asked for; and the placement of workloads.  *)
(***************************************************************************)
EXTENDS Consumer, FiniteSetTheorems, WellFoundedInduction, TLAPS

(* What the caps rest on: the session's sum is what it was told it has      *)
(* locked, and the amount that is on its way was within the caps, before     *)
(* rounding, when the session's sum was what it still is.                    *)
MoneyType ==
  /\ DOMAIN call = Callers
  /\ \A c \in Callers : DOMAIN call[c] = DOMAIN Idle
  /\ offer \in [Providers -> Offers]
  /\ spent \in Nat

InFlight ==
  /\ At("mcp", "funding") =>
       /\ call["mcp"].p \in Providers
       /\ call["mcp"].amount \in Int /\ call["mcp"].amount > 0
       /\ call["mcp"].amount <= MaxPerJob
       /\ 2 * spent + call["mcp"].amount <= MaxSpend
  /\ At("mcp", "sending") =>
       /\ call["mcp"].amount \in Nat
       /\ 2 * call["mcp"].amount <= MaxPerJob + 1
       /\ 2 * spent + 2 * call["mcp"].amount <= MaxSpend + 1

CapInv ==
  /\ MoneyType
  /\ locked = spent
  /\ 2 * spent <= MaxSpend + 1
  /\ InFlight

(* Rounding to whole micros adds at most half of one. *)
LEMMA RoundsByHalf ==
  ASSUME NEW a \in Int, a > 0
  PROVE  Round(a) \in Nat /\ 2 * Round(a) <= a + 1
BY DEF Round

LEMMA CapInit == Init => CapInv
BY ConsumerAssumption DEF Init, CapInv, MoneyType, InFlight, At, Idle, Callers

(* A step that leaves the session's call and sums alone, or ends the call,  *)
(* keeps the caps.                                                           *)
LEMMA CapQuiet ==
  ASSUME CapInv, MoneyType',
         UNCHANGED <<spent, locked>>,
         \/ call'["mcp"] = call["mcp"]
         \/ call'["mcp"].pc \notin {"funding", "sending"}
  PROVE  CapInv'
BY DEF CapInv, InFlight, At

(* Sending the caller's state elsewhere does not touch its fields' names.   *)
LEMMA CapPay ==
  ASSUME CapInv, NEW c \in Callers, NEW p \in Providers, NEW a \in Asks \cup {Quoted},
         PayEscrow(c, p, a)
  PROVE  CapInv'
<1> DEFINE b == IF c = "mcp" /\ a = Quoted THEN 2 * offer[p].price ELSE a
           r == [Idle EXCEPT !.pc = "funding", !.tool = "pay", !.p = p, !.amount = b]
<1>1. /\ call' = [call EXCEPT ![c] = r]
      /\ c = "mcp" => CheckCaps(b)
      /\ UNCHANGED <<offer, spent, locked>>
  BY DEF PayEscrow
<1>2. /\ DOMAIN r = DOMAIN Idle /\ r.pc = "funding" /\ r.p = p /\ r.amount = b
  BY DEF Idle
<1>3. offer[p] \in Offers /\ offer[p].price \in Nat
  BY ConsumerAssumption DEF CapInv, MoneyType
<1>4. c = "mcp" => b \in Int
  BY <1>3, ConsumerAssumption
<1> HIDE DEF r, b
<1>5. MoneyType'
  BY <1>1, <1>2 DEF CapInv, MoneyType
<1>6. CASE c = "mcp"
  <2>1. call'["mcp"] = r /\ b \in Int /\ CheckCaps(b)
    BY <1>1, <1>4, <1>6 DEF CapInv, MoneyType, Callers
  <2>2. QED
    BY <1>1, <1>2, <1>5, <2>1, ConsumerAssumption DEF CapInv, MoneyType, InFlight, At, CheckCaps
<1>7. CASE c # "mcp"
  <2>1. call'["mcp"] = call["mcp"]
    BY <1>1, <1>7 DEF CapInv, MoneyType, Callers
  <2>2. QED
    BY <1>1, <1>5, <2>1, CapQuiet
<1>8. QED
  BY <1>6, <1>7

LEMMA CapSend ==
  ASSUME CapInv, NEW c \in Callers, SendCreate(c)
  PROVE  CapInv'
<1> DEFINE n == Round(FundAmount(c))
<1>1. PICK e \in Escrows :
        call' = [call EXCEPT ![c].pc = "sending", ![c].e = e, ![c].amount = n]
  BY DEF SendCreate
<1>2. At(c, "funding") /\ FundAmount(c) > 0 /\ UNCHANGED <<offer, spent, locked>>
  BY DEF SendCreate
<1> HIDE DEF n
<1>3. MoneyType'
  BY <1>1, <1>2 DEF CapInv, MoneyType, Idle
<1>4. CASE c = "mcp"
  <2>1. /\ call["mcp"].amount \in Int /\ call["mcp"].amount > 0
        /\ call["mcp"].amount <= MaxPerJob
        /\ 2 * spent + call["mcp"].amount <= MaxSpend
    BY <1>2, <1>4 DEF CapInv, InFlight
  <2>2. FundAmount(c) = call["mcp"].amount
    BY <2>1, <1>4, ConsumerAssumption DEF FundAmount
  <2>3. n \in Nat /\ 2 * n <= call["mcp"].amount + 1
    BY <2>1, <2>2, RoundsByHalf DEF n
  <2>4. call'["mcp"].pc = "sending" /\ call'["mcp"].amount = n
    BY <1>1, <1>4 DEF CapInv, MoneyType, Idle, Callers
  <2>5. QED
    BY <1>2, <1>3, <2>1, <2>3, <2>4, ConsumerAssumption DEF CapInv, MoneyType, InFlight, At
<1>5. CASE c # "mcp"
  <2>1. call'["mcp"] = call["mcp"]
    BY <1>1, <1>5 DEF CapInv, MoneyType, Callers
  <2>2. QED
    BY <1>2, <1>3, <2>1, CapQuiet
<1>6. QED
  BY <1>4, <1>5

LEMMA CapConfirmed ==
  ASSUME CapInv, NEW c \in Callers, Confirmed(c)
  PROVE  CapInv'
<1>1. /\ At(c, "sending") /\ call' = [call EXCEPT ![c] = Idle] /\ offer' = offer
      /\ locked' = locked + (IF c = "mcp" THEN call[c].amount ELSE 0)
      /\ spent' = spent + (IF c = "mcp" THEN call[c].amount ELSE 0)
  BY DEF Confirmed, Done
<1>2. CASE c = "mcp"
  <2>1. /\ call["mcp"].amount \in Nat
        /\ 2 * spent + 2 * call["mcp"].amount <= MaxSpend + 1
    BY <1>1, <1>2 DEF CapInv, InFlight
  <2>2. call'["mcp"].pc = "idle"
    BY <1>1, <1>2 DEF CapInv, MoneyType, Callers, Idle
  <2>3. MoneyType'
    BY <1>1, <1>2, <2>1 DEF CapInv, MoneyType
  <2>4. QED
    BY <1>1, <1>2, <2>1, <2>2, <2>3, ConsumerAssumption DEF CapInv, MoneyType, InFlight, At
<1>3. CASE c # "mcp"
  <2>1. call'["mcp"] = call["mcp"] /\ spent' = spent /\ locked' = locked
    BY <1>1, <1>3 DEF CapInv, MoneyType, Callers
  <2>2. MoneyType'
    BY <1>1, <2>1 DEF CapInv, MoneyType
  <2>3. QED
    BY <2>1, <2>2, CapQuiet
<1>4. QED
  BY <1>2, <1>3

(* Any other step of a caller gives it a state in which nothing is funded.  *)
LEMMA QuietKeeps ==
  ASSUME CapInv, NEW c \in Callers, NEW r,
         call' = [call EXCEPT ![c] = r],
         DOMAIN r = DOMAIN Idle, r.pc \notin {"funding", "sending"},
         UNCHANGED <<offer, spent, locked>>
  PROVE  CapInv'
<1>1. MoneyType'
  BY DEF CapInv, MoneyType
<1>2. call'["mcp"] = call["mcp"] \/ call'["mcp"].pc \notin {"funding", "sending"}
  BY DEF CapInv, MoneyType, Callers
<1>3. QED
  BY <1>1, <1>2, CapQuiet

LEMMA RequestKeeps ==
  ASSUME CapInv, NEW c \in Callers, NEW tool, NEW p, NEW e, NEW s, NEW from,
         Request(c, tool, p, e, s, from)
  PROVE  CapInv'
<1> DEFINE r == [Idle EXCEPT !.pc = "asked", !.tool = tool, !.p = p, !.e = e,
                             !.spec = s, !.from = from]
<1>1. call' = [call EXCEPT ![c] = r] /\ UNCHANGED <<offer, spent, locked>>
  BY DEF Request
<1>2. DOMAIN r = DOMAIN Idle /\ r.pc = "asked"
  BY DEF Idle
<1> HIDE DEF r
<1>3. QED
  BY <1>1, <1>2, QuietKeeps

LEMMA PlacedKeeps ==
  ASSUME CapInv, NEW c \in Callers, NEW tool, NEW e, NEW s, Placed(c, tool, e, s)
  PROVE  CapInv'
<1>1. PICK listed \in SUBSET Providers :
        \E list \in SetToSeqs(listed) : Request(c, tool, Pick(s, list), e, s, listed)
  BY DEF Placed
<1>2. PICK list \in SetToSeqs(listed) : Request(c, tool, Pick(s, list), e, s, listed)
  BY <1>1
<1>3. QED
  BY <1>2, RequestKeeps

LEMMA SettlingKeeps ==
  ASSUME CapInv, NEW c \in Callers, NEW pc \in {"releasing", "refunding"}, NEW tool, NEW e,
         call' = [call EXCEPT ![c] = [Idle EXCEPT !.pc = pc, !.tool = tool, !.e = e]],
         UNCHANGED <<offer, spent, locked>>
  PROVE  CapInv'
<1> DEFINE r == [Idle EXCEPT !.pc = pc, !.tool = tool, !.e = e]
<1>1. DOMAIN r = DOMAIN Idle /\ r.pc = pc
  BY DEF Idle
<1>2. call' = [call EXCEPT ![c] = r]
  OBVIOUS
<1> HIDE DEF r
<1>3. QED
  BY <1>1, <1>2, QuietKeeps

LEMMA DoneKeeps ==
  ASSUME CapInv, NEW c \in Callers, Done(c), UNCHANGED <<offer, spent, locked>>
  PROVE  CapInv'
<1>1. call' = [call EXCEPT ![c] = Idle] /\ Idle.pc = "idle"
  BY DEF Done, Idle
<1>2. QED
  BY <1>1, QuietKeeps

LEMMA BeginKeeps ==
  ASSUME CapInv, NEW c \in Callers, Begin(c)
  PROVE  CapInv'
<1>1. ASSUME NEW p \in Providers, NEW a \in Asks \cup {Quoted}, PayEscrow(c, p, a)
      PROVE  CapInv'
  BY <1>1, CapPay
<1>2. ASSUME NEW p \in Providers, NEW e \in Escrows, RunJob(c, p, e)
      PROVE  CapInv'
  BY <1>2, RequestKeeps DEF RunJob
<1>3. ASSUME NEW s \in Specs, Launch(c, s)
      PROVE  CapInv'
  BY <1>3, PlacedKeeps DEF Launch
<1>4. ASSUME NEW e \in Escrows, Refund(c, e)
      PROVE  CapInv'
  BY <1>4, SettlingKeeps DEF Refund
<1>5. QED
  BY <1>1, <1>2, <1>3, <1>4 DEF Begin

LEMMA BeginOneKeeps ==
  ASSUME CapInv, BeginOne
  PROVE  CapInv'
<1> "mcp" \in Callers /\ "cli" \in Callers
  BY DEF Callers
<1>1. ASSUME NEW e \in Escrows, NEW s \in Specs, RunPlaced(e, s)
      PROVE  CapInv'
  BY <1>1, PlacedKeeps DEF RunPlaced
<1>2. ASSUME NEW p \in Providers, NEW e \in Escrows, NEW s \in Specs, Deploy(p, e, s)
      PROVE  CapInv'
  BY <1>2, RequestKeeps DEF Deploy
<1>3. ASSUME NEW e \in Escrows, ReleaseVerified(e)
      PROVE  CapInv'
  BY <1>3, SettlingKeeps DEF ReleaseVerified
<1>4. ASSUME NEW e \in Escrows, Release(e)
      PROVE  CapInv'
  BY <1>4, SettlingKeeps DEF Release
<1>5. QED
  BY <1>1, <1>2, <1>3, <1>4 DEF BeginOne

LEMMA ContinueKeeps ==
  ASSUME CapInv, NEW c \in Callers, Continue(c)
  PROVE  CapInv'
<1>1. CASE SendCreate(c)
  BY <1>1, CapSend
<1>2. CASE Confirmed(c)
  BY <1>2, CapConfirmed
<1>3. DOMAIN call[c] = DOMAIN Idle
  BY DEF CapInv, MoneyType
<1>4. CASE FundFails(c) \/ PaymentRequired(c) \/ JobFails(c) \/ Executed(c) \/ TxFails(c)
  <2>1. Done(c) /\ UNCHANGED <<offer, spent, locked>>
    BY <1>4 DEF FundFails, PaymentRequired, JobFails, Executed, TxFails
  <2>2. QED
    BY <2>1, DoneKeeps
<1>5. CASE Authorize(c)
  <2> DEFINE r == [call[c] EXCEPT !.pc = "admitted", !.from = {}]
  <2>1. call' = [call EXCEPT ![c] = r] /\ UNCHANGED <<offer, spent, locked>>
    BY <1>5 DEF Authorize
  <2>2. DOMAIN r = DOMAIN Idle /\ r.pc = "admitted"
    BY <1>3 DEF Idle
  <2> HIDE DEF r
  <2>3. QED
    BY <2>1, <2>2, QuietKeeps
<1>6. ASSUME NEW out \in Outputs, Answer(c, out)
      PROVE  CapInv'
  <2>1. UNCHANGED <<offer, spent, locked>> /\ (Done(c) \/ Goto(c, "releasing"))
    BY <1>6 DEF Answer
  <2>2. CASE Done(c)
    BY <2>1, <2>2, DoneKeeps
  <2>3. CASE Goto(c, "releasing")
    <3> DEFINE r == [call[c] EXCEPT !.pc = "releasing"]
    <3>1. call' = [call EXCEPT ![c] = r]
      BY <2>3 DEF Goto
    <3>2. DOMAIN r = DOMAIN Idle /\ r.pc = "releasing"
      BY <1>3 DEF Idle
    <3> HIDE DEF r
    <3>3. QED
      BY <2>1, <3>1, <3>2, QuietKeeps
  <2>4. QED
    BY <2>1, <2>2, <2>3
<1>7. QED
  BY <1>1, <1>2, <1>4, <1>5, <1>6 DEF Continue

LEMMA EnvironmentKeeps ==
  ASSUME CapInv, Environment
  PROVE  CapInv'
<1>1. UNCHANGED <<call, spent, locked>>
  BY DEF Environment, Land, Drop, TimePasses, Cancel, Forget, Change, Only
<1>2. offer' \in [Providers -> Offers]
  BY DEF Environment, Land, Drop, TimePasses, Cancel, Forget, Change, Only, CapInv, MoneyType
<1>3. MoneyType'
  BY <1>1, <1>2 DEF CapInv, MoneyType
<1>4. QED
  BY <1>1, <1>3, CapQuiet

THEOREM CapStep == CapInv /\ [Next]_vars => CapInv'
<1> SUFFICES ASSUME CapInv, [Next]_vars
             PROVE  CapInv'
  OBVIOUS
<1>1. CASE UNCHANGED vars
  BY <1>1, CapQuiet DEF vars, CapInv, MoneyType
<1>2. CASE Next
  BY <1>2, BeginKeeps, BeginOneKeeps, ContinueKeeps, EnvironmentKeeps DEF Next
<1>3. QED
  BY <1>1, <1>2

(* CapIsKept for every instance: no price a provider quotes, and no order   *)
(* of calls, makes a session lock more than its caps, half a micro apart     *)
(* (check_caps before fund_escrow's rounding).                               *)
THEOREM SpendCapsAreKept == Spec => []CapIsKept
<1>1. CapInv => CapIsKept
  BY DEF CapInv, CapIsKept, InFlight
<1>2. QED
  BY <1>1, CapInit, CapStep, PTL DEF Spec

-----------------------------------------------------------------------------
(* Placement.  A set of naturals that is not empty has a least element. *)
LEMMA LeastNatural ==
  ASSUME NEW T \in SUBSET Nat, T # {}
  PROVE  \E n \in T : \A m \in T : n <= m
<1>1. PICK n \in T : \A m \in T : ~ (<<m, n>> \in OpToRel(<, Nat))
  BY NatLessThanWellFounded, WFMin
<1>2. \A m \in T : ~ (m < n) BY <1>1 DEF OpToRel
<1> QED BY <1>2

LEMMA ScoreType ==
  ASSUME NEW o \in Offers
  PROVE  Score(o) \in 0..100
<1>1. o.rep \in Int /\ o.util \in Int /\ o.health \in Health BY ConsumerAssumption
<1>2. Clamp(o.rep) \in 0..10 /\ Clamp(10 - o.util) \in 0..10 BY <1>1 DEF Clamp
<1>3. HealthBonus(o) \in 0..10 BY <1>1 DEF HealthBonus, Health
<1> QED BY <1>2, <1>3 DEF Score

(* The list that a directory gave has everybody on it. *)
LEMMA EverybodyListed ==
  ASSUME NEW listed \in SUBSET Providers, NEW list \in SetToSeqs(listed)
  PROVE  \E n \in Nat : /\ list \in [1..n -> listed]
                        /\ \A q \in listed : \E i \in 1..n : list[i] = q
<1>1. IsFiniteSet(listed) BY ConsumerAssumption, FS_Subset
<1> DEFINE n == Cardinality(listed)
<1>2. n \in Nat BY <1>1, FS_CardinalityType
<1>3. list \in [1..n -> listed] /\ \A i, j \in 1..n : i # j => list[i] # list[j]
  BY DEF SetToSeqs
<1>4. ASSUME NEW q \in listed, ~ \E i \in 1..n : list[i] = q PROVE FALSE
  <2>1. list \in [1..n -> listed \ {q}] BY <1>3, <1>4
  <2>2. IsFiniteSet(listed \ {q}) /\ Cardinality(listed \ {q}) = n - 1
    BY <1>1, FS_RemoveElement
  <2>3. IsFiniteSet(1..n) /\ Cardinality(1..n) = n BY <1>2, FS_Interval
  <2>4. \E i, j \in 1..n : i # j /\ list[i] = list[j]
    BY <1>2, <2>1, <2>2, <2>3, FS_PigeonHole
  <2> QED BY <1>3, <2>4
<1> QED BY <1>2, <1>3, <1>4

(* The pipeline picks one that is admitted, of the best score of these. *)
LEMMA PickIsBest ==
  ASSUME offer \in [Providers -> Offers], NEW s,
         NEW listed \in SUBSET Providers, NEW list \in SetToSeqs(listed),
         Pick(s, list) # None
  PROVE  /\ Pick(s, list) \in listed /\ Admits(s, offer[Pick(s, list)])
         /\ \A q \in listed : Admits(s, offer[q]) =>
              Score(offer[q]) <= Score(offer[Pick(s, list)])
<1>1. PICK n \in Nat : /\ list \in [1..n -> listed]
                       /\ \A q \in listed : \E i \in 1..n : list[i] = q
  BY EverybodyListed
<1> DEFINE fit == {i \in DOMAIN list : Admits(s, offer[list[i]])}
           best == {i \in fit : \A j \in fit : Score(offer[list[j]]) <= Score(offer[list[i]])}
           first == CHOOSE i \in best : \A j \in best : i <= j
           score(i) == Score(offer[list[i]])
<1>2. fit # {} /\ Pick(s, list) = list[first] BY DEF Pick
<1>3. fit \subseteq 1..n /\ \A i \in fit : offer[list[i]] \in Offers BY <1>1
<1>4. \A i \in fit : score(i) \in 0..100 BY <1>3, ScoreType
<1>5. best # {}
  <2> DEFINE T == {100 - score(i) : i \in fit}
  <2>1. T \in SUBSET Nat /\ T # {} BY <1>2, <1>4
  <2> HIDE DEF T
  <2>2. PICK m \in T : \A k \in T : m <= k BY <2>1, LeastNatural
  <2> USE DEF T
  <2>3. PICK i \in fit : m = 100 - score(i) BY <2>2
  <2>4. ASSUME NEW j \in fit PROVE score(j) <= score(i)
    <3>1. 100 - score(j) \in T OBVIOUS
    <3>2. 100 - score(i) <= 100 - score(j) BY <2>2, <2>3, <3>1
    <3> HIDE DEF score
    <3> QED BY <1>4, <2>3, <3>2
  <2> QED BY <2>4
<1>6. first \in best
  <2>1. best \in SUBSET Nat BY <1>3
  <2> HIDE DEF best
  <2>2. \E i \in best : \A j \in best : i <= j BY <1>5, <2>1, LeastNatural
  <2> QED BY <2>2
<1> HIDE DEF first
<1>7. first \in fit /\ \A j \in fit : score(j) <= score(first) BY <1>6
<1>8. ASSUME NEW q \in listed, Admits(s, offer[q]) PROVE Score(offer[q]) <= score(first)
  <2>1. PICK i \in 1..n : list[i] = q BY <1>1
  <2>2. i \in fit BY <1>1, <1>8, <2>1
  <2> QED BY <1>7, <2>1, <2>2
<1> QED BY <1>1, <1>2, <1>7, <1>8

(* Who dominates another has the better score. *)
LEMMA DominanceScores ==
  ASSUME NEW o \in Offers, NEW q \in Offers, Dominates(q, o),
         o.health # "unhealthy", q.health # "unhealthy"
  PROVE  Score(q) > Score(o)
<1>1. /\ o.rep \in Int /\ o.util \in Int /\ o.health \in {"healthy", "degraded"}
      /\ q.rep \in Int /\ q.util \in Int /\ q.health \in {"healthy", "degraded"}
  BY ConsumerAssumption DEF Health
<1>2. /\ Clamp(o.rep) \in 0..10 /\ Clamp(q.rep) \in 0..10
      /\ Clamp(10 - o.util) = 10 - Clamp(o.util) /\ Clamp(10 - q.util) = 10 - Clamp(q.util)
      /\ Clamp(o.util) \in 0..10 /\ Clamp(q.util) \in 0..10
  BY <1>1 DEF Clamp
<1>3. /\ HealthBonus(o) \in {3, 10} /\ HealthBonus(q) \in {3, 10}
      /\ ~ Healthier(q, o) => HealthBonus(q) >= HealthBonus(o)
      /\ Healthier(o, q) => HealthBonus(q) > HealthBonus(o)
  BY <1>1 DEF HealthBonus, Healthier
<1> QED BY <1>2, <1>3 DEF Dominates, Score

(* What PlacementIsSound says of a request that was placed. *)
PlacedWell(c) ==
  LET s == call'[c].spec
      o == offer[call'[c].p]
  IN  /\ CanRunIt(s, o)
      /\ \A q \in call'[c].from : CanRunIt(s, offer[q]) => ~ Dominates(offer[q], o)

LEMMA AdmittedCanRun ==
  ASSUME NEW s, NEW o PROVE Admits(s, o) <=> CanRunIt(s, o)
BY DEF Admits, CanRunIt, HealthyOnly, ResourceFit, CapabilityMatch, PriceCeiling

LEMMA PlacedIsPlacedWell ==
  ASSUME MoneyType, NEW c \in Callers, NEW tool, NEW e, NEW s, Placed(c, tool, e, s)
  PROVE  PlacedWell(c) /\ call'[c].pc = "asked" /\ \A d \in Callers \ {c} : call'[d] = call[d]
<1>1. PICK listed \in SUBSET Providers :
        \E list \in SetToSeqs(listed) :
          Pick(s, list) # None /\ Request(c, tool, Pick(s, list), e, s, listed)
  BY DEF Placed
<1>2. PICK list \in SetToSeqs(listed) :
        Pick(s, list) # None /\ Request(c, tool, Pick(s, list), e, s, listed)
  BY <1>1
<1>3. PICK p : p = Pick(s, list) OBVIOUS
<1> DEFINE r == [Idle EXCEPT !.pc = "asked", !.tool = tool, !.p = p, !.e = e,
                             !.spec = s, !.from = listed]
<1>4. call' = [call EXCEPT ![c] = r] BY <1>2, <1>3 DEF Request
<1>5. r.pc = "asked" /\ r.p = p /\ r.spec = s /\ r.from = listed BY DEF Idle
<1> HIDE DEF r
<1>6. call'[c] = r /\ \A d \in Callers \ {c} : call'[d] = call[d] BY <1>4 DEF MoneyType
<1>7. /\ p \in listed /\ Admits(s, offer[p])
      /\ \A q \in listed : Admits(s, offer[q]) => Score(offer[q]) <= Score(offer[p])
  BY <1>2, <1>3, PickIsBest DEF MoneyType
<1>8. ASSUME NEW q \in listed, CanRunIt(s, offer[q]) PROVE ~ Dominates(offer[q], offer[p])
  <2>1. Score(offer[q]) <= Score(offer[p]) BY <1>7, <1>8, AdmittedCanRun
  <2>2. offer[p] \in Offers /\ offer[q] \in Offers BY <1>7 DEF MoneyType
  <2>3. Score(offer[p]) \in Int /\ Score(offer[q]) \in Int BY <2>2, ScoreType
  <2>4. offer[p].health # "unhealthy" /\ offer[q].health # "unhealthy"
    BY <1>7, <1>8, AdmittedCanRun DEF CanRunIt
  <2>5. Dominates(offer[q], offer[p]) => Score(offer[q]) > Score(offer[p])
    BY <2>2, <2>4, DominanceScores
  <2> QED BY <2>1, <2>3, <2>5
<1> QED BY <1>5, <1>6, <1>7, <1>8, AdmittedCanRun DEF PlacedWell

-----------------------------------------------------------------------------
(* Types. *)

CallType ==
  [pc : {"idle", "funding", "sending", "asked", "admitted", "releasing", "refunding"},
   tool : {"pay", "run", "workload", "release", "refund", None},
   p : Providers \cup {None}, e : Escrows \cup {None}, amount : Int \cup {Quoted},
   spec : Specs \cup {None}, from : SUBSET Providers]

EscrowType ==
  [state : {"none", "sent", "dropped", "locked", "paid", "refunded"},
   provider : Providers \cup {None}, amount : Nat,
   time : {"runway", "short", "expired"}, served : BOOLEAN,
   result : Outputs \cup {None}]

(* Who pays has a provider, who waits for a transaction has an account, and *)
(* who does nothing has no candidates left from a placement.                 *)
Coherent(r) ==
  /\ r \in CallType
  /\ r.pc = "funding" => r.p \in Providers
  /\ r.pc = "sending" => r.e \in Escrows
  /\ r.pc = "idle" => r.from = {}

Calls == call \in [Callers -> CallType] /\ \A c \in Callers : Coherent(call[c])

Backed(r) == r \in EscrowType /\ (r.state \in {"sent", "locked"} => r.amount > 0)
Accounts == esc \in [Escrows -> EscrowType] /\ \A e \in Escrows : Backed(esc[e])

Counts ==
  /\ reported \subseteq Escrows
  /\ spent \in Nat /\ locked \in Nat /\ runs \in 0..MaxRuns /\ changes \in 0..MaxChanges

ConsumerInv == CapInv /\ Calls /\ Accounts /\ Counts

(* A step of one caller, and what it says of placements. *)
Steady(c) == call'[c] = call[c] \/ ~ At(c, "idle") \/ call'[c].from = {}

LEMMA CallerSteps ==
  ASSUME Calls, NEW c \in Callers, NEW r, Coherent(r), call' = [call EXCEPT ![c] = r],
         ~ At(c, "idle") \/ r.from = {}
  PROVE  Calls' /\ \A d \in Callers : Steady(d)
<1>1. call' \in [Callers -> CallType] BY DEF Calls, Coherent
<1>2. \A d \in Callers : call'[d] = IF d = c THEN r ELSE call[d] BY DEF Calls
<1>3. \A d \in Callers : Coherent(call'[d]) BY <1>2 DEF Calls
<1>4. Calls' BY <1>1, <1>3 DEF Calls, Coherent
<1> QED BY <1>2, <1>4 DEF Steady

LEMMA IdleIsCoherent == Coherent(Idle) /\ Idle.from = {}
BY DEF Coherent, CallType, Idle

LEMMA DoneSteps ==
  ASSUME Calls, NEW c \in Callers, Done(c)
  PROVE  Calls' /\ \A d \in Callers : Steady(d)
BY IdleIsCoherent, CallerSteps DEF Done

(* The calls that begin with Idle and fill in what they are about. *)
LEMMA BeginningIsCoherent ==
  ASSUME NEW pc \in {"releasing", "refunding"}, NEW tool \in {"release", "refund"},
         NEW e \in Escrows
  PROVE  LET r == [Idle EXCEPT !.pc = pc, !.tool = tool, !.e = e]
         IN  Coherent(r) /\ r.from = {}
<1> DEFINE r1 == [Idle EXCEPT !.pc = pc]
           r2 == [r1 EXCEPT !.tool = tool]
           r3 == [r2 EXCEPT !.e = e]
<1>1. r1 \in CallType /\ r1.pc = pc /\ r1.from = {} BY DEF CallType, Idle
<1> HIDE DEF r1
<1>2. r2 \in CallType /\ r2.pc = pc /\ r2.from = {} BY <1>1 DEF CallType
<1> HIDE DEF r2
<1>3. r3 \in CallType /\ r3.pc = pc /\ r3.from = {} BY <1>2 DEF CallType
<1> HIDE DEF r3
<1>4. r3 = [Idle EXCEPT !.pc = pc, !.tool = tool, !.e = e] BY DEF r1, r2, r3
<1>5. Coherent(r3) BY <1>3 DEF Coherent
<1> QED BY <1>3, <1>4, <1>5

LEMMA PayingIsCoherent ==
  ASSUME NEW p \in Providers, NEW a \in Int \cup {Quoted}
  PROVE  LET r == [Idle EXCEPT !.pc = "funding", !.tool = "pay", !.p = p, !.amount = a]
         IN  Coherent(r) /\ r.from = {}
<1> DEFINE r1 == [Idle EXCEPT !.pc = "funding"]
           r2 == [r1 EXCEPT !.tool = "pay"]
           r3 == [r2 EXCEPT !.p = p]
           r4 == [r3 EXCEPT !.amount = a]
<1>1. r1 \in CallType /\ r1.pc = "funding" /\ r1.from = {} BY DEF CallType, Idle
<1> HIDE DEF r1
<1>2. r2 \in CallType /\ r2.pc = "funding" /\ r2.from = {} BY <1>1 DEF CallType
<1> HIDE DEF r2
<1>3. r3 \in CallType /\ r3.pc = "funding" /\ r3.from = {} /\ r3.p = p BY <1>2 DEF CallType
<1> HIDE DEF r3
<1>4. r4 \in CallType /\ r4.pc = "funding" /\ r4.from = {} /\ r4.p = p BY <1>3 DEF CallType
<1> HIDE DEF r4
<1>5. r4 = [Idle EXCEPT !.pc = "funding", !.tool = "pay", !.p = p, !.amount = a]
  BY DEF r1, r2, r3, r4
<1>6. Coherent(r4) BY <1>4 DEF Coherent
<1> QED BY <1>4, <1>5, <1>6

Asking(tool, p, e, s, from) ==
  [Idle EXCEPT !.pc = "asked", !.tool = tool, !.p = p, !.e = e, !.spec = s, !.from = from]

LEMMA AskingIsCoherent ==
  ASSUME NEW tool \in {"run", "workload"}, NEW p \in Providers, NEW e \in Escrows \cup {None},
         NEW s \in Specs \cup {None}, NEW from \in SUBSET Providers
  PROVE  /\ Coherent(Asking(tool, p, e, s, from))
         /\ Asking(tool, p, e, s, from).from = from
<1> DEFINE r1 == [Idle EXCEPT !.pc = "asked"]
           r2 == [r1 EXCEPT !.tool = tool]
           r3 == [r2 EXCEPT !.p = p]
           r4 == [r3 EXCEPT !.e = e]
           r5 == [r4 EXCEPT !.spec = s]
           r6 == [r5 EXCEPT !.from = from]
<1>1. r1 \in CallType /\ r1.pc = "asked" BY DEF CallType, Idle
<1> HIDE DEF r1
<1>2. r2 \in CallType /\ r2.pc = "asked" BY <1>1 DEF CallType
<1> HIDE DEF r2
<1>3. r3 \in CallType /\ r3.pc = "asked" BY <1>2 DEF CallType
<1> HIDE DEF r3
<1>4. r4 \in CallType /\ r4.pc = "asked" BY <1>3 DEF CallType
<1> HIDE DEF r4
<1>5. r5 \in CallType /\ r5.pc = "asked" BY <1>4 DEF CallType
<1> HIDE DEF r5
<1>6. r6 \in CallType /\ r6.pc = "asked" /\ r6.from = from BY <1>5 DEF CallType
<1> HIDE DEF r6
<1>7. r6 = Asking(tool, p, e, s, from)
  BY DEF Asking, r1, r2, r3, r4, r5, r6
<1>8. Coherent(r6) BY <1>6 DEF Coherent
<1> QED BY <1>6, <1>7, <1>8

-----------------------------------------------------------------------------
(* What the steps do to calls and accounts. *)

Placement == \A d \in Callers : Steady(d) \/ PlacedWell(d)
Kept == Calls' /\ Accounts' /\ Counts' /\ Placement

LEMMA AccountChanges ==
  ASSUME Accounts, NEW e, NEW r, Backed(r), esc' = [esc EXCEPT ![e] = r]
  PROVE  Accounts'
BY DEF Accounts, Backed

LEMMA OverIsBacked ==
  ASSUME NEW state \in {"paid", "refunded", "dropped"}
  PROVE  Backed(Over(state)) /\ Backed(NoEscrow)
BY DEF Backed, Over, NoEscrow, EscrowType

LEMMA SettlingSteps ==
  ASSUME Calls, Accounts, Counts, NEW c \in Callers, NEW e \in Escrows,
         (ReleaseVerified(e) /\ c = "mcp") \/ (Release(e) /\ c = "cli") \/ Refund(c, e)
  PROVE  Kept
<1>1. /\ At(c, "idle")
      /\ UNCHANGED <<esc, reported, spent, locked, runs, changes>>
      /\ \E pc \in {"releasing", "refunding"}, tool \in {"release", "refund"} :
           call' = [call EXCEPT ![c] = [Idle EXCEPT !.pc = pc, !.tool = tool, !.e = e]]
  BY DEF ReleaseVerified, Release, Refund, MayPay, MayCall
<1>2. PICK pc \in {"releasing", "refunding"}, tool \in {"release", "refund"} :
        call' = [call EXCEPT ![c] = [Idle EXCEPT !.pc = pc, !.tool = tool, !.e = e]]
  BY <1>1
<1> DEFINE r == [Idle EXCEPT !.pc = pc, !.tool = tool, !.e = e]
<1>3. Coherent(r) /\ r.from = {} BY BeginningIsCoherent
<1>4. call' = [call EXCEPT ![c] = r] BY <1>2
<1> HIDE DEF r
<1>5. Calls' /\ \A d \in Callers : Steady(d) BY <1>3, <1>4, CallerSteps
<1> QED BY <1>1, <1>5 DEF Kept, Placement, Accounts, Backed, Counts

LEMMA PaySteps ==
  ASSUME CapInv, Calls, Accounts, Counts, NEW c \in Callers, NEW p \in Providers,
         NEW a \in Asks \cup {Quoted}, PayEscrow(c, p, a)
  PROVE  Kept
<1> DEFINE b == IF c = "mcp" /\ a = Quoted THEN 2 * offer[p].price ELSE a
           r == [Idle EXCEPT !.pc = "funding", !.tool = "pay", !.p = p, !.amount = b]
<1>1. call' = [call EXCEPT ![c] = r] /\ UNCHANGED <<esc, reported, spent, locked, runs, changes>>
  BY DEF PayEscrow
<1>2. offer[p].price \in Nat BY ConsumerAssumption DEF CapInv, MoneyType
<1>3. b \in Int \cup {Quoted} BY <1>2, ConsumerAssumption
<1> HIDE DEF b
<1>4. Coherent(r) /\ r.from = {} BY <1>3, PayingIsCoherent
<1> HIDE DEF r
<1>5. Calls' /\ \A d \in Callers : Steady(d) BY <1>1, <1>4, CallerSteps
<1> QED BY <1>1, <1>5 DEF Kept, Placement, Accounts, Backed, Counts

LEMMA RequestSteps ==
  ASSUME Calls, Accounts, Counts, NEW c \in Callers, NEW tool \in {"run", "workload"},
         NEW p \in Providers, NEW e \in Escrows \cup {None}, NEW s \in Specs \cup {None},
         NEW from \in SUBSET Providers, Request(c, tool, p, e, s, from)
  PROVE  Calls' /\ Accounts' /\ Counts' /\ (from = {} => Placement)
<1> DEFINE r == Asking(tool, p, e, s, from)
<1>1. /\ call' = [call EXCEPT ![c] = r] /\ runs < MaxRuns /\ runs' = runs + 1
      /\ UNCHANGED <<esc, reported, spent, locked, changes>>
  BY DEF Request, Asking
<1>2. Coherent(r) /\ r.from = from BY AskingIsCoherent
<1> HIDE DEF r
<1>3. Calls'
  <2>1. \A d \in Callers : call'[d] = IF d = c THEN r ELSE call[d] BY <1>1 DEF Calls
  <2>2. call' \in [Callers -> CallType] BY <1>1, <1>2 DEF Calls, Coherent
  <2>3. \A d \in Callers : Coherent(call'[d]) BY <1>2, <2>1 DEF Calls
  <2> QED BY <2>2, <2>3 DEF Calls, Coherent
<1>4. Counts' BY <1>1, ConsumerAssumption DEF Counts
<1>5. Accounts' BY <1>1 DEF Accounts, Backed
<1>6. from = {} => \A d \in Callers : Steady(d) BY <1>1, <1>2, CallerSteps
<1> QED BY <1>3, <1>4, <1>5, <1>6 DEF Placement

LEMMA PlacedSteps ==
  ASSUME CapInv, Calls, Accounts, Counts, NEW c \in Callers, NEW tool \in {"run", "workload"},
         NEW e \in Escrows \cup {None}, NEW s \in Specs, Placed(c, tool, e, s)
  PROVE  Kept
<1>1. PICK listed \in SUBSET Providers :
        \E list \in SetToSeqs(listed) :
          Pick(s, list) # None /\ Request(c, tool, Pick(s, list), e, s, listed)
  BY DEF Placed
<1>2. PICK list \in SetToSeqs(listed) :
        Pick(s, list) # None /\ Request(c, tool, Pick(s, list), e, s, listed)
  BY <1>1
<1>3. Pick(s, list) \in Providers BY <1>2, PickIsBest DEF CapInv, MoneyType
<1>4. Calls' /\ Accounts' /\ Counts' BY <1>2, <1>3, RequestSteps
<1>5. PlacedWell(c) /\ \A d \in Callers \ {c} : call'[d] = call[d]
  BY PlacedIsPlacedWell DEF CapInv
<1>6. Placement BY <1>5 DEF Placement, Steady
<1> QED BY <1>4, <1>6 DEF Kept

LEMMA SendSteps ==
  ASSUME CapInv, Calls, Accounts, Counts, NEW c \in Callers, SendCreate(c)
  PROVE  Kept
<1> DEFINE n == Round(FundAmount(c))
<1>1. PICK e \in Escrows :
        /\ esc[e].state = "none"
        /\ esc' = [esc EXCEPT ![e].state = "sent", ![e].provider = call[c].p, ![e].amount = n]
        /\ call' = [call EXCEPT ![c].pc = "sending", ![c].e = e, ![c].amount = n]
  BY DEF SendCreate
<1>2. /\ At(c, "funding") /\ FundAmount(c) > 0
      /\ UNCHANGED <<reported, spent, locked, runs, changes>>
  BY DEF SendCreate
<1>3. call[c] \in CallType /\ call[c].p \in Providers BY <1>2 DEF Calls, Coherent, At
<1>4. offer[call[c].p].price \in Nat BY <1>3, ConsumerAssumption DEF CapInv, MoneyType
<1>5. FundAmount(c) \in Int BY <1>3, <1>4 DEF FundAmount, CallType
<1>6. n \in Nat /\ n > 0 BY <1>2, <1>5 DEF Round
<1> HIDE DEF n
<1>7. Accounts'
  <2> DEFINE r1 == [esc[e] EXCEPT !.state = "sent"]
             r2 == [r1 EXCEPT !.provider = call[c].p]
             r3 == [r2 EXCEPT !.amount = n]
  <2>1. r1 \in EscrowType BY DEF Accounts, EscrowType
  <2>2. esc' = [esc EXCEPT ![e] = r3] BY <1>1 DEF Accounts
  <2> HIDE DEF r1
  <2>3. r2 \in EscrowType BY <1>3, <2>1 DEF EscrowType
  <2> HIDE DEF r2
  <2>4. r3 \in EscrowType /\ r3.amount = n BY <1>6, <2>3 DEF EscrowType
  <2> HIDE DEF r3
  <2>5. Backed(r3) BY <1>6, <2>4 DEF Backed
  <2> QED BY <2>2, <2>5, AccountChanges
<1>8. Calls' /\ \A d \in Callers : Steady(d)
  <2> DEFINE r1 == [call[c] EXCEPT !.pc = "sending"]
             r2 == [r1 EXCEPT !.e = e]
             r3 == [r2 EXCEPT !.amount = n]
  <2>1. r1 \in CallType /\ r1.pc = "sending" BY <1>3 DEF CallType
  <2>2. call' = [call EXCEPT ![c] = r3] BY <1>1 DEF Calls
  <2> HIDE DEF r1
  <2>3. r2 \in CallType /\ r2.pc = "sending" /\ r2.e = e BY <2>1 DEF CallType
  <2> HIDE DEF r2
  <2>4. r3 \in CallType /\ r3.pc = "sending" /\ r3.e = e BY <1>6, <2>3 DEF CallType
  <2> HIDE DEF r3
  <2>5. Coherent(r3) BY <2>4 DEF Coherent
  <2> QED BY <1>2, <2>2, <2>5, CallerSteps DEF At
<1> QED BY <1>2, <1>7, <1>8 DEF Kept, Placement, Counts

(* A call that ends. *)
LEMMA EndSteps ==
  ASSUME CapInv, CapInv', Calls, Accounts, Counts, NEW c \in Callers,
         \/ FundFails(c) \/ Confirmed(c) \/ PaymentRequired(c) \/ JobFails(c)
         \/ Executed(c) \/ TxFails(c)
  PROVE  Kept
<1>1. Done(c) /\ UNCHANGED <<runs, changes>>
  BY DEF FundFails, Confirmed, PaymentRequired, JobFails, Executed, TxFails
<1>2. Calls' /\ \A d \in Callers : Steady(d) BY <1>1, DoneSteps
<1>3. Accounts'
  <2>1. CASE Executed(c)
    <3>1. PICK state \in {"paid", "refunded"} : esc' = [esc EXCEPT ![call[c].e] = Over(state)]
      BY <2>1 DEF Executed
    <3> QED BY <3>1, OverIsBacked, AccountChanges
  <2>2. CASE ~ Executed(c)
    <3>1. UNCHANGED esc
      BY <2>2 DEF FundFails, Confirmed, PaymentRequired, JobFails, TxFails
    <3> QED BY <3>1 DEF Accounts, Backed
  <2> QED BY <2>1, <2>2
<1>4. reported' \subseteq Escrows
  <2>1. CASE Confirmed(c)
    <3>1. At(c, "sending") /\ reported' = reported \cup {call[c].e} BY <2>1 DEF Confirmed
    <3> QED BY <3>1 DEF Counts, Calls, Coherent, At
  <2>2. CASE ~ Confirmed(c)
    BY <2>2 DEF FundFails, PaymentRequired, JobFails, Executed, TxFails, Counts
  <2> QED BY <2>1, <2>2
<1>5. spent' \in Nat /\ locked' \in Nat BY DEF CapInv, MoneyType
<1> QED BY <1>1, <1>2, <1>3, <1>4, <1>5 DEF Kept, Placement, Counts

LEMMA AuthorizeSteps ==
  ASSUME Calls, Accounts, Counts, NEW c \in Callers, Authorize(c)
  PROVE  Kept
<1> DEFINE r1 == [call[c] EXCEPT !.pc = "admitted"]
           r == [r1 EXCEPT !.from = {}]
<1>1. /\ At(c, "asked") /\ UNCHANGED <<reported, spent, locked, runs, changes>>
      /\ call' = [call EXCEPT ![c] = r]
  BY DEF Authorize, Calls
<1>2. r1 \in CallType /\ r1.pc = "admitted" BY DEF Calls, CallType
<1> HIDE DEF r1
<1>3. r \in CallType /\ r.pc = "admitted" /\ r.from = {} BY <1>2 DEF CallType
<1> HIDE DEF r
<1>4. Coherent(r) BY <1>3 DEF Coherent
<1>5. Calls' /\ \A d \in Callers : Steady(d) BY <1>1, <1>3, <1>4, CallerSteps
<1>6. Accounts'
  <2>1. CASE UNCHANGED esc BY <2>1 DEF Accounts, Backed
  <2>2. CASE ~ UNCHANGED esc
    <3>1. esc' = [esc EXCEPT ![call[c].e].served = TRUE] /\ call[c].e \in Escrows
      BY <2>2 DEF Authorize, Calls, CallType
    <3> DEFINE a == [esc[call[c].e] EXCEPT !.served = TRUE]
    <3>2. a \in EscrowType /\ a.state = esc[call[c].e].state /\ a.amount = esc[call[c].e].amount
      BY <3>1 DEF Accounts, EscrowType
    <3>3. esc' = [esc EXCEPT ![call[c].e] = a] BY <3>1
    <3> HIDE DEF a
    <3>4. Backed(a) BY <3>1, <3>2 DEF Accounts, Backed
    <3> QED BY <3>3, <3>4, AccountChanges
  <2> QED BY <2>1, <2>2
<1> QED BY <1>1, <1>5, <1>6 DEF Kept, Placement, Counts

LEMMA AnswerSteps ==
  ASSUME Calls, Accounts, Counts, NEW c \in Callers, NEW out \in Outputs, Answer(c, out)
  PROVE  Kept
<1>1. /\ At(c, "admitted") /\ UNCHANGED <<reported, spent, locked, runs, changes>>
      /\ Done(c) \/ Goto(c, "releasing")
  BY DEF Answer
<1>2. Calls' /\ \A d \in Callers : Steady(d)
  <2>1. CASE Done(c) BY <2>1, DoneSteps
  <2>2. CASE Goto(c, "releasing")
    <3> DEFINE r == [call[c] EXCEPT !.pc = "releasing"]
    <3>1. call' = [call EXCEPT ![c] = r] BY <2>2 DEF Goto
    <3>2. r \in CallType /\ r.pc = "releasing" BY DEF Calls, CallType
    <3> HIDE DEF r
    <3>3. Coherent(r) BY <3>2 DEF Coherent
    <3> QED BY <1>1, <3>1, <3>3, CallerSteps DEF At
  <2> QED BY <1>1, <2>1, <2>2
<1>3. Accounts'
  <2>1. CASE UNCHANGED esc BY <2>1 DEF Accounts, Backed
  <2>2. CASE ~ UNCHANGED esc
    <3>1. esc' = [esc EXCEPT ![call[c].e].result = out] /\ call[c].e \in Escrows
      BY <2>2 DEF Answer, Calls, CallType
    <3> DEFINE a == [esc[call[c].e] EXCEPT !.result = out]
    <3>2. a \in EscrowType /\ a.state = esc[call[c].e].state /\ a.amount = esc[call[c].e].amount
      BY <3>1 DEF Accounts, EscrowType
    <3>3. esc' = [esc EXCEPT ![call[c].e] = a] BY <3>1
    <3> HIDE DEF a
    <3>4. Backed(a) BY <3>1, <3>2 DEF Accounts, Backed
    <3> QED BY <3>3, <3>4, AccountChanges
  <2> QED BY <2>1, <2>2
<1> QED BY <1>1, <1>2, <1>3 DEF Kept, Placement, Counts

LEMMA EnvironmentSteps ==
  ASSUME Calls, Accounts, Counts, Environment
  PROVE  Kept
<1>1. UNCHANGED <<call, spent, locked, runs>>
  BY DEF Environment, Land, Drop, TimePasses, Cancel, Forget, Change, Only
<1>2. Calls' /\ \A d \in Callers : Steady(d) BY <1>1 DEF Calls, Coherent, Steady
<1>3. Counts'
  BY <1>1, ConsumerAssumption
     DEF Environment, Land, Drop, TimePasses, Cancel, Forget, Change, Only, Counts
<1>4. ASSUME NEW e \in Escrows, Land(e) \/ TimePasses(e) PROVE Accounts'
  <2>1. esc[e].state \in {"sent", "locked"} /\ esc[e].amount > 0
    BY <1>4 DEF Land, TimePasses, Accounts, Backed
  <2>2. CASE Land(e)
    <3> DEFINE r == [esc[e] EXCEPT !.state = "locked"]
    <3>1. esc' = [esc EXCEPT ![e] = r] BY <2>2 DEF Land, Only
    <3>2. r \in EscrowType /\ r.amount = esc[e].amount BY DEF Accounts, EscrowType
    <3> HIDE DEF r
    <3> QED BY <2>1, <3>1, <3>2, AccountChanges DEF Backed
  <2>3. CASE TimePasses(e)
    <3> DEFINE later == IF esc[e].time = "runway" THEN "short" ELSE "expired"
               r == [esc[e] EXCEPT !.time = later]
    <3>1. esc' = [esc EXCEPT ![e] = r] BY <2>3 DEF TimePasses, Only
    <3>2. later \in {"runway", "short", "expired"} OBVIOUS
    <3> HIDE DEF later
    <3>3. r \in EscrowType /\ r.amount = esc[e].amount BY <3>2 DEF Accounts, EscrowType
    <3> HIDE DEF r
    <3> QED BY <2>1, <3>1, <3>3, AccountChanges DEF Backed
  <2> QED BY <1>4, <2>2, <2>3
<1>5. ASSUME NEW e \in Escrows, Drop(e) \/ Cancel(e) \/ Forget(e) PROVE Accounts'
  <2>1. PICK r \in {Over("dropped"), Over("refunded"), NoEscrow} : esc' = [esc EXCEPT ![e] = r]
    BY <1>5 DEF Drop, Cancel, Forget, Only
  <2>2. Backed(r) BY <2>1, OverIsBacked
  <2> QED BY <2>1, <2>2, AccountChanges
<1>6. ASSUME NEW p \in Providers, NEW o \in Offers, Change(p, o) PROVE Accounts'
  BY <1>6 DEF Change, Accounts, Backed
<1>7. Accounts' BY <1>4, <1>5, <1>6 DEF Environment
<1> QED BY <1>2, <1>3, <1>7 DEF Kept, Placement

LEMMA ConsumerStep ==
  ASSUME ConsumerInv, [Next]_vars
  PROVE  ConsumerInv' /\ Placement
<1> USE DEF ConsumerInv
<1>0. "mcp" \in Callers /\ "cli" \in Callers BY DEF Callers
<1>1. CapInv' BY CapStep
<1>2. CASE UNCHANGED vars
  <2>1. Kept BY <1>2 DEF vars, Kept, Calls, Coherent, Accounts, Backed, Counts, Placement, Steady
  <2> QED BY <1>1, <2>1 DEF Kept
<1>3. ASSUME NEW c \in Callers, Begin(c) PROVE Kept
  <2>1. ASSUME NEW p \in Providers, NEW a \in Asks \cup {Quoted}, PayEscrow(c, p, a) PROVE Kept
    BY <2>1, PaySteps
  <2>2. ASSUME NEW p \in Providers, NEW e \in Escrows, RunJob(c, p, e) PROVE Kept
    <3>1. Request(c, "run", p, e, None, {}) BY <2>2 DEF RunJob
    <3>2. Calls' /\ Accounts' /\ Counts' /\ ({} = {} => Placement) BY <3>1, RequestSteps
    <3> QED BY <3>2 DEF Kept
  <2>3. ASSUME NEW s \in Specs, Launch(c, s) PROVE Kept
    BY <2>3, PlacedSteps DEF Launch
  <2>4. ASSUME NEW e \in Escrows, Refund(c, e) PROVE Kept BY <2>4, SettlingSteps
  <2> QED BY <1>3, <2>1, <2>2, <2>3, <2>4 DEF Begin
<1>4. ASSUME BeginOne PROVE Kept
  <2>1. ASSUME NEW e \in Escrows, NEW s \in Specs, RunPlaced(e, s) PROVE Kept
    BY <1>0, <2>1, PlacedSteps DEF RunPlaced
  <2>2. ASSUME NEW p \in Providers, NEW e \in Escrows, NEW s \in Specs, Deploy(p, e, s)
        PROVE  Kept
    <3>1. Request("mcp", "workload", p, e, s, {}) BY <2>2 DEF Deploy
    <3>2. Calls' /\ Accounts' /\ Counts' /\ ({} = {} => Placement)
      BY <1>0, <3>1, RequestSteps
    <3> QED BY <3>2 DEF Kept
  <2>3. ASSUME NEW e \in Escrows, ReleaseVerified(e) PROVE Kept
    BY <1>0, <2>3, SettlingSteps
  <2>4. ASSUME NEW e \in Escrows, Release(e) PROVE Kept
    BY <1>0, <2>4, SettlingSteps
  <2> QED BY <1>4, <2>1, <2>2, <2>3, <2>4 DEF BeginOne
<1>5. ASSUME NEW c \in Callers, Continue(c) PROVE Kept
  <2>1. CASE SendCreate(c) BY <2>1, SendSteps
  <2>2. CASE Authorize(c) BY <2>2, AuthorizeSteps
  <2>3. ASSUME NEW out \in Outputs, Answer(c, out) PROVE Kept BY <2>3, AnswerSteps
  <2>4. CASE \/ FundFails(c) \/ Confirmed(c) \/ PaymentRequired(c) \/ JobFails(c)
             \/ Executed(c) \/ TxFails(c)
    BY <1>1, <2>4, EndSteps
  <2> QED BY <1>5, <2>1, <2>2, <2>3, <2>4 DEF Continue
<1>6. ASSUME Environment PROVE Kept BY <1>6, EnvironmentSteps
<1> QED BY <1>1, <1>2, <1>3, <1>4, <1>5, <1>6 DEF Next, Kept

LEMMA ConsumerInit == Init => ConsumerInv
<1> SUFFICES ASSUME Init PROVE ConsumerInv OBVIOUS
<1>1. Calls
  <2>1. call = [c \in Callers |-> Idle] /\ Coherent(Idle) BY IdleIsCoherent DEF Init
  <2> QED BY <2>1 DEF Calls, Coherent
<1>2. Accounts BY OverIsBacked DEF Init, Accounts, Backed
<1>3. Counts BY ConsumerAssumption DEF Init, Counts
<1> QED BY <1>1, <1>2, <1>3, CapInit DEF ConsumerInv

(* The types, and no transaction on its way locks nothing: an amount that   *)
(* is above zero rounds to a whole micro at least (client.rs fund_escrow).   *)
THEOREM ConsumerTypeCorrect == Spec => []TypeOK
<1>1. ConsumerInv => TypeOK
  BY DEF ConsumerInv, CapInv, MoneyType, Calls, CallType, Accounts, Backed, EscrowType,
         Counts, TypeOK
<1>2. ConsumerInv /\ [Next]_vars => ConsumerInv' BY ConsumerStep
<1> QED BY <1>1, <1>2, ConsumerInit, PTL DEF Spec

(* Whatever providers announce and a directory lists, in whatever order: a  *)
(* workload goes to one that can run it, and that no other candidate         *)
(* dominates (scheduler/src/lib.rs place).                                   *)
THEOREM PlacementsAreSound == Spec => PlacementIsSound
<1> DEFINE Sound == \A c \in Callers :
              (At(c, "idle") /\ call'[c].from # {}) =>
                LET s == call'[c].spec
                    o == offer[call'[c].p]
                IN  /\ CanRunIt(s, o)
                    /\ \A q \in call'[c].from : CanRunIt(s, offer[q]) => ~ Dominates(offer[q], o)
<1>1. ConsumerInv /\ [Next]_vars => Sound
  <2> SUFFICES ASSUME ConsumerInv, [Next]_vars, NEW c \in Callers,
                      At(c, "idle"), call'[c].from # {}
               PROVE  PlacedWell(c)
    BY DEF PlacedWell
  <2>1. Placement BY ConsumerStep
  <2>2. call[c].from = {} BY DEF ConsumerInv, Calls, Coherent, At
  <2> QED BY <2>1, <2>2 DEF Placement, Steady
<1>2. ConsumerInv /\ [Next]_vars => ConsumerInv' BY ConsumerStep
<1> HIDE DEF Sound
<1>3. Spec => [][Sound]_vars BY <1>1, <1>2, ConsumerInit, PTL DEF Spec
<1> QED BY <1>3 DEF PlacementIsSound, Sound
-----------------------------------------------------------------------------
(* What two of the findings come from, for every instance. *)

(* A deployment that carries an escrow never runs, whatever the escrow      *)
(* holds: run_workload draws a job id of its own (sdk/src/lib.rs:309), and   *)
(* authorize wants that of the escrow.  An admitted workload has no escrow.  *)
AdmittedWorkloadsAreFree ==
  \A c \in Callers : (At(c, "admitted") /\ call[c].tool = "workload") => call[c].e = None

LEMMA FreeStep ==
  ASSUME Calls, AdmittedWorkloadsAreFree, [Next]_vars
  PROVE  AdmittedWorkloadsAreFree'
<1>1. ASSUME NEW c \in Callers, call'[c] # call[c], call'[c].pc = "admitted",
             call'[c].tool = "workload"
      PROVE  call'[c].e = None
  <2>1. ~ UNCHANGED vars BY <1>1 DEF vars
  <2>2. ~ Environment
    BY <1>1 DEF Environment, Land, Drop, TimePasses, Cancel, Forget, Change, Only
  <2>3. ASSUME NEW d \in Callers PROVE ~ Begin(d)
    BY <1>1 DEF Begin, PayEscrow, RunJob, Launch, Refund, Placed, Request, Idle, Calls
  <2>4. ~ BeginOne
    BY <1>1 DEF BeginOne, RunPlaced, Deploy, ReleaseVerified, Release, Placed, Request, Idle, Calls
  <2>5. PICK d \in Callers : Continue(d) BY <2>1, <2>2, <2>3, <2>4 DEF Next
  <2>6. ~ (SendCreate(d) \/ (\E out \in Outputs : Answer(d, out)))
    <3>1. ~ SendCreate(d) BY <1>1 DEF SendCreate, Calls, CallType
    <3>2. ASSUME NEW out \in Outputs PROVE ~ Answer(d, out)
      <4>1. ~ Done(d) BY <1>1 DEF Done, Idle, Calls
      <4>2. ~ Goto(d, "releasing") BY <1>1 DEF Goto, Calls, CallType
      <4> QED BY <4>1, <4>2 DEF Answer
    <3> QED BY <3>1, <3>2
  <2>7. ~ (\/ FundFails(d) \/ Confirmed(d) \/ PaymentRequired(d) \/ JobFails(d)
           \/ Executed(d) \/ TxFails(d))
    BY <1>1 DEF FundFails, Confirmed, PaymentRequired, JobFails, Executed, TxFails,
                Done, Idle, Calls
  <2>8. Authorize(d) BY <2>5, <2>6, <2>7 DEF Continue
  <2> DEFINE r == [call[d] EXCEPT !.pc = "admitted", !.from = {}]
  <2>9. call' = [call EXCEPT ![d] = r] BY <2>8 DEF Authorize, Calls
  <2>10. r.tool = call[d].tool /\ r.e = call[d].e BY DEF Calls, CallType
  <2>11. c = d /\ call'[c] = r BY <1>1, <2>9 DEF Calls
  <2>12. call[c].tool = "workload" BY <1>1, <2>10, <2>11
  <2>13. call[c].e = None BY <2>8, <2>11, <2>12 DEF Authorize, JobId
  <2> QED BY <2>10, <2>11, <2>13
<1> QED BY <1>1 DEF AdmittedWorkloadsAreFree, At

THEOREM PaidDeploysNeverRun == Spec => []AdmittedWorkloadsAreFree
<1>1. Init => AdmittedWorkloadsAreFree BY DEF Init, AdmittedWorkloadsAreFree, At, Idle
<1>2. ConsumerInv /\ AdmittedWorkloadsAreFree /\ [Next]_vars => AdmittedWorkloadsAreFree'
  BY FreeStep DEF ConsumerInv
<1>3. ConsumerInv /\ [Next]_vars => ConsumerInv' BY ConsumerStep
<1> QED BY <1>1, <1>2, <1>3, ConsumerInit, PTL DEF Spec

(* An escrow that is on its way, too, is one somebody was told of or still  *)
(* waits for.                                                                *)
Announced ==
  \A e \in Escrows : esc[e].state \in {"sent", "locked"} =>
    e \in reported \/ \E c \in Callers : call[c].pc = "sending" /\ call[c].e = e

(* Whoever stops waiting for a create_job was told of its escrow, or the    *)
(* transaction can no longer land.                                           *)
WaitedOut ==
  \A c \in Callers : At(c, "sending") =>
    \/ call'[c] = call[c]
    \/ call[c].e \in reported'
    \/ esc[call[c].e].state = "dropped"

(* Who sends keeps on sending the same, unless it is given up. *)
LEMMA AnnouncedStep ==
  ASSUME Calls, Accounts, Announced, WaitedOut, [Next]_vars
  PROVE  Announced'
<1> SUFFICES ASSUME NEW e \in Escrows, esc'[e].state \in {"sent", "locked"},
                    e \notin reported'
             PROVE  \E c \in Callers : call'[c].pc = "sending" /\ call'[c].e = e
  BY DEF Announced
<1>1. CASE \E c \in Callers : SendCreate(c) /\ esc[e].state = "none"
  <2>1. PICK c \in Callers : SendCreate(c) /\ esc[e].state = "none" BY <1>1
  <2>2. PICK f \in Escrows :
          /\ esc' = [esc EXCEPT ![f].state = "sent", ![f].provider = call[c].p,
                                ![f].amount = Round(FundAmount(c))]
          /\ call' = [call EXCEPT ![c].pc = "sending", ![c].e = f,
                                  ![c].amount = Round(FundAmount(c))]
    BY <2>1 DEF SendCreate
  <2>3. e = f BY <2>1, <2>2 DEF Accounts
  <2> DEFINE r == [call[c] EXCEPT !.pc = "sending", !.e = f, !.amount = Round(FundAmount(c))]
  <2>4. call' = [call EXCEPT ![c] = r] BY <2>2 DEF Calls
  <2>5. r.pc = "sending" /\ r.e = f BY DEF Calls, CallType
  <2> HIDE DEF r
  <2>6. call'[c] = r BY <2>4 DEF Calls
  <2> QED BY <2>3, <2>5, <2>6
<1>2. CASE ~ \E c \in Callers : SendCreate(c) /\ esc[e].state = "none"
  <2>1. esc[e].state \in {"sent", "locked"} /\ e \notin reported
    <3>1. CASE UNCHANGED vars BY <3>1 DEF vars
    <3>2. CASE Environment
      BY <3>2 DEF Environment, Land, Drop, TimePasses, Cancel, Forget, Change, Only, Over,
                  NoEscrow, Accounts, EscrowType
    <3>3. CASE (\E d \in Callers : Begin(d)) \/ BeginOne
      BY <3>3 DEF Begin, BeginOne, PayEscrow, RunJob, Launch, Refund, RunPlaced, Deploy,
                  ReleaseVerified, Release, Placed, Request
    <3>4. ASSUME NEW d \in Callers, Continue(d)
          PROVE  esc[e].state \in {"sent", "locked"} /\ e \notin reported
      <4>1. CASE SendCreate(d)
        <5>1. PICK f \in Escrows :
                /\ esc[f].state = "none"
                /\ esc' = [esc EXCEPT ![f].state = "sent", ![f].provider = call[d].p,
                                      ![f].amount = Round(FundAmount(d))]
          BY <4>1 DEF SendCreate
        <5>2. e # f BY <1>2, <4>1, <5>1
        <5>3. esc'[e] = esc[e] BY <5>1, <5>2 DEF Accounts
        <5> QED BY <4>1, <5>3 DEF SendCreate
      <4>2. CASE ~ SendCreate(d)
        <5>1. CASE Executed(d) BY <5>1 DEF Executed, Over, NoEscrow, Accounts, EscrowType
        <5>2. CASE Authorize(d) BY <5>2 DEF Authorize, Accounts, EscrowType
        <5>3. CASE \E out \in Outputs : Answer(d, out)
          BY <5>3 DEF Answer, Accounts, EscrowType
        <5>4. CASE FundFails(d) \/ Confirmed(d) \/ PaymentRequired(d) \/ JobFails(d) \/ TxFails(d)
          BY <5>4 DEF FundFails, Confirmed, PaymentRequired, JobFails, TxFails
        <5> QED BY <3>4, <4>2, <5>1, <5>2, <5>3, <5>4 DEF Continue
      <4> QED BY <4>1, <4>2
    <3> QED BY <3>1, <3>2, <3>3, <3>4 DEF Next
  <2>2. PICK c \in Callers : call[c].pc = "sending" /\ call[c].e = e BY <2>1 DEF Announced
  <2>3. call'[c] = call[c] BY <2>1, <2>2 DEF WaitedOut, At
  <2> QED BY <2>2, <2>3
<1> QED BY <1>1, <1>2

(* What the caps gate is what is locked, if nobody gives up on a create_job *)
(* that can still land (solana.rs:325 waits forty polls and then reports an  *)
(* error): every escrow that holds money is in the session's list, or is     *)
(* being waited for.  MCConsumerLate.cfg shows that it needs the hypothesis.  *)
THEOREM NothingLostIfWaitedOut ==
  Spec /\ [][WaitedOut]_vars => []NothingUnderTheCap
<1>1. Init => Announced BY DEF Init, Announced, NoEscrow
<1>2. ConsumerInv /\ Announced /\ [Next]_vars /\ [WaitedOut]_vars => Announced'
  <2>1. UNCHANGED vars => WaitedOut BY DEF vars, WaitedOut
  <2> QED BY <2>1, AnnouncedStep DEF ConsumerInv
<1>3. Announced => NothingUnderTheCap BY DEF Announced, NothingUnderTheCap
<1>4. ConsumerInv /\ [Next]_vars => ConsumerInv' BY ConsumerStep
<1> QED BY <1>1, <1>2, <1>3, <1>4, ConsumerInit, PTL DEF Spec
==============================================================================

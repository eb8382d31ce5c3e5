-------------------------- MODULE DiscoveryProofs --------------------------
(***************************************************************************)
(* Proofs about Discovery: the cap on announcements, what directories      *)
(* remember of the canaries, and the ranking of the consumer.              *)
(***************************************************************************)
EXTENDS Discovery, FiniteSetTheorems, WellFoundedInduction, TLAPS

(* Induction, in the form the proofs below use it: a set of naturals that   *)
(* is not empty has a least element.                                         *)
LEMMA LeastNatural ==
  ASSUME NEW T \in SUBSET Nat, T # {}
  PROVE  \E n \in T : \A m \in T : n <= m
<1>1. PICK n \in T : \A m \in T : ~ (<<m, n>> \in OpToRel(<, Nat))
  BY NatLessThanWellFounded, WFMin
<1>2. \A m \in T : ~ (m < n) BY <1>1 DEF OpToRel
<1> QED BY <1>2

-----------------------------------------------------------------------------
(* Scores and verdicts. *)

(* A canary counts once, and leaves the score between 0 and 1. *)
LEMMA CanaryCounts ==
  ASSUME NEW r \in Record, NEW passed \in BOOLEAN
  PROVE  /\ RecordCanary(r, passed) \in Record
         /\ RecordCanary(r, passed).pass >= r.pass
         /\ RecordCanary(r, passed).fail >= r.fail
<1>1. r.score \in Nat /\ r.score <= Scale /\ r.pass \in Nat /\ r.fail \in Nat /\ Scale \in Nat
  BY DiscoveryAssumption DEF Record, Score
<1>2. CASE passed
  <2> DEFINE s == r.score + (Scale - r.score) \div 20
  <2>1. s \in Score BY <1>1 DEF Score
  <2>2. RecordCanary(r, passed) = [r EXCEPT !.pass = @ + 1, !.score = s]
    BY <1>2 DEF RecordCanary
  <2>3. r.pass + 1 \in Nat /\ r.pass + 1 >= r.pass /\ r.fail >= r.fail BY <1>1
  <2> HIDE DEF s
  <2> DEFINE e == [r EXCEPT !.pass = @ + 1]
  <2>4. e \in Record /\ e.pass = r.pass + 1 /\ e.fail = r.fail BY <2>3 DEF Record
  <2>5. RecordCanary(r, passed) = [e EXCEPT !.score = s] BY <2>2 DEF Record
  <2> HIDE DEF e
  <2>6. /\ RecordCanary(r, passed) \in Record
        /\ RecordCanary(r, passed).pass = e.pass /\ RecordCanary(r, passed).fail = e.fail
    BY <2>1, <2>4, <2>5 DEF Record
  <2> QED BY <2>3, <2>4, <2>6
<1>3. CASE ~ passed
  <2> DEFINE s == r.score \div 4
  <2>1. s \in Score BY <1>1 DEF Score
  <2>2. RecordCanary(r, passed) = [r EXCEPT !.fail = @ + 1, !.score = s]
    BY <1>3 DEF RecordCanary
  <2>3. r.fail + 1 \in Nat /\ r.fail + 1 >= r.fail /\ r.pass >= r.pass BY <1>1
  <2> HIDE DEF s
  <2> DEFINE e == [r EXCEPT !.fail = @ + 1]
  <2>4. e \in Record /\ e.fail = r.fail + 1 /\ e.pass = r.pass BY <2>3 DEF Record
  <2>5. RecordCanary(r, passed) = [e EXCEPT !.score = s] BY <2>2 DEF Record
  <2> HIDE DEF e
  <2>6. /\ RecordCanary(r, passed) \in Record
        /\ RecordCanary(r, passed).pass = e.pass /\ RecordCanary(r, passed).fail = e.fail
    BY <2>1, <2>4, <2>5 DEF Record
  <2> QED BY <2>3, <2>4, <2>6
<1> QED BY <1>2, <1>3

(* What is written of a record while a probe's verdicts are recorded. *)
Trail(r, verdicts, f) ==
  f = [n \in 0..Len(verdicts) |-> IF n = 0 THEN r ELSE RecordCanary(f[n - 1], verdicts[n])]

(* There is such a trail, for verdicts of any number. *)
LEMMA TrailExists ==
  ASSUME NEW r \in Record, NEW verdicts \in Seq(BOOLEAN)
  PROVE  \E f : Trail(r, verdicts, f)
<1> DEFINE L == Len(verdicts)
           Upto(n, g) == /\ g \in [0..n -> Record] /\ g[0] = r
                         /\ \A i \in 1..n : g[i] = RecordCanary(g[i - 1], verdicts[i])
           T == {n \in 0..L : ~ \E g \in [0..n -> Record] : Upto(n, g)}
<1>1. L \in Nat OBVIOUS
<1>2. T = {}
  <2> SUFFICES ASSUME T # {} PROVE FALSE OBVIOUS
  <2>1. T \in SUBSET Nat BY <1>1
  <2> HIDE DEF T
  <2>2. PICK m \in T : \A k \in T : m <= k BY <2>1, LeastNatural
  <2> USE DEF T
  <2>3. m \in 0..L /\ ~ \E g \in [0..m -> Record] : Upto(m, g) BY <2>2
  <2>4. CASE m = 0
    <3>1. Upto(0, [i \in 0..0 |-> r]) /\ [i \in 0..0 |-> r] \in [0..0 -> Record] OBVIOUS
    <3> QED BY <2>3, <2>4, <3>1
  <2>5. CASE m # 0
    <3>1. m - 1 \in 0..L /\ m - 1 \notin T BY <2>2, <2>3, <2>5, <1>1
    <3>2. PICK g \in [0..m - 1 -> Record] : Upto(m - 1, g) BY <3>1
    <3>3. verdicts[m] \in BOOLEAN BY <2>3, <2>5
    <3> DEFINE new == RecordCanary(g[m - 1], verdicts[m])
               h == [i \in 0..m |-> IF i = m THEN new ELSE g[i]]
    <3>4. new \in Record
      <4>1. g[m - 1] \in Record BY <2>3, <2>5
      <4> QED BY <4>1, <3>3, CanaryCounts
    <3>5. h \in [0..m -> Record] BY <3>4, <2>3
    <3>6. h[0] = r BY <2>3, <2>5, <3>2
    <3>7. ASSUME NEW i \in 1..m PROVE h[i] = RecordCanary(h[i - 1], verdicts[i])
      <4>1. CASE i = m BY <4>1, <2>3, <2>5
      <4>2. CASE i # m
        <5>1. i \in 1..m - 1 /\ i - 1 \in 0..m - 1 BY <4>2, <2>3
        <5>2. g[i] = RecordCanary(g[i - 1], verdicts[i]) BY <5>1, <3>2
        <5>3. h[i] = g[i] /\ h[i - 1] = g[i - 1] BY <5>1, <2>3
        <5> QED BY <5>2, <5>3
      <4> QED BY <4>1, <4>2
    <3> HIDE DEF h
    <3>8. Upto(m, h) BY <3>5, <3>6, <3>7
    <3> QED BY <2>3, <3>5, <3>8
  <2> QED BY <2>4, <2>5
<1>3. PICK g \in [0..L -> Record] : Upto(L, g) BY <1>1, <1>2
<1>4. g = [n \in 0..L |-> IF n = 0 THEN r ELSE RecordCanary(g[n - 1], verdicts[n])]
  <2> DEFINE e == [n \in 0..L |-> IF n = 0 THEN r ELSE RecordCanary(g[n - 1], verdicts[n])]
  <2>1. ASSUME NEW n \in 0..L PROVE g[n] = e[n]
    <3>1. CASE n = 0 BY <3>1, <1>3
    <3>2. CASE n # 0
      <4>1. n \in 1..L BY <3>2, <1>1
      <4> QED BY <4>1, <1>3, <3>2
    <3> QED BY <3>1, <3>2
  <2> QED BY <2>1
<1> QED BY <1>4 DEF Trail

(* After a probe the record is one of its type, and has lost no verdict. *)
LEMMA ProbeIsRecorded ==
  ASSUME NEW r \in Record, NEW verdicts \in Seq(BOOLEAN)
  PROVE  /\ Recorded(r, verdicts) \in Record
         /\ Recorded(r, verdicts).pass >= r.pass
         /\ Recorded(r, verdicts).fail >= r.fail
<1> DEFINE L == Len(verdicts)
           after == CHOOSE f : Trail(r, verdicts, f)
<1>1. L \in Nat OBVIOUS
<1>2. Trail(r, verdicts, after) BY TrailExists
<1>3. Recorded(r, verdicts) = after[L] BY DEF Recorded, Trail
<1> HIDE DEF after
<1> DEFINE Good(n) == /\ after[n] \in Record
                      /\ after[n].pass >= r.pass /\ after[n].fail >= r.fail
           T == {n \in 0..L : ~ Good(n)}
<1>4. T = {}
  <2> SUFFICES ASSUME T # {} PROVE FALSE OBVIOUS
  <2>1. T \in SUBSET Nat BY <1>1
  <2> HIDE DEF T
  <2>2. PICK m \in T : \A k \in T : m <= k BY <2>1, LeastNatural
  <2> USE DEF T
  <2>3. m \in 0..L /\ ~ Good(m) BY <2>2
  <2>4. r.pass \in Nat /\ r.fail \in Nat BY DEF Record
  <2>5. CASE m = 0
    <3>1. after[0] = r BY <1>1, <1>2 DEF Trail
    <3> QED BY <2>3, <2>4, <2>5, <3>1
  <2>6. CASE m # 0
    <3>1. m - 1 \in 0..L /\ m - 1 \notin T BY <2>2, <2>3, <2>6, <1>1
    <3>2. Good(m - 1) BY <3>1
    <3>3. after[m] = RecordCanary(after[m - 1], verdicts[m])
      BY <2>3, <2>6, <1>2 DEF Trail
    <3>4. verdicts[m] \in BOOLEAN BY <2>3, <2>6
    <3>5. /\ after[m] \in Record /\ after[m].pass >= after[m - 1].pass
          /\ after[m].fail >= after[m - 1].fail
      BY <3>2, <3>3, <3>4, CanaryCounts
    <3>6. /\ after[m].pass \in Nat /\ after[m].fail \in Nat
          /\ after[m - 1].pass \in Nat /\ after[m - 1].fail \in Nat
      BY <3>2, <3>5 DEF Record
    <3> QED BY <2>3, <2>4, <3>2, <3>5, <3>6
  <2> QED BY <2>5, <2>6
<1>5. Good(L) BY <1>1, <1>4
<1> QED BY <1>3, <1>5

-----------------------------------------------------------------------------
(* The larger and the smaller of two integers. *)
LEMMA MaxOfTwo ==
  ASSUME NEW a \in Int, NEW b \in Int
  PROVE  Max({a, b}) \in {a, b} /\ Max({a, b}) >= a /\ Max({a, b}) >= b
<1>1. \E x \in {a, b} : \A y \in {a, b} : x >= y OBVIOUS
<1> QED BY <1>1 DEF Max

LEMMA MinOfTwo ==
  ASSUME NEW a \in Int, NEW b \in Int
  PROVE  Min({a, b}) \in {a, b} /\ Min({a, b}) <= a /\ Min({a, b}) <= b
<1>1. \E x \in {a, b} : \A y \in {a, b} : x <= y OBVIOUS
<1> QED BY <1>1 DEF Min

-----------------------------------------------------------------------------
(* Types. *)

Ages == -Skew..Ttl + 1
Entries == [Nodes -> Ages \cup {Gone}]

TypedDirectories ==
  /\ entry \in [Dirs -> Entries]
  /\ rep \in [Dirs -> [Nodes -> Record \cup {Unprobed}]]
  /\ file = rep

TypedNodes == last \in [Nodes -> 0..Oldest]

TypedProber ==
  /\ queue \in [Dirs -> Seq(Nodes)]
  /\ used \in [Dirs -> 0..MaxRuns]

TypedConsumer ==
  /\ pc \in {"idle", "reputation", "providers"}
  /\ at \in 0..Len(Vias) /\ (pc # "idle" => at # 0)
  /\ value \in Nat /\ waited \in Nat
  /\ auth \in [Nodes -> Score \cup {Unprobed}]
  /\ merged \subseteq [node : Nodes, rank : Score]

(* What a directory has on file is what it has in memory, so that a restart *)
(* changes neither.                                                          *)
Typed == TypedDirectories /\ TypedNodes /\ TypedProber /\ TypedConsumer

LEMMA TypedImpliesTypeOK == Typed => TypeOK
BY DEF Typed, TypedDirectories, TypedNodes, TypedProber, TypedConsumer, TypeOK, Entries, Ages

LEMMA Parameters ==
  /\ Ttl \in Nat /\ Skew \in Nat /\ Oldest \in Nat /\ MaxRuns \in Nat \ {0}
  /\ Scale \in Nat /\ Len(Vias) \in Nat \ {0} /\ Gone \notin Int
  /\ \A i \in 1..Len(Vias) : Vias[i] \in Dirs
  /\ \A p \in Nodes : Ahead[p] \in Int /\ SelfReport[p] \in Score
BY DiscoveryAssumption DEF Oldest

(* Pruning keeps what is fresh and nothing else. *)
LEMMA PruneType ==
  ASSUME TypedDirectories, NEW d \in Dirs
  PROVE  /\ Prune(d) \in Entries
         /\ \A p \in Nodes : Prune(d)[p] # Gone => Prune(d)[p] = entry[d][p]
BY DEF TypedDirectories, Entries, Prune

LEMMA InsertType ==
  ASSUME TypedDirectories, NEW d \in Dirs, NEW p \in Nodes, NEW age \in Int, Insert(d, p, age)
  PROVE  entry' \in [Dirs -> Entries]
<1> DEFINE known == Prune(d)
           kept == IF known[p] = Gone /\ Cardinality(Listed(known)) >= MaxAnnouncements
                   THEN known ELSE [known EXCEPT ![p] = age]
<1>1. entry' = [entry EXCEPT ![d] = kept] /\ Fresh(age) BY DEF Insert
<1>2. known \in Entries BY PruneType
<1>3. age \in Ages BY <1>1, Parameters DEF Fresh, Ages
<1> HIDE DEF known
<1>4. kept \in Entries BY <1>2, <1>3 DEF Entries
<1> HIDE DEF kept
<1> QED BY <1>1, <1>4 DEF TypedDirectories

LEMMA CandidateType ==
  ASSUME TypedConsumer, NEW p \in Nodes
  PROVE  Candidate(p) \in [node : Nodes, rank : Score] /\ Candidate(p).node = p
BY Parameters DEF TypedConsumer, Candidate

(* The prober's order is a sequence of nodes. *)
LEMMA OrdersAreSequences ==
  ASSUME NEW d \in Dirs, NEW targets \in Orders(d)
  PROVE  targets \in Seq(Nodes)
<1>1. Listed(Prune(d)) \subseteq Nodes BY DEF Listed
<1>2. IsFiniteSet(Listed(Prune(d))) BY <1>1, DiscoveryAssumption, FS_Subset
<1>3. Cardinality(Listed(Prune(d))) \in Nat BY <1>2, FS_CardinalityType
<1>4. targets \in [1..Cardinality(Listed(Prune(d))) -> Listed(Prune(d))]
  BY DEF Orders, SetToSeqs
<1> QED BY <1>1, <1>3, <1>4

LEMMA VerdictsAreSequences ==
  ASSUME NEW p \in Nodes, NEW verdicts \in Verdicts(p)
  PROVE  verdicts \in Seq(BOOLEAN)
<1>1. PICK n \in 0..Bank : verdicts \in [1..n -> IF p \in Failing THEN BOOLEAN ELSE {TRUE}]
  BY DEF Verdicts
<1>2. n \in Nat BY DiscoveryAssumption
<1>3. verdicts \in [1..n -> BOOLEAN] BY <1>1
<1> QED BY <1>2, <1>3

LEMMA KnownType ==
  ASSUME NEW r \in Record \cup {Unprobed}
  PROVE  Known(r) \in Record /\ (r # Unprobed => Known(r) = r)
<1>1. NewRecord \in Record BY Parameters DEF NewRecord, Record, Score
<1> QED BY <1>1 DEF Known

-----------------------------------------------------------------------------
(* A probe: what is recorded is saved, and nothing is lost by it. *)

RemembersMore(old, new) ==
  old # Unprobed => /\ new # Unprobed
                    /\ new.fail >= old.fail /\ new.pass >= old.pass

LEMMA RecordProbeKeeps ==
  ASSUME TypedDirectories, NEW d \in Dirs, NEW p \in Nodes, NEW verdicts \in Seq(BOOLEAN),
         RecordProbe(d, p, verdicts)
  PROVE  /\ rep' \in [Dirs -> [Nodes -> Record \cup {Unprobed}]] /\ file' = rep'
         /\ \A e \in Dirs, q \in Nodes : RemembersMore(rep[e][q], rep'[e][q])
<1> DEFINE r == rep[d][p]
           new == Recorded(Known(r), verdicts)
<1>1. r \in Record \cup {Unprobed} BY DEF TypedDirectories
<1>2. /\ new \in Record
      /\ new.pass >= Known(r).pass /\ new.fail >= Known(r).fail
  BY <1>1, KnownType, ProbeIsRecorded
<1>3. rep' = [rep EXCEPT ![d][p] = new] /\ file' = [file EXCEPT ![d] = rep'[d]]
  BY DEF RecordProbe
<1>4. RemembersMore(r, new)
  BY <1>1, <1>2, KnownType, DiscoveryAssumption DEF RemembersMore
<1> HIDE DEF new
<1>5. rep' \in [Dirs -> [Nodes -> Record \cup {Unprobed}]] BY <1>2, <1>3 DEF TypedDirectories
<1>6. file' = rep' BY <1>3 DEF TypedDirectories
<1>7. ASSUME NEW e \in Dirs, NEW q \in Nodes PROVE RemembersMore(rep[e][q], rep'[e][q])
  <2>1. CASE e = d /\ q = p BY <2>1, <1>3, <1>4 DEF TypedDirectories
  <2>2. CASE ~ (e = d /\ q = p)
    <3>1. rep'[e][q] = rep[e][q] BY <2>2, <1>3 DEF TypedDirectories
    <3>2. rep[e][q] \in Record \cup {Unprobed} BY DEF TypedDirectories
    <3> QED BY <3>1, <3>2 DEF RemembersMore, Record
  <2> QED BY <2>1, <2>2
<1> QED BY <1>5, <1>6, <1>7

LEMMA SameRemembers ==
  ASSUME TypedDirectories, UNCHANGED rep
  PROVE  \A e \in Dirs, q \in Nodes : RemembersMore(rep[e][q], rep'[e][q])
<1>1. \A e \in Dirs, q \in Nodes : rep[e][q] \in Record \cup {Unprobed} BY DEF TypedDirectories
<1> QED BY <1>1 DEF RemembersMore, Record

LEMMA ProbeKeeps ==
  ASSUME TypedDirectories, TypedProber, NEW d \in Dirs, Probe(d)
  PROVE  /\ TypedDirectories' /\ TypedProber'
         /\ \A e \in Dirs, q \in Nodes : RemembersMore(rep[e][q], rep'[e][q])
<1>1. /\ queue[d] \in Seq(Nodes) /\ queue[d] # << >> /\ used[d] \in 0..MaxRuns
      /\ used[d] < MaxRuns
  BY DEF Probe, TypedProber
<1>2. Head(queue[d]) \in Nodes /\ Tail(queue[d]) \in Seq(Nodes) BY <1>1
<1>3. TypedProber'
  <2>1. used' = [used EXCEPT ![d] = IF Len(queue[d]) = 1 THEN 0 ELSE @ + 1]
        /\ queue' = [queue EXCEPT ![d] = Tail(@)]
    BY DEF Probe
  <2>2. (IF Len(queue[d]) = 1 THEN 0 ELSE used[d] + 1) \in 0..MaxRuns BY <1>1, Parameters
  <2> QED BY <2>1, <2>2, <1>2 DEF TypedProber
<1>4. PICK verdicts \in Verdicts(Head(queue[d])) :
        IF verdicts = << >> THEN UNCHANGED <<rep, file>>
        ELSE RecordProbe(d, Head(queue[d]), verdicts)
  BY DEF Probe
<1>5. UNCHANGED entry BY DEF Probe
<1>6. verdicts \in Seq(BOOLEAN) BY <1>2, VerdictsAreSequences
<1>7. CASE verdicts = << >>
  BY <1>3, <1>4, <1>5, <1>7, SameRemembers DEF TypedDirectories
<1>8. CASE verdicts # << >>
  BY <1>2, <1>3, <1>4, <1>5, <1>6, <1>8, RecordProbeKeeps DEF TypedDirectories
<1> QED BY <1>7, <1>8

-----------------------------------------------------------------------------
(* The steps of the directories and of time. *)

LEMMA CycleKeeps ==
  ASSUME TypedDirectories, TypedProber, NEW d \in Dirs, StartCycle(d)
  PROVE  TypedDirectories' /\ TypedProber'
<1>1. entry' = [entry EXCEPT ![d] = Prune(d)] /\ UNCHANGED <<rep, file, used>> BY DEF StartCycle
<1>2. PICK targets \in Orders(d) : queue' = [queue EXCEPT ![d] = targets] BY DEF StartCycle
<1>3. targets \in Seq(Nodes) BY OrdersAreSequences
<1>4. Prune(d) \in Entries BY PruneType
<1>5. TypedDirectories' BY <1>1, <1>4 DEF TypedDirectories
<1>6. TypedProber' BY <1>1, <1>2, <1>3 DEF TypedProber
<1> QED BY <1>5, <1>6

LEMMA PauseKeeps ==
  ASSUME TypedDirectories, TypedProber, NEW d \in Dirs, Pause(d)
  PROVE  TypedDirectories' /\ TypedProber'
<1>1. << >> \in Seq(Nodes) /\ 0 \in 0..MaxRuns BY Parameters
<1> QED BY <1>1 DEF Pause, TypedDirectories, TypedProber

LEMMA RestartKeeps ==
  ASSUME TypedDirectories, TypedProber, NEW d \in Dirs, Restart(d)
  PROVE  TypedDirectories' /\ TypedProber' /\ UNCHANGED rep
<1>1. << >> \in Seq(Nodes) /\ 0 \in 0..MaxRuns BY Parameters
<1>2. TypedProber' BY <1>1 DEF Restart, TypedProber
<1>3. UNCHANGED <<rep, file>> BY DEF Restart, TypedDirectories
<1>4. [p \in Nodes |-> Gone] \in Entries BY DEF Entries
<1>5. TypedDirectories' BY <1>3, <1>4 DEF Restart, TypedDirectories
<1> QED BY <1>2, <1>3, <1>5

LEMMA TickKeeps ==
  ASSUME TypedDirectories, TypedNodes, TypedConsumer, Tick
  PROVE  TypedDirectories' /\ TypedNodes' /\ waited' \in Nat
<1>1. TypedNodes'
  <2>1. last' = [p \in Nodes |-> Min({last[p] + 1, Oldest})] BY DEF Tick
  <2>2. ASSUME NEW p \in Nodes PROVE Min({last[p] + 1, Oldest}) \in 0..Oldest
    <3>1. last[p] \in 0..Oldest /\ last[p] + 1 \in Int /\ Oldest \in Nat
      BY Parameters DEF TypedNodes
    <3>2. PICK older \in Int : older = last[p] + 1 BY <3>1
    <3>3. Min({older, Oldest}) \in {older, Oldest} /\ Min({older, Oldest}) <= Oldest
      BY <3>1, MinOfTwo
    <3>4. Min({older, Oldest}) \in 0..Oldest BY <3>1, <3>2, <3>3
    <3> QED BY <3>2, <3>4
  <2> QED BY <2>1, <2>2 DEF TypedNodes
<1>2. TypedDirectories'
  <2>1. entry' = [d \in Dirs |-> [p \in Nodes |->
          IF entry[d][p] = Gone THEN Gone ELSE Min({entry[d][p] + 1, Ttl + 1})]]
    BY DEF Tick
  <2>2. ASSUME NEW d \in Dirs, NEW p \in Nodes, entry[d][p] # Gone
        PROVE  Min({entry[d][p] + 1, Ttl + 1}) \in Ages
    <3>1. entry[d][p] \in Ages BY <2>2 DEF TypedDirectories, Entries
    <3>2. entry[d][p] \in Int /\ -Skew <= entry[d][p] /\ Ttl \in Nat /\ Skew \in Nat
      BY <3>1, Parameters DEF Ages
    <3>3. PICK older \in Int : older = entry[d][p] + 1 BY <3>2
    <3>4. PICK limit \in Int : limit = Ttl + 1 BY <3>2
    <3>5. Min({older, limit}) \in {older, limit} /\ Min({older, limit}) <= limit
      BY MinOfTwo
    <3>6. Min({older, limit}) \in Ages BY <3>2, <3>3, <3>4, <3>5 DEF Ages
    <3> QED BY <3>3, <3>4, <3>6
  <2>3. entry' \in [Dirs -> Entries] BY <2>1, <2>2 DEF Entries
  <2> QED BY <2>3 DEF Tick, TypedDirectories
<1>3. waited' \in Nat BY DEF Tick, TypedConsumer
<1> QED BY <1>1, <1>2, <1>3

-----------------------------------------------------------------------------
(* The steps of the consumer. *)

(* What it knows of a node's score only grows while it asks. *)
LEMMA AskReputationKeeps ==
  ASSUME TypedDirectories, TypedConsumer, AskReputation
  PROVE  /\ TypedConsumer'
         /\ \A p \in Nodes : auth[p] # Unprobed => auth'[p] # Unprobed /\ auth'[p] >= auth[p]
<1>1. at \in 1..Len(Vias) /\ Vias[at] \in Dirs
  <2>1. at \in 1..Len(Vias) BY Parameters DEF AskReputation, TypedConsumer
  <2> QED BY <2>1, Parameters
<1>2. CASE UNCHANGED auth
  BY <1>1, <1>2, Parameters DEF AskReputation, TypedConsumer, Score
<1>3. CASE ~ UNCHANGED auth
  <2> DEFINE known(p) == rep[Vias[at]][p]
             told(p) == IF known(p) = Unprobed THEN auth[p]
                        ELSE IF auth[p] = Unprobed THEN known(p).score
                        ELSE Max({auth[p], known(p).score})
  <2>1. auth' = [p \in Nodes |-> told(p)] BY <1>3 DEF AskReputation
  <2>2. ASSUME NEW p \in Nodes
        PROVE  /\ told(p) \in Score \cup {Unprobed}
               /\ auth[p] # Unprobed => told(p) # Unprobed /\ told(p) >= auth[p]
    <3>1. known(p) \in Record \cup {Unprobed} BY <1>1 DEF TypedDirectories
    <3>2. auth[p] \in Score \cup {Unprobed} BY DEF TypedConsumer
    <3>3. Unprobed \notin Score BY DiscoveryAssumption
    <3>4. \A n \in Score : n \in Int BY Parameters DEF Score
    <3>5. CASE known(p) = Unprobed BY <3>2, <3>4, <3>5
    <3>6. CASE known(p) # Unprobed /\ auth[p] = Unprobed BY <3>1, <3>6 DEF Record
    <3>7. CASE known(p) # Unprobed /\ auth[p] # Unprobed
      <4>1. auth[p] \in Score /\ known(p).score \in Score BY <3>1, <3>2, <3>7 DEF Record
      <4>2. /\ Max({auth[p], known(p).score}) \in {auth[p], known(p).score}
            /\ Max({auth[p], known(p).score}) >= auth[p]
        BY <4>1, <3>4, MaxOfTwo
      <4> QED BY <3>3, <3>7, <4>1, <4>2
    <3> QED BY <3>5, <3>6, <3>7
  <2> HIDE DEF told
  <2>3. auth' \in [Nodes -> Score \cup {Unprobed}] BY <2>1, <2>2
  <2> QED BY <1>1, <2>1, <2>2, <2>3, Parameters DEF AskReputation, TypedConsumer
<1> QED BY <1>2, <1>3

(* What an answer of a directory adds. *)
LEMMA MergeAdds ==
  ASSUME TypedConsumer, NEW known \in Entries, NEW m \in Merge(known)
  PROVE  \/ m \in merged
         \/ \E p \in Nodes \ Seen : Routable(p) /\ m = Candidate(p) /\ m.node = p
<1>1. CASE m \notin merged
  <2>1. PICK p \in Listed(known) \ Seen : Routable(p) /\ m = Candidate(p)
    BY <1>1 DEF Merge
  <2>2. p \in Nodes \ Seen BY <2>1 DEF Listed
  <2>3. m.node = p BY <2>1, <2>2, CandidateType
  <2> QED BY <2>1, <2>2, <2>3
<1> QED BY <1>1

LEMMA AskProvidersKeeps ==
  ASSUME TypedDirectories, TypedConsumer, AskProviders
  PROVE  /\ TypedDirectories' /\ TypedConsumer'
         /\ \A m \in merged' :
              m \in merged \/ \E p \in Nodes \ Seen : Routable(p) /\ m = Candidate(p) /\ m.node = p
<1>1. at \in 1..Len(Vias) /\ Vias[at] \in Dirs /\ Len(Vias) \in Nat
  <2>1. at \in 1..Len(Vias) BY Parameters DEF AskProviders, TypedConsumer
  <2> QED BY <2>1, Parameters
<1> DEFINE known == Prune(Vias[at])
<1>2. known \in Entries BY <1>1, PruneType
<1> HIDE DEF known
<1>3. \/ entry' = [entry EXCEPT ![Vias[at]] = known] /\ merged' = Merge(known)
      \/ UNCHANGED <<entry, merged>>
  BY DEF AskProviders, known
<1>4. \A m \in merged' :
        m \in merged \/ \E p \in Nodes \ Seen : Routable(p) /\ m = Candidate(p) /\ m.node = p
  BY <1>2, <1>3, MergeAdds
<1>5. TypedDirectories' BY <1>2, <1>3 DEF AskProviders, TypedDirectories
<1>6. merged' \subseteq [node : Nodes, rank : Score]
  BY <1>4, CandidateType DEF TypedConsumer
<1>7. /\ pc' \in {"idle", "reputation", "providers"} /\ at' \in 0..Len(Vias)
      /\ pc' # "idle" => at' # 0
      /\ value' \in Nat /\ waited' \in Nat /\ UNCHANGED auth
  BY <1>1 DEF AskProviders, TypedConsumer
<1> QED BY <1>4, <1>5, <1>6, <1>7 DEF TypedConsumer

-----------------------------------------------------------------------------
LEMMA InitTyped == Init => Typed
<1> SUFFICES ASSUME Init PROVE Typed OBVIOUS
<1>1. TypedDirectories BY DiscoveryAssumption DEF Init, TypedDirectories, Entries
<1>2. TypedNodes BY Parameters DEF Init, TypedNodes
<1>3. TypedProber
  <2>1. << >> \in Seq(Nodes) /\ 0 \in 0..MaxRuns BY Parameters
  <2> QED BY <2>1 DEF Init, TypedProber
<1>4. TypedConsumer BY Parameters DEF Init, TypedConsumer
<1> QED BY <1>1, <1>2, <1>3, <1>4 DEF Typed

(* Every step keeps the types and forgets no verdict. *)
LEMMA TypedStep ==
  ASSUME Typed, [Next]_vars
  PROVE  Typed' /\ \A e \in Dirs, q \in Nodes : RemembersMore(rep[e][q], rep'[e][q])
<1>0. TypedDirectories /\ TypedNodes /\ TypedProber /\ TypedConsumer BY DEF Typed
<1> USE <1>0
<1> DEFINE Goal == Typed' /\ \A e \in Dirs, q \in Nodes : RemembersMore(rep[e][q], rep'[e][q])
<1>1. ASSUME NEW p \in Nodes, Announce(p) PROVE Goal
  <2>1. TypedNodes' BY <1>1, Parameters DEF Announce, TypedNodes
  <2> QED BY <1>1, <2>1, SameRemembers
       DEF Announce, Typed, TypedDirectories, TypedProber, TypedConsumer, prober, consumer
<1>2. ASSUME NEW d \in Dirs, NEW p \in Nodes, NEW behind \in 0..Oldest, Receive(d, p, behind)
      PROVE  Goal
  <2>1. last[p] + behind - Ahead[p] \in Int BY Parameters DEF TypedNodes
  <2>2. entry' \in [Dirs -> Entries] BY <1>2, <2>1, InsertType DEF Receive
  <2> QED BY <1>2, <2>2, SameRemembers
       DEF Receive, Typed, TypedDirectories, TypedNodes, TypedProber, TypedConsumer,
           nodes, prober, consumer
<1>3. ASSUME NEW d \in Dirs, StartCycle(d) PROVE Goal
  <2>1. TypedDirectories' /\ TypedProber' BY <1>3, CycleKeeps
  <2> QED BY <1>3, <2>1, SameRemembers
       DEF StartCycle, Typed, TypedNodes, TypedConsumer, nodes, consumer
<1>4. ASSUME NEW d \in Dirs, Probe(d) PROVE Goal
  BY <1>4, ProbeKeeps DEF Probe, Typed, TypedNodes, TypedConsumer, nodes, consumer
<1>5. ASSUME NEW d \in Dirs, Pause(d) PROVE Goal
  <2>1. TypedDirectories' /\ TypedProber' BY <1>5, PauseKeeps
  <2> QED BY <1>5, <2>1, SameRemembers
       DEF Pause, Typed, TypedNodes, TypedConsumer, nodes, consumer
<1>6. ASSUME NEW d \in Dirs, Restart(d) PROVE Goal
  BY <1>6, RestartKeeps, SameRemembers
     DEF Restart, Typed, TypedNodes, TypedConsumer, nodes, consumer
<1>7. ASSUME NEW worth \in Values, Begin(worth) PROVE Goal
  <2>1. TypedConsumer' BY <1>7, DiscoveryAssumption, Parameters DEF Begin, TypedConsumer
  <2> QED BY <1>7, <2>1, SameRemembers
       DEF Begin, Typed, TypedDirectories, TypedNodes, TypedProber, nodes, prober
<1>8. CASE AskReputation
  <2>1. TypedConsumer' BY <1>8, AskReputationKeeps
  <2>2. Goal BY <1>8, <2>1, SameRemembers
       DEF AskReputation, Typed, TypedDirectories, TypedNodes, TypedProber, nodes, prober
  <2> QED BY <2>2
<1>9. CASE AskProviders
  <2>1. TypedDirectories' /\ TypedConsumer' BY <1>9, AskProvidersKeeps
  <2>2. Goal BY <1>9, <2>1, SameRemembers
       DEF AskProviders, Typed, TypedNodes, TypedProber, nodes, prober
  <2> QED BY <2>2
<1>10. CASE Tick
  <2>1. TypedDirectories' /\ TypedNodes' /\ waited' \in Nat BY <1>10, TickKeeps
  <2>2. Goal BY <1>10, <2>1, SameRemembers DEF Tick, Typed, TypedProber, TypedConsumer, prober
  <2> QED BY <2>2
<1>11. CASE UNCHANGED vars
  <2>1. Goal BY <1>11, SameRemembers
       DEF vars, nodes, prober, consumer,
           Typed, TypedDirectories, TypedNodes, TypedProber, TypedConsumer
  <2> QED BY <2>1
<1> QED BY <1>1, <1>2, <1>3, <1>4, <1>5, <1>6, <1>7, <1>8, <1>9, <1>10, <1>11 DEF Next

LEMMA AlwaysTyped == Spec => []Typed
<1>1. Typed /\ [Next]_vars => Typed' BY TypedStep
<1> QED BY <1>1, InitTyped, PTL DEF Spec

(* Whatever the directories, the nodes and the order of what arrives: every *)
(* variable has its type, scores stay between 0 and 1, and a prober's cycle *)
(* keeps to its budget of canaries (reputation.rs, canary.rs).               *)
THEOREM DiscoveryTypeCorrect == Spec => []TypeOK
BY AlwaysTyped, TypedImpliesTypeOK, PTL

(* No directory ever forgets a verdict: probes of any length, of nodes in   *)
(* any order, crashes and restarts in between (directory.rs:31).             *)
THEOREM VerdictsStay == Spec => VerdictsAreKept
<1> DEFINE Remembered == \A d \in Dirs, p \in Nodes : rep[d][p] # Unprobed =>
                           /\ rep'[d][p] # Unprobed
                           /\ rep'[d][p].fail >= rep[d][p].fail
                           /\ rep'[d][p].pass >= rep[d][p].pass
<1>1. Typed /\ [Next]_vars => [Remembered]_vars BY TypedStep DEF RemembersMore
<1>2. Typed /\ [Next]_vars => Typed' BY TypedStep
<1> HIDE DEF Remembered
<1>3. Spec => [][Remembered]_vars BY <1>1, <1>2, InitTyped, PTL DEF Spec
<1> QED BY <1>3 DEF VerdictsAreKept, Remembered

(* A live announcement is refused only by a directory that is full of live  *)
(* announcements of other nodes, for any cap, clocks and order of arrival    *)
(* (directory.rs insert).                                                    *)
LEMMA RefusalMeansFull ==
  ASSUME Typed, NEW d \in Dirs, NEW p \in Nodes, NEW behind \in 0..Oldest,
         entry'[d][p] = Gone, Receive(d, p, behind)
  PROVE  Cardinality(Listed(Prune(d)) \ {p}) >= MaxAnnouncements
<1> DEFINE age == last[p] + behind - Ahead[p]
           known == Prune(d)
           full == known[p] = Gone /\ Cardinality(Listed(known)) >= MaxAnnouncements
           kept == IF full THEN known ELSE [known EXCEPT ![p] = age]
<1>1. age \in Int /\ entry \in [Dirs -> Entries]
  BY Parameters DEF Typed, TypedNodes, TypedDirectories
<1>2. known \in Entries BY PruneType DEF Typed
<1>3. entry'[d] = kept BY <1>1 DEF Receive, Insert
<1>4. full
  <2> SUFFICES ASSUME ~ full PROVE FALSE OBVIOUS
  <2>1. kept[p] = age BY <1>2 DEF Entries
  <2> QED BY <1>1, <1>3, <2>1, Parameters
<1>5. Listed(known) \ {p} = Listed(known) BY <1>4 DEF Listed
<1> QED BY <1>4, <1>5

THEOREM NoLivePlaceIsLost == Spec => RefusedOnlyWhenFull
<1> DEFINE Fair == \A d \in Dirs, p \in Nodes, behind \in 0..Oldest :
                     LET age == last[p] + behind - Ahead[p] IN
                     Fresh(age) /\ entry'[d][p] = Gone /\ Receive(d, p, behind) =>
                       Cardinality(Listed(Prune(d)) \ {p}) >= MaxAnnouncements
<1>1. Typed => Fair BY RefusalMeansFull
<1>2. Typed /\ [Next]_vars => Typed' BY TypedStep
<1> HIDE DEF Fair
<1>3. Spec => [][Fair]_vars BY <1>1, <1>2, InitTyped, PTL DEF Spec
<1> QED BY <1>3 DEF RefusedOnlyWhenFull, Fair

-----------------------------------------------------------------------------
(* The consumer's ranking. *)

(* A node of the merged list is ranked by what it says of itself, or by a   *)
(* score of a directory that is above the floor and allows the job; it is    *)
(* never ranked above the best score known.                                  *)
Ranked(m) ==
  \/ m.rank = SelfReport[m.node]
  \/ /\ auth[m.node] # Unprobed /\ m.rank <= auth[m.node]
     /\ m.rank >= Floor /\ MayTake(m.rank, value)

RanksAreEarned ==
  /\ \A m \in merged : Ranked(m)
  /\ \A m, n \in merged : m.node = n.node => m = n

LEMMA RankedCandidate ==
  ASSUME TypedConsumer, NEW p \in Nodes, Routable(p)
  PROVE  Ranked(Candidate(p))
<1>1. auth[p] # Unprobed => auth[p] \in Score BY DEF TypedConsumer
<1>2. \A n \in Score : n \in Int BY Parameters DEF Score
<1> QED BY <1>1, <1>2 DEF Routable, Candidate, Ranked

LEMMA RanksStep ==
  ASSUME Typed, RanksAreEarned, [Next]_vars
  PROVE  RanksAreEarned'
<1>0. TypedDirectories /\ TypedConsumer BY DEF Typed
<1>1. CASE UNCHANGED <<auth, merged, value>>
  BY <1>1 DEF RanksAreEarned, Ranked
<1>2. ASSUME NEW worth \in Values, Begin(worth) PROVE RanksAreEarned'
  BY <1>2 DEF Begin, RanksAreEarned
<1>3. CASE AskReputation
  <2>1. \A p \in Nodes : auth[p] # Unprobed => auth'[p] # Unprobed /\ auth'[p] >= auth[p]
    BY <1>0, <1>3, AskReputationKeeps
  <2>2. UNCHANGED <<merged, value>> BY <1>3 DEF AskReputation
  <2>3. ASSUME NEW m \in merged PROVE Ranked(m)'
    <3>1. m.node \in Nodes /\ m.rank \in Score BY <1>0 DEF TypedConsumer
    <3>2. Ranked(m) BY DEF RanksAreEarned
    <3>3. CASE m.rank = SelfReport[m.node] BY <3>3 DEF Ranked
    <3>4. CASE m.rank # SelfReport[m.node]
      <4>1. /\ auth[m.node] # Unprobed /\ m.rank <= auth[m.node]
            /\ m.rank >= Floor /\ MayTake(m.rank, value)
        BY <3>2, <3>4 DEF Ranked
      <4>2. auth'[m.node] # Unprobed /\ auth'[m.node] >= auth[m.node] BY <2>1, <3>1, <4>1
      <4>3. auth[m.node] \in Score /\ auth'[m.node] \in Score
        <5>1. TypedConsumer' BY <1>0, <1>3, AskReputationKeeps
        <5> QED BY <1>0, <3>1, <4>1, <4>2, <5>1 DEF TypedConsumer
      <4>4. \A n \in Score : n \in Int BY Parameters DEF Score
      <4>5. m.rank <= auth'[m.node] BY <3>1, <4>1, <4>2, <4>3, <4>4
      <4>6. MayTake(m.rank, value)' BY <2>2, <4>1 DEF MayTake, MaxJob
      <4> QED BY <4>1, <4>2, <4>5, <4>6 DEF Ranked
    <3> QED BY <3>3, <3>4
  <2> QED BY <2>2, <2>3 DEF RanksAreEarned
<1>4. CASE AskProviders
  <2>1. \A m \in merged' :
          m \in merged \/ \E p \in Nodes \ Seen : Routable(p) /\ m = Candidate(p) /\ m.node = p
    BY <1>0, <1>4, AskProvidersKeeps
  <2>2. UNCHANGED <<auth, value>> BY <1>4 DEF AskProviders
  <2>3. \A m \in merged' : Ranked(m)
    BY <1>0, <2>1, RankedCandidate DEF RanksAreEarned
  <2>4. \A m \in merged' : Ranked(m)' BY <2>2, <2>3 DEF Ranked, MayTake, MaxJob
  <2>5. ASSUME NEW m \in merged', NEW n \in merged', m.node = n.node PROVE m = n
    <3>1. CASE m \in merged /\ n \in merged BY <2>5, <3>1 DEF RanksAreEarned
    <3>2. CASE m \in merged /\ n \notin merged
      BY <2>1, <2>5, <3>2 DEF Seen
    <3>3. CASE m \notin merged /\ n \in merged
      BY <2>1, <2>5, <3>3 DEF Seen
    <3>4. CASE m \notin merged /\ n \notin merged
      BY <2>1, <2>5, <3>4
    <3> QED BY <3>1, <3>2, <3>3, <3>4
  <2> QED BY <2>4, <2>5 DEF RanksAreEarned
<1>5. ASSUME NEW p \in Nodes, Announce(p) PROVE UNCHANGED <<auth, merged, value>>
  BY <1>5 DEF Announce, consumer
<1>6. ASSUME NEW d \in Dirs,
             \/ \E p \in Nodes, behind \in 0..Oldest : Receive(d, p, behind)
             \/ StartCycle(d) \/ Probe(d) \/ Pause(d) \/ Restart(d)
      PROVE  UNCHANGED <<auth, merged, value>>
  BY <1>6 DEF Receive, StartCycle, Probe, Pause, Restart, consumer
<1>7. CASE Tick BY <1>1, <1>7 DEF Tick
<1>8. CASE UNCHANGED vars BY <1>1, <1>8 DEF vars, consumer
<1> QED BY <1>1, <1>2, <1>3, <1>4, <1>5, <1>6, <1>7, <1>8 DEF Next

(* Over any number of directories: a node is listed once, and ranked by     *)
(* its own word or by an earned score, one that the best directory confirms  *)
(* and that allows the job (client.rs:152).                                  *)
THEOREM RanksAreNotInvented == Spec => []RanksAreEarned
<1>1. Init => RanksAreEarned BY DEF Init, RanksAreEarned
<1>2. Typed /\ RanksAreEarned /\ [Next]_vars => RanksAreEarned' BY RanksStep
<1> QED BY <1>1, <1>2, AlwaysTyped, PTL DEF Spec

(* With one directory nothing is listed before its scores are known. *)
NothingYet == pc # "idle" => merged = {}

LEMMA OneDirectoryStep ==
  ASSUME Len(Vias) = 1, Typed, NothingYet, RankedOnEarnedTrust, [Next]_vars
  PROVE  NothingYet' /\ RankedOnEarnedTrust'
<1>0. TypedDirectories /\ TypedConsumer BY DEF Typed
<1>1. CASE UNCHANGED <<pc, auth, merged, value>>
  BY <1>1 DEF NothingYet, RankedOnEarnedTrust, MayTake, MaxJob
<1>2. ASSUME NEW worth \in Values, Begin(worth) PROVE NothingYet' /\ RankedOnEarnedTrust'
  BY <1>2 DEF Begin, NothingYet, RankedOnEarnedTrust
<1>3. CASE AskReputation
  <2>1. merged = {} /\ merged' = {} /\ pc' = "providers" BY <1>3 DEF AskReputation, NothingYet
  <2> QED BY <2>1 DEF NothingYet, RankedOnEarnedTrust
<1>4. CASE AskProviders
  <2>1. merged = {} /\ UNCHANGED <<auth, value>> BY <1>4 DEF AskProviders, NothingYet
  <2>2. pc' = "idle"
    <3>1. at = 1 BY <1>0, <1>4 DEF AskProviders, TypedConsumer
    <3> QED BY <3>1, <1>4 DEF AskProviders
  <2>3. \A m \in merged' : \E p \in Nodes : Routable(p) /\ m = Candidate(p) /\ m.node = p
    BY <1>0, <1>4, <2>1, AskProvidersKeeps
  <2>4. ASSUME NEW m \in merged', auth[m.node] # Unprobed
        PROVE  m.rank = auth[m.node] /\ m.rank >= Floor /\ MayTake(m.rank, value)
    <3>1. PICK p \in Nodes : Routable(p) /\ m = Candidate(p) /\ m.node = p BY <2>3
    <3>2. m.rank = auth[p] BY <2>4, <3>1 DEF Candidate
    <3> QED BY <2>4, <3>1, <3>2 DEF Routable
  <2>5. RankedOnEarnedTrust' BY <2>1, <2>4 DEF RankedOnEarnedTrust, MayTake, MaxJob
  <2> QED BY <2>2, <2>5 DEF NothingYet
<1>5. ASSUME NEW p \in Nodes, Announce(p) PROVE UNCHANGED <<pc, auth, merged, value>>
  BY <1>5 DEF Announce, consumer
<1>6. ASSUME NEW d \in Dirs,
             \/ \E p \in Nodes, behind \in 0..Oldest : Receive(d, p, behind)
             \/ StartCycle(d) \/ Probe(d) \/ Pause(d) \/ Restart(d)
      PROVE  UNCHANGED <<pc, auth, merged, value>>
  BY <1>6 DEF Receive, StartCycle, Probe, Pause, Restart, consumer
<1>7. CASE Tick BY <1>1, <1>7 DEF Tick
<1>8. CASE UNCHANGED vars BY <1>1, <1>8 DEF vars, consumer
<1> QED BY <1>1, <1>2, <1>3, <1>4, <1>5, <1>6, <1>7, <1>8 DEF Next

(* Whoever asks one directory ranks every node that this directory has a    *)
(* score of by that score, and routes to none that is below the floor or     *)
(* may not take the job (client.rs:152).  With two directories it is not     *)
(* so: the second may know the score of a node that the first listed.        *)
THEOREM OneDirectoryIsTrusted ==
  ASSUME Len(Vias) = 1
  PROVE  Spec => []RankedOnEarnedTrust
<1>1. Init => NothingYet /\ RankedOnEarnedTrust BY DEF Init, NothingYet, RankedOnEarnedTrust
<1>2. Typed /\ (NothingYet /\ RankedOnEarnedTrust) /\ [Next]_vars
        => (NothingYet /\ RankedOnEarnedTrust)'
  BY OneDirectoryStep
<1> QED BY <1>1, <1>2, AlwaysTyped, PTL DEF Spec
==============================================================================

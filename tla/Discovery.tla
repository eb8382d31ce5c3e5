----------------------------- MODULE Discovery -----------------------------
(***************************************************************************)
(* Discovery and earned reputation (directory.rs, reputation.rs, canary.rs, *)
(* common/sig.rs, the heartbeat of main.rs, client.rs fetch_providers).     *)
(*                                                                         *)
(* Providers push signed announcements to directories; a directory probes  *)
(* the listed ones with canaries, keeps a score of each in memory and in a  *)
(* file, and hands out both; a consumer asks its directories one after the  *)
(* other, first for the scores, then for the list, and merges.              *)
(*                                                                         *)
(* There is no clock: an announcement has an age, now - issued_at, that     *)
(* Tick advances (one tick is a heartbeat).  A node whose clock is ahead    *)
(* issues announcements of negative age.  Signatures are not forged.        *)
(* Scores are fractions of Scale, rounded down where the code has f64.      *)
(***************************************************************************)
EXTENDS Integers, Sequences, FiniteSets, SequencesExt, FiniteSetsExt

CONSTANTS
  Nodes, Dirs,
  Vias,               \* the directories of the consumer, in its order
  Ahead,              \* Ahead[p]: how far the clock of p is ahead
  Failing,            \* nodes whose answer may fail a canary: they run another
                      \* model, or their worker failed: the error object it
                      \* returns has no output and reads as an empty answer
  SelfReport,         \* the reputation a node announces of itself
  Values,             \* what jobs are worth, in micro-USDC
  Prior,              \* Prior[p]: what directories have on file of p at first
  Unprobed,           \* no entry in a registry
  Gone,               \* no entry in by_node
  Scale, Floor,       \* REPUTATION_ROUTING_FLOOR
  Bank,               \* canaries of a probe
  MaxRuns,            \* of a prober's cycle
  MaxAnnouncements,
  Ttl, Skew,          \* ANNOUNCE_TTL_SECS, ANNOUNCE_MAX_SKEW_SECS, in ticks
  MaxCycles, MaxRestarts, MaxWait  \* bounds: cycles of a prober, restarts of a
                                   \* directory, ticks during one fetch

Score == 0..Scale
Record == [score : Score, pass : Nat, fail : Nat]

ASSUME DiscoveryAssumption ==
  /\ IsFiniteSet(Nodes)
  /\ Vias \in Seq(Dirs) /\ Vias # << >>
  /\ Ahead \in [Nodes -> Int] /\ SelfReport \in [Nodes -> Score]
  /\ Prior \in [Nodes -> Record \cup {Unprobed}]
  /\ Unprobed \notin Record \cup Score /\ Gone \notin Int
  /\ Failing \subseteq Nodes /\ Values \subseteq Nat
  /\ Scale \in Nat /\ Floor \in 0..Scale
  /\ Bank \in Nat \ {0} /\ MaxRuns \in Nat \ {0} /\ MaxAnnouncements \in Nat
  /\ Ttl \in Nat /\ Skew \in Nat
  /\ MaxCycles \in Nat /\ MaxRestarts \in Nat /\ MaxWait \in Nat

VARIABLES
  last,      \* last[p]: true age of p's latest announcement
  entry,     \* entry[d][p]: `by_node', the age of the announcement kept of p
  rep, file, \* rep[d][p]: `reputation'; the same as saved
  queue,     \* queue[d]: targets left in the prober's cycle
  used,      \* used[d]: `used' of the cycle's CanaryBudget, 0 between cycles
  pc, at,    \* what the consumer asks next, of which directory
  value,     \* of its job
  waited,    \* ticks since its fetch began, 0 between fetches
  auth,      \* `authoritative'
  merged,    \* `merged'
  cycles, restarts  \* bounded by MaxCycles, MaxRestarts

nodes == <<last>>
prober == <<queue, used, cycles>>
consumer == <<pc, at, value, waited, auth, merged>>
vars == <<nodes, entry, rep, file, prober, consumer, restarts>>

Oldest == Ttl + Skew + 1

-----------------------------------------------------------------------------
(* Announcements. *)

Fresh(age) == age <= Ttl /\ -age <= Skew

Prune(d) == [p \in Nodes |-> IF entry[d][p] # Gone /\ Fresh(entry[d][p])
                             THEN entry[d][p] ELSE Gone]
Listed(known) == {p \in Nodes : known[p] # Gone}

Announce(p) ==
  /\ last[p] > 0
  /\ last' = [last EXCEPT ![p] = 0]
  /\ UNCHANGED <<entry, rep, file, prober, consumer, restarts>>

(* Mutant: expired entries still take room. *)
InsertThenPrune(d, p, age) ==
  /\ Fresh(age)
  /\ entry' = [entry EXCEPT ![d] =
       IF entry[d][p] = Gone /\ Cardinality(Listed(entry[d])) >= MaxAnnouncements
       THEN Prune(d) ELSE [Prune(d) EXCEPT ![p] = age]]

Insert(d, p, age) ==
  /\ Fresh(age)
  /\ entry' = [entry EXCEPT ![d] =
       LET known == Prune(d) IN
       IF known[p] = Gone /\ Cardinality(Listed(known)) >= MaxAnnouncements
       THEN known ELSE [known EXCEPT ![p] = age]]

(* The latest announcement of p arrives, or an earlier one does, late or     *)
(* again: anybody may pass it on.  Announcements that are lost do nothing.   *)
Receive(d, p, behind) ==
  /\ last[p] + behind < Oldest
  /\ Insert(d, p, last[p] + behind - Ahead[p])
  /\ UNCHANGED <<nodes, rep, file, prober, consumer, restarts>>

-----------------------------------------------------------------------------
(* Canaries and the prober. *)

NewRecord == [score |-> 0, pass |-> 0, fail |-> 0]
Known(r) == IF r = Unprobed THEN NewRecord ELSE r

RecordCanary(r, passed) ==
  IF passed
  THEN [r EXCEPT !.pass = @ + 1, !.score = @ + (Scale - @) \div 20]
  ELSE [r EXCEPT !.fail = @ + 1, !.score = @ \div 4]

(* The verdicts of a probe; a canary without an answer has none. *)
Verdicts(p) ==
  UNION {[1..n -> IF p \in Failing THEN BOOLEAN ELSE {TRUE}] : n \in 0..Bank}

ScoreOf(d, p) == Known(rep[d][p]).score

(* The listed nodes, the least trusted first. *)
Ordered(d, targets) == \A i, j \in DOMAIN targets :
                         i < j => ScoreOf(d, targets[i]) <= ScoreOf(d, targets[j])

Orders(d) == {targets \in SetToSeqs(Listed(Prune(d))) : Ordered(d, targets)}

StartCycle(d) ==
  /\ queue[d] = << >>
  /\ cycles[d] < MaxCycles
  /\ entry' = [entry EXCEPT ![d] = Prune(d)]
  /\ \E targets \in Orders(d) : queue' = [queue EXCEPT ![d] = targets]
  /\ cycles' = [cycles EXCEPT ![d] = @ + 1]
  /\ UNCHANGED <<nodes, rep, file, used, consumer, restarts>>

(* The verdicts are recorded one by one. *)
Recorded(r, verdicts) ==
  LET after[n \in 0..Len(verdicts)] ==
        IF n = 0 THEN r ELSE RecordCanary(after[n - 1], verdicts[n])
  IN  after[Len(verdicts)]

(* Mutant: a probe is saved before it is recorded. *)
RecordProbeLate(d, p, verdicts) ==
  /\ rep' = [rep EXCEPT ![d][p] = Recorded(Known(@), verdicts)]
  /\ file' = [file EXCEPT ![d] = rep[d]]

(* Recorded and saved under one lock. *)
RecordProbe(d, p, verdicts) ==
  /\ rep' = [rep EXCEPT ![d][p] = Recorded(Known(@), verdicts)]
  /\ file' = [file EXCEPT ![d] = rep'[d]]

(* Mutant: the budget is not asked. *)
ProbeUnbudgeted(d) ==
  /\ queue[d] # << >>
  /\ used' = [used EXCEPT ![d] = @ + 1]
  /\ queue' = [queue EXCEPT ![d] = Tail(@)]
  /\ UNCHANGED <<nodes, entry, rep, file, consumer, cycles, restarts>>

Probe(d) ==
  /\ queue[d] # << >> /\ used[d] < MaxRuns
  /\ used' = [used EXCEPT ![d] = IF Len(queue[d]) = 1 THEN 0 ELSE @ + 1]
  /\ queue' = [queue EXCEPT ![d] = Tail(@)]
  /\ \E verdicts \in Verdicts(Head(queue[d])) :
       IF verdicts = << >> THEN UNCHANGED <<rep, file>>
       ELSE RecordProbe(d, Head(queue[d]), verdicts)
  /\ UNCHANGED <<nodes, entry, consumer, cycles, restarts>>

(* The budget of the cycle is spent. *)
Pause(d) ==
  /\ queue[d] # << >> /\ used[d] = MaxRuns
  /\ queue' = [queue EXCEPT ![d] = << >>]
  /\ used' = [used EXCEPT ![d] = 0]
  /\ UNCHANGED <<nodes, entry, rep, file, cycles, consumer, restarts>>

(* The directory's process ends and is started again. *)
Restart(d) ==
  /\ restarts < MaxRestarts
  /\ restarts' = restarts + 1
  /\ entry' = [entry EXCEPT ![d] = [p \in Nodes |-> Gone]]
  /\ rep' = [rep EXCEPT ![d] = file[d]]
  /\ queue' = [queue EXCEPT ![d] = << >>]
  /\ used' = [used EXCEPT ![d] = 0]
  /\ UNCHANGED <<nodes, file, cycles, consumer>>

-----------------------------------------------------------------------------
(* The consumer: fetch_providers. *)

MaxJob(score) == CASE 100 * score >= 95 * Scale -> 10000000
                   [] 100 * score >= 80 * Scale /\ 100 * score < 95 * Scale -> 1000000
                   [] 100 * score >= 50 * Scale /\ 100 * score < 80 * Scale -> 100000
                   [] OTHER -> 10000
MayTake(score, worth) == worth = 0 \/ worth <= MaxJob(score)

Begin(worth) ==
  /\ pc = "idle"
  /\ pc' = "reputation" /\ at' = 1 /\ value' = worth /\ waited' = 0
  /\ auth' = [p \in Nodes |-> Unprobed] /\ merged' = {}
  /\ UNCHANGED <<nodes, entry, rep, file, prober, restarts>>

(* The scores of a directory; none if it does not answer. *)
AskReputation ==
  /\ pc = "reputation"
  /\ pc' = "providers"
  /\ \/ auth' = [p \in Nodes |->
          IF rep[Vias[at]][p] = Unprobed THEN auth[p]
          ELSE IF auth[p] = Unprobed THEN rep[Vias[at]][p].score
          ELSE Max({auth[p], rep[Vias[at]][p].score})]
     \/ UNCHANGED auth
  /\ UNCHANGED <<nodes, entry, rep, file, prober, at, value, waited, merged, restarts>>

Routable(p) == auth[p] = Unprobed \/ (auth[p] >= Floor /\ MayTake(auth[p], value))

(* Mutant: the announced reputation is never overridden. *)
AsReported(p) == [node |-> p, rank |-> SelfReport[p]]

Candidate(p) == [node |-> p, rank |-> IF auth[p] = Unprobed THEN SelfReport[p] ELSE auth[p]]

Seen == {m.node : m \in merged}

(* The consumer judges ages by the time at which its fetch began. *)
Merge(known) ==
  merged \cup {Candidate(p) : p \in {q \in Listed(known) \ Seen :
                                        Fresh(known[q] - waited) /\ Routable(q)}}

(* Its list, pruned; none if it does not answer. *)
AskProviders ==
  /\ pc = "providers"
  /\ \/ /\ entry' = [entry EXCEPT ![Vias[at]] = Prune(Vias[at])]
        /\ merged' = Merge(Prune(Vias[at]))
     \/ UNCHANGED <<entry, merged>>
  /\ IF at < Len(Vias) THEN pc' = "reputation" /\ at' = at + 1 /\ waited' = waited
                       ELSE pc' = "idle" /\ at' = 0 /\ waited' = 0
  /\ UNCHANGED <<nodes, rep, file, prober, value, auth, restarts>>

-----------------------------------------------------------------------------
Tick ==
  /\ pc = "idle" \/ waited < MaxWait
  /\ waited' = IF pc = "idle" THEN waited ELSE waited + 1
  /\ last' = [p \in Nodes |-> Min({last[p] + 1, Oldest})]
  /\ entry' = [d \in Dirs |-> [p \in Nodes |->
       IF entry[d][p] = Gone THEN Gone ELSE Min({entry[d][p] + 1, Ttl + 1})]]
  /\ UNCHANGED <<rep, file, prober, pc, at, value, auth, merged, restarts>>

Init ==
  /\ last = [p \in Nodes |-> Oldest]
  /\ entry = [d \in Dirs |-> [p \in Nodes |-> Gone]]
  /\ file = [d \in Dirs |-> Prior] /\ rep = file
  /\ queue = [d \in Dirs |-> << >>] /\ used = [d \in Dirs |-> 0]
  /\ pc = "idle" /\ at = 0 /\ value = 0 /\ waited = 0
  /\ auth = [p \in Nodes |-> Unprobed] /\ merged = {}
  /\ cycles = [d \in Dirs |-> 0] /\ restarts = 0

Next ==
  \/ \E p \in Nodes : Announce(p)
  \/ \E d \in Dirs :
       \/ \E p \in Nodes, behind \in 0..Oldest : Receive(d, p, behind)
       \/ StartCycle(d) \/ Probe(d) \/ Pause(d) \/ Restart(d)
  \/ \E worth \in Values : Begin(worth)
  \/ AskReputation \/ AskProviders
  \/ Tick

Spec == Init /\ [][Next]_vars

-----------------------------------------------------------------------------
(* Properties. *)

TypeOK ==
  /\ last \in [Nodes -> 0..Oldest]
  /\ \A d \in Dirs, p \in Nodes :
       /\ entry[d][p] = Gone \/ entry[d][p] \in -Skew..Ttl + 1
       /\ {rep[d][p], file[d][p]} \subseteq Record \cup {Unprobed}
       /\ auth[p] \in Score \cup {Unprobed}
  /\ \A d \in Dirs : queue[d] \in Seq(Nodes) /\ used[d] \in 0..MaxRuns
  /\ pc \in {"idle", "reputation", "providers"} /\ at \in 0..Len(Vias)
  /\ merged \subseteq [node : Nodes, rank : Score]

(* An announcement in time is turned away only by a directory full of live  *)
(* announcements of others (directory.rs insert: no node loses its place to  *)
(* the cap, and none is kept out by the dead).                               *)
RefusedOnlyWhenFull ==
  [][\A d \in Dirs, p \in Nodes, behind \in 0..Oldest :
       LET age == last[p] + behind - Ahead[p] IN
       Fresh(age) /\ entry'[d][p] = Gone /\ Receive(d, p, behind) =>
         Cardinality(Listed(Prune(d)) \ {p}) >= MaxAnnouncements]_vars

(* What a directory has found out about a node it never forgets, not even   *)
(* in a restart: neither a failed canary nor earned passes                   *)
(* (directory.rs:31, "a restart keeps earned trust").                        *)
VerdictsAreKept ==
  [][\A d \in Dirs, p \in Nodes : rep[d][p] # Unprobed =>
       /\ rep'[d][p] # Unprobed
       /\ rep'[d][p].fail >= rep[d][p].fail
       /\ rep'[d][p].pass >= rep[d][p].pass]_vars

(* When the consumer has asked its directories, each node it may route to   *)
(* and of which one of them has a score is ranked by the best of these       *)
(* scores, not by its self-report, and that score is above the floor and     *)
(* allows a job of this value (client.rs:152).                               *)
RankedOnEarnedTrust ==
  pc = "idle" => \A m \in merged : auth[m.node] # Unprobed =>
    m.rank = auth[m.node] /\ m.rank >= Floor /\ MayTake(m.rank, value)

(* A node below the floor has failed a canary (reputation.rs:171); not so.   *)
BelowFloorHasFailed ==
  \A d \in Dirs, p \in Nodes :
    rep[d][p] # Unprobed /\ rep[d][p].score < Floor => rep[d][p].fail > 0
==============================================================================

--------------------------- MODULE VmManagerProofs ---------------------------
(***************************************************************************)
(* Theorems about VmManager, for every set of identities and handlers,      *)
(* every size of a machine and every number of restarts.                     *)
(***************************************************************************)
EXTENDS VmManager, FiniteSetTheorems, TLAPS

-----------------------------------------------------------------------------
(* Sums of what records, containers or processes hold. *)

Share(held, S, x) == IF x \in S THEN held[x].need ELSE 0

(* What one holds, unit by unit.                                             *)
LEMMA OwnUnits ==
  ASSUME NEW x, NEW n \in Nat
  PROVE  IsFiniteSet({x} \X (1 .. n)) /\ Cardinality({x} \X (1 .. n)) = n
<1>1. IsFiniteSet({x}) /\ Cardinality({x}) = 1
  BY FS_Singleton
<1>2. IsFiniteSet(1 .. n) /\ Cardinality(1 .. n) = IF 1 > n THEN 0 ELSE n - 1 + 1
  BY FS_Interval
<1>3. Cardinality(1 .. n) = n
  BY <1>2
<1>4. Cardinality({x} \X (1 .. n)) = Cardinality({x}) * Cardinality(1 .. n)
  BY <1>1, <1>2, FS_Product
<1>5. QED
  BY <1>1, <1>2, <1>3, <1>4, FS_Product

(* The units that finitely many hold are finitely many.                      *)
LEMMA UnitsAreFinite ==
  ASSUME NEW held, NEW S, IsFiniteSet(S), \A x \in S : held[x].need \in Nat
  PROVE  IsFiniteSet(Units(held, S)) /\ Total(held, S) \in Nat
<1> DEFINE F == {{x} \X (1 .. held[x].need) : x \in S}
           f == [x \in S |-> {x} \X (1 .. held[x].need)]
<1>1. f \in Surjection(S, F)
  BY DEF Surjection
<1>2. IsFiniteSet(F)
  BY <1>1, FS_Surjection
<1>3. ASSUME NEW U \in F PROVE IsFiniteSet(U)
  <2>1. PICK x \in S : U = {x} \X (1 .. held[x].need)
    OBVIOUS
  <2>2. QED
    BY <2>1, OwnUnits
<1>4. IsFiniteSet(UNION F)
  BY <1>2, <1>3, FS_UNION
<1>5. QED
  BY <1>4, FS_CardinalityType DEF Units, Total

(* Who holds nothing adds nothing. *)
LEMMA TotalOfNone ==
  ASSUME NEW held PROVE Total(held, {}) = 0
<1>1. Units(held, {}) = {}
  BY DEF Units
<1>2. QED
  BY <1>1, FS_EmptySet DEF Total

(* One member of the set contributes what it holds. *)
LEMMA TotalWithout ==
  ASSUME NEW held, NEW S, IsFiniteSet(S), \A x \in S : held[x].need \in Nat, NEW x
  PROVE  /\ Total(held, S \ {x}) \in Nat
         /\ Total(held, S) = Total(held, S \ {x}) + Share(held, S, x)
<1>1. IsFiniteSet(S \ {x})
  BY FS_RemoveElement
<1>2. IsFiniteSet(Units(held, S \ {x})) /\ Total(held, S \ {x}) \in Nat
  BY <1>1, UnitsAreFinite
<1>3. CASE x \notin S
  <2>1. S \ {x} = S
    BY <1>3
  <2>2. Total(held, S) = Total(held, S \ {x})
    BY <2>1
  <2>3. Share(held, S, x) = 0
    BY <1>3 DEF Share
  <2>4. QED
    BY <2>2, <2>3, <1>2
<1>4. CASE x \in S
  <2> DEFINE own == {x} \X (1 .. held[x].need)
  <2>2. held[x].need \in Nat
    BY <1>4
  <2>4. IsFiniteSet(own) /\ Cardinality(own) = held[x].need
    BY <2>2, OwnUnits
  <2>5. Units(held, S) = Units(held, S \ {x}) \cup own
    BY <1>4 DEF Units
  <2>6. Units(held, S \ {x}) \cap own = {}
    BY DEF Units
  <2>7. Cardinality({}) = 0
    BY FS_EmptySet
  <2> HIDE DEF own
  <2>8. Cardinality(Units(held, S)) =
          Cardinality(Units(held, S \ {x})) + Cardinality(own)
            - Cardinality(Units(held, S \ {x}) \cap own)
    BY <1>2, <2>4, <2>5, FS_Union
  <2>9. Share(held, S, x) = Cardinality(own)
    BY <1>4, <2>4 DEF Share
  <2>10. Cardinality(Units(held, S) ) = Cardinality(Units(held, S \ {x})) + Cardinality(own) - 0
    BY <2>6, <2>7, <2>8
  <2>11. Total(held, S) = Total(held, S \ {x}) + Share(held, S, x) - 0
    BY <2>9, <2>10 DEF Total
  <2>12. Share(held, S, x) \in Nat
    BY <2>2, <2>4, <2>9
  <2>13. QED
    BY <1>2, <2>11, <2>12
<1>5. QED
  BY <1>3, <1>4

(* A sum changes by what changes at one place. *)
LEMMA TotalChanges ==
  ASSUME NEW f, NEW g, NEW S, NEW T, NEW x, IsFiniteSet(S), IsFiniteSet(T),
         \A y \in S : f[y].need \in Nat, \A y \in T : g[y].need \in Nat,
         S \ {x} = T \ {x}, \A y \in S \ {x} : g[y].need = f[y].need
  PROVE  /\ Total(f, S) \in Nat /\ Total(g, T) \in Nat
         /\ Share(f, S, x) \in Nat /\ Share(g, T, x) \in Nat
         /\ Total(g, T) + Share(f, S, x) = Total(f, S) + Share(g, T, x)
<1>1. Units(f, S \ {x}) = Units(g, T \ {x})
  BY DEF Units
<1>2. Total(f, S \ {x}) = Total(g, T \ {x})
  BY <1>1 DEF Total
<1>3. Share(f, S, x) \in Nat /\ Share(g, T, x) \in Nat
  BY DEF Share
<1>4. Total(f, S \ {x}) \in Nat /\ Total(f, S) = Total(f, S \ {x}) + Share(f, S, x)
  BY TotalWithout
<1>5. Total(g, T \ {x}) \in Nat /\ Total(g, T) = Total(g, T \ {x}) + Share(g, T, x)
  BY TotalWithout
<1>6. QED
  BY <1>2, <1>3, <1>4, <1>5

(* Whoever is matched with somebody who holds as much holds no more in sum. *)
LEMMA TotalMatched ==
  ASSUME NEW f, NEW g, NEW S, NEW T, NEW m \in [S -> T],
         IsFiniteSet(S), IsFiniteSet(T),
         \A y \in S : f[y].need \in Nat, \A y \in T : g[y].need \in Nat,
         \A y, z \in S : m[y] = m[z] => y = z,
         \A y \in S : f[y].need <= g[m[y]].need
  PROVE  Total(f, S) <= Total(g, T)
<1> DEFINE h == [u \in Units(f, S) |-> <<m[u[1]], u[2]>>]
<1>1. ASSUME NEW u \in Units(f, S)
      PROVE  /\ u = <<u[1], u[2]>> /\ u[1] \in S /\ u[2] \in 1 .. f[u[1]].need
             /\ h[u] \in Units(g, T)
  <2>1. PICK x \in S : u \in {x} \X (1 .. f[x].need)
    BY DEF Units
  <2>2. u = <<u[1], u[2]>> /\ u[1] = x /\ u[2] \in 1 .. f[x].need
    BY <2>1
  <2>3. m[x] \in T /\ f[x].need \in Nat /\ g[m[x]].need \in Nat /\ f[x].need <= g[m[x]].need
    OBVIOUS
  <2>4. u[2] \in 1 .. g[m[x]].need
    BY <2>2, <2>3
  <2>5. <<m[x], u[2]>> \in {m[x]} \X (1 .. g[m[x]].need)
    BY <2>4
  <2>6. <<m[x], u[2]>> \in Units(g, T)
    BY <2>3, <2>5 DEF Units
  <2>7. QED
    BY <2>2, <2>6
<1>2. ASSUME NEW u \in Units(f, S), NEW v \in Units(f, S), h[u] = h[v]
      PROVE  u = v
  <2>1. m[u[1]] = m[v[1]] /\ u[2] = v[2]
    BY <1>2
  <2>2. u[1] = v[1]
    BY <2>1, <1>1
  <2>3. QED
    BY <2>1, <2>2, <1>1
<1>3. h \in [Units(f, S) -> Units(g, T)]
  BY <1>1
<1>4. h \in Injection(Units(f, S), Units(g, T))
  BY <1>2, <1>3 DEF Injection, IsInjective
<1>5. IsFiniteSet(Units(g, T))
  BY UnitsAreFinite
<1>6. QED
  BY <1>4, <1>5, FS_Injection DEF Total

-----------------------------------------------------------------------------
(* The inductive invariants. *)

Starting(c) == proc[c].pc \in {"authorizing", "restoring", "pulling", "removing",
                               "running", "recording"}

(* A process is idle or busy with an identity; reapers do not start VMs.     *)
ProcsOK ==
  /\ \A p \in Procs : proc[p] = Idle \/ (~ At(p, "idle") /\ Owner(p) \in Owners)
  /\ ~ Starting(Reaper)

(* Somebody who gives the units back only after the container went away      *)
(* holds as much as the container.                                           *)
Backs(p, o) ==
  /\ proc[p].pc \in {"recording", "killing"} /\ Owner(p) = o
  /\ proc[p].need >= container[o].need

Backed(o) == \/ vms[o] # NoVm /\ vms[o].need >= container[o].need
             \/ \E p \in Procs : Backs(p, o)

(* Containers whose reservation nobody knows of any more: a record entered   *)
(* over theirs.                                                              *)
Lost == {o \in Running : ~ Backed(o)}

(* What is known to be held and what was lost is allocated.                  *)
Reserved ==
  /\ Total(vms, Tracked) + Total(proc, Holding) + Total(container, Lost) <= allocated
  /\ allocated <= shared
  /\ shared = SharedAtFirst

(* No two requests start a VM of one identity at the same time.              *)
OneStartEach ==
  \A c, d \in Calls : c # d /\ Starting(c) /\ Starting(d) => Owner(c) # Owner(d)

(* Then the identity of a VM being started has no record.                    *)
StartsAreFresh == \A c \in Calls : Starting(c) => vms[Owner(c)] = NoVm

(* The labels of a container say what the record or the request says.        *)
LabelsOK ==
  /\ \A o \in Owners : vms[o] # NoVm /\ container[o] # NoVm =>
       /\ container[o].need = vms[o].need /\ container[o].budget = vms[o].budget
       /\ container[o].rate = vms[o].rate /\ container[o].created <= vms[o].created
  /\ \A c \in Calls : At(c, "recording") /\ container[Owner(c)] # NoVm =>
       LET box == container[Owner(c)]
       IN  /\ box.need = proc[c].need /\ box.budget = proc[c].budget
           /\ box.rate = LeaseRate /\ box.created <= clock

(* A container without a record is about to be removed or to be recorded.    *)
Followed ==
  \A o \in Owners : container[o] # NoVm /\ vms[o] = NoVm =>
    \E p \in Procs : Owner(p) = o /\ proc[p].pc \in {"killing", "recording"}

(* A container that went away under a record or a request to record it was   *)
(* removed by a stop of that identity.                                       *)
RemovedByStop ==
  /\ \A o \in Owners : vms[o] # NoVm /\ container[o] = NoVm => o \in overtaken
  /\ \A c \in Calls : At(c, "recording") /\ container[Owner(c)] = NoVm =>
       Owner(c) \in overtaken

(* Docker answers, and the node goes on sharing the same.                    *)
DockerAnswers == Faults \cap {"rm", "ps"} = {}
SharesTheSame == SharedLater \subseteq {SharedAtFirst}

-----------------------------------------------------------------------------
(* Types. *)

LEMMA Constants ==
  /\ Reaper \notin Calls /\ Calls \subseteq Procs /\ Reaper \in Procs
  /\ SharedAtFirst \in Nat /\ JobPrice \in Nat /\ LeaseRate \in Nat
  /\ SharedLater \subseteq Nat /\ Needs \subseteq Nat /\ Budgets \subseteq Nat
  /\ IsFiniteSet(Owners) /\ IsFiniteSet(Calls) /\ IsFiniteSet(Procs)
  /\ NoVm \notin Owners /\ NoVm \notin VmType /\ NoVm \notin Nat
<1>1. IsFiniteSet(Procs)
  <2>1. IsFiniteSet(Calls) /\ IsFiniteSet({Reaper})
    BY VmAssumption, FS_Singleton
  <2>2. QED
    BY <2>1, FS_Union DEF Procs
<1>2. QED
  BY <1>1, VmAssumption DEF Procs, LeaseRate

(* A process that moves stays a process of its owner.                        *)
LEMMA Moving ==
  ASSUME TypeOK, ProcsOK, NEW p \in Procs, ~ At(p, "idle"),
         NEW pc \in {"restoring", "pulling", "removing", "running",
                     "recording", "killing", "syncing", "dropping", "releasing"},
         p = Reaper => pc \in {"killing", "syncing", "dropping", "releasing"},
         Goto(p, pc)
  PROVE  proc' \in [Procs -> ProcType] /\ ProcsOK'
<1> DEFINE n == [proc[p] EXCEPT !.pc = pc]
<1>1. proc' = [proc EXCEPT ![p] = n]
  BY DEF Goto
<1>2. n \in ProcType /\ n.pc = pc /\ n.owner = Owner(p)
  BY DEF TypeOK, ProcType, Owner
<1>3. Owner(p) \in Owners
  BY DEF ProcsOK, At, Idle
<1> HIDE DEF n
<1>4. proc' \in [Procs -> ProcType]
  BY <1>1, <1>2 DEF TypeOK
<1>5. ASSUME NEW q \in Procs
      PROVE  proc'[q] = Idle \/ (proc'[q].pc # "idle" /\ proc'[q].owner \in Owners)
  <2>1. CASE q = p
    BY <2>1, <1>1, <1>2, <1>3 DEF TypeOK
  <2>2. CASE q # p
    BY <2>2, <1>1 DEF TypeOK, ProcsOK, At, Owner
  <2>3. QED
    BY <2>1, <2>2
<1>6. ~ Starting(Reaper)'
  BY <1>1, <1>2, Constants DEF TypeOK, ProcsOK, Starting
<1>7. QED
  BY <1>4, <1>5, <1>6 DEF ProcsOK, At, Owner

(* A process that ends is idle. *)
LEMMA Ending ==
  ASSUME TypeOK, ProcsOK, NEW p \in Procs, Done(p)
  PROVE  proc' \in [Procs -> ProcType] /\ ProcsOK' /\ proc'[p] = Idle
<1>1. Idle \in ProcType /\ Idle.pc = "idle"
  BY DEF Idle, ProcType
<1>2. proc' = [proc EXCEPT ![p] = Idle]
  BY DEF Done
<1>3. proc' \in [Procs -> ProcType] /\ proc'[p] = Idle
  BY <1>1, <1>2 DEF TypeOK
<1>4. ~ Starting(Reaper)'
  BY <1>1, <1>2, Constants DEF TypeOK, ProcsOK, Starting
<1>5. QED
  BY <1>2, <1>3, <1>4 DEF TypeOK, ProcsOK, At, Owner

(* An idle process takes up a start or a stop.                               *)
LEMMA TakingUp ==
  ASSUME TypeOK, ProcsOK, NEW p \in Procs, NEW n \in ProcType,
         n.owner \in Owners, n.pc \in {"authorizing", "killing"},
         p = Reaper => n.pc = "killing",
         proc' = [proc EXCEPT ![p] = n]
  PROVE  proc' \in [Procs -> ProcType] /\ ProcsOK'
<1>1. proc' \in [Procs -> ProcType] /\ proc'[p] = n
  BY DEF TypeOK
<1>2. ~ Starting(Reaper)'
  BY Constants DEF TypeOK, ProcsOK, Starting
<1>3. QED
  BY <1>1, <1>2 DEF TypeOK, ProcsOK, At, Owner

LEMMA ReturnedIsNat ==
  ASSUME allocated \in Nat, NEW n \in Nat
  PROVE  Returned(n) \in Nat
BY DEF Returned

-----------------------------------------------------------------------------
(* The records and the processes have their types, and so has every step.    *)
Sound == TypeOK /\ ProcsOK

LEMMA InitSound == Init => Sound
<1> SUFFICES ASSUME Init PROVE Sound
  OBVIOUS
<1>1. Idle \in ProcType /\ Idle.pc = "idle"
  BY DEF Idle, ProcType
<1>2. TypeOK
  BY <1>1, Constants DEF Init, TypeOK
<1>3. \A p \in Procs : proc[p] = Idle
  BY DEF Init
<1>4. ProcsOK
  BY <1>1, <1>3, Constants DEF ProcsOK, Starting
<1>5. QED
  BY <1>2, <1>4 DEF Sound

LEMMA StartSound ==
  ASSUME Sound, NEW c \in Calls, Start(c)
  PROVE  Sound'
<1> USE DEF Sound
<1>0. c \in Procs /\ c # Reaper /\ proc[c] \in ProcType
  BY Constants DEF TypeOK
<1>o. ~ At(c, "idle") => Owner(c) \in Owners
  BY <1>0 DEF ProcsOK, At, Idle
<1>n. proc[c].need \in Nat /\ proc[c].budget \in Nat
  BY <1>0 DEF ProcType
<1>1. CASE RefuseStart(c)
  BY <1>0, <1>1, Ending DEF RefuseStart, TypeOK, docker, history
<1>2. CASE Allocate(c)
  <2>1. allocated' \in Nat
    BY <1>2, <1>n DEF Allocate, TypeOK
  <2>2. proc' \in [Procs -> ProcType] /\ ProcsOK'
    <3>1. CASE vms[Owner(c)] # NoVm
      BY <3>1, <1>0, <1>2, Ending DEF Allocate
    <3>2. CASE vms[Owner(c)] = NoVm
      <4>1. ~ At(c, "idle") /\ Goto(c, "restoring")
        BY <3>2, <1>2 DEF Allocate, At
      <4>2. QED
        BY <4>1, <1>0, Moving
    <3>3. QED
      BY <3>1, <3>2
  <2>3. QED
    BY <2>1, <2>2, <1>2 DEF Allocate, TypeOK, docker, history
<1>3. CASE Restore(c)
  <2>1. proc' \in [Procs -> ProcType] /\ ProcsOK'
    <3>1. ~ At(c, "idle") /\ Goto(c, "pulling")
      BY <1>3 DEF Restore, At
    <3>2. QED
      BY <3>1, <1>0, Moving
  <2>2. home' \in [Owners -> Nat \cup {NoVm}]
    <3>1. Owner(c) \in Owners
      BY <1>3, <1>o DEF Restore, At
    <3>2. QED
      BY <3>1, <1>3 DEF Restore, TypeOK, Copied
  <2>3. QED
    BY <2>1, <2>2, <1>3 DEF Restore, TypeOK, history
<1>4. CASE Pull(c)
  <2>1. PICK ok \in Outcomes("pull") :
          IF ok THEN Goto(c, "removing") /\ UNCHANGED allocated
                ELSE Done(c) /\ allocated' = Returned(proc[c].need)
    BY <1>4 DEF Pull
  <2>2. ~ At(c, "idle")
    BY <1>4 DEF Pull, At
  <2>3. CASE ok
    <3>1. Goto(c, "removing") /\ allocated' = allocated
      BY <2>1, <2>3
    <3>2. QED
      BY <3>1, <2>2, <1>0, <1>4, Moving DEF Pull, TypeOK, docker, history
  <2>4. CASE ~ ok
    <3>1. Done(c) /\ allocated' \in Nat
      BY <2>1, <2>4, <1>n, ReturnedIsNat DEF TypeOK
    <3>2. QED
      BY <3>1, <1>0, <1>4, Ending DEF Pull, TypeOK, docker, history
  <2>5. QED
    BY <2>3, <2>4
<1>5. CASE RemoveStale(c)
  <2>1. ~ At(c, "idle") /\ Goto(c, "running")
    BY <1>5 DEF RemoveStale, At
  <2>2. container' \in [Owners -> VmType \cup {NoVm}]
    BY <1>5 DEF RemoveStale, TypeOK
  <2>3. QED
    BY <2>1, <2>2, <1>0, <1>5, Moving DEF RemoveStale, TypeOK, history
<1>6. CASE Run(c)
  <2>1. ~ At(c, "idle") /\ Owner(c) \in Owners
    BY <1>6, <1>o DEF Run, At
  <2>2. CASE UNCHANGED <<container, home>> /\ Done(c)
             /\ allocated' = Returned(proc[c].need)
    <3>1. allocated' \in Nat
      BY <2>2, <1>n, ReturnedIsNat DEF TypeOK
    <3>2. QED
      BY <2>2, <3>1, <1>0, <1>6, Ending DEF Run, TypeOK, history
  <2> DEFINE vm == [need |-> proc[c].need, budget |-> proc[c].budget,
                    rate |-> LeaseRate, created |-> clock]
  <2>3. CASE /\ container' = [container EXCEPT ![Owner(c)] = vm]
             /\ home' = [home EXCEPT ![Owner(c)] = IF @ = NoVm THEN 0 ELSE @]
             /\ Goto(c, "recording")
             /\ UNCHANGED allocated
    <3>1. vm \in VmType
      BY <1>n, Constants DEF VmType, TypeOK
    <3> HIDE DEF vm
    <3>2. container' \in [Owners -> VmType \cup {NoVm}]
      BY <3>1, <2>3 DEF TypeOK
    <3>3. home' \in [Owners -> Nat \cup {NoVm}]
      BY <2>1, <2>3 DEF TypeOK
    <3>4. proc' \in [Procs -> ProcType] /\ ProcsOK'
      BY <2>1, <2>3, <1>0, Moving
    <3>5. QED
      BY <3>2, <3>3, <3>4, <2>3, <1>6 DEF Run, TypeOK, history
  <2>4. QED
    BY <2>2, <2>3, <1>6 DEF Run
<1>7. CASE Record(c)
  <2> DEFINE vm == [need |-> proc[c].need, budget |-> proc[c].budget,
                    rate |-> LeaseRate, created |-> clock]
  <2>1. vm \in VmType
    BY <1>n, Constants DEF VmType, TypeOK
  <2>2. vms' = [vms EXCEPT ![Owner(c)] = vm] /\ Done(c)
    BY <1>7 DEF Record
  <2> HIDE DEF vm
  <2>3. vms' \in [Owners -> VmType \cup {NoVm}]
    BY <2>1, <2>2 DEF TypeOK
  <2>4. QED
    BY <2>2, <2>3, <1>0, <1>7, Ending DEF Record, TypeOK, docker, history
<1>8. QED
  BY <1>1, <1>2, <1>3, <1>4, <1>5, <1>6, <1>7 DEF Start

LEMMA StopSound ==
  ASSUME Sound, NEW p \in Procs, Stop(p)
  PROVE  Sound'
<1> USE DEF Sound
<1>0. proc[p] \in ProcType /\ proc[p].need \in Nat
  BY DEF TypeOK, ProcType
<1>1. CASE Kill(p)
  <2> DEFINE next == IF proc[p].wipe THEN "dropping"
                     ELSE IF Remote THEN "syncing" ELSE "releasing"
  <2>1. ~ At(p, "idle") /\ Goto(p, next)
    BY <1>1 DEF Kill, At
  <2>2. next \in {"killing", "syncing", "dropping", "releasing"}
    OBVIOUS
  <2> HIDE DEF next
  <2>3. proc' \in [Procs -> ProcType] /\ ProcsOK'
    BY <2>1, <2>2, Moving
  <2>4. container' \in [Owners -> VmType \cup {NoVm}]
    BY <1>1 DEF Kill, TypeOK
  <2>5. Owner(p) \in Owners
    BY <2>1 DEF ProcsOK, At, Idle
  <2>6. overtaken' \subseteq Owners
    BY <1>1, <2>5 DEF Kill, TypeOK
  <2>7. QED
    BY <2>3, <2>4, <2>6, <1>1 DEF Kill, TypeOK
<1>2. CASE Sync(p)
  <2>1. PICK ok \in Outcomes("persist") :
          LET o == Owner(p)
              local == IF home[o] = NoVm THEN 0 ELSE home[o]
          IN  /\ store' = IF ok THEN [store EXCEPT ![o] = Copied(local, @)] ELSE store
              /\ home' = [home EXCEPT ![o] = local]
              /\ Goto(p, IF ok THEN "dropping" ELSE "releasing")
    BY <1>2 DEF Sync
  <2> DEFINE next == IF ok THEN "dropping" ELSE "releasing"
             local == IF home[Owner(p)] = NoVm THEN 0 ELSE home[Owner(p)]
  <2>2. ~ At(p, "idle") /\ Goto(p, next)
    BY <1>2, <2>1 DEF Sync, At
  <2>3. next \in {"killing", "syncing", "dropping", "releasing"}
    OBVIOUS
  <2>4. Owner(p) \in Owners
    BY <2>2 DEF ProcsOK, At, Idle
  <2>5. local \in Nat
    BY <2>4 DEF TypeOK
  <2>6. store' \in [Owners -> Nat]
    BY <2>1, <2>4, <2>5 DEF TypeOK, Copied
  <2>7. home' \in [Owners -> Nat \cup {NoVm}]
    BY <2>1, <2>5 DEF TypeOK
  <2> HIDE DEF next
  <2>8. proc' \in [Procs -> ProcType] /\ ProcsOK'
    BY <2>2, <2>3, Moving
  <2>9. QED
    BY <2>6, <2>7, <2>8, <1>2 DEF Sync, TypeOK, history
<1>3. CASE Drop(p)
  <2>1. ~ At(p, "idle") /\ Goto(p, "releasing")
    BY <1>3 DEF Drop, At
  <2>2. proc' \in [Procs -> ProcType] /\ ProcsOK'
    BY <2>1, Moving
  <2>3. home' \in [Owners -> Nat \cup {NoVm}] /\ wiped' \in [Owners -> BOOLEAN]
    BY <1>3, <1>0 DEF Drop, TypeOK, ProcType
  <2>4. QED
    BY <2>2, <2>3, <1>3 DEF Drop, TypeOK
<1>4. CASE Release(p)
  <2>1. allocated' \in Nat /\ Done(p)
    BY <1>0, <1>4, ReturnedIsNat DEF Release, TypeOK
  <2>2. QED
    BY <2>1, <1>4, Ending DEF Release, TypeOK, docker, history
<1>5. QED
  BY <1>1, <1>2, <1>3, <1>4 DEF Stop

LEMMA BeginStopSound ==
  ASSUME Sound, NEW p \in Procs, NEW o \in Owners, NEW wipe \in BOOLEAN,
         BeginStop(p, o, wipe), expired' \subseteq Owners
  PROVE  Sound'
<1> USE DEF Sound
<1> DEFINE n == [pc |-> "killing", owner |-> o, need |-> vms[o].need,
                 budget |-> 0, wipe |-> wipe]
<1>1. vms[o] \in VmType /\ vms[o].need \in Nat
  BY DEF BeginStop, TypeOK, VmType
<1>2. n \in ProcType /\ n.pc = "killing" /\ n.owner = o
  BY <1>1 DEF ProcType
<1>3. proc' = [proc EXCEPT ![p] = n] /\ vms' = [vms EXCEPT ![o] = NoVm]
  BY DEF BeginStop
<1> HIDE DEF n
<1>4. proc' \in [Procs -> ProcType] /\ ProcsOK'
  BY <1>2, <1>3, TakingUp
<1>5. QED
  BY <1>3, <1>4 DEF BeginStop, TypeOK, docker, history

LEMMA RestartSound ==
  ASSUME Sound, Restart
  PROVE  Sound'
<1> USE DEF Sound
<1> DEFINE kept == {o \in Owners : container[o] # NoVm}
<1>1. PICK size \in SharedLater, listed \in Outcomes("ps") :
        /\ shared' = size
        /\ IF listed
             THEN \E alive \in SUBSET kept : \E counted \in Counted(alive, size) :
                    /\ container' = [o \in Owners |->
                                       IF o \in alive THEN container[o] ELSE NoVm]
                    /\ vms' = container'
                    /\ allocated' = SumNeed(counted)
             ELSE /\ vms' = [o \in Owners |-> NoVm]
                  /\ allocated' = 0
                  /\ UNCHANGED container
  BY DEF Restart
<1>2. /\ container' \in [Owners -> VmType \cup {NoVm}]
      /\ vms' \in [Owners -> VmType \cup {NoVm}]
      /\ allocated' \in Nat
  <2>1. CASE listed
    <3>0. PICK alive \in SUBSET kept : \E counted \in Counted(alive, size) :
            /\ container' = [o \in Owners |->
                               IF o \in alive THEN container[o] ELSE NoVm]
            /\ vms' = container'
            /\ allocated' = SumNeed(counted)
      BY <1>1, <2>1
    <3>1. PICK counted \in Counted(alive, size) :
            /\ container' = [o \in Owners |->
                               IF o \in alive THEN container[o] ELSE NoVm]
            /\ vms' = container'
            /\ allocated' = SumNeed(counted)
      BY <3>0
    <3>2. counted \subseteq kept /\ counted \subseteq Owners
      BY DEF Counted
    <3>3. IsFiniteSet(counted)
      BY <3>2, Constants, FS_Subset
    <3>4. \A o \in counted : container[o].need \in Nat
      BY <3>2 DEF TypeOK, VmType
    <3>5. allocated' \in Nat
      BY <3>1, <3>3, <3>4, UnitsAreFinite DEF SumNeed
    <3>6. QED
      BY <3>1, <3>5 DEF TypeOK
  <2>2. CASE ~ listed
    BY <1>1, <2>2 DEF TypeOK
  <2>3. QED
    BY <2>1, <2>2
<1>3. Idle \in ProcType /\ Idle.pc = "idle"
  BY DEF Idle, ProcType
<1>4. proc' = [p \in Procs |-> Idle] /\ expired' = {} /\ overtaken' = {}
      /\ restarts' = restarts + 1
      /\ UNCHANGED <<clock, home, store, newest, wiped, starts>>
  BY DEF Restart
<1>5. TypeOK'
  BY <1>1, <1>2, <1>3, <1>4, Constants DEF TypeOK
<1>6. ProcsOK'
  BY <1>3, <1>4, Constants DEF ProcsOK, Starting
<1>7. QED
  BY <1>5, <1>6

LEMMA NextSound ==
  ASSUME Sound, [Next]_vars
  PROVE  Sound'
<1> USE DEF Sound
<1>1. ASSUME NEW c \in Calls, NEW o \in Owners, AlreadyUp(c, o)
      PROVE  Sound'
  BY <1>1 DEF AlreadyUp, TypeOK, ProcsOK, docker, Starting, At, Owner
<1>2. ASSUME NEW c \in Calls, NEW o \in Owners, NEW need \in Needs, NEW budget \in Budgets,
             StartVm(c, o, need, budget)
      PROVE  Sound'
  <2> DEFINE n == [pc |-> "authorizing", owner |-> o, need |-> need,
                   budget |-> budget, wipe |-> FALSE]
  <2>1. n \in ProcType /\ n.pc = "authorizing" /\ n.owner = o
    BY Constants DEF ProcType
  <2>2. proc' = [proc EXCEPT ![c] = n]
    BY <1>2 DEF StartVm
  <2> HIDE DEF n
  <2>3. proc' \in [Procs -> ProcType] /\ ProcsOK'
    BY <2>1, <2>2, Constants, TakingUp
  <2>4. QED
    BY <2>3, <1>2 DEF StartVm, TypeOK, docker
<1>3. ASSUME NEW c \in Calls, NEW o \in Owners, NEW wipe \in BOOLEAN, StopVm(c, o, wipe)
      PROVE  Sound'
  BY <1>3, Constants, BeginStopSound DEF StopVm, TypeOK
<1>4. ASSUME NEW c \in Calls, Start(c)
      PROVE  Sound'
  BY <1>4, StartSound
<1>5. ASSUME NEW p \in Procs, Stop(p)
      PROVE  Sound'
  BY <1>5, StopSound
<1>6. ASSUME Reap
      PROVE  Sound'
  BY <1>6 DEF Reap, TypeOK, ProcsOK, docker, history, Starting, At, Owner
<1>7. ASSUME NEW o \in Owners, ReapOne(o)
      PROVE  Sound'
  <2>1. expired' \subseteq Owners
    BY <1>7 DEF ReapOne, TypeOK
  <2>2. CASE vms[o] # NoVm
    BY <2>1, <2>2, <1>7, Constants, BeginStopSound DEF ReapOne
  <2>3. CASE vms[o] = NoVm
    BY <2>1, <2>3, <1>7 DEF ReapOne, TypeOK, ProcsOK, docker, history, Starting, At, Owner
  <2>4. QED
    BY <2>2, <2>3
<1>8. ASSUME NEW o \in Owners, Write(o)
      PROVE  Sound'
  BY <1>8 DEF Write, TypeOK, ProcsOK, Starting, At, Owner
<1>9. ASSUME Tick
      PROVE  Sound'
  BY <1>9 DEF Tick, TypeOK, ProcsOK, docker, history, Starting, At, Owner
<1>10. ASSUME UNCHANGED vars
       PROVE  Sound'
  BY <1>10 DEF vars, TypeOK, ProcsOK, docker, history, Starting, At, Owner
<1>11. QED
  BY <1>1, <1>2, <1>3, <1>4, <1>5, <1>6, <1>7, <1>8, <1>9, <1>10, RestartSound
     DEF Next, EndOfTime

(* Records, containers, volumes and processes keep their types whatever      *)
(* fails and whenever the provider restarts (vm.rs VmManager).               *)
THEOREM VmTypeCorrect == Spec => []TypeOK
<1>1. Sound => TypeOK
  BY DEF Sound
<1>2. QED
  BY <1>1, InitSound, NextSound, PTL DEF Spec

-----------------------------------------------------------------------------
(* The accounts change by what changes for one process and one owner.        *)

VmShare(o) == Share(vms, Tracked, o)
ProcShare(p) == Share(proc, Holding, p)
LostShare(o) == Share(container, Lost, o)

HeldSum == Total(vms, Tracked) + Total(proc, Holding)

LEMMA SumsAreFinite ==
  ASSUME Sound
  PROVE  /\ IsFiniteSet(Tracked) /\ \A o \in Tracked : vms[o].need \in Nat
         /\ IsFiniteSet(Holding) /\ \A p \in Holding : proc[p].need \in Nat
         /\ IsFiniteSet(Running) /\ \A o \in Running : container[o].need \in Nat
         /\ IsFiniteSet(Lost) /\ \A o \in Lost : container[o].need \in Nat
         /\ Total(vms, Tracked) \in Nat /\ Total(proc, Holding) \in Nat
         /\ Total(container, Running) \in Nat /\ Total(container, Lost) \in Nat
<1>1. /\ Tracked \subseteq Owners /\ Running \subseteq Owners /\ Lost \subseteq Running
      /\ Holding \subseteq Procs
  BY DEF Tracked, Running, Lost, Holding
<1>2. /\ IsFiniteSet(Tracked) /\ IsFiniteSet(Running) /\ IsFiniteSet(Lost)
      /\ IsFiniteSet(Holding)
  BY <1>1, Constants, FS_Subset
<1>3. /\ \A o \in Tracked : vms[o].need \in Nat
      /\ \A p \in Holding : proc[p].need \in Nat
      /\ \A o \in Running : container[o].need \in Nat
      /\ \A o \in Lost : container[o].need \in Nat
  BY <1>1 DEF Sound, TypeOK, VmType, ProcType, Tracked, Running
<1>4. QED
  BY <1>2, <1>3, UnitsAreFinite

(* What one process holds is part of what is held.                           *)
LEMMA ShareWithin ==
  ASSUME Sound, NEW p
  PROVE  ProcShare(p) \in Nat /\ ProcShare(p) <= Total(proc, Holding)
<1>1. /\ Total(proc, Holding \ {p}) \in Nat
      /\ Total(proc, Holding) = Total(proc, Holding \ {p}) + Share(proc, Holding, p)
  BY SumsAreFinite, TotalWithout
<1>2. Share(proc, Holding, p) \in Nat
  BY SumsAreFinite DEF Share
<1>3. QED
  BY <1>1, <1>2, SumsAreFinite DEF ProcShare

(* Processes other than p, and identities other than o, are left alone.      *)
Local(p, o) ==
  /\ \A q \in Procs \ {p} : proc'[q] = proc[q]
  /\ \A b \in Owners \ {o} : vms'[b] = vms[b] /\ container'[b] = container[b]

LEMMA HeldChanges ==
  ASSUME Sound, Sound', NEW p, NEW o, Local(p, o)
  PROVE  /\ HeldSum \in Nat /\ HeldSum' \in Nat
         /\ VmShare(o) \in Nat /\ VmShare(o)' \in Nat
         /\ ProcShare(p) \in Nat /\ ProcShare(p)' \in Nat
         /\ HeldSum' + VmShare(o) + ProcShare(p)
              = HeldSum + VmShare(o)' + ProcShare(p)'
<1>1. Tracked \ {o} = Tracked' \ {o} /\ \A b \in Tracked \ {o} : vms'[b].need = vms[b].need
  BY DEF Tracked, Local
<1>2. Holding \ {p} = Holding' \ {p} /\ \A q \in Holding \ {p} : proc'[q].need = proc[q].need
  BY DEF Holding, Local, At
<1>3. /\ IsFiniteSet(Tracked) /\ \A b \in Tracked : vms[b].need \in Nat
      /\ IsFiniteSet(Holding) /\ \A q \in Holding : proc[q].need \in Nat
  BY SumsAreFinite
<1>4. /\ IsFiniteSet(Tracked') /\ \A b \in Tracked' : vms'[b].need \in Nat
      /\ IsFiniteSet(Holding') /\ \A q \in Holding' : proc'[q].need \in Nat
  <2>1. Tracked' \subseteq Owners /\ Holding' \subseteq Procs
    BY DEF Tracked, Holding
  <2>2. IsFiniteSet(Tracked') /\ IsFiniteSet(Holding')
    BY <2>1, Constants, FS_Subset
  <2>3. QED
    BY <2>2 DEF Sound, TypeOK, VmType, ProcType, Tracked, Holding
<1>5. /\ Total(vms, Tracked) \in Nat /\ Total(vms', Tracked') \in Nat
      /\ Share(vms, Tracked, o) \in Nat /\ Share(vms', Tracked', o) \in Nat
      /\ Total(vms', Tracked') + Share(vms, Tracked, o)
           = Total(vms, Tracked) + Share(vms', Tracked', o)
  BY <1>1, <1>3, <1>4, TotalChanges
<1>6. /\ Total(proc, Holding) \in Nat /\ Total(proc', Holding') \in Nat
      /\ Share(proc, Holding, p) \in Nat /\ Share(proc', Holding', p) \in Nat
      /\ Total(proc', Holding') + Share(proc, Holding, p)
           = Total(proc, Holding) + Share(proc', Holding', p)
  BY <1>2, <1>3, <1>4, TotalChanges
<1>7. QED
  BY <1>5, <1>6 DEF HeldSum, VmShare, ProcShare

(* A process that holds its reservation while the container may run.         *)
Busy(p) == proc[p].pc \in {"recording", "killing"}

LEMMA LostChanges ==
  ASSUME Sound, Sound', NEW p, NEW o, Local(p, o),
         Busy(p) => Owner(p) = o, Busy(p)' => Owner(p)' = o
  PROVE  /\ Total(container, Lost) \in Nat /\ Total(container, Lost)' \in Nat
         /\ LostShare(o) \in Nat /\ LostShare(o)' \in Nat
         /\ Total(container, Lost)' + LostShare(o) = Total(container, Lost) + LostShare(o)'
<1>1. ASSUME NEW b \in Owners, b # o
      PROVE  (b \in Lost <=> b \in Lost') /\ container'[b] = container[b]
  <2>1. vms'[b] = vms[b] /\ container'[b] = container[b]
    BY <1>1 DEF Local
  <2>2. ASSUME NEW q \in Procs PROVE Backs(q, b) <=> Backs(q, b)'
    <3>1. CASE q = p
      BY <3>1, <1>1 DEF Backs, Busy
    <3>2. CASE q # p
      <4>1. proc'[q] = proc[q]
        BY <3>2 DEF Local
      <4>2. QED
        BY <4>1, <2>1 DEF Backs, Owner
    <3>3. QED
      BY <3>1, <3>2
  <2>3. QED
    BY <2>1, <2>2 DEF Lost, Running, Backed
<1>2. Lost \ {o} = Lost' \ {o} /\ \A b \in Lost \ {o} : container'[b].need = container[b].need
  <2>1. Lost \subseteq Owners /\ Lost' \subseteq Owners
    BY DEF Lost, Running
  <2>2. QED
    BY <1>1, <2>1
<1>3. IsFiniteSet(Lost) /\ \A b \in Lost : container[b].need \in Nat
  BY SumsAreFinite
<1>4. IsFiniteSet(Lost') /\ \A b \in Lost' : container'[b].need \in Nat
  <2>1. Lost' \subseteq Owners
    BY DEF Lost, Running
  <2>2. IsFiniteSet(Lost')
    BY <2>1, Constants, FS_Subset
  <2>3. QED
    BY <2>2 DEF Sound, TypeOK, VmType, Lost, Running
<1>5. /\ Total(container, Lost) \in Nat /\ Total(container', Lost') \in Nat
      /\ Share(container, Lost, o) \in Nat /\ Share(container', Lost', o) \in Nat
      /\ Total(container', Lost') + Share(container, Lost, o)
           = Total(container, Lost) + Share(container', Lost', o)
  <2> DEFINE L == Lost
             M == Lost'
             f == container
             g == container'
  <2>1. /\ IsFiniteSet(L) /\ IsFiniteSet(M) /\ L \ {o} = M \ {o}
    BY <1>2, <1>3, <1>4
  <2>2. /\ \A y \in L : f[y].need \in Nat
    BY <1>3
  <2>3. /\ \A y \in M : g[y].need \in Nat
    BY <1>4
  <2>4. \A y \in L \ {o} : g[y].need = f[y].need
    BY <1>2
  <2> HIDE DEF L, M, f, g
  <2>5. /\ Total(f, L) \in Nat /\ Total(g, M) \in Nat
        /\ Share(f, L, o) \in Nat /\ Share(g, M, o) \in Nat
        /\ Total(g, M) + Share(f, L, o) = Total(f, L) + Share(g, M, o)
    BY <2>1, <2>2, <2>3, <2>4, TotalChanges
  <2>6. QED
    BY <2>5 DEF L, M, f, g
<1>6. QED
  BY <1>5 DEF LostShare

(* What keeps the accounts in balance. *)
Exact == allocated = HeldSum

LEMMA Balance ==
  ASSUME Sound, Sound', Reserved, NEW p, NEW o, Local(p, o),
         Busy(p) => Owner(p) = o, Busy(p)' => Owner(p)' = o,
         shared' = shared, allocated' <= shared,
         allocated' + VmShare(o) + ProcShare(p) + LostShare(o)
           >= allocated + VmShare(o)' + ProcShare(p)' + LostShare(o)'
  PROVE  Reserved'
<1>1. allocated \in Nat /\ allocated' \in Nat
  BY DEF Sound, TypeOK
<1>2. HeldSum' + Total(container, Lost)' <= allocated'
  BY <1>1, HeldChanges, LostChanges DEF Reserved, HeldSum
<1>3. QED
  BY <1>2 DEF Reserved, HeldSum

LEMMA ExactBalance ==
  ASSUME Sound, Sound', Exact, NEW p, NEW o, Local(p, o),
         allocated' + VmShare(o) + ProcShare(p) = allocated + VmShare(o)' + ProcShare(p)'
  PROVE  Exact'
<1>1. allocated \in Nat /\ allocated' \in Nat
  BY DEF Sound, TypeOK
<1>2. QED
  BY <1>1, HeldChanges DEF Exact

(* A step that leaves records and containers alone and is not about to       *)
(* record or to kill.                                                        *)
LEMMA QuietBalance ==
  ASSUME Sound, Sound', Reserved, NEW p,
         UNCHANGED <<vms, container, shared>>, \A q \in Procs \ {p} : proc'[q] = proc[q],
         ~ Busy(p), ~ Busy(p)', allocated' <= shared
  PROVE  /\ allocated' + ProcShare(p) >= allocated + ProcShare(p)' => Reserved'
         /\ Exact /\ allocated' + ProcShare(p) = allocated + ProcShare(p)' => Exact'
<1>1. NoVm \notin Tracked /\ NoVm \notin Tracked' /\ NoVm \notin Lost /\ NoVm \notin Lost'
  BY Constants DEF Tracked, Lost, Running
<1>2. /\ VmShare(NoVm) = 0 /\ VmShare(NoVm)' = 0
      /\ LostShare(NoVm) = 0 /\ LostShare(NoVm)' = 0
  BY <1>1 DEF VmShare, LostShare, Share
<1>3. Local(p, NoVm)
  BY DEF Local
<1>4. allocated \in Nat /\ allocated' \in Nat /\ ProcShare(p) \in Nat /\ ProcShare(p)' \in Nat
  BY <1>3, HeldChanges DEF Sound, TypeOK
<1>5. ASSUME allocated' + ProcShare(p) >= allocated + ProcShare(p)'
      PROVE  Reserved'
  <2>1. allocated' + VmShare(NoVm) + ProcShare(p) + LostShare(NoVm)
          >= allocated + VmShare(NoVm)' + ProcShare(p)' + LostShare(NoVm)'
    BY <1>2, <1>4, <1>5
  <2>2. QED
    BY <1>3, <2>1, Balance
<1>6. ASSUME Exact, allocated' + ProcShare(p) = allocated + ProcShare(p)'
      PROVE  Exact'
  <2>1. allocated' + VmShare(NoVm) + ProcShare(p) = allocated + VmShare(NoVm)' + ProcShare(p)'
    BY <1>2, <1>4, <1>6
  <2>2. QED
    BY <1>3, <1>6, <2>1, ExactBalance
<1>7. QED
  BY <1>5, <1>6

(* Effects on one process. *)
LEMMA GotoEffect ==
  ASSUME TypeOK, NEW p \in Procs, NEW pc, Goto(p, pc)
  PROVE  /\ \A q \in Procs \ {p} : proc'[q] = proc[q]
         /\ proc'[p].pc = pc
         /\ proc'[p].owner = proc[p].owner /\ proc'[p].need = proc[p].need
         /\ proc'[p].budget = proc[p].budget /\ proc'[p].wipe = proc[p].wipe
<1> DEFINE n == [proc[p] EXCEPT !.pc = pc]
<1>1. proc' = [proc EXCEPT ![p] = n]
  BY DEF Goto
<1>2. /\ n.pc = pc /\ n.owner = proc[p].owner /\ n.need = proc[p].need
      /\ n.budget = proc[p].budget /\ n.wipe = proc[p].wipe
  BY DEF TypeOK, ProcType
<1> HIDE DEF n
<1>3. QED
  BY <1>1, <1>2 DEF TypeOK

LEMMA DoneEffect ==
  ASSUME TypeOK, NEW p \in Procs, Done(p)
  PROVE  /\ \A q \in Procs \ {p} : proc'[q] = proc[q]
         /\ proc'[p] = Idle /\ proc'[p].pc = "idle" /\ proc'[p].owner = NoVm
         /\ ProcShare(p)' = 0 /\ ~ Busy(p)'
<1>1. proc' = [proc EXCEPT ![p] = Idle] /\ Idle.pc = "idle" /\ Idle.owner = NoVm
  BY DEF Done, Idle
<1>2. /\ \A q \in Procs \ {p} : proc'[q] = proc[q]
      /\ proc'[p] = Idle /\ proc'[p].pc = "idle" /\ proc'[p].owner = NoVm
  BY <1>1 DEF TypeOK
<1>3. QED
  BY <1>2 DEF ProcShare, Share, Holding, At, Busy

LEMMA HoldingShare ==
  ASSUME NEW p \in Procs
  PROVE  /\ ~ At(p, "idle") /\ ~ At(p, "authorizing") => ProcShare(p) = proc[p].need
         /\ At(p, "idle") \/ At(p, "authorizing") => ProcShare(p) = 0
BY DEF ProcShare, Share, Holding

(* Giving back what one holds does not run into zero.                        *)
LEMMA GivingBack ==
  ASSUME Sound, Reserved, NEW p \in Procs, ~ At(p, "idle"), ~ At(p, "authorizing"),
         allocated' = Returned(proc[p].need)
  PROVE  allocated' = allocated - proc[p].need /\ ProcShare(p) = proc[p].need
         /\ proc[p].need \in Nat /\ allocated' <= shared
<1>1. ProcShare(p) = proc[p].need
  BY HoldingShare
<1>2. proc[p].need <= Total(proc, Holding) /\ proc[p].need \in Nat
  BY <1>1, ShareWithin
<1>3. proc[p].need <= allocated /\ allocated \in Nat /\ allocated <= shared /\ shared \in Nat
  BY <1>2, SumsAreFinite DEF Reserved, Sound, TypeOK
<1>4. QED
  BY <1>1, <1>2, <1>3 DEF Returned

-----------------------------------------------------------------------------
(* Every step of a start, and of a stop, keeps the accounts.                 *)

LEMMA StartKeepsAccounts ==
  ASSUME Sound, Sound', Reserved, NEW c \in Calls, Start(c)
  PROVE  Reserved' /\ (StartsAreFresh /\ Exact => Exact')
<1>0. c \in Procs /\ TypeOK /\ ProcsOK
  BY Constants DEF Sound
<1>n. /\ proc[c].need \in Nat /\ allocated \in Nat /\ shared \in Nat /\ allocated <= shared
      /\ allocated' \in Nat
  BY <1>0 DEF Sound, TypeOK, ProcType, Reserved
<1>o. ~ At(c, "idle") => Owner(c) \in Owners
  BY <1>0 DEF ProcsOK, At, Idle
<1>1. CASE RefuseStart(c)
  <2>1. Done(c) /\ At(c, "authorizing") /\ UNCHANGED <<vms, container, shared, allocated>>
    BY <1>1 DEF RefuseStart, docker
  <2>2. ProcShare(c) = 0 /\ ~ Busy(c)
    BY <2>1, <1>0, HoldingShare DEF Busy, At
  <2>3. QED
    BY <2>1, <2>2, <1>0, <1>n, DoneEffect, QuietBalance
<1>2. CASE Allocate(c)
  <2>1. /\ At(c, "authorizing") /\ ~ Busy(c) /\ UNCHANGED <<vms, container, shared>>
        /\ allocated' = allocated + proc[c].need /\ allocated' <= shared
    BY <1>2, <1>n DEF Allocate, Fits, docker, Busy, At
  <2>2. ProcShare(c) = 0
    BY <2>1, <1>0, HoldingShare
  <2>3. CASE vms[Owner(c)] # NoVm
    <3>1. Done(c)
      BY <2>3, <1>2 DEF Allocate
    <3>2. Reserved'
      BY <2>1, <2>2, <3>1, <1>0, <1>n, DoneEffect, QuietBalance
    <3>3. ~ StartsAreFresh
      BY <2>1, <2>3 DEF StartsAreFresh, Starting, At
    <3>4. QED
      BY <3>2, <3>3
  <2>4. CASE vms[Owner(c)] = NoVm
    <3>1. Goto(c, "restoring")
      BY <2>4, <1>2 DEF Allocate
    <3>2. /\ \A q \in Procs \ {c} : proc'[q] = proc[q]
          /\ proc'[c].pc = "restoring" /\ proc'[c].need = proc[c].need
      BY <3>1, <1>0, GotoEffect
    <3>3. ~ Busy(c)' /\ ProcShare(c)' = proc[c].need
      BY <3>2, <1>0 DEF Busy, ProcShare, Share, Holding, At
    <3>4. QED
      BY <2>1, <2>2, <3>2, <3>3, <1>n, QuietBalance
  <2>5. QED
    BY <2>3, <2>4
<1>3. CASE Restore(c)
  <2>1. Goto(c, "pulling") /\ At(c, "restoring") /\ UNCHANGED <<vms, container, shared, allocated>>
    BY <1>3 DEF Restore
  <2>2. /\ \A q \in Procs \ {c} : proc'[q] = proc[q]
        /\ proc'[c].pc = "pulling" /\ proc'[c].need = proc[c].need
    BY <2>1, <1>0, GotoEffect
  <2>3. /\ ~ Busy(c) /\ ~ Busy(c)'
        /\ ProcShare(c) = proc[c].need /\ ProcShare(c)' = proc[c].need
    BY <2>1, <2>2, <1>0 DEF Busy, ProcShare, Share, Holding, At
  <2>4. QED
    BY <2>1, <2>2, <2>3, <1>n, QuietBalance
<1>4. CASE Pull(c)
  <2>1. PICK ok \in Outcomes("pull") :
          IF ok THEN Goto(c, "removing") /\ UNCHANGED allocated
                ELSE Done(c) /\ allocated' = Returned(proc[c].need)
    BY <1>4 DEF Pull
  <2>2. At(c, "pulling") /\ ~ Busy(c) /\ UNCHANGED <<vms, container, shared>>
    BY <1>4 DEF Pull, docker, At, Busy
  <2>3. CASE ok
    <3>1. Goto(c, "removing") /\ allocated' = allocated
      BY <2>1, <2>3
    <3>2. /\ \A q \in Procs \ {c} : proc'[q] = proc[q]
          /\ proc'[c].pc = "removing" /\ proc'[c].need = proc[c].need
      BY <3>1, <1>0, GotoEffect
    <3>3. ~ Busy(c)' /\ ProcShare(c) = proc[c].need /\ ProcShare(c)' = proc[c].need
      BY <2>2, <3>2, <1>0 DEF Busy, ProcShare, Share, Holding, At
    <3>4. QED
      BY <2>2, <3>1, <3>2, <3>3, <1>n, QuietBalance
  <2>4. CASE ~ ok
    <3>1. Done(c) /\ allocated' = Returned(proc[c].need)
      BY <2>1, <2>4
    <3>2. ~ At(c, "idle") /\ ~ At(c, "authorizing")
      BY <2>2 DEF At
    <3>3. /\ allocated' = allocated - proc[c].need /\ ProcShare(c) = proc[c].need
          /\ allocated' <= shared
      BY <3>1, <3>2, <1>0, GivingBack
    <3>4. QED
      BY <2>2, <3>1, <3>3, <1>0, <1>n, DoneEffect, QuietBalance
  <2>5. QED
    BY <2>3, <2>4
<1>5. CASE RemoveStale(c)
  <2>o. PICK o : o = Owner(c)
    OBVIOUS
  <2>1. /\ Goto(c, "running") /\ At(c, "removing") /\ UNCHANGED <<vms, shared, allocated>>
        /\ container' = [container EXCEPT ![o] = NoVm]
    BY <2>o, <1>5 DEF RemoveStale
  <2>2. /\ \A q \in Procs \ {c} : proc'[q] = proc[q]
        /\ proc'[c].pc = "running" /\ proc'[c].need = proc[c].need
    BY <2>1, <1>0, GotoEffect
  <2>3. /\ ~ Busy(c) /\ ~ Busy(c)'
        /\ ProcShare(c) = proc[c].need /\ ProcShare(c)' = proc[c].need
    BY <2>1, <2>2, <1>0 DEF Busy, ProcShare, Share, Holding, At
  <2>4. Local(c, o)
    BY <2>1, <2>2, <1>0 DEF Local, TypeOK
  <2>5. container'[o] = NoVm
    BY <2>o, <2>1, <1>0, <1>o DEF TypeOK, At
  <2>6. LostShare(o)' = 0 /\ VmShare(o)' = VmShare(o)
    BY <2>5, <2>1 DEF LostShare, VmShare, Share, Lost, Running, Tracked
  <2>7. LostShare(o) \in Nat /\ VmShare(o) \in Nat
    BY <2>3, <2>4, LostChanges, HeldChanges
  <2>8. /\ allocated' + VmShare(o) + ProcShare(c) = allocated + VmShare(o)' + ProcShare(c)'
        /\ allocated' + VmShare(o) + ProcShare(c) + LostShare(o)
             >= allocated + VmShare(o)' + ProcShare(c)' + LostShare(o)'
    BY <2>1, <2>3, <2>6, <2>7, <1>n
  <2>9. QED
    BY <2>1, <2>3, <2>4, <2>8, <1>n, Balance, ExactBalance
<1>6. CASE Run(c)
  <2>o. PICK o : o = Owner(c)
    OBVIOUS
  <2>0. At(c, "running") /\ ~ Busy(c) /\ o \in Owners /\ UNCHANGED <<vms, shared>>
    BY <2>o, <1>6, <1>o DEF Run, At, Busy
  <2>1. CASE UNCHANGED <<container, home>> /\ Done(c)
             /\ allocated' = Returned(proc[c].need)
    <3>1. ~ At(c, "idle") /\ ~ At(c, "authorizing")
      BY <2>0 DEF At
    <3>2. /\ allocated' = allocated - proc[c].need /\ ProcShare(c) = proc[c].need
          /\ allocated' <= shared
      BY <2>1, <3>1, <1>0, GivingBack
    <3>3. QED
      BY <2>0, <2>1, <3>2, <1>0, <1>n, DoneEffect, QuietBalance
  <2> DEFINE vm == [need |-> proc[c].need, budget |-> proc[c].budget,
                    rate |-> LeaseRate, created |-> clock]
  <2>2. CASE /\ container[o] = NoVm
             /\ container' = [container EXCEPT ![o] = vm]
             /\ home' = [home EXCEPT ![o] = IF @ = NoVm THEN 0 ELSE @]
             /\ Goto(c, "recording")
             /\ UNCHANGED allocated
    <3>1. /\ \A q \in Procs \ {c} : proc'[q] = proc[q]
          /\ proc'[c].pc = "recording" /\ proc'[c].need = proc[c].need
          /\ proc'[c].owner = o
      BY <2>o, <2>2, <1>0, GotoEffect DEF Owner
    <3>2. /\ Owner(c)' = o
          /\ ProcShare(c) = proc[c].need /\ ProcShare(c)' = proc[c].need
      BY <2>0, <3>1, <1>0 DEF Owner, ProcShare, Share, Holding, At
    <3>3. container'[o] = vm /\ vm.need = proc[c].need
      BY <2>2, <2>0, <1>0 DEF TypeOK
    <3>4. Local(c, o)
      BY <2>0, <2>2, <3>1, <1>0 DEF Local, TypeOK
    <3>5. Backs(c, o)'
      BY <3>1, <3>2, <3>3, <1>n DEF Backs
    <3>6. LostShare(o) = 0 /\ LostShare(o)' = 0
      BY <2>2, <3>5, <1>0 DEF LostShare, Share, Lost, Running, Backed
    <3>7. VmShare(o)' = VmShare(o)
      BY <2>0 DEF VmShare, Share, Tracked
    <3>8. VmShare(o) \in Nat
      BY <3>4, HeldChanges
    <3>9. /\ allocated' + VmShare(o) + ProcShare(c) = allocated + VmShare(o)' + ProcShare(c)'
          /\ allocated' + VmShare(o) + ProcShare(c) + LostShare(o)
               >= allocated + VmShare(o)' + ProcShare(c)' + LostShare(o)'
      BY <2>2, <3>2, <3>6, <3>7, <3>8, <1>n
    <3>10. shared' = shared /\ allocated' <= shared
      BY <2>0, <2>2, <1>n
    <3>11. QED
      BY <2>0, <3>2, <3>4, <3>9, <3>10, Balance, ExactBalance
  <2>3. QED
    BY <2>o, <2>1, <2>2, <1>6 DEF Run
<1>7. CASE Record(c)
  <2>o. PICK o : o = Owner(c)
    OBVIOUS
  <2> DEFINE vm == [need |-> proc[c].need, budget |-> proc[c].budget,
                    rate |-> LeaseRate, created |-> clock]
  <2>1. /\ At(c, "recording") /\ o \in Owners /\ UNCHANGED <<container, shared, allocated>>
        /\ vms' = [vms EXCEPT ![o] = vm] /\ Done(c)
    BY <2>o, <1>7, <1>o DEF Record, At, docker
  <2>2. /\ \A q \in Procs \ {c} : proc'[q] = proc[q]
        /\ ProcShare(c)' = 0 /\ ~ Busy(c)' /\ ~ (proc'[c].pc \in {"recording", "killing"})
    BY <2>1, <1>0, DoneEffect DEF Busy
  <2>3. Local(c, o)
    BY <2>1, <2>2, <1>0 DEF Local, TypeOK
  <2>4. ProcShare(c) = proc[c].need
    BY <2>1, <1>0, HoldingShare DEF At
  <2>5. vms'[o] = vm /\ vm.need = proc[c].need /\ vm # NoVm
    <3>1. vm \in VmType
      BY <1>0, <1>n, Constants DEF VmType, TypeOK, ProcType
    <3>2. QED
      BY <3>1, <2>1, <1>0, Constants DEF TypeOK
  <2>6. VmShare(o)' = proc[c].need
    BY <2>1, <2>5 DEF VmShare, Share, Tracked
  <2>7. LostShare(o) \in Nat /\ LostShare(o)' \in Nat /\ VmShare(o) \in Nat
    BY <2>o, <2>2, <2>3, LostChanges, HeldChanges
  <2>8. LostShare(o)' <= LostShare(o) + VmShare(o)
    <3>1. CASE o \notin Lost'
      BY <3>1, <2>7 DEF LostShare, Share
    <3>2. CASE o \in Lost
      BY <3>2, <2>1, <2>7 DEF LostShare, Share
    <3>3. CASE o \in Lost' /\ o \notin Lost
      <4>1. container[o] # NoVm /\ Backed(o) /\ ~ Backed(o)'
        BY <3>3, <2>1 DEF Lost, Running
      <4>2. container[o].need \in Nat
        BY <4>1, <2>1, <1>0 DEF TypeOK, VmType
      <4>3. ASSUME NEW q \in Procs, Backs(q, o) PROVE FALSE
        <5>1. CASE q = c
          <6>1. vms'[o].need >= container'[o].need /\ vms'[o] # NoVm
            BY <5>1, <4>3, <2>1, <2>5 DEF Backs
          <6>2. QED
            BY <6>1, <4>1 DEF Backed
        <5>2. CASE q # c
          <6>1. Backs(q, o)'
            BY <5>2, <4>3, <2>1, <2>2 DEF Backs, Owner
          <6>2. QED
            BY <6>1, <4>1 DEF Backed
        <5>3. QED
          BY <5>1, <5>2
      <4>4. vms[o] # NoVm /\ vms[o].need >= container[o].need
        BY <4>1, <4>3 DEF Backed
      <4>5. VmShare(o) = vms[o].need /\ LostShare(o) = 0 /\ LostShare(o)' = container[o].need
        BY <3>3, <4>4, <2>1 DEF VmShare, LostShare, Share, Tracked
      <4>6. QED
        BY <4>2, <4>4, <4>5, <2>7
    <3>4. QED
      BY <3>1, <3>2, <3>3
  <2>9. allocated' + VmShare(o) + ProcShare(c) + LostShare(o)
          >= allocated + VmShare(o)' + ProcShare(c)' + LostShare(o)'
    BY <2>1, <2>2, <2>4, <2>6, <2>7, <2>8, <1>n
  <2>10. StartsAreFresh => VmShare(o) = 0
    BY <2>o, <2>1 DEF StartsAreFresh, Starting, At, VmShare, Share, Tracked
  <2>11. StartsAreFresh =>
           allocated' + VmShare(o) + ProcShare(c) = allocated + VmShare(o)' + ProcShare(c)'
    BY <2>1, <2>2, <2>4, <2>6, <2>10, <1>n
  <2>12. Busy(c) => Owner(c) = o
    BY <2>o
  <2> HIDE DEF vm
  <2>13. QED
    BY <2>1, <2>2, <2>3, <2>9, <2>11, <2>12, <1>n, Balance, ExactBalance
<1>8. QED
  BY <1>1, <1>2, <1>3, <1>4, <1>5, <1>6, <1>7 DEF Start

LEMMA StopKeepsAccounts ==
  ASSUME DockerAnswers, Sound, Sound', Reserved, NEW p \in Procs, Stop(p)
  PROVE  Reserved' /\ (Exact => Exact')
<1>0. TypeOK /\ ProcsOK
  BY DEF Sound
<1>n. /\ proc[p].need \in Nat /\ allocated \in Nat /\ shared \in Nat /\ allocated <= shared
      /\ allocated' \in Nat
  BY <1>0 DEF Sound, TypeOK, ProcType, Reserved
<1>o. ~ At(p, "idle") => Owner(p) \in Owners
  BY <1>0 DEF ProcsOK, At, Idle
<1>1. CASE Kill(p)
  <2>o. PICK o : o = Owner(p)
    OBVIOUS
  <2> DEFINE next == IF proc[p].wipe THEN "dropping"
                     ELSE IF Remote THEN "syncing" ELSE "releasing"
  <2>1. /\ Goto(p, next) /\ At(p, "killing") /\ UNCHANGED <<vms, shared, allocated>>
        /\ container' = [container EXCEPT ![o] = NoVm]
    BY <2>o, <1>1 DEF Kill, Outcomes, DockerAnswers
  <2>2. next \in {"syncing", "dropping", "releasing"}
    OBVIOUS
  <2> HIDE DEF next
  <2>3. /\ \A q \in Procs \ {p} : proc'[q] = proc[q]
        /\ proc'[p].pc = next /\ proc'[p].need = proc[p].need
    BY <2>1, <1>0, GotoEffect
  <2>4. /\ ~ Busy(p)'
        /\ ProcShare(p) = proc[p].need /\ ProcShare(p)' = proc[p].need
    BY <2>1, <2>2, <2>3, <1>0 DEF Busy, ProcShare, Share, Holding, At
  <2>5. Local(p, o)
    BY <2>1, <2>3, <1>0 DEF Local, TypeOK
  <2>6. container'[o] = NoVm
    BY <2>o, <2>1, <1>0, <1>o DEF TypeOK, At
  <2>7. LostShare(o)' = 0 /\ VmShare(o)' = VmShare(o)
    BY <2>6, <2>1 DEF LostShare, VmShare, Share, Lost, Running, Tracked
  <2>8. LostShare(o) \in Nat /\ VmShare(o) \in Nat
    BY <2>o, <2>4, <2>5, LostChanges, HeldChanges
  <2>9. /\ allocated' + VmShare(o) + ProcShare(p) = allocated + VmShare(o)' + ProcShare(p)'
        /\ allocated' + VmShare(o) + ProcShare(p) + LostShare(o)
             >= allocated + VmShare(o)' + ProcShare(p)' + LostShare(o)'
    BY <2>1, <2>4, <2>7, <2>8, <1>n
  <2>10. Busy(p) => Owner(p) = o
    BY <2>o
  <2>11. QED
    BY <2>1, <2>4, <2>5, <2>9, <2>10, <1>n, Balance, ExactBalance
<1>2. CASE Sync(p) \/ Drop(p)
  <2>1. PICK next \in {"dropping", "releasing"} : Goto(p, next)
    BY <1>2 DEF Sync, Drop
  <2>2. /\ At(p, "syncing") \/ At(p, "dropping")
        /\ UNCHANGED <<vms, container, shared, allocated>>
    BY <1>2 DEF Sync, Drop
  <2>3. /\ \A q \in Procs \ {p} : proc'[q] = proc[q]
        /\ proc'[p].pc = next /\ proc'[p].need = proc[p].need
    BY <2>1, <1>0, GotoEffect
  <2>4. /\ ~ Busy(p) /\ ~ Busy(p)'
        /\ ProcShare(p) = proc[p].need /\ ProcShare(p)' = proc[p].need
    BY <2>2, <2>3, <1>0 DEF Busy, ProcShare, Share, Holding, At
  <2>5. QED
    BY <2>2, <2>3, <2>4, <1>n, QuietBalance
<1>3. CASE Release(p)
  <2>1. /\ At(p, "releasing") /\ ~ Busy(p) /\ ~ At(p, "idle") /\ ~ At(p, "authorizing")
        /\ Done(p) /\ allocated' = Returned(proc[p].need)
        /\ UNCHANGED <<vms, container, shared>>
    BY <1>3 DEF Release, docker, At, Busy
  <2>2. /\ allocated' = allocated - proc[p].need /\ ProcShare(p) = proc[p].need
        /\ allocated' <= shared
    BY <2>1, <1>0, GivingBack
  <2>3. QED
    BY <2>1, <2>2, <1>0, <1>n, DoneEffect, QuietBalance
<1>4. QED
  BY <1>1, <1>2, <1>3 DEF Stop

(* The record's reservation passes to the process that stops the VM.         *)
LEMMA BeginStopKeepsAccounts ==
  ASSUME Sound, Sound', Reserved, NEW p \in Procs, NEW o \in Owners, NEW wipe,
         BeginStop(p, o, wipe)
  PROVE  Reserved' /\ (Exact => Exact')
<1>0. TypeOK /\ ProcsOK
  BY DEF Sound
<1>n. allocated \in Nat /\ shared \in Nat /\ allocated <= shared
  BY <1>0 DEF TypeOK, Reserved
<1> DEFINE n == [pc |-> "killing", owner |-> o, need |-> vms[o].need,
                 budget |-> 0, wipe |-> wipe]
<1>1. /\ At(p, "idle") /\ vms[o] # NoVm
      /\ vms' = [vms EXCEPT ![o] = NoVm] /\ proc' = [proc EXCEPT ![p] = n]
      /\ UNCHANGED <<container, shared, allocated>>
  BY DEF BeginStop, docker
<1>2. /\ proc'[p] = n /\ n.pc = "killing" /\ n.owner = o /\ n.need = vms[o].need
  BY <1>1, <1>0 DEF TypeOK
<1>3. vms[o].need \in Nat
  BY <1>1, <1>0 DEF TypeOK, VmType
<1> HIDE DEF n
<1>4. Local(p, o)
  BY <1>1, <1>0 DEF Local, TypeOK
<1>5. ProcShare(p) = 0 /\ ProcShare(p)' = vms[o].need /\ ~ Busy(p) /\ Owner(p)' = o
  BY <1>1, <1>2 DEF ProcShare, Share, Holding, At, Busy, Owner
<1>6. VmShare(o) = vms[o].need /\ VmShare(o)' = 0
  BY <1>1, <1>0 DEF VmShare, Share, Tracked, TypeOK
<1>7. LostShare(o) \in Nat /\ LostShare(o)' \in Nat
  BY <1>4, <1>5, LostChanges
<1>8. LostShare(o)' <= LostShare(o)
  <2>1. ASSUME o \in Lost' PROVE o \in Lost
    <3>1. container[o] # NoVm /\ ~ Backed(o)'
      BY <1>1, <2>1 DEF Lost, Running
    <3>2. container[o].need \in Nat
      BY <3>1, <1>0 DEF TypeOK, VmType
    <3>3. ASSUME NEW q \in Procs, Backs(q, o) PROVE FALSE
      <4>1. q # p
        BY <3>3, <1>5 DEF Backs, Busy
      <4>2. Backs(q, o)'
        BY <4>1, <3>3, <1>1, <1>4 DEF Backs, Owner, Local
      <4>3. QED
        BY <4>2, <3>1 DEF Backed
    <3>4. ~ (vms[o].need >= container[o].need)
      <4>1. SUFFICES ASSUME vms[o].need >= container[o].need PROVE Backs(p, o)'
        BY <3>1 DEF Backed
      <4>2. QED
        BY <4>1, <1>1, <1>2, <1>5 DEF Backs
    <3>5. QED
      BY <3>1, <3>3, <3>4 DEF Lost, Running, Backed
  <2>2. QED
    BY <2>1, <1>1, <1>7 DEF LostShare, Share
<1>9. /\ allocated' + VmShare(o) + ProcShare(p) = allocated + VmShare(o)' + ProcShare(p)'
      /\ allocated' + VmShare(o) + ProcShare(p) + LostShare(o)
           >= allocated + VmShare(o)' + ProcShare(p)' + LostShare(o)'
  BY <1>n, <1>1, <1>3, <1>5, <1>6, <1>7, <1>8
<1>10. QED
  BY <1>n, <1>1, <1>4, <1>5, <1>9, Balance, ExactBalance

-----------------------------------------------------------------------------
(* What runs is backed by what is allocated, container by container.         *)

LEMMA TotalSplits ==
  ASSUME NEW f, NEW S, NEW T, IsFiniteSet(S), IsFiniteSet(T),
         \A x \in S \cup T : f[x].need \in Nat
  PROVE  Total(f, S \cup T) <= Total(f, S) + Total(f, T)
<1>1. Units(f, S \cup T) = Units(f, S) \cup Units(f, T)
  BY DEF Units
<1>2. /\ IsFiniteSet(Units(f, S)) /\ Total(f, S) \in Nat
      /\ IsFiniteSet(Units(f, T)) /\ Total(f, T) \in Nat
  BY UnitsAreFinite
<1>3. /\ Cardinality(Units(f, S) \cup Units(f, T)) =
           Cardinality(Units(f, S)) + Cardinality(Units(f, T))
             - Cardinality(Units(f, S) \cap Units(f, T))
  BY <1>2, FS_Union
<1>4. IsFiniteSet(Units(f, S) \cap Units(f, T))
  BY <1>2, FS_Intersection
<1>5. Cardinality(Units(f, S) \cap Units(f, T)) \in Nat
  BY <1>4, FS_CardinalityType
<1>6. /\ Total(f, S) = Cardinality(Units(f, S)) /\ Total(f, T) = Cardinality(Units(f, T))
      /\ Total(f, S \cup T) = Cardinality(Units(f, S) \cup Units(f, T))
  BY <1>1 DEF Total
<1>7. QED
  BY <1>2, <1>3, <1>5, <1>6

LEMMA RunningIsBacked ==
  ASSUME Sound
  PROVE  Total(container, Running) <= HeldSum + Total(container, Lost)
<1> DEFINE R == {o \in Running : vms[o] # NoVm /\ vms[o].need >= container[o].need}
           P == {o \in Running : o \notin R /\ o \notin Lost}
<1>0. /\ Running \subseteq Owners /\ Lost \subseteq Running
      /\ R \subseteq Running /\ P \subseteq Running
      /\ Running = R \cup (P \cup Lost)
  BY DEF Running, Lost
<1>1. /\ IsFiniteSet(Running) /\ \A o \in Running : container[o].need \in Nat
      /\ IsFiniteSet(Lost)
      /\ IsFiniteSet(Tracked) /\ \A o \in Tracked : vms[o].need \in Nat
      /\ IsFiniteSet(Holding) /\ \A p \in Holding : proc[p].need \in Nat
      /\ Total(vms, Tracked) \in Nat /\ Total(proc, Holding) \in Nat
      /\ Total(container, Running) \in Nat /\ Total(container, Lost) \in Nat
  BY SumsAreFinite
<1>2. IsFiniteSet(R) /\ IsFiniteSet(P) /\ IsFiniteSet(P \cup Lost)
  BY <1>0, <1>1, FS_Subset
<1>3. Total(container, R) <= Total(vms, Tracked)
  <2> DEFINE m == [o \in R |-> o]
  <2>1. m \in [R -> Tracked]
    BY <1>0 DEF Tracked
  <2>2. \A x, y \in R : m[x] = m[y] => x = y
    OBVIOUS
  <2>3. \A x \in R : container[x].need \in Nat /\ container[x].need <= vms[m[x]].need
    <3>1. ASSUME NEW x \in R
          PROVE  container[x].need \in Nat /\ container[x].need <= vms[m[x]].need
      <4>1. container[x].need \in Nat /\ vms[x].need >= container[x].need
        BY <1>0, <1>1
      <4>2. x \in Tracked
        BY <1>0 DEF Tracked
      <4>3. vms[x].need \in Nat
        BY <4>2, <1>1
      <4>4. QED
        BY <4>1, <4>3
    <3>2. QED
      BY <3>1
  <2> HIDE DEF m, R
  <2>4. QED
    BY <2>1, <2>2, <2>3, <1>1, <1>2, TotalMatched
<1>4. Total(container, P) <= Total(proc, Holding)
  <2> DEFINE m == [o \in P |-> CHOOSE p \in Procs : Backs(p, o)]
  <2>1. ASSUME NEW o \in P
        PROVE  m[o] \in Procs /\ Backs(m[o], o)
    <3>1. \E p \in Procs : Backs(p, o)
      BY DEF Lost, Backed
    <3>2. QED
      BY <3>1
  <2>2. ASSUME NEW o \in P
        PROVE  m[o] \in Holding /\ Owner(m[o]) = o /\ container[o].need <= proc[m[o]].need
    <3> DEFINE p == m[o]
    <3>1. p \in Procs /\ Backs(p, o)
      BY <2>1
    <3> HIDE DEF m
    <3>2. p \in Holding /\ Owner(p) = o /\ proc[p].need >= container[o].need
      BY <3>1 DEF Backs, Holding, At
    <3>3. container[o].need \in Nat /\ proc[p].need \in Nat
      BY <3>2, <1>0, <1>1
    <3>4. QED
      BY <3>2, <3>3
  <2>3. m \in [P -> Holding]
    BY <2>2
  <2>4. \A x, y \in P : m[x] = m[y] => x = y
    <3> HIDE DEF m
    <3>1. QED
      BY <2>2
  <2>5. \A x \in P : container[x].need \in Nat /\ container[x].need <= proc[m[x]].need
    <3> HIDE DEF m
    <3>1. QED
      BY <2>2, <1>0, <1>1
  <2> HIDE DEF m, P
  <2>6. QED
    BY <2>3, <2>4, <2>5, <1>1, <1>2, TotalMatched
<1> HIDE DEF R, P
<1>5. Total(container, P \cup Lost) <= Total(container, P) + Total(container, Lost)
  BY <1>0, <1>1, <1>2, TotalSplits
<1>6. Total(container, Running) <= Total(container, R) + Total(container, P \cup Lost)
  BY <1>0, <1>1, <1>2, TotalSplits
<1>7. /\ Total(container, R) \in Nat /\ Total(container, P) \in Nat
      /\ Total(container, P \cup Lost) \in Nat
  BY <1>0, <1>1, <1>2, UnitsAreFinite
<1>8. QED
  BY <1>1, <1>3, <1>4, <1>5, <1>6, <1>7 DEF HeldSum

(* Then no more runs than is shared. *)
LEMMA ReservedSuffices ==
  ASSUME Sound, Reserved
  PROVE  NeverOversubscribed
<1>1. HeldSum \in Nat /\ Total(container, Running) \in Nat /\ allocated \in Nat /\ shared \in Nat
      /\ Total(container, Lost) \in Nat
  BY SumsAreFinite DEF HeldSum, Sound, TypeOK
<1>2. QED
  BY <1>1, RunningIsBacked DEF Reserved, HeldSum, NeverOversubscribed

(* At a restart everything that runs finds room again, and it is recorded    *)
(* with what it holds.                                                       *)
LEMMA RestartKeepsAccounts ==
  ASSUME DockerAnswers, SharesTheSame, Sound, Sound', Reserved, Restart
  PROVE  Reserved' /\ Exact'
<1> DEFINE kept == {o \in Owners : container[o] # NoVm}
<1>1. PICK size \in SharedLater, listed \in Outcomes("ps") :
        /\ shared' = size
        /\ IF listed
             THEN \E alive \in SUBSET kept : \E counted \in Counted(alive, size) :
                    /\ container' = [o \in Owners |->
                                       IF o \in alive THEN container[o] ELSE NoVm]
                    /\ vms' = container'
                    /\ allocated' = SumNeed(counted)
             ELSE /\ vms' = [o \in Owners |-> NoVm]
                  /\ allocated' = 0
                  /\ UNCHANGED container
  BY DEF Restart
<1>2. listed /\ size = SharedAtFirst /\ size = shared
  BY DEF Outcomes, DockerAnswers, SharesTheSame, Reserved
<1>3. PICK alive \in SUBSET kept : \E counted \in Counted(alive, size) :
        /\ container' = [o \in Owners |-> IF o \in alive THEN container[o] ELSE NoVm]
        /\ vms' = container'
        /\ allocated' = SumNeed(counted)
  BY <1>1, <1>2
<1>4. PICK counted \in Counted(alive, size) :
        /\ container' = [o \in Owners |-> IF o \in alive THEN container[o] ELSE NoVm]
        /\ vms' = container'
        /\ allocated' = SumNeed(counted)
  BY <1>3
<1>5. /\ counted \subseteq alive /\ Total(container, counted) <= size
      /\ \A o \in alive \ counted : Total(container, counted) + container[o].need > size
  BY DEF Counted, SumNeed
<1>6. /\ alive \subseteq Running /\ IsFiniteSet(alive) /\ IsFiniteSet(counted)
      /\ \A o \in alive : container[o].need \in Nat
      /\ Total(container, alive) \in Nat /\ Total(container, counted) \in Nat
  <2>1. alive \subseteq Running
    BY DEF Running
  <2>2. IsFiniteSet(alive) /\ IsFiniteSet(counted)
    BY <2>1, <1>5, SumsAreFinite, FS_Subset
  <2>3. \A o \in alive : container[o].need \in Nat
    BY <2>1, SumsAreFinite
  <2>4. QED
    BY <2>1, <2>2, <2>3, <1>5, UnitsAreFinite
<1>7. ASSUME NEW S \in SUBSET Running
      PROVE  Total(container, S) <= shared /\ Total(container, S) \in Nat
  <2>1. Total(container, Running) <= shared /\ Total(container, Running) \in Nat /\ shared \in Nat
    BY ReservedSuffices, SumsAreFinite DEF NeverOversubscribed, Sound, TypeOK
  <2>2. Units(container, S) \subseteq Units(container, Running)
    BY DEF Units
  <2>3. IsFiniteSet(Units(container, Running))
    BY SumsAreFinite, UnitsAreFinite
  <2>4. Total(container, S) <= Total(container, Running) /\ IsFiniteSet(Units(container, S))
    BY <2>2, <2>3, FS_Subset DEF Total
  <2>5. Total(container, S) \in Nat
    BY <2>4, FS_CardinalityType DEF Total
  <2>6. QED
    BY <2>1, <2>4, <2>5
<1>8. counted = alive
  <2>1. SUFFICES ASSUME NEW o \in alive, o \notin counted PROVE FALSE
    BY <1>5
  <2> DEFINE S == counted \cup {o}
  <2>2. S \in SUBSET Running /\ S \ {o} = counted /\ o \in S
    BY <2>1, <1>5, <1>6
  <2>3. IsFiniteSet(S) /\ \A x \in S : container[x].need \in Nat
    BY <1>5, <1>6, FS_AddElement
  <2> HIDE DEF S
  <2>4. Total(container, S) = Total(container, S \ {o}) + Share(container, S, o)
    BY <2>3, TotalWithout
  <2>5. Share(container, S, o) = container[o].need
    BY <2>2 DEF Share
  <2>6. Total(container, S) = Total(container, counted) + container[o].need
    BY <2>2, <2>4, <2>5
  <2>7. Total(container, S) <= size
    BY <2>2, <1>2, <1>7
  <2>8. Total(container, counted) + container[o].need > size
    BY <2>1, <1>5
  <2>9. size \in Nat /\ container[o].need \in Nat
    BY <1>2, <1>6, Constants
  <2>10. QED
    BY <2>6, <2>7, <2>8, <2>9, <1>6
<1>9. allocated' = Total(container, alive) /\ allocated' <= shared' /\ shared' = SharedAtFirst
  BY <1>1, <1>2, <1>4, <1>5, <1>8 DEF SumNeed
<1>10. Tracked' = alive /\ Total(vms', Tracked') = Total(container, alive)
  <2>1. Tracked' = alive
    BY <1>4, <1>6 DEF Tracked, Running
  <2>2. \A o \in alive : vms'[o] = container[o]
    BY <1>4, <1>6 DEF Running
  <2>3. Units(vms', alive) = Units(container, alive)
    BY <2>2 DEF Units
  <2>4. QED
    BY <2>1, <2>3 DEF Total
<1>11. Holding' = {} /\ Total(proc', Holding') = 0
  <2>1. \A p \in Procs : proc'[p].pc = "idle"
    BY DEF Restart, Idle
  <2>2. Holding' = {}
    BY <2>1 DEF Holding, At
  <2>3. QED
    BY <2>2, TotalOfNone
<1>12. Lost' = {} /\ Total(container', Lost') = 0
  <2>1. ASSUME NEW o \in Running' PROVE Backed(o)'
    <3>1. vms'[o] = container'[o] /\ container'[o] # NoVm /\ o \in Owners
      BY <1>4 DEF Running
    <3>2. container'[o].need \in Nat
      BY <3>1 DEF Sound, TypeOK, VmType
    <3>3. QED
      BY <3>1, <3>2 DEF Backed
  <2>2. Lost' = {}
    BY <2>1 DEF Lost
  <2>3. QED
    BY <2>2, TotalOfNone
<1>13. QED
  BY <1>6, <1>9, <1>10, <1>11, <1>12 DEF Reserved, Exact, HeldSum

LEMMA AccountsRest ==
  ASSUME Reserved, UNCHANGED <<vms, container, proc, shared, allocated>>
  PROVE  Reserved' /\ (Exact => Exact')
<1>1. Tracked' = Tracked /\ Holding' = Holding /\ Lost' = Lost
  BY DEF Tracked, Holding, Lost, Running, Backed, Backs, At, Owner
<1>2. QED
  BY <1>1 DEF Reserved, Exact, HeldSum

LEMMA InitAccounts == Init => Reserved /\ Exact
<1> SUFFICES ASSUME Init PROVE Reserved /\ Exact
  OBVIOUS
<1>1. Tracked = {} /\ Holding = {} /\ Lost = {}
  BY DEF Init, Tracked, Holding, Lost, Running, At, Idle
<1>2. Total(vms, Tracked) = 0 /\ Total(proc, Holding) = 0 /\ Total(container, Lost) = 0
  BY <1>1, TotalOfNone
<1>3. allocated = 0 /\ shared = SharedAtFirst
  BY DEF Init
<1>4. QED
  BY <1>2, <1>3, Constants DEF Reserved, Exact, HeldSum

LEMMA NextKeepsAccounts ==
  ASSUME DockerAnswers, SharesTheSame, Sound, Sound', Reserved, [Next]_vars
  PROVE  Reserved' /\ (StartsAreFresh /\ Exact => Exact')
<1>1. ASSUME NEW c \in Calls, NEW o \in Owners, AlreadyUp(c, o)
      PROVE  Reserved' /\ (StartsAreFresh /\ Exact => Exact')
  BY <1>1, AccountsRest DEF AlreadyUp, docker
<1>2. ASSUME NEW c \in Calls, NEW o \in Owners, NEW need \in Needs, NEW budget \in Budgets,
             StartVm(c, o, need, budget)
      PROVE  Reserved' /\ (StartsAreFresh /\ Exact => Exact')
  <2> DEFINE n == [pc |-> "authorizing", owner |-> o, need |-> need,
                   budget |-> budget, wipe |-> FALSE]
  <2>1. /\ At(c, "idle") /\ proc' = [proc EXCEPT ![c] = n] /\ n.pc = "authorizing"
        /\ UNCHANGED <<vms, container, shared, allocated>>
    BY <1>2 DEF StartVm, docker
  <2> HIDE DEF n
  <2>2. c \in Procs /\ proc'[c].pc = "authorizing" /\ \A q \in Procs \ {c} : proc'[q] = proc[q]
    BY <2>1, Constants DEF Sound, TypeOK
  <2>3. /\ ~ Busy(c) /\ ~ Busy(c)' /\ ProcShare(c) = 0 /\ ProcShare(c)' = 0
    BY <2>1, <2>2 DEF Busy, ProcShare, Share, Holding, At
  <2>4. allocated \in Nat /\ allocated' <= shared
    BY <2>1 DEF Sound, TypeOK, Reserved
  <2>5. QED
    BY <2>1, <2>2, <2>3, <2>4, QuietBalance
<1>3. ASSUME NEW c \in Calls, NEW o \in Owners, NEW wipe \in BOOLEAN, StopVm(c, o, wipe)
      PROVE  Reserved' /\ (StartsAreFresh /\ Exact => Exact')
  BY <1>3, Constants, BeginStopKeepsAccounts DEF StopVm
<1>4. ASSUME NEW c \in Calls, Start(c)
      PROVE  Reserved' /\ (StartsAreFresh /\ Exact => Exact')
  BY <1>4, StartKeepsAccounts
<1>5. ASSUME NEW p \in Procs, Stop(p)
      PROVE  Reserved' /\ (StartsAreFresh /\ Exact => Exact')
  BY <1>5, StopKeepsAccounts
<1>6. ASSUME Reap
      PROVE  Reserved' /\ (StartsAreFresh /\ Exact => Exact')
  BY <1>6, AccountsRest DEF Reap, docker
<1>7. ASSUME NEW o \in Owners, ReapOne(o)
      PROVE  Reserved' /\ (StartsAreFresh /\ Exact => Exact')
  <2>1. CASE vms[o] # NoVm
    BY <2>1, <1>7, Constants, BeginStopKeepsAccounts DEF ReapOne
  <2>2. CASE vms[o] = NoVm
    BY <2>2, <1>7, AccountsRest DEF ReapOne, docker
  <2>3. QED
    BY <2>1, <2>2
<1>8. ASSUME NEW o \in Owners, Write(o)
      PROVE  Reserved' /\ (StartsAreFresh /\ Exact => Exact')
  BY <1>8, AccountsRest DEF Write
<1>9. ASSUME Tick
      PROVE  Reserved' /\ (StartsAreFresh /\ Exact => Exact')
  BY <1>9, AccountsRest DEF Tick, docker
<1>10. ASSUME UNCHANGED vars
       PROVE  Reserved' /\ (StartsAreFresh /\ Exact => Exact')
  BY <1>10, AccountsRest DEF vars, docker
<1>11. QED
  BY <1>1, <1>2, <1>3, <1>4, <1>5, <1>6, <1>7, <1>8, <1>9, <1>10, RestartKeepsAccounts
     DEF Next, EndOfTime

(* However many requests start and stop VMs at once, of one identity or of   *)
(* several, the containers that run never hold more than the node shares, as *)
(* long as Docker's removals and listings work and the node goes on sharing  *)
(* the same (vm.rs, resource.rs).                                            *)
THEOREM NodeNotOversubscribed ==
  ASSUME DockerAnswers, SharesTheSame
  PROVE  Spec => []NeverOversubscribed
<1>1. Init => Sound /\ Reserved
  BY InitSound, InitAccounts
<1>2. Sound /\ Reserved /\ [Next]_vars => Sound' /\ Reserved'
  BY NextSound, NextKeepsAccounts
<1>3. Sound /\ Reserved => NeverOversubscribed
  BY ReservedSuffices
<1>4. QED
  BY <1>1, <1>2, <1>3, PTL DEF Spec

-----------------------------------------------------------------------------
(* While no two requests start a VM of one identity, a VM being started has  *)
(* no record yet, and labels and records agree.                              *)
Fresh == StartsAreFresh /\ LabelsOK

LabelOK(o) ==
  vms[o] # NoVm /\ container[o] # NoVm =>
    /\ container[o].need = vms[o].need /\ container[o].budget = vms[o].budget
    /\ container[o].rate = vms[o].rate /\ container[o].created <= vms[o].created

BoxOK(c) ==
  At(c, "recording") /\ container[Owner(c)] # NoVm =>
    LET box == container[Owner(c)]
    IN  /\ box.need = proc[c].need /\ box.budget = proc[c].budget
        /\ box.rate = LeaseRate /\ box.created <= clock

LEMMA FreshByParts ==
  ASSUME Fresh
  PROVE  /\ \A o \in Owners : LabelOK(o)
         /\ \A c \in Calls : BoxOK(c) /\ (Starting(c) => vms[Owner(c)] = NoVm)
BY DEF Fresh, StartsAreFresh, LabelsOK, LabelOK, BoxOK

LEMMA FreshOfParts ==
  ASSUME \A o \in Owners : LabelOK(o)',
         \A c \in Calls : BoxOK(c)' /\ (Starting(c) => vms[Owner(c)] = NoVm)'
  PROVE  Fresh'
BY DEF Fresh, StartsAreFresh, LabelsOK, LabelOK, BoxOK

(* A step that enters no record and makes no container.                      *)
LEMMA FreshRemains ==
  ASSUME Sound, Sound', Fresh, clock' >= clock,
         \A o \in Owners : vms'[o] = vms[o] \/ vms'[o] = NoVm,
         \A o \in Owners : container'[o] = container[o] \/ container'[o] = NoVm,
         \A c \in Calls : Starting(c)' =>
           /\ Owner(c)' = Owner(c) /\ proc'[c].need = proc[c].need
           /\ proc'[c].budget = proc[c].budget
           /\ Starting(c) \/ vms[Owner(c)] = NoVm
           /\ At(c, "recording")' => At(c, "recording")
  PROVE  Fresh'
<1>1. ASSUME NEW o \in Owners PROVE LabelOK(o)'
  <2>1. LabelOK(o)
    BY FreshByParts
  <2>2. QED
    BY <2>1 DEF LabelOK
<1>2. ASSUME NEW c \in Calls, Starting(c)' PROVE vms'[Owner(c)'] = NoVm
  <2>1. Owner(c)' \in Owners
    BY <1>2, Constants DEF Sound, ProcsOK, Starting, Idle, Owner
  <2>2. vms[Owner(c)] = NoVm /\ Owner(c)' = Owner(c)
    BY <1>2, FreshByParts
  <2>3. QED
    BY <2>1, <2>2
<1>3. ASSUME NEW c \in Calls PROVE BoxOK(c)'
  <2>1. SUFFICES ASSUME At(c, "recording")', container'[Owner(c)'] # NoVm PROVE BoxOK(c)'
    BY DEF BoxOK
  <2>2. Starting(c)'
    BY <2>1 DEF Starting, At
  <2>3. /\ At(c, "recording") /\ Owner(c)' = Owner(c)
        /\ proc'[c].need = proc[c].need /\ proc'[c].budget = proc[c].budget
    BY <2>1, <2>2
  <2>4. Owner(c) \in Owners
    BY <2>3, Constants DEF Sound, ProcsOK, At, Idle
  <2>5. container'[Owner(c)] = container[Owner(c)] /\ container[Owner(c)] # NoVm
    BY <2>1, <2>3, <2>4
  <2>6. BoxOK(c)
    BY FreshByParts
  <2>7. container[Owner(c)].created \in Nat /\ clock \in Nat /\ clock' \in Nat
    BY <2>4, <2>5 DEF Sound, TypeOK, VmType
  <2>8. QED
    BY <2>3, <2>5, <2>6, <2>7 DEF BoxOK
<1>4. QED
  BY <1>1, <1>2, <1>3, FreshOfParts

(* An identity with a container being recorded has one process starting it.  *)
LEMMA StartKeepsFresh ==
  ASSUME OneStartEach, Sound, Sound', Fresh, NEW c \in Calls, Start(c)
  PROVE  Fresh'
<1>0. c \in Procs /\ TypeOK /\ ProcsOK /\ clock \in Nat /\ Calls \subseteq Procs
  BY Constants DEF Sound, TypeOK
<1>a. clock' = clock
  BY DEF Start, RefuseStart, Allocate, Restore, Pull, RemoveStale, Run, Record
<1>s. Starting(c) /\ Owner(c) \in Owners
  BY <1>0 DEF Start, RefuseStart, Allocate, Restore, Pull, RemoveStale, Run, Record,
              Starting, At, ProcsOK, Idle
<1>1. ASSUME NEW pc \in {"restoring", "pulling", "removing", "running"}, Goto(c, pc),
             UNCHANGED vms,
             \A o \in Owners : container'[o] = container[o] \/ container'[o] = NoVm
      PROVE  Fresh'
  <2>1. /\ \A q \in Procs \ {c} : proc'[q] = proc[q]
        /\ proc'[c].pc = pc /\ proc'[c].owner = proc[c].owner
        /\ proc'[c].need = proc[c].need /\ proc'[c].budget = proc[c].budget
    BY <1>1, <1>0, GotoEffect
  <2>2. ASSUME NEW d \in Calls, Starting(d)'
        PROVE  /\ Owner(d)' = Owner(d) /\ proc'[d].need = proc[d].need
               /\ proc'[d].budget = proc[d].budget
               /\ Starting(d) \/ vms[Owner(d)] = NoVm
               /\ At(d, "recording")' => At(d, "recording")
    <3>1. CASE d = c
      BY <3>1, <2>1, <1>s DEF Owner, At
    <3>2. CASE d # c
      BY <3>2, <2>1, <2>2, <1>0 DEF Owner, At, Starting
    <3>3. QED
      BY <3>1, <3>2
  <2>3. QED
    BY <2>2, <1>0, <1>1, <1>a, FreshRemains
<1>2. ASSUME Done(c), UNCHANGED <<vms, container>>
      PROVE  Fresh'
  <2>1. /\ \A q \in Procs \ {c} : proc'[q] = proc[q]
        /\ proc'[c].pc = "idle"
    BY <1>2, <1>0, DoneEffect
  <2>2. ASSUME NEW d \in Calls, Starting(d)'
        PROVE  /\ Owner(d)' = Owner(d) /\ proc'[d].need = proc[d].need
               /\ proc'[d].budget = proc[d].budget
               /\ Starting(d) \/ vms[Owner(d)] = NoVm
               /\ At(d, "recording")' => At(d, "recording")
    <3>1. d # c /\ d \in Procs
      BY <2>1, <2>2, <1>0 DEF Starting
    <3>2. QED
      BY <3>1, <2>1, <2>2 DEF Owner, At, Starting
  <2>3. QED
    BY <2>2, <1>0, <1>2, <1>a, FreshRemains
<1>3. CASE RefuseStart(c) \/ Allocate(c) \/ Restore(c) \/ Pull(c) \/ RemoveStale(c)
  <2>1. CASE RefuseStart(c)
    BY <2>1, <1>2 DEF RefuseStart, docker
  <2>2. CASE Allocate(c)
    <3>1. UNCHANGED <<vms, container>> /\ (Done(c) \/ Goto(c, "restoring"))
      BY <2>2 DEF Allocate, docker
    <3>2. QED
      BY <3>1, <1>1, <1>2
  <2>3. CASE Restore(c)
    BY <2>3, <1>1 DEF Restore
  <2>4. CASE Pull(c)
    <3>1. UNCHANGED <<vms, container>> /\ (Done(c) \/ Goto(c, "removing"))
      BY <2>4 DEF Pull, docker
    <3>2. QED
      BY <3>1, <1>1, <1>2
  <2>5. CASE RemoveStale(c)
    <3>1. /\ UNCHANGED vms /\ Goto(c, "running")
          /\ \A o \in Owners : container'[o] = container[o] \/ container'[o] = NoVm
      BY <2>5, <1>0 DEF RemoveStale, TypeOK
    <3>2. QED
      BY <3>1, <1>1
  <2>6. QED
    BY <1>3, <2>1, <2>2, <2>3, <2>4, <2>5
<1>4. ASSUME NEW d \in Calls, d # c, Starting(d) PROVE Owner(d) # Owner(c)
  BY <1>4, <1>s DEF OneStartEach
<1>5. CASE Run(c)
  <2>1. CASE UNCHANGED <<container, home>> /\ Done(c)
    <3>1. UNCHANGED vms
      BY <1>5 DEF Run
    <3>2. QED
      BY <2>1, <3>1, <1>2
  <2> DEFINE vm == [need |-> proc[c].need, budget |-> proc[c].budget,
                    rate |-> LeaseRate, created |-> clock]
  <2>2. CASE /\ container' = [container EXCEPT ![Owner(c)] = vm]
             /\ Goto(c, "recording")
    <3>1. /\ \A q \in Procs \ {c} : proc'[q] = proc[q]
          /\ proc'[c].pc = "recording" /\ proc'[c].owner = proc[c].owner
          /\ proc'[c].need = proc[c].need /\ proc'[c].budget = proc[c].budget
      BY <2>2, <1>0, GotoEffect
    <3>2. UNCHANGED vms /\ vms[Owner(c)] = NoVm
      BY <1>5, <1>s, FreshByParts DEF Run
    <3>3. container'[Owner(c)] = vm /\ \A o \in Owners \ {Owner(c)} : container'[o] = container[o]
      BY <2>2, <1>0, <1>s DEF TypeOK
    <3>4. ASSUME NEW o \in Owners PROVE LabelOK(o)'
      <4>1. CASE o = Owner(c)
        BY <4>1, <3>2 DEF LabelOK
      <4>2. CASE o # Owner(c)
        BY <4>2, <3>2, <3>3, FreshByParts DEF LabelOK
      <4>3. QED
        BY <4>1, <4>2
    <3>5. ASSUME NEW d \in Calls
          PROVE  BoxOK(d)' /\ (Starting(d) => vms[Owner(d)] = NoVm)'
      <4>1. CASE d = c
        <5>1. Owner(d)' = Owner(c) /\ clock' = clock /\ vms'[Owner(c)] = NoVm
          BY <4>1, <3>1, <3>2, <1>a DEF Owner
        <5>2. /\ vm.need = proc[c].need /\ vm.budget = proc[c].budget
              /\ vm.rate = LeaseRate /\ vm.created = clock
          OBVIOUS
        <5> HIDE DEF vm
        <5>3. QED
          BY <4>1, <5>1, <5>2, <3>1, <3>3, <1>0 DEF BoxOK
      <4>2. CASE d # c
        <5>1. proc'[d] = proc[d] /\ d \in Procs
          BY <4>2, <3>1, <1>0
        <5>2. Starting(d) => Owner(d) # Owner(c) /\ Owner(d) \in Owners
          BY <4>2, <5>1, <1>4, <1>0 DEF ProcsOK, Starting, Idle
        <5>3. BoxOK(d) /\ (Starting(d) => vms[Owner(d)] = NoVm)
          BY FreshByParts
        <5>4. At(d, "recording") => Starting(d)
          BY DEF At, Starting
        <5> HIDE DEF vm
        <5>5. QED
          BY <5>1, <5>2, <5>3, <5>4, <3>2, <3>3, <1>a DEF BoxOK, Starting, At, Owner
      <4>3. QED
        BY <4>1, <4>2
    <3>6. QED
      BY <3>4, <3>5, FreshOfParts
  <2>3. QED
    BY <2>1, <2>2, <1>5 DEF Run
<1>6. CASE Record(c)
  <2> DEFINE vm == [need |-> proc[c].need, budget |-> proc[c].budget,
                    rate |-> LeaseRate, created |-> clock]
  <2>1. /\ At(c, "recording") /\ UNCHANGED container
        /\ vms' = [vms EXCEPT ![Owner(c)] = vm] /\ Done(c)
    BY <1>6 DEF Record, docker
  <2>2. /\ \A q \in Procs \ {c} : proc'[q] = proc[q]
        /\ proc'[c].pc = "idle"
    BY <2>1, <1>0, DoneEffect
  <2>3. vms'[Owner(c)] = vm /\ \A o \in Owners \ {Owner(c)} : vms'[o] = vms[o]
    BY <2>1, <1>0, <1>s DEF TypeOK
  <2>4. ASSUME NEW o \in Owners PROVE LabelOK(o)'
    <3>1. CASE o = Owner(c)
      <4>1. BoxOK(c)
        BY FreshByParts
      <4>2. QED
        BY <3>1, <4>1, <2>1, <2>3 DEF LabelOK, BoxOK
    <3>2. CASE o # Owner(c)
      BY <3>2, <2>1, <2>3, FreshByParts DEF LabelOK
    <3>3. QED
      BY <3>1, <3>2
  <2>5. ASSUME NEW d \in Calls
        PROVE  BoxOK(d)' /\ (Starting(d) => vms[Owner(d)] = NoVm)'
    <3>1. CASE d = c
      BY <3>1, <2>2 DEF BoxOK, Starting, At
    <3>2. CASE d # c
      <4>1. proc'[d] = proc[d] /\ d \in Procs
        BY <3>2, <2>2, <1>0
      <4>2. Starting(d) => Owner(d) # Owner(c) /\ Owner(d) \in Owners
        BY <3>2, <4>1, <1>4, <1>0 DEF ProcsOK, Starting, Idle
      <4>3. BoxOK(d) /\ (Starting(d) => vms[Owner(d)] = NoVm)
        BY FreshByParts
      <4> HIDE DEF vm
      <4>4. QED
        BY <4>1, <4>2, <4>3, <2>1, <2>3, <1>a DEF BoxOK, Starting, At, Owner
    <3>3. QED
      BY <3>1, <3>2
  <2>6. QED
    BY <2>4, <2>5, FreshOfParts
<1>7. QED
  BY <1>3, <1>5, <1>6 DEF Start

LEMMA BeginStopKeepsFresh ==
  ASSUME Sound, Sound', Fresh, NEW p \in Procs, NEW o \in Owners, NEW wipe,
         BeginStop(p, o, wipe)
  PROVE  Fresh'
<1> DEFINE n == [pc |-> "killing", owner |-> o, need |-> vms[o].need,
                 budget |-> 0, wipe |-> wipe]
<1>1. /\ vms' = [vms EXCEPT ![o] = NoVm] /\ proc' = [proc EXCEPT ![p] = n]
      /\ n.pc = "killing" /\ UNCHANGED <<container, clock>>
  BY DEF BeginStop, docker
<1> HIDE DEF n
<1>2. proc'[p].pc = "killing" /\ \A q \in Procs \ {p} : proc'[q] = proc[q]
  BY <1>1 DEF Sound, TypeOK
<1>3. ASSUME NEW d \in Calls, Starting(d)'
      PROVE  /\ Owner(d)' = Owner(d) /\ proc'[d].need = proc[d].need
             /\ proc'[d].budget = proc[d].budget
             /\ Starting(d) \/ vms[Owner(d)] = NoVm
             /\ At(d, "recording")' => At(d, "recording")
  <2>1. d # p /\ d \in Procs
    BY <1>2, <1>3, Constants DEF Starting
  <2>2. QED
    BY <2>1, <1>2, <1>3 DEF Owner, At, Starting
<1>4. clock \in Nat
  BY DEF Sound, TypeOK
<1>5. \A b \in Owners : vms'[b] = vms[b] \/ vms'[b] = NoVm
  BY <1>1 DEF Sound, TypeOK
<1>6. QED
  BY <1>1, <1>3, <1>4, <1>5, FreshRemains

LEMMA StopKeepsFresh ==
  ASSUME Sound, Sound', Fresh, NEW p \in Procs, Stop(p)
  PROVE  Fresh'
<1>0. TypeOK /\ ProcsOK /\ clock \in Nat
  BY DEF Sound, TypeOK
<1>1. /\ UNCHANGED <<vms, clock>>
      /\ \A o \in Owners : container'[o] = container[o] \/ container'[o] = NoVm
  <2>1. UNCHANGED <<vms, clock>>
    BY DEF Stop, Kill, Sync, Drop, Release
  <2>2. CASE Kill(p)
    <3>1. container' = [container EXCEPT ![Owner(p)] = NoVm] \/ container' = container
      BY <2>2 DEF Kill
    <3>2. QED
      BY <2>1, <3>1, <1>0 DEF TypeOK
  <2>3. CASE Sync(p) \/ Drop(p) \/ Release(p)
    BY <2>1, <2>3 DEF Sync, Drop, Release, docker
  <2>4. QED
    BY <2>2, <2>3 DEF Stop
<1>2. /\ \A q \in Procs \ {p} : proc'[q] = proc[q]
      /\ ~ Starting(p)'
  <2>1. CASE Release(p)
    BY <2>1, <1>0, DoneEffect DEF Release, Starting
  <2>2. CASE Kill(p) \/ Sync(p) \/ Drop(p)
    <3>1. PICK pc \in {"syncing", "dropping", "releasing"} : Goto(p, pc)
      BY <2>2 DEF Kill, Sync, Drop
    <3>2. QED
      BY <3>1, <1>0, GotoEffect DEF Starting
  <2>3. QED
    BY <2>1, <2>2 DEF Stop
<1>3. ASSUME NEW d \in Calls, Starting(d)'
      PROVE  /\ Owner(d)' = Owner(d) /\ proc'[d].need = proc[d].need
             /\ proc'[d].budget = proc[d].budget
             /\ Starting(d) \/ vms[Owner(d)] = NoVm
             /\ At(d, "recording")' => At(d, "recording")
  <2>1. d # p /\ d \in Procs
    BY <1>2, <1>3, Constants
  <2>2. QED
    BY <2>1, <1>2, <1>3 DEF Owner, At, Starting
<1>4. QED
  BY <1>0, <1>1, <1>3, FreshRemains

LEMMA RestartKeepsFresh ==
  ASSUME Sound, Sound', Restart
  PROVE  Fresh' /\ \A o \in Owners : vms'[o] = NoVm \/ vms'[o] = container[o]
<1>1. proc' = [p \in Procs |-> Idle] /\ Idle.pc = "idle"
  BY DEF Restart, Idle
<1>2. \A c \in Calls : proc'[c].pc = "idle"
  BY <1>1, Constants
<1>3. \/ /\ vms' = container'
         /\ \A o \in Owners : vms'[o] = NoVm \/ vms'[o] = container[o]
      \/ vms' = [o \in Owners |-> NoVm]
  BY DEF Restart
<1>4. ASSUME NEW o \in Owners PROVE LabelOK(o)'
  <2>1. vms'[o] = container'[o] \/ vms'[o] = NoVm
    BY <1>3
  <2>2. vms'[o] # NoVm => vms'[o].created \in Nat
    BY DEF Sound, TypeOK, VmType
  <2>3. QED
    BY <2>1, <2>2 DEF LabelOK
<1>5. ASSUME NEW c \in Calls
      PROVE  BoxOK(c)' /\ (Starting(c) => vms[Owner(c)] = NoVm)'
  BY <1>2 DEF BoxOK, Starting, At
<1>6. QED
  BY <1>3, <1>4, <1>5, FreshOfParts

LEMMA FreshRests ==
  ASSUME Sound, Sound', Fresh, UNCHANGED <<vms, container, proc>>, clock' >= clock
  PROVE  Fresh'
<1>1. ASSUME NEW d \in Calls, Starting(d)'
      PROVE  /\ Owner(d)' = Owner(d) /\ proc'[d].need = proc[d].need
             /\ proc'[d].budget = proc[d].budget
             /\ Starting(d) \/ vms[Owner(d)] = NoVm
             /\ At(d, "recording")' => At(d, "recording")
  BY <1>1 DEF Owner, At, Starting
<1>2. QED
  BY <1>1, FreshRemains

LEMMA NextKeepsFresh ==
  ASSUME OneStartEach, Sound, Sound', Fresh, [Next]_vars
  PROVE  Fresh'
<1>0. clock \in Nat
  BY DEF Sound, TypeOK
<1>1. ASSUME NEW c \in Calls, NEW o \in Owners, AlreadyUp(c, o)
      PROVE  Fresh'
  BY <1>0, <1>1, FreshRests DEF AlreadyUp, docker
<1>2. ASSUME NEW c \in Calls, NEW o \in Owners, NEW need \in Needs, NEW budget \in Budgets,
             StartVm(c, o, need, budget)
      PROVE  Fresh'
  <2> DEFINE n == [pc |-> "authorizing", owner |-> o, need |-> need,
                   budget |-> budget, wipe |-> FALSE]
  <2>1. /\ proc' = [proc EXCEPT ![c] = n] /\ n.pc = "authorizing" /\ n.owner = o
        /\ UNCHANGED <<vms, container, clock>> /\ vms[o] = NoVm
    BY <1>2 DEF StartVm, docker
  <2> HIDE DEF n
  <2>2. /\ c \in Procs /\ proc'[c] = n /\ \A q \in Procs \ {c} : proc'[q] = proc[q]
    BY <2>1, Constants DEF Sound, TypeOK
  <2>3. ASSUME NEW d \in Calls
        PROVE  BoxOK(d)' /\ (Starting(d) => vms[Owner(d)] = NoVm)'
    <3>1. CASE d = c
      BY <3>1, <2>1, <2>2 DEF BoxOK, At, Owner
    <3>2. CASE d # c
      <4>1. proc'[d] = proc[d]
        BY <3>2, <2>2, Constants
      <4>2. QED
        BY <4>1, <2>1, FreshByParts DEF BoxOK, Starting, At, Owner
    <3>3. QED
      BY <3>1, <3>2
  <2>4. ASSUME NEW b \in Owners PROVE LabelOK(b)'
    BY <2>1, FreshByParts DEF LabelOK
  <2>5. QED
    BY <2>3, <2>4, FreshOfParts
<1>3. ASSUME NEW c \in Calls, NEW o \in Owners, NEW wipe \in BOOLEAN, StopVm(c, o, wipe)
      PROVE  Fresh'
  BY <1>3, Constants, BeginStopKeepsFresh DEF StopVm
<1>4. ASSUME NEW c \in Calls, Start(c)
      PROVE  Fresh'
  BY <1>4, StartKeepsFresh
<1>5. ASSUME NEW p \in Procs, Stop(p)
      PROVE  Fresh'
  BY <1>5, StopKeepsFresh
<1>6. ASSUME Reap
      PROVE  Fresh'
  BY <1>0, <1>6, FreshRests DEF Reap, docker
<1>7. ASSUME NEW o \in Owners, ReapOne(o)
      PROVE  Fresh'
  <2>1. CASE vms[o] # NoVm
    BY <2>1, <1>7, Constants, BeginStopKeepsFresh DEF ReapOne
  <2>2. CASE vms[o] = NoVm
    BY <2>2, <1>0, <1>7, FreshRests DEF ReapOne, docker
  <2>3. QED
    BY <2>1, <2>2
<1>8. ASSUME NEW o \in Owners, Write(o)
      PROVE  Fresh'
  BY <1>0, <1>8, FreshRests DEF Write
<1>9. ASSUME Tick
      PROVE  Fresh'
  BY <1>0, <1>9, FreshRests DEF Tick, docker
<1>10. ASSUME UNCHANGED vars
       PROVE  Fresh'
  BY <1>0, <1>10, FreshRests DEF vars, docker
<1>11. QED
  BY <1>1, <1>2, <1>3, <1>4, <1>5, <1>6, <1>7, <1>8, <1>9, <1>10, RestartKeepsFresh
     DEF Next, EndOfTime

LEMMA InitFresh == Init => Fresh
<1> SUFFICES ASSUME Init PROVE Fresh
  OBVIOUS
<1>1. \A c \in Calls : proc[c].pc = "idle"
  BY Constants DEF Init, Idle
<1>2. QED
  BY <1>1 DEF Init, Fresh, StartsAreFresh, LabelsOK, Starting, At

(* While no two requests start a VM of one identity at the same time, what   *)
(* is allocated is exactly what tracked VMs and VMs being started or stopped *)
(* hold, through failing commands, races of starts and stops, and restarts   *)
(* (resource.rs:97).  Without that condition it does not hold.               *)
THEOREM AllocationsRoundTrip ==
  ASSUME DockerAnswers, SharesTheSame
  PROVE  Spec /\ []OneStartEach => []ReservationsAccounted
<1> DEFINE Inv == Sound /\ Reserved /\ Fresh /\ Exact
<1>1. Init => Inv
  BY InitSound, InitAccounts, InitFresh
<1>2. OneStartEach /\ Inv /\ [Next]_vars => Inv'
  BY NextSound, NextKeepsAccounts, NextKeepsFresh DEF Fresh
<1>3. Inv => ReservationsAccounted
  BY DEF Exact, HeldSum, ReservationsAccounted
<1>4. QED
  BY <1>1, <1>2, <1>3, PTL DEF Spec

LEMMA OnlyRestartsCount ==
  ASSUME Sound, [Next]_vars, restarts' # restarts
  PROVE  Restart
BY DEF Sound, TypeOK, Next, vars, docker, history, AlreadyUp, StartVm, StopVm, BeginStop, Start,
       RefuseStart, Allocate, Restore, Pull, RemoveStale, Run, Record, Stop, Kill, Sync,
       Drop, Release, Reap, ReapOne, Write, Tick, EndOfTime

(* Under the same condition a restart of the provider never extends a lease  *)
(* and never changes what was paid for it (vm.rs:600), whatever Docker does. *)
THEOREM RestartsKeepLeases ==
  Spec /\ []OneStartEach => LeaseNeverExtended
<1> DEFINE Step == \A o \in Owners :
                     /\ restarts' # restarts
                     /\ vms[o] # NoVm /\ vms'[o] # NoVm
                     => /\ vms'[o].created <= vms[o].created
                        /\ vms'[o].budget = vms[o].budget
                        /\ vms'[o].rate = vms[o].rate
<1>1. Init => Sound /\ Fresh
  BY InitSound, InitFresh
<1>2. OneStartEach /\ Sound /\ Fresh /\ [Next]_vars => Sound' /\ Fresh'
  BY NextSound, NextKeepsFresh
<1>3. Sound /\ Fresh /\ Sound' /\ [Next]_vars => [Step]_vars
  <2>1. SUFFICES ASSUME Sound, Fresh, Sound', [Next]_vars,
                        NEW o \in Owners, restarts' # restarts,
                        vms[o] # NoVm, vms'[o] # NoVm
                 PROVE  /\ vms'[o].created <= vms[o].created
                        /\ vms'[o].budget = vms[o].budget
                        /\ vms'[o].rate = vms[o].rate
    OBVIOUS
  <2>2. vms'[o] = container[o]
    BY <2>1, OnlyRestartsCount, RestartKeepsFresh
  <2>3. LabelOK(o)
    BY <2>1, FreshByParts
  <2>4. QED
    BY <2>1, <2>2, <2>3 DEF LabelOK
<1>4. QED
  BY <1>1, <1>2, <1>3, PTL DEF Spec, LeaseNeverExtended

-----------------------------------------------------------------------------
(* Containers without a record and records without a container.              *)
Matched == Followed /\ RemovedByStop

LEMMA MatchedLocal ==
  ASSUME Sound, Sound', Matched, NEW p, NEW o, Local(p, o),
         Busy(p) => Owner(p) = o, Busy(p)' => Owner(p)' = o,
         overtaken \subseteq overtaken',
         o \in Owners /\ container'[o] # NoVm /\ vms'[o] = NoVm =>
           \E q \in Procs : Owner(q)' = o /\ Busy(q)',
         o \in Owners /\ vms'[o] # NoVm /\ container'[o] = NoVm => o \in overtaken',
         \A d \in Calls : At(d, "recording")' /\ Owner(d)' = o /\ container'[o] = NoVm =>
           o \in overtaken'
  PROVE  Matched'
<1>1. ASSUME NEW b \in Owners, container'[b] # NoVm, vms'[b] = NoVm
      PROVE  \E q \in Procs : Owner(q)' = b /\ Busy(q)'
  <2>1. CASE b = o
    BY <1>1, <2>1
  <2>2. CASE b # o
    <3>1. container[b] # NoVm /\ vms[b] = NoVm
      BY <1>1, <2>2 DEF Local
    <3>2. PICK q \in Procs : Owner(q) = b /\ Busy(q)
      BY <3>1 DEF Matched, Followed, Busy
    <3>3. q # p
      BY <2>2, <3>2
    <3>4. proc'[q] = proc[q]
      BY <3>3 DEF Local
    <3>5. QED
      BY <3>2, <3>4 DEF Owner, Busy
  <2>3. QED
    BY <2>1, <2>2
<1>2. ASSUME NEW b \in Owners, vms'[b] # NoVm, container'[b] = NoVm
      PROVE  b \in overtaken'
  BY <1>2 DEF Local, Matched, RemovedByStop
<1>3. ASSUME NEW d \in Calls, At(d, "recording")', container'[Owner(d)'] = NoVm
      PROVE  Owner(d)' \in overtaken'
  <2>1. CASE Owner(d)' = o
    BY <1>3, <2>1
  <2>2. CASE Owner(d)' # o
    <3>1. d # p /\ d \in Procs
      BY <1>3, <2>2, Constants DEF Busy, At
    <3>2. proc'[d] = proc[d]
      BY <3>1 DEF Local
    <3>3. Owner(d)' = Owner(d) /\ At(d, "recording") /\ Owner(d) \in Owners
      BY <1>3, <3>1, <3>2 DEF Owner, At, Sound, ProcsOK, Idle
    <3>4. container'[Owner(d)] = container[Owner(d)]
      BY <2>2, <3>3 DEF Local
    <3>5. QED
      BY <1>3, <3>3, <3>4 DEF Matched, RemovedByStop
  <2>3. QED
    BY <2>1, <2>2
<1>4. Followed'
  BY <1>1 DEF Followed, Busy
<1>5. RemovedByStop'
  BY <1>2, <1>3 DEF RemovedByStop
<1>6. QED
  BY <1>4, <1>5 DEF Matched

LEMMA MatchedQuietly ==
  ASSUME Sound, Sound', Matched, NEW p,
         UNCHANGED <<vms, container, overtaken>>, \A q \in Procs \ {p} : proc'[q] = proc[q],
         ~ Busy(p), ~ Busy(p)'
  PROVE  Matched'
<1>1. Local(p, NoVm) /\ NoVm \notin Owners
  BY Constants DEF Local
<1>2. ASSUME NEW d \in Calls, At(d, "recording")' PROVE Owner(d)' # NoVm
  BY <1>1, <1>2, Constants DEF Sound, ProcsOK, At, Idle
<1>3. QED
  BY <1>1, <1>2, MatchedLocal

LEMMA StartKeepsMatched ==
  ASSUME OneStartEach, Sound, Sound', Fresh, Matched, NEW c \in Calls, Start(c)
  PROVE  Matched'
<1>0. c \in Procs /\ TypeOK /\ ProcsOK /\ Calls \subseteq Procs
  BY Constants DEF Sound
<1>o. PICK o : o = Owner(c)
  OBVIOUS
<1>r. Starting(c) /\ o \in Owners /\ vms[o] = NoVm
  BY <1>0, <1>o, FreshByParts
     DEF Start, RefuseStart, Allocate, Restore, Pull, RemoveStale, Run, Record,
         Starting, At, ProcsOK, Idle
<1>u. UNCHANGED overtaken
  BY DEF Start, RefuseStart, Allocate, Restore, Pull, RemoveStale, Run, Record, history
<1>t. ASSUME NEW d \in Calls, d # c, At(d, "recording") PROVE Owner(d) # o
  BY <1>t, <1>r, <1>o DEF OneStartEach, Starting, At
<1>1. CASE /\ UNCHANGED <<vms, container>> /\ ~ At(c, "recording")
           /\ \/ Done(c)
              \/ \E pc \in {"restoring", "pulling", "removing"} : Goto(c, pc)
  <2>1. \A q \in Procs \ {c} : proc'[q] = proc[q]
    BY <1>0, <1>1, DoneEffect, GotoEffect
  <2>2. ~ Busy(c) /\ ~ Busy(c)'
    <3>1. ~ Busy(c)
      BY <1>1, <1>r DEF Busy, Starting, At
    <3>2. ~ Busy(c)'
      <4>1. CASE Done(c)
        BY <4>1, <1>0, DoneEffect
      <4>2. CASE \E pc \in {"restoring", "pulling", "removing"} : Goto(c, pc)
        BY <4>2, <1>0, GotoEffect DEF Busy
      <4>3. QED
        BY <4>1, <4>2, <1>1
    <3>3. QED
      BY <3>1, <3>2
  <2>3. QED
    BY <2>1, <2>2, <1>1, <1>u, MatchedQuietly
<1>2. CASE RefuseStart(c) \/ Allocate(c) \/ Restore(c) \/ Pull(c)
  BY <1>1, <1>2 DEF RefuseStart, Allocate, Restore, Pull, docker, At
<1>3. CASE RemoveStale(c)
  <2>1. /\ Goto(c, "running") /\ At(c, "removing") /\ UNCHANGED vms
        /\ container' = [container EXCEPT ![o] = NoVm]
    BY <1>3, <1>o DEF RemoveStale
  <2>2. /\ \A q \in Procs \ {c} : proc'[q] = proc[q]
        /\ proc'[c].pc = "running"
    BY <2>1, <1>0, GotoEffect
  <2>3. Local(c, o) /\ ~ Busy(c) /\ ~ Busy(c)' /\ container'[o] = NoVm
    BY <2>1, <2>2, <1>0, <1>r DEF Local, TypeOK, Busy, At
  <2>4. ASSUME NEW d \in Calls, At(d, "recording")' PROVE Owner(d)' # o
    <3>1. d # c
      BY <2>2, <2>4 DEF At
    <3>2. proc'[d] = proc[d]
      BY <3>1, <2>2, <1>0
    <3>3. QED
      BY <3>1, <3>2, <2>4, <1>t DEF At, Owner
  <2>5. vms'[o] = NoVm
    BY <2>1, <1>r
  <2>6. QED
    BY <2>3, <2>4, <2>5, <1>u, MatchedLocal
<1>4. CASE Run(c)
  <2>0. At(c, "running") /\ UNCHANGED vms
    BY <1>4 DEF Run
  <2>1. CASE UNCHANGED container /\ Done(c)
    BY <2>0, <2>1, <1>1 DEF At
  <2> DEFINE vm == [need |-> proc[c].need, budget |-> proc[c].budget,
                    rate |-> LeaseRate, created |-> clock]
  <2>2. CASE /\ container' = [container EXCEPT ![o] = vm]
             /\ Goto(c, "recording")
    <3>1. /\ \A q \in Procs \ {c} : proc'[q] = proc[q]
          /\ proc'[c].pc = "recording" /\ proc'[c].owner = o
      BY <2>2, <1>0, <1>o, GotoEffect DEF Owner
    <3>2. vm \in VmType
      BY <1>0, Constants DEF VmType, TypeOK, ProcType
    <3> HIDE DEF vm
    <3>3. container'[o] = vm /\ vm # NoVm
      BY <2>2, <3>2, <1>0, <1>r, Constants DEF TypeOK
    <3>4. Local(c, o) /\ ~ Busy(c) /\ Busy(c)' /\ Owner(c)' = o
      BY <2>0, <2>2, <3>1, <1>0 DEF Local, TypeOK, Busy, At, Owner
    <3>5. QED
      BY <3>3, <3>4, <1>0, <1>u, MatchedLocal
  <2>3. QED
    BY <2>1, <2>2, <1>4, <1>o DEF Run
<1>5. CASE Record(c)
  <2>1. /\ At(c, "recording") /\ UNCHANGED container /\ Done(c)
        /\ \E vm : vms' = [vms EXCEPT ![o] = vm] /\ vm \in VmType
    <3> DEFINE vm == [need |-> proc[c].need, budget |-> proc[c].budget,
                      rate |-> LeaseRate, created |-> clock]
    <3>1. vm \in VmType
      BY <1>0, Constants DEF VmType, TypeOK, ProcType
    <3>2. QED
      BY <3>1, <1>5, <1>o DEF Record, docker
  <2>2. /\ \A q \in Procs \ {c} : proc'[q] = proc[q]
        /\ proc'[c].pc = "idle" /\ ~ Busy(c)'
    BY <2>1, <1>0, DoneEffect
  <2>3. Local(c, o) /\ (Busy(c) => Owner(c) = o) /\ vms'[o] # NoVm
    BY <2>1, <2>2, <1>0, <1>o, <1>r, Constants DEF Local, TypeOK
  <2>4. container'[o] = NoVm => o \in overtaken'
    BY <2>1, <1>o, <1>u DEF Matched, RemovedByStop
  <2>5. QED
    BY <2>2, <2>3, <2>4, <1>u, MatchedLocal
<1>6. QED
  BY <1>2, <1>3, <1>4, <1>5 DEF Start

LEMMA StopKeepsMatched ==
  ASSUME DockerAnswers, Sound, Sound', Matched, NEW p \in Procs, Stop(p)
  PROVE  Matched'
<1>0. TypeOK /\ ProcsOK
  BY DEF Sound
<1>1. CASE Kill(p)
  <2>o. PICK o : o = Owner(p)
    OBVIOUS
  <2>1. /\ At(p, "killing") /\ UNCHANGED vms
        /\ container' = [container EXCEPT ![o] = NoVm]
        /\ \E pc \in {"syncing", "dropping", "releasing"} : Goto(p, pc)
        /\ overtaken' = IF vms[o] # NoVm \/ \E q \in Procs \ {p} : Owner(q) = o
                        THEN overtaken \cup {o} ELSE overtaken
    BY <2>o, <1>1 DEF Kill, Outcomes, DockerAnswers
  <2>2. o \in Owners
    BY <2>o, <2>1, <1>0 DEF ProcsOK, At, Idle
  <2>3. /\ \A q \in Procs \ {p} : proc'[q] = proc[q]
        /\ proc'[p].pc \in {"syncing", "dropping", "releasing"}
    BY <2>1, <1>0, GotoEffect
  <2>4. Local(p, o) /\ (Busy(p) => Owner(p) = o) /\ ~ Busy(p)' /\ container'[o] = NoVm
    BY <2>o, <2>1, <2>2, <2>3, <1>0 DEF Local, TypeOK, Busy
  <2>5. vms'[o] # NoVm => o \in overtaken'
    BY <2>1
  <2>6. ASSUME NEW d \in Calls, At(d, "recording")', Owner(d)' = o
        PROVE  o \in overtaken'
    <3>1. d # p /\ d \in Procs
      BY <2>3, <2>6, Constants DEF At
    <3>2. Owner(d) = o
      BY <3>1, <2>3, <2>6 DEF Owner
    <3>3. QED
      BY <3>1, <3>2, <2>1
  <2>7. overtaken \subseteq overtaken'
    BY <2>1
  <2>8. QED
    BY <2>4, <2>5, <2>6, <2>7, MatchedLocal
<1>2. CASE Sync(p) \/ Drop(p) \/ Release(p)
  <2>1. UNCHANGED <<vms, container, overtaken>> /\ ~ Busy(p)
    BY <1>2 DEF Sync, Drop, Release, docker, history, Busy, At
  <2>2. Done(p) \/ \E pc \in {"dropping", "releasing"} : Goto(p, pc)
    BY <1>2 DEF Sync, Drop, Release
  <2>3. (\A q \in Procs \ {p} : proc'[q] = proc[q]) /\ ~ Busy(p)'
    <3>1. CASE Done(p)
      BY <3>1, <1>0, DoneEffect
    <3>2. CASE \E pc \in {"dropping", "releasing"} : Goto(p, pc)
      BY <3>2, <1>0, GotoEffect DEF Busy
    <3>3. QED
      BY <2>2, <3>1, <3>2
  <2>4. QED
    BY <2>1, <2>3, MatchedQuietly
<1>3. QED
  BY <1>1, <1>2 DEF Stop

LEMMA BeginStopKeepsMatched ==
  ASSUME Sound, Sound', Matched, NEW p \in Procs, NEW o \in Owners, NEW wipe,
         BeginStop(p, o, wipe)
  PROVE  Matched'
<1> DEFINE n == [pc |-> "killing", owner |-> o, need |-> vms[o].need,
                 budget |-> 0, wipe |-> wipe]
<1>1. /\ At(p, "idle") /\ vms' = [vms EXCEPT ![o] = NoVm] /\ proc' = [proc EXCEPT ![p] = n]
      /\ n.pc = "killing" /\ n.owner = o /\ UNCHANGED <<container, overtaken>>
  BY DEF BeginStop, docker, history
<1> HIDE DEF n
<1>2. /\ proc'[p].pc = "killing" /\ proc'[p].owner = o
      /\ \A q \in Procs \ {p} : proc'[q] = proc[q]
      /\ vms'[o] = NoVm /\ \A b \in Owners \ {o} : vms'[b] = vms[b]
  BY <1>1 DEF Sound, TypeOK
<1>3. Local(p, o) /\ ~ Busy(p) /\ Busy(p)' /\ Owner(p)' = o
  BY <1>1, <1>2 DEF Local, Busy, Owner, At
<1>4. ASSUME NEW d \in Calls, At(d, "recording")', Owner(d)' = o, container'[o] = NoVm
      PROVE  o \in overtaken'
  <2>1. d # p /\ d \in Procs
    BY <1>2, <1>4, Constants DEF At
  <2>2. proc'[d] = proc[d]
    BY <2>1, <1>2
  <2>3. QED
    BY <2>2, <1>1, <1>4 DEF At, Owner, Matched, RemovedByStop
<1>5. QED
  BY <1>1, <1>2, <1>3, <1>4, MatchedLocal

LEMMA NextKeepsMatched ==
  ASSUME DockerAnswers, OneStartEach, Sound, Sound', Fresh, Matched, [Next]_vars
  PROVE  Matched'
<1>0. ASSUME UNCHANGED <<vms, container, proc, overtaken>>
      PROVE  Matched'
  BY <1>0 DEF Matched, Followed, RemovedByStop, At, Owner
<1>1. ASSUME NEW c \in Calls, NEW o \in Owners, AlreadyUp(c, o)
      PROVE  Matched'
  BY <1>0, <1>1 DEF AlreadyUp, docker
<1>2. ASSUME NEW c \in Calls, NEW o \in Owners, NEW need \in Needs, NEW budget \in Budgets,
             StartVm(c, o, need, budget)
      PROVE  Matched'
  <2> DEFINE n == [pc |-> "authorizing", owner |-> o, need |-> need,
                   budget |-> budget, wipe |-> FALSE]
  <2>1. /\ At(c, "idle") /\ proc' = [proc EXCEPT ![c] = n] /\ n.pc = "authorizing"
        /\ UNCHANGED <<vms, container, overtaken>>
    BY <1>2 DEF StartVm, docker
  <2> HIDE DEF n
  <2>2. /\ c \in Procs /\ proc'[c] = n /\ \A q \in Procs \ {c} : proc'[q] = proc[q]
    BY <2>1, Constants DEF Sound, TypeOK
  <2>3. ~ Busy(c) /\ ~ Busy(c)'
    BY <2>1, <2>2 DEF Busy, At
  <2>4. QED
    BY <2>1, <2>2, <2>3, MatchedQuietly
<1>3. ASSUME NEW c \in Calls, NEW o \in Owners, NEW wipe \in BOOLEAN, StopVm(c, o, wipe)
      PROVE  Matched'
  BY <1>3, Constants, BeginStopKeepsMatched DEF StopVm
<1>4. ASSUME NEW c \in Calls, Start(c)
      PROVE  Matched'
  BY <1>4, StartKeepsMatched
<1>5. ASSUME NEW p \in Procs, Stop(p)
      PROVE  Matched'
  BY <1>5, StopKeepsMatched
<1>6. ASSUME Reap
      PROVE  Matched'
  BY <1>0, <1>6 DEF Reap, docker, history
<1>7. ASSUME NEW o \in Owners, ReapOne(o)
      PROVE  Matched'
  <2>1. CASE vms[o] # NoVm
    BY <2>1, <1>7, Constants, BeginStopKeepsMatched DEF ReapOne
  <2>2. CASE vms[o] = NoVm
    BY <2>2, <1>0, <1>7 DEF ReapOne, docker, history
  <2>3. QED
    BY <2>1, <2>2
<1>8. ASSUME NEW o \in Owners, Write(o)
      PROVE  Matched'
  BY <1>0, <1>8 DEF Write
<1>9. ASSUME Tick
      PROVE  Matched'
  BY <1>0, <1>9 DEF Tick, docker, history
<1>10. ASSUME UNCHANGED vars
       PROVE  Matched'
  BY <1>0, <1>10 DEF vars, docker, history
<1>11. ASSUME Restart
       PROVE  Matched'
  <2>1. vms' = container'
    BY <1>11 DEF Restart, Outcomes, DockerAnswers
  <2>2. proc' = [p \in Procs |-> Idle] /\ Idle.pc = "idle"
    BY <1>11 DEF Restart, Idle
  <2>3. \A c \in Calls : proc'[c].pc = "idle"
    BY <2>2, Constants
  <2>4. QED
    BY <2>1, <2>3 DEF Matched, Followed, RemovedByStop, At
<1>12. QED
  BY <1>1, <1>2, <1>3, <1>4, <1>5, <1>6, <1>7, <1>8, <1>9, <1>10, <1>11
     DEF Next, EndOfTime

(* While no two requests start a VM of one identity at the same time, and    *)
(* Docker's removals and listings work, nothing runs that is not tracked and *)
(* nothing is billed that is gone, whenever nobody is busy with the identity *)
(* - except after a stop that a newer start overtook (vm.rs:985).            *)
THEOREM RecordsFollowDocker ==
  ASSUME DockerAnswers
  PROVE  Spec /\ []OneStartEach => []RecordMatchesDocker
<1> DEFINE Inv == Sound /\ Fresh /\ Matched
<1>1. Init => Inv
  <2>1. Init => Matched
    <3> SUFFICES ASSUME Init PROVE Matched
      OBVIOUS
    <3>1. \A c \in Calls : proc[c].pc = "idle"
      BY Constants DEF Init, Idle
    <3>2. QED
      BY <3>1 DEF Init, Matched, Followed, RemovedByStop, At
  <2>2. QED
    BY <2>1, InitSound, InitFresh
<1>2. OneStartEach /\ Inv /\ [Next]_vars => Inv'
  BY NextSound, NextKeepsFresh, NextKeepsMatched
<1>3. Inv => RecordMatchesDocker
  <2> SUFFICES ASSUME Inv, NEW o \in Owners, \A p \in Procs : Owner(p) # o
               PROVE  /\ container[o] # NoVm =>
                           vms[o] # NoVm /\ vms[o].need = container[o].need
                      /\ vms[o] # NoVm => container[o] # NoVm \/ o \in overtaken
    BY DEF RecordMatchesDocker
  <2>1. container[o] # NoVm => vms[o] # NoVm
    BY DEF Matched, Followed
  <2>2. LabelOK(o)
    BY FreshByParts
  <2>3. QED
    BY <2>1, <2>2 DEF LabelOK, Matched, RemovedByStop
<1>4. QED
  BY <1>1, <1>2, <1>3, PTL DEF Spec
-----------------------------------------------------------------------------
(* What findings come from: each of these properties holds under the        *)
(* condition that its counterexample breaks.                                 *)

(* While no two requests start a VM of one identity at the same time, start *)
(* never removes the container of a tracked VM (vm.rs:537).                  *)
THEOREM OnlyStaleVmsRemoved ==
  Spec /\ []OneStartEach => OnlyStaleRemoved
<1> DEFINE Step == \A c \in Calls : RemoveStale(c) => vms[Owner(c)] = NoVm
<1>1. Init => Sound /\ Fresh
  BY InitSound, InitFresh
<1>2. OneStartEach /\ Sound /\ Fresh /\ [Next]_vars => Sound' /\ Fresh'
  BY NextSound, NextKeepsFresh
<1>3. Fresh => Step
  BY FreshByParts DEF RemoveStale, Starting, At
<1> HIDE DEF Step
<1>4. Spec /\ []OneStartEach => [][Step]_vars
  BY <1>1, <1>2, <1>3, PTL DEF Spec
<1>5. QED
  BY <1>4 DEF OnlyStaleRemoved, Step

(* Every lease is metered at the same rate, and the leases that the reaper   *)
(* has listed are used up.                                                   *)
Rates ==
  \A o \in Owners : /\ vms[o] # NoVm => vms[o].rate = LeaseRate
                    /\ container[o] # NoVm => container[o].rate = LeaseRate

Used(vm) == vm.budget > 0 /\ (clock - vm.created) * vm.rate >= vm.budget * Hour
ListedAreUsed == \A o \in expired : vms[o] # NoVm => Used(vms[o])

(* No VM is recorded for an identity the reaper has listed.                  *)
NoneListedAnew == \A c \in Calls : At(c, "recording") => Owner(c) \notin expired

LEMMA ProductGrows ==
  ASSUME NEW a \in Int, NEW b \in Int, NEW n \in Nat, a <= b
  PROVE  a * n <= b * n /\ a * n \in Int /\ b * n \in Int
<1>1. PICK k \in Nat : b = a + k
  <2>1. b - a \in Nat /\ b = a + (b - a)
    OBVIOUS
  <2>2. QED
    BY <2>1
<1>2. b * n = a * n + k * n /\ k * n >= 0
  BY <1>1
<1>3. QED
  BY <1>2

LEMMA WholeHours ==
  ASSUME NEW x \in Int, NEW h \in Nat, h > 0, NEW b \in Nat, x \div h >= b
  PROVE  x >= b * h
<1> DEFINE q == x \div h
<1>1. q \in Int /\ q * h <= x
  OBVIOUS
<1>2. q >= b
  OBVIOUS
<1> HIDE DEF q
<1>3. b * h <= q * h /\ b * h \in Int /\ q * h \in Int
  BY <1>1, <1>2, ProductGrows
<1>4. QED
  BY <1>1, <1>3

LEMMA ExhaustedIsUsed ==
  ASSUME Sound, NEW o \in Owners, vms[o] # NoVm, Exhausted(vms[o], clock)
  PROVE  Used(vms[o])
<1> DEFINE x == (clock - vms[o].created) * vms[o].rate
<1>1. /\ clock - vms[o].created \in Int /\ vms[o].rate \in Nat /\ vms[o].budget \in Nat
  BY DEF Sound, TypeOK, VmType
<1>2. x \in Int
  BY <1>1
<1>3. vms[o].budget > 0 /\ x \div Hour >= vms[o].budget
  BY DEF Exhausted, Accrued
<1> HIDE DEF x
<1>4. x >= vms[o].budget * Hour
  BY <1>1, <1>2, <1>3, VmAssumption, WholeHours
<1>5. QED
  BY <1>3, <1>4 DEF Used, x

(* A lease that is used up stays so.                                         *)
LEMMA UsedStays ==
  ASSUME Sound, Sound', NEW o \in Owners, vms[o] # NoVm, vms'[o] = vms[o],
         Used(vms[o]), clock' >= clock
  PROVE  Used(vms[o])'
<1> DEFINE a == clock - vms[o].created
           b == clock' - vms[o].created
<1>1. /\ a \in Int /\ b \in Int /\ a <= b
      /\ vms[o].rate \in Nat /\ vms[o].budget \in Nat /\ Hour \in Nat
  BY VmAssumption DEF Sound, TypeOK, VmType
<1>2. vms[o].budget > 0 /\ a * vms[o].rate >= vms[o].budget * Hour
  BY DEF Used
<1>3. vms[o].budget * Hour \in Int
  BY <1>1
<1>4. (Used(vms[o])') <=> (vms[o].budget > 0 /\ b * vms[o].rate >= vms[o].budget * Hour)
  BY DEF Used
<1> HIDE DEF a, b
<1>5. a * vms[o].rate <= b * vms[o].rate /\ a * vms[o].rate \in Int /\ b * vms[o].rate \in Int
  BY <1>1, ProductGrows
<1>6. QED
  BY <1>2, <1>3, <1>4, <1>5

LEMMA ListedStep ==
  ASSUME NoneListedAnew, Sound, Sound', Rates, ListedAreUsed, [Next]_vars
  PROVE  Rates' /\ ListedAreUsed'
<1>1. clock' >= clock /\ clock \in Nat
  BY DEF Sound, TypeOK, Next, vars, docker, history, AlreadyUp, StartVm, StopVm, BeginStop,
         Start, RefuseStart, Allocate, Restore, Pull, RemoveStale, Run, Record, Stop, Kill,
         Sync, Drop, Release, Reap, ReapOne, Write, Tick, EndOfTime, Restart
<1>2. ASSUME NEW c \in Calls, Record(c)
      PROVE  Rates' /\ ListedAreUsed'
  <2> DEFINE r == [need |-> proc[c].need, budget |-> proc[c].budget,
                   rate |-> LeaseRate, created |-> clock]
  <2>1. /\ vms' = [vms EXCEPT ![Owner(c)] = r] /\ r.rate = LeaseRate
        /\ UNCHANGED <<clock, container, expired>> /\ Owner(c) \notin expired
    BY <1>2 DEF Record, docker, NoneListedAnew
  <2> HIDE DEF r
  <2>2. \A o \in expired : vms'[o] = vms[o]
    BY <2>1 DEF Sound, TypeOK
  <2>3. Rates'
    BY <2>1 DEF Rates, Sound, TypeOK
  <2>4. QED
    BY <2>1, <2>2, <2>3 DEF ListedAreUsed, Used
<1>3. ASSUME NEW c \in Calls, Run(c)
      PROVE  Rates' /\ ListedAreUsed'
  <2>1. UNCHANGED <<clock, vms, expired>>
    BY <1>3 DEF Run
  <2>2. UNCHANGED container \/ container' = [container EXCEPT ![Owner(c)] =
             [need |-> proc[c].need, budget |-> proc[c].budget,
              rate |-> LeaseRate, created |-> clock]]
    BY <1>3 DEF Run
  <2> DEFINE r == [need |-> proc[c].need, budget |-> proc[c].budget,
                   rate |-> LeaseRate, created |-> clock]
  <2>3. r.rate = LeaseRate /\ (UNCHANGED container \/ container' = [container EXCEPT ![Owner(c)] = r])
    BY <2>2
  <2> HIDE DEF r
  <2>4. Rates'
    BY <2>1, <2>3 DEF Rates, Sound, TypeOK
  <2>5. QED
    BY <2>1, <2>4 DEF ListedAreUsed, Used
<1>4. ASSUME Restart
      PROVE  Rates' /\ ListedAreUsed'
  <2>1. expired' = {}
    BY <1>4 DEF Restart
  <2>2. \A o \in Owners : /\ container'[o] \in {container[o], NoVm}
                          /\ vms'[o] \in {container'[o], NoVm}
    BY <1>4 DEF Restart
  <2>3. QED
    BY <2>1, <2>2 DEF Rates, ListedAreUsed
<1>5. ASSUME Reap
      PROVE  Rates' /\ ListedAreUsed'
  <2>1. /\ expired' = {o \in Owners : vms[o] # NoVm /\ Exhausted(vms[o], clock)}
        /\ UNCHANGED <<clock, vms, container>>
    BY <1>5 DEF Reap, docker
  <2>2. \A o \in expired' : Used(vms[o])
    BY <2>1, ExhaustedIsUsed
  <2>3. QED
    BY <2>1, <2>2 DEF Rates, ListedAreUsed, Used
<1>6. ASSUME expired' \subseteq expired,
             \A o \in Owners : vms'[o] \in {vms[o], NoVm} /\ container'[o] \in {container[o], NoVm}
      PROVE  Rates' /\ ListedAreUsed'
  <2>1. ASSUME NEW o \in expired', vms'[o] # NoVm PROVE Used(vms[o])'
    <3>1. o \in expired /\ o \in Owners /\ vms'[o] = vms[o]
      BY <1>6, <2>1 DEF Sound, TypeOK
    <3>2. QED
      BY <1>1, <2>1, <3>1, UsedStays DEF ListedAreUsed
  <2>2. QED
    BY <1>6, <2>1 DEF Rates, ListedAreUsed
<1>7. QED
  <2>1. ASSUME NEW c \in Calls, RefuseStart(c) \/ Allocate(c) \/ Restore(c) \/ Pull(c) \/ RemoveStale(c)
        PROVE  /\ expired' \subseteq expired
               /\ \A o \in Owners : vms'[o] \in {vms[o], NoVm} /\ container'[o] \in {container[o], NoVm}
    BY <2>1 DEF RefuseStart, Allocate, Restore, Pull, RemoveStale, docker, Sound, TypeOK
  <2>2. ASSUME NEW p \in Procs, Stop(p)
        PROVE  /\ expired' \subseteq expired
               /\ \A o \in Owners : vms'[o] \in {vms[o], NoVm} /\ container'[o] \in {container[o], NoVm}
    BY <2>2 DEF Stop, Kill, Sync, Drop, Release, docker, Sound, TypeOK
  <2>3. ASSUME NEW p \in Procs, NEW o \in Owners, NEW wipe \in BOOLEAN, BeginStop(p, o, wipe)
        PROVE  \A b \in Owners : vms'[b] \in {vms[b], NoVm} /\ container'[b] \in {container[b], NoVm}
    BY <2>3 DEF BeginStop, docker, Sound, TypeOK
  <2>4. ASSUME NEW c \in Calls, NEW o \in Owners,
               \/ AlreadyUp(c, o)
               \/ \E need \in Needs, budget \in Budgets : StartVm(c, o, need, budget)
               \/ \E wipe \in BOOLEAN : StopVm(c, o, wipe)
               \/ ReapOne(o) \/ Write(o)
        PROVE  /\ expired' \subseteq expired
               /\ \A b \in Owners : vms'[b] \in {vms[b], NoVm} /\ container'[b] \in {container[b], NoVm}
    BY <2>3, <2>4, Constants DEF AlreadyUp, StartVm, StopVm, ReapOne, Write, docker
  <2>5. ASSUME Tick \/ EndOfTime \/ UNCHANGED vars
        PROVE  /\ expired' \subseteq expired
               /\ \A b \in Owners : vms'[b] \in {vms[b], NoVm} /\ container'[b] \in {container[b], NoVm}
    BY <2>5 DEF Tick, EndOfTime, vars, docker
  <2>6. ASSUME NEW o \in Owners, ReapOne(o) \/ Write(o)
        PROVE  /\ expired' \subseteq expired
               /\ \A b \in Owners : vms'[b] \in {vms[b], NoVm} /\ container'[b] \in {container[b], NoVm}
    BY <2>3, <2>6, Constants DEF ReapOne, Write, docker
  <2>7. QED
    BY <1>2, <1>3, <1>4, <1>5, <1>6, <2>1, <2>2, <2>4, <2>5, <2>6 DEF Next, Start

(* If no VM is recorded for an identity between the reaper's look at the     *)
(* leases and its stop (vm.rs:784), and a job costs no more than an hour is  *)
(* announced to, the reaper stops a VM only when what was paid is used up    *)
(* (vm.rs:775, core.rs:968).                                                 *)
THEOREM ReaperSparesThePaid ==
  ASSUME JobPrice <= HourPrice
  PROVE  Spec /\ []NoneListedAnew => ReaperSparesPaid
<1> DEFINE Step == \A o \in Owners : ReapOne(o) /\ vms[o] # NoVm =>
                     /\ vms[o].budget > 0
                     /\ (clock - vms[o].created) * HourPrice >= vms[o].budget * Hour
<1>1. Init => Sound /\ Rates /\ ListedAreUsed
  BY InitSound DEF Init, Rates, ListedAreUsed
<1>2. NoneListedAnew /\ Sound /\ Rates /\ ListedAreUsed /\ [Next]_vars =>
        Sound' /\ Rates' /\ ListedAreUsed'
  BY NextSound, ListedStep
<1>3. Sound /\ Rates /\ ListedAreUsed => Step
  <2> SUFFICES ASSUME Sound, Rates, ListedAreUsed, NEW o \in Owners, ReapOne(o), vms[o] # NoVm
               PROVE  /\ vms[o].budget > 0
                      /\ (clock - vms[o].created) * HourPrice >= vms[o].budget * Hour
    OBVIOUS
  <2> DEFINE a == clock - vms[o].created
             m == vms[o].budget * Hour
  <2>1. vms[o].budget > 0 /\ a * JobPrice >= m
    BY DEF ListedAreUsed, Used, Rates, LeaseRate, ReapOne
  <2>2. a \in Int /\ vms[o].budget \in Nat
    BY DEF Sound, TypeOK, VmType
  <2>3. m \in Nat /\ m > 0
    <3>1. 1 * Hour <= vms[o].budget * Hour /\ vms[o].budget * Hour \in Int /\ 1 * Hour = Hour
      BY <2>1, <2>2, VmAssumption, ProductGrows
    <3>2. QED
      BY <3>1, VmAssumption
  <2>4. JobPrice \in Nat /\ HourPrice \in Nat
    BY VmAssumption
  <2> HIDE DEF m, a
  <2>5. a > 0
    <3>1. SUFFICES ASSUME a <= 0 PROVE FALSE
      BY <2>2
    <3>2. a * JobPrice <= 0 * JobPrice /\ 0 * JobPrice = 0 /\ a * JobPrice \in Int
      BY <2>2, <2>4, <3>1, ProductGrows
    <3>3. QED
      BY <2>1, <2>3, <3>2
  <2>6. JobPrice * a <= HourPrice * a /\ JobPrice * a \in Int /\ HourPrice * a \in Int
    BY <2>2, <2>4, <2>5, ProductGrows
  <2>7. JobPrice * a = a * JobPrice /\ HourPrice * a = a * HourPrice
    BY <2>2, <2>4
  <2>8. a * HourPrice >= m
    BY <2>1, <2>3, <2>6, <2>7
  <2>9. QED
    BY <2>1, <2>8 DEF a, m
<1> HIDE DEF Step
<1>4. Spec /\ []NoneListedAnew => [][Step]_vars
  BY <1>1, <1>2, <1>3, PTL DEF Spec
<1>5. QED
  BY <1>4 DEF ReaperSparesPaid, Step
-----------------------------------------------------------------------------
(* The tenants' data.                                                        *)

(* Without a store a stop drops the local volume only for a wipe.            *)
DropsForWipe(p) == ~ At(p, "syncing") /\ (At(p, "dropping") => proc[p].wipe)
AtHome(o) == newest[o] = 0 \/ wiped[o] \/ newest[o] = home[o]
LocalHomes ==
  /\ \A o \in Owners : AtHome(o)
  /\ \A p \in Procs : DropsForWipe(p)

LEMMA LocalHomesStep ==
  ASSUME ~ Remote, Sound, Sound', LocalHomes, [Next]_vars
  PROVE  LocalHomes'
<1> USE DEF Sound
<1>0. ASSUME NEW q \in Procs
      PROVE  /\ proc'[q] = proc[q] => DropsForWipe(q)'
             /\ proc'[q].pc \notin {"syncing", "dropping"} => DropsForWipe(q)'
             /\ proc'[q].pc = "dropping" /\ proc'[q].wipe = TRUE => DropsForWipe(q)'
  <2>1. DropsForWipe(q)
    BY DEF LocalHomes
  <2>2. QED
    BY <2>1 DEF DropsForWipe, At
<1>1. ASSUME \A q \in Procs : DropsForWipe(q)', \A o \in Owners : AtHome(o)'
      PROVE  LocalHomes'
  BY <1>1 DEF LocalHomes
<1>2. ASSUME UNCHANGED <<home, newest, wiped>>, \A q \in Procs : DropsForWipe(q)'
      PROVE  LocalHomes'
  BY <1>1, <1>2 DEF LocalHomes, AtHome
<1>3. ASSUME NEW c \in Calls, Start(c)
      PROVE  LocalHomes'
  <2>1. c \in Procs
    BY Constants
  <2>2. \A q \in Procs : proc'[q] = proc[q] \/ proc'[q].pc \notin {"syncing", "dropping"}
    <3>1. \/ Done(c)
          \/ \E pc \in {"restoring", "pulling", "removing", "running", "recording"} : Goto(c, pc)
      BY <1>3 DEF Start, RefuseStart, Allocate, Restore, Pull, RemoveStale, Run, Record
    <3>2. QED
      BY <2>1, <3>1, GotoEffect, DoneEffect
  <2>3. UNCHANGED <<newest, wiped>>
    BY <1>3 DEF Start, RefuseStart, Allocate, Restore, Pull, RemoveStale, Run, Record, history
  <2>4. \A o \in Owners : home'[o] = home[o] \/ (home[o] = NoVm /\ home'[o] = 0)
    <3>1. CASE Restore(c)
      BY <3>1 DEF Restore, TypeOK
    <3>2. CASE Run(c)
      BY <3>2 DEF Run, TypeOK
    <3>3. CASE ~ Restore(c) /\ ~ Run(c)
      BY <1>3, <3>3 DEF Start, RefuseStart, Allocate, Pull, RemoveStale, Record, docker
    <3>4. QED
      BY <3>1, <3>2, <3>3
  <2>5. \A o \in Owners : newest[o] # NoVm
    BY Constants DEF TypeOK
  <2>6. \A o \in Owners : AtHome(o)'
    BY <2>3, <2>4, <2>5 DEF LocalHomes, AtHome
  <2>7. QED
    BY <1>0, <1>1, <2>2, <2>6
<1>4. ASSUME NEW p \in Procs, Stop(p)
      PROVE  LocalHomes'
  <2>1. CASE Kill(p)
    <3> DEFINE to == IF proc[p].wipe THEN "dropping" ELSE IF Remote THEN "syncing" ELSE "releasing"
    <3>1. Goto(p, to) /\ UNCHANGED <<home, newest, wiped>>
      BY <2>1 DEF Kill
    <3>2. to = "releasing" \/ (to = "dropping" /\ proc[p].wipe)
      OBVIOUS
    <3> HIDE DEF to
    <3>3. proc[p].wipe \in BOOLEAN
      BY DEF TypeOK, ProcType
    <3>4. /\ \A q \in Procs \ {p} : proc'[q] = proc[q]
          /\ proc'[p].pc = to /\ proc'[p].wipe = proc[p].wipe
      BY <3>1, GotoEffect
    <3>5. DropsForWipe(p)'
      BY <1>0, <3>2, <3>3, <3>4
    <3>6. QED
      BY <1>0, <1>2, <3>1, <3>4, <3>5
  <2>2. CASE Drop(p)
    <3>1. proc[p].wipe /\ Owner(p) \in Owners
      BY <2>2 DEF Drop, LocalHomes, DropsForWipe, ProcsOK, At, Idle
    <3>2. /\ Goto(p, "releasing") /\ newest' = newest
          /\ wiped' = [wiped EXCEPT ![Owner(p)] = TRUE]
          /\ \A o \in Owners \ {Owner(p)} : home'[o] = home[o]
      BY <2>2, <3>1 DEF Drop, TypeOK
    <3>3. \A o \in Owners : AtHome(o)'
      BY <3>1, <3>2 DEF LocalHomes, AtHome, TypeOK
    <3>4. \A q \in Procs : DropsForWipe(q)'
      <4>1. /\ \A q \in Procs \ {p} : proc'[q] = proc[q]
            /\ proc'[p].pc = "releasing"
        BY <3>2, GotoEffect
      <4>2. QED
        BY <1>0, <4>1
    <3>5. QED
      BY <1>1, <3>3, <3>4
  <2>3. CASE Release(p)
    <3>1. Done(p) /\ UNCHANGED <<home, newest, wiped>>
      BY <2>3 DEF Release, docker, history
    <3>2. \A q \in Procs : DropsForWipe(q)'
      BY <1>0, <3>1, DoneEffect
    <3>3. QED
      BY <1>2, <3>1, <3>2
  <2>4. ~ Sync(p)
    BY DEF Sync, LocalHomes, DropsForWipe
  <2>5. QED
    BY <1>4, <2>1, <2>2, <2>3, <2>4 DEF Stop
<1>5. ASSUME NEW p \in Procs, NEW n, proc' = [proc EXCEPT ![p] = n],
             n.pc \in {"authorizing", "killing"}, UNCHANGED <<home, newest, wiped>>
      PROVE  LocalHomes'
  <2>1. \A q \in Procs : proc'[q] = proc[q] \/ proc'[q].pc \notin {"syncing", "dropping"}
    BY <1>5 DEF TypeOK
  <2>2. QED
    BY <1>0, <1>2, <1>5, <2>1
<1>6. ASSUME NEW p \in Procs, NEW o \in Owners, NEW wipe \in BOOLEAN, BeginStop(p, o, wipe)
      PROVE  LocalHomes'
  <2> DEFINE n == [pc |-> "killing", owner |-> o, need |-> vms[o].need,
                   budget |-> 0, wipe |-> wipe]
  <2>1. proc' = [proc EXCEPT ![p] = n] /\ n.pc = "killing" /\ UNCHANGED <<home, newest, wiped>>
    BY <1>6 DEF BeginStop, docker, history
  <2>2. QED
    BY <1>5, <2>1
<1>7. ASSUME NEW c \in Calls, NEW o \in Owners, NEW need \in Needs, NEW budget \in Budgets,
             StartVm(c, o, need, budget)
      PROVE  LocalHomes'
  <2> DEFINE n == [pc |-> "authorizing", owner |-> o, need |-> need,
                   budget |-> budget, wipe |-> FALSE]
  <2>1. /\ proc' = [proc EXCEPT ![c] = n] /\ n.pc = "authorizing"
        /\ UNCHANGED <<home, newest, wiped>>
    BY <1>7 DEF StartVm, docker
  <2>2. QED
    BY <1>5, <2>1, Constants
<1>8. ASSUME NEW o \in Owners, Write(o)
      PROVE  LocalHomes'
  <2>1. /\ proc' = proc
        /\ \A b \in Owners \ {o} : /\ newest'[b] = newest[b] /\ home'[b] = home[b]
                                   /\ wiped'[b] = wiped[b]
        /\ newest'[o] = home'[o]
    BY <1>8 DEF Write, TypeOK
  <2>2. \A b \in Owners : AtHome(b)'
    BY <2>1 DEF LocalHomes, AtHome
  <2>3. QED
    BY <1>0, <1>1, <2>1, <2>2
<1>9. ASSUME Restart
      PROVE  LocalHomes'
  <2>1. proc' = [q \in Procs |-> Idle] /\ UNCHANGED <<home, newest, wiped>>
    BY <1>9 DEF Restart
  <2>2. \A q \in Procs : DropsForWipe(q)'
    BY <1>0, <2>1 DEF Idle
  <2>3. QED
    BY <1>2, <2>1, <2>2
<1>10. ASSUME UNCHANGED <<proc, home, newest, wiped>>
       PROVE  LocalHomes'
  BY <1>0, <1>2, <1>10
<1>11. ASSUME NEW o \in Owners, ReapOne(o)
       PROVE  LocalHomes'
  BY <1>6, <1>10, <1>11, Constants DEF ReapOne, docker, history
<1>12. ASSUME NEW c \in Calls, NEW o \in Owners,
              AlreadyUp(c, o) \/ \E wipe \in BOOLEAN : StopVm(c, o, wipe)
       PROVE  LocalHomes'
  BY <1>6, <1>10, <1>12, Constants DEF AlreadyUp, StopVm, docker
<1>13. ASSUME Reap \/ Tick \/ EndOfTime \/ UNCHANGED vars
       PROVE  LocalHomes'
  BY <1>10, <1>13 DEF Reap, Tick, EndOfTime, vars, docker, history
<1>14. QED
  BY <1>3, <1>4, <1>7, <1>8, <1>9, <1>11, <1>12, <1>13 DEF Next

(* On a node without an off-provider store, what a tenant wrote last is in   *)
(* the tenant's volume unless the tenant wiped it, whatever command fails,   *)
(* whoever starts and stops VMs at once, and whenever the provider restarts  *)
(* (vm.rs:966).                                                              *)
THEOREM LocalHomesAreKept ==
  ASSUME ~ Remote
  PROVE  Spec => []HomeNotLost
<1>1. Init => LocalHomes
  BY DEF Init, LocalHomes, AtHome, DropsForWipe, At, Idle
<1>2. Sound /\ LocalHomes /\ [Next]_vars => Sound' /\ LocalHomes'
  BY NextSound, LocalHomesStep
<1>3. LocalHomes => HomeNotLost
  BY DEF LocalHomes, AtHome, HomeNotLost
<1>4. QED
  BY <1>1, <1>2, <1>3, InitSound, PTL DEF Spec
(* With a store: what is in it is the newest, or nothing is and the volume   *)
(* has it.                                                                   *)
Synced(o) == newest[o] = 0 \/ wiped[o] \/ newest[o] = store[o]
Restorable(o) == Synced(o) \/ (store[o] = 0 /\ newest[o] = home[o])

(* While a VM is up the volume may be newer than the store, and until a stop *)
(* has persisted it.                                                         *)
Up(o) ==
  vms[o] # NoVm \/ \E p \in Procs : Owner(p) = o /\ proc[p].pc \in {"recording", "killing"}

Wiping(p) == At(p, "dropping") /\ proc[p].wipe
Going(o) == \E p \in Procs : Owner(p) = o /\ (At(p, "syncing") \/ Wiping(p))

HomeOK(o) ==
  /\ container[o] # NoVm => Up(o)
  /\ Synced(o) \/ newest[o] = home[o]
  /\ newest[o] = 0 \/ wiped[o] \/ home[o] \in {NoVm, 0, newest[o]}
  /\ Up(o) \/ Going(o) \/ Restorable(o)

StopOK(p) ==
  /\ proc[p].pc \in {"syncing", "dropping", "releasing"} => container[Owner(p)] = NoVm
  /\ At(p, "dropping") => Wiping(p) \/ Synced(Owner(p))

StoredHomes == /\ \A o \in Owners : HomeOK(o)
               /\ \A p \in Procs : StopOK(p)

(* Whoever starts a VM has its identity for itself: no stop of it is under   *)
(* way, and no other start.                                                  *)
StartsAlone == \A c \in Calls, p \in Procs : Starting(c) /\ p # c => Owner(p) # Owner(c)

Minds(p) == proc[p].pc \in {"recording", "killing", "syncing", "dropping"}

(* A step that leaves the data alone, and in which no process takes up or    *)
(* leaves a part of its work that the data depend on.                        *)
LEMMA HomesQuiet ==
  ASSUME Sound, StoredHomes,
         UNCHANGED <<vms, container, home, store, newest, wiped>>,
         \A q \in Procs : \/ proc'[q] = proc[q]
                          \/ ~ Minds(q) /\ ~ Minds(q)' /\ proc'[q].pc # "releasing"
  PROVE  StoredHomes'
<1>1. ASSUME NEW o \in Owners PROVE HomeOK(o)'
  <2>1. HomeOK(o) /\ (Synced(o)' <=> Synced(o)) /\ (Restorable(o)' <=> Restorable(o))
    BY DEF StoredHomes, Synced, Restorable
  <2>2. Up(o) => Up(o)'
    BY DEF Up, Owner, Minds
  <2>3. Going(o) => Going(o)'
    <3>1. SUFFICES ASSUME NEW q \in Procs, Owner(q) = o, At(q, "syncing") \/ Wiping(q)
                   PROVE  Going(o)'
      BY DEF Going
    <3>2. proc'[q] = proc[q]
      BY <3>1 DEF Minds, At, Wiping
    <3>3. Owner(q)' = o /\ (At(q, "syncing")' \/ Wiping(q)')
      BY <3>1, <3>2 DEF Owner, At, Wiping
    <3>4. QED
      BY <3>3 DEF Going
  <2>4. QED
    BY <2>1, <2>2, <2>3 DEF HomeOK
<1>2. ASSUME NEW q \in Procs PROVE StopOK(q)'
  <2>1. CASE proc'[q] = proc[q]
    BY <2>1 DEF StoredHomes, StopOK, Owner, At, Synced, Wiping
  <2>2. CASE proc'[q].pc \notin {"syncing", "dropping", "releasing"}
    BY <2>2 DEF StopOK, At
  <2>3. QED
    BY <2>1, <2>2 DEF Minds
<1>3. QED
  BY <1>1, <1>2 DEF StoredHomes

(* A step of p for the identity o changes nothing for others.                *)
Alike(b) ==
  /\ vms'[b] = vms[b] /\ container'[b] = container[b] /\ home'[b] = home[b]
  /\ store'[b] = store[b] /\ newest'[b] = newest[b] /\ wiped'[b] = wiped[b]

LEMMA HomesLocal ==
  ASSUME Sound, Sound', StoredHomes, NEW p \in Procs, NEW o \in Owners,
         \A q \in Procs \ {p} : proc'[q] = proc[q],
         Owner(p) \in {o, NoVm}, Owner(p)' \in {o, NoVm},
         \A b \in Owners \ {o} : Alike(b),
         HomeOK(o)', \A q \in Procs : Owner(q)' = o => StopOK(q)'
  PROVE  StoredHomes'
<1>1. ASSUME NEW b \in Owners, b # o PROVE HomeOK(b)'
  <2>1. Alike(b) /\ HomeOK(b) /\ b # NoVm
    BY <1>1, Constants DEF StoredHomes
  <2>2. (Synced(b)' <=> Synced(b)) /\ (Restorable(b)' <=> Restorable(b))
    BY <2>1 DEF Alike, Synced, Restorable
  <2>3. \A q \in Procs : Owner(q) = b => proc'[q] = proc[q]
    BY <1>1, <2>1
  <2>4. Up(b) => Up(b)'
    BY <2>1, <2>3 DEF Up, Owner, Alike
  <2>5. Going(b) => Going(b)'
    <3>1. SUFFICES ASSUME NEW q \in Procs, Owner(q) = b, At(q, "syncing") \/ Wiping(q)
                   PROVE  Going(b)'
      BY DEF Going
    <3>2. proc'[q] = proc[q]
      BY <2>3, <3>1
    <3>3. Owner(q)' = b /\ (At(q, "syncing")' \/ Wiping(q)')
      BY <3>1, <3>2 DEF Owner, At, Wiping
    <3>4. QED
      BY <3>3 DEF Going
  <2>6. QED
    BY <2>1, <2>2, <2>4, <2>5 DEF HomeOK, Alike
<1>2. ASSUME NEW q \in Procs, Owner(q)' # o PROVE StopOK(q)'
  <2>1. CASE Owner(q)' \notin Owners
    <3>1. proc'[q] = Idle
      BY <2>1 DEF Sound, ProcsOK, Owner
    <3>2. QED
      BY <3>1 DEF StopOK, At, Idle
  <2>2. CASE Owner(q)' \in Owners
    <3>1. q # p
      BY <1>2, <2>2, Constants
    <3>2. proc'[q] = proc[q] /\ StopOK(q) /\ Owner(q)' = Owner(q)
      BY <3>1 DEF StoredHomes, Owner
    <3>3. Alike(Owner(q))
      BY <1>2, <2>2, <3>2
    <3>4. (Synced(Owner(q))' <=> Synced(Owner(q)))
      BY <3>2, <3>3 DEF Synced, Alike
    <3>5. (At(q, "dropping")' <=> At(q, "dropping")) /\ (Wiping(q)' <=> Wiping(q))
      BY <3>2 DEF At, Wiping
    <3>6. QED
      BY <3>2, <3>3, <3>4, <3>5 DEF StopOK, Alike
  <2>3. QED
    BY <2>1, <2>2
<1>3. QED
  BY <1>1, <1>2 DEF StoredHomes

(* Before its container runs, an identity being started has what a restore   *)
(* keeps.                                                                    *)
LEMMA AloneBefore ==
  ASSUME Sound, Fresh, StoredHomes, StartsAlone, NEW c \in Calls, Starting(c)
  PROVE  /\ c \in Procs /\ Owner(c) \in Owners
         /\ \A q \in Procs \ {c} : Owner(q) # Owner(c)
         /\ ~ Minds(c) => container[Owner(c)] = NoVm /\ Restorable(Owner(c))
<1>1. c \in Procs /\ Owner(c) \in Owners
  BY Constants DEF Sound, ProcsOK, Starting, Idle, Owner
<1>2. \A q \in Procs \ {c} : Owner(q) # Owner(c)
  BY DEF StartsAlone
<1>3. vms[Owner(c)] = NoVm
  BY FreshByParts
<1>4. ASSUME ~ Minds(c) PROVE container[Owner(c)] = NoVm /\ Restorable(Owner(c))
  <2>1. ~ Up(Owner(c))
    BY <1>1, <1>2, <1>3, <1>4 DEF Up, Minds
  <2>2. ~ Going(Owner(c))
    BY <1>1, <1>2, <1>4 DEF Going, Minds, Wiping, At
  <2>3. QED
    BY <1>1, <2>1, <2>2 DEF StoredHomes, HomeOK
<1>5. QED
  BY <1>1, <1>2, <1>4
LEMMA StartKeepsStored ==
  ASSUME Sound, Sound', Fresh, StoredHomes, StartsAlone, NEW c \in Calls, Start(c)
  PROVE  StoredHomes'
<1>1. Starting(c)
  BY DEF Start, RefuseStart, Allocate, Restore, Pull, RemoveStale, Run, Record, Starting, At
<1>0. PICK o \in Owners : Owner(c) = o
  BY <1>1, AloneBefore
<1>2. /\ c \in Procs /\ o \in Owners /\ Owner(c) = o
      /\ \A q \in Procs \ {c} : Owner(q) # o
      /\ ~ Minds(c) => container[o] = NoVm /\ Restorable(o)
  BY <1>0, <1>1, AloneBefore
<1>3. /\ newest[o] \in Nat /\ store[o] \in Nat /\ home[o] \in Nat \cup {NoVm} /\ NoVm \notin Nat
      /\ wiped[o] \in BOOLEAN
  BY <1>2, Constants DEF Sound, TypeOK
<1>4. UNCHANGED <<newest, wiped, store>>
  BY DEF Start, RefuseStart, Allocate, Restore, Pull, RemoveStale, Run, Record, docker, history
<1>5. ASSUME UNCHANGED <<vms, home>>, ~ Minds(c),
             container' = container \/ container' = [container EXCEPT ![o] = NoVm],
             \/ Done(c)
             \/ \E pc \in {"restoring", "pulling", "removing", "running"} : Goto(c, pc)
      PROVE  StoredHomes'
  <2>1. container' = container
    BY <1>2, <1>5 DEF Sound, TypeOK
  <2>2. /\ \A q \in Procs \ {c} : proc'[q] = proc[q]
        /\ proc'[c].pc \in {"idle", "restoring", "pulling", "removing", "running"}
    BY <1>2, <1>5, GotoEffect, DoneEffect DEF Sound
  <2>3. QED
    BY <1>4, <1>5, <2>1, <2>2, HomesQuiet DEF Minds
<1>6. CASE RefuseStart(c) \/ Allocate(c) \/ Pull(c) \/ RemoveStale(c)
  BY <1>2, <1>5, <1>6 DEF RefuseStart, Allocate, Pull, RemoveStale, docker, Minds, At
<1>7. CASE Restore(c)
  <2>1. ~ Minds(c)
    BY <1>7 DEF Restore, Minds, At
  <2>2. /\ \A q \in Procs \ {c} : proc'[q] = proc[q]
        /\ proc'[c].pc = "pulling" /\ Owner(c)' = o
    BY <1>2, <1>7, GotoEffect DEF Restore, Sound, Owner
  <2> DEFINE local == IF home[o] = NoVm THEN 0 ELSE home[o]
  <2>3. /\ UNCHANGED <<vms, container>>
        /\ \A b \in Owners \ {o} : home'[b] = home[b]
        /\ home'[o] \in {Copied(store[o], local), local}
    BY <1>2, <1>7 DEF Restore, Sound, TypeOK
  <2>4. Synced(o)' <=> Synced(o)
    BY <1>4 DEF Synced
  <2>5. Restorable(o)'
    BY <1>2, <1>3, <1>4, <2>1, <2>3, <2>4 DEF Restorable, Copied, Synced
  <2>6. newest'[o] = 0 \/ wiped'[o] \/ home'[o] \in {NoVm, 0, newest'[o]}
    <3>1. HomeOK(o)
      BY <1>2 DEF StoredHomes
    <3>2. newest[o] = 0 \/ wiped[o] \/ local \in {0, newest[o]}
      BY <3>1 DEF HomeOK
    <3>3. Restorable(o)
      BY <1>2, <2>1
    <3>4. QED
      BY <1>3, <1>4, <2>3, <3>2, <3>3 DEF Restorable, Synced, Copied
  <2>7. HomeOK(o)'
    BY <1>2, <2>1, <2>3, <2>5, <2>6 DEF HomeOK, Restorable
  <2>8. \A q \in Procs : Owner(q)' = o => StopOK(q)'
    BY <1>2, <2>2 DEF StopOK, At, Owner
  <2>9. QED
    BY <1>2, <1>4, <2>2, <2>3, <2>7, <2>8, HomesLocal DEF Alike
<1>8. CASE Run(c)
  <2>1. ~ Minds(c)
    BY <1>8 DEF Run, Minds, At
  <2>2. CASE Done(c)
    <3>1. UNCHANGED <<vms, container, home>>
      BY <1>8, <2>2, <1>2, DoneEffect, GotoEffect DEF Run, Sound
    <3>2. QED
      BY <1>5, <2>1, <2>2, <3>1
  <2>3. CASE ~ Done(c)
    <3>1. /\ Goto(c, "recording") /\ UNCHANGED vms
          /\ \A b \in Owners \ {o} : container'[b] = container[b] /\ home'[b] = home[b]
          /\ home'[o] = IF home[o] = NoVm THEN 0 ELSE home[o]
      BY <1>2, <1>8, <2>3 DEF Run, Sound, TypeOK
    <3>2. /\ \A q \in Procs \ {c} : proc'[q] = proc[q]
          /\ proc'[c].pc = "recording" /\ Owner(c)' = o
      BY <1>2, <3>1, GotoEffect DEF Sound, Owner
    <3>3. Up(o)'
      BY <1>2, <3>2 DEF Up
    <3>4. HomeOK(o) /\ (Synced(o)' <=> Synced(o))
      BY <1>2, <1>4 DEF StoredHomes, Synced
    <3>5. HomeOK(o)'
      BY <1>3, <1>4, <3>1, <3>3, <3>4 DEF HomeOK
    <3>6. \A q \in Procs : Owner(q)' = o => StopOK(q)'
      BY <1>2, <3>2 DEF StopOK, At, Owner
    <3>7. QED
      BY <1>2, <1>4, <3>1, <3>2, <3>5, <3>6, HomesLocal DEF Alike
  <2>4. QED
    BY <2>2, <2>3
<1>9. CASE Record(c)
  <2> DEFINE r == [need |-> proc[c].need, budget |-> proc[c].budget,
                   rate |-> LeaseRate, created |-> clock]
  <2>1. /\ vms' = [vms EXCEPT ![o] = r] /\ UNCHANGED <<container, home>> /\ Done(c)
    BY <1>2, <1>9 DEF Record, docker
  <2>2. r # NoVm
    <3>1. r \in VmType
      BY <1>2, Constants DEF VmType, Sound, TypeOK, ProcType
    <3>2. QED
      BY <3>1, Constants
  <2> HIDE DEF r
  <2>3. vms'[o] # NoVm /\ \A b \in Owners \ {o} : vms'[b] = vms[b]
    BY <1>2, <2>1, <2>2 DEF Sound, TypeOK
  <2>4. /\ \A q \in Procs \ {c} : proc'[q] = proc[q]
        /\ proc'[c].pc = "idle" /\ Owner(c)' = NoVm
    BY <1>2, <2>1, DoneEffect DEF Sound, Owner
  <2>5. HomeOK(o) /\ (Synced(o)' <=> Synced(o))
    BY <1>2, <1>4 DEF StoredHomes, Synced
  <2>6. HomeOK(o)'
    BY <1>4, <2>1, <2>3, <2>5 DEF HomeOK, Up
  <2>7. \A q \in Procs : Owner(q)' = o => StopOK(q)'
    BY <1>2, <2>4 DEF StopOK, At, Owner
  <2>8. QED
    BY <1>2, <1>4, <2>1, <2>3, <2>4, <2>6, <2>7, HomesLocal DEF Alike
<1>10. QED
  BY <1>6, <1>7, <1>8, <1>9 DEF Start

LEMMA StopKeepsStored ==
  ASSUME Remote, Faults \cap {"rm", "persist"} = {},
         Sound, Sound', StoredHomes, NEW p \in Procs, Stop(p)
  PROVE  StoredHomes'
<1>0. Owner(p) \in Owners
  BY DEF Stop, Kill, Sync, Drop, Release, Sound, ProcsOK, At, Idle
<1>1. PICK o \in Owners : Owner(p) = o
  BY <1>0
<1>2. /\ newest[o] \in Nat /\ store[o] \in Nat /\ home[o] \in Nat \cup {NoVm} /\ NoVm \notin Nat
      /\ wiped[o] \in BOOLEAN /\ proc[p].wipe \in BOOLEAN
  BY <1>1, Constants DEF Sound, TypeOK, ProcType
<1>3. HomeOK(o) /\ StopOK(p)
  BY <1>1 DEF StoredHomes
<1>4. ASSUME NEW q \in Procs, q # p, proc'[q] = proc[q], Owner(q)' = o,
             container'[o] = NoVm, Synced(o) => Synced(o)'
      PROVE  StopOK(q)'
  <2>1. Owner(q) = o /\ StopOK(q) /\ (At(q, "dropping")' <=> At(q, "dropping"))
        /\ (Wiping(q)' <=> Wiping(q))
    BY <1>4 DEF StoredHomes, Owner, At, Wiping
  <2>2. QED
    BY <1>4, <2>1 DEF StopOK
<1>5. CASE Kill(p)
  <2> DEFINE to == IF proc[p].wipe THEN "dropping" ELSE "syncing"
  <2>1. /\ container' = [container EXCEPT ![o] = NoVm] /\ Goto(p, to)
        /\ UNCHANGED <<vms, home, store, newest, wiped>>
    BY <1>1, <1>5 DEF Kill, Outcomes
  <2>2. to \in {"dropping", "syncing"} /\ (to = "dropping" => proc[p].wipe)
    OBVIOUS
  <2> HIDE DEF to
  <2>3. /\ \A q \in Procs \ {p} : proc'[q] = proc[q]
        /\ proc'[p].pc = to /\ proc'[p].owner = proc[p].owner /\ proc'[p].wipe = proc[p].wipe
    BY <2>1, GotoEffect DEF Sound
  <2>4. container'[o] = NoVm /\ \A b \in Owners \ {o} : container'[b] = container[b]
    BY <1>1, <2>1 DEF Sound, TypeOK
  <2>5. Owner(p)' = o /\ (At(p, "syncing")' \/ Wiping(p)')
    BY <1>1, <2>2, <2>3 DEF Owner, At, Wiping
  <2>6. Going(o)'
    BY <2>5 DEF Going
  <2>7. Synced(o)' <=> Synced(o)
    BY <2>1 DEF Synced
  <2>8. HomeOK(o)'
    BY <1>3, <2>1, <2>4, <2>6, <2>7 DEF HomeOK
  <2>9. StopOK(p)'
    BY <2>4, <2>5 DEF StopOK, At
  <2>10. \A q \in Procs : Owner(q)' = o => StopOK(q)'
    BY <1>4, <2>3, <2>4, <2>7, <2>9
  <2>11. QED
    BY <1>1, <2>1, <2>3, <2>4, <2>5, <2>8, <2>10, HomesLocal DEF Alike
<1>6. CASE Sync(p)
  <2> DEFINE local == IF home[o] = NoVm THEN 0 ELSE home[o]
  <2>1. /\ store' = [store EXCEPT ![o] = Copied(local, @)] /\ home' = [home EXCEPT ![o] = local]
        /\ Goto(p, "dropping") /\ UNCHANGED <<vms, container, newest, wiped>>
    BY <1>1, <1>6 DEF Sync, Outcomes, history
  <2>2. container[o] = NoVm
    BY <1>1, <1>3, <1>6 DEF StopOK, Sync, At
  <2>3. /\ store'[o] = Copied(local, store[o]) /\ home'[o] = local
        /\ \A b \in Owners \ {o} : store'[b] = store[b] /\ home'[b] = home[b]
    BY <1>1, <2>1 DEF Sound, TypeOK
  <2>4. Synced(o)'
    BY <1>2, <1>3, <2>1, <2>3 DEF HomeOK, Synced, Copied
  <2>5. newest'[o] = 0 \/ wiped'[o] \/ home'[o] \in {NoVm, 0, newest'[o]}
    BY <1>2, <1>3, <2>1, <2>3 DEF HomeOK
  <2>6. HomeOK(o)'
    BY <2>1, <2>2, <2>4, <2>5 DEF HomeOK, Restorable
  <2>7. /\ \A q \in Procs \ {p} : proc'[q] = proc[q]
        /\ Owner(p)' = o /\ Owner(p) = o
    BY <1>1, <2>1, GotoEffect DEF Sound, Owner
  <2>8. StopOK(p)'
    BY <2>1, <2>2, <2>4, <2>7 DEF StopOK
  <2>9. \A q \in Procs : Owner(q)' = o => StopOK(q)'
    BY <1>4, <2>1, <2>2, <2>4, <2>7, <2>8
  <2>10. QED
    BY <1>1, <2>1, <2>3, <2>6, <2>7, <2>9, HomesLocal DEF Alike
<1>7. CASE Drop(p)
  <2>1. /\ container[o] = NoVm
        /\ Wiping(p) \/ Synced(o)
    BY <1>1, <1>3, <1>7 DEF StopOK, Drop, At
  <2>2. /\ home' = [home EXCEPT ![o] = NoVm] /\ wiped' = [wiped EXCEPT ![o] = @ \/ proc[p].wipe]
        /\ Goto(p, "releasing") /\ UNCHANGED <<vms, container, store, newest>>
    BY <1>1, <1>7, <2>1 DEF Drop
  <2>3. /\ home'[o] = NoVm /\ wiped'[o] = (wiped[o] \/ proc[p].wipe)
        /\ \A b \in Owners \ {o} : home'[b] = home[b] /\ wiped'[b] = wiped[b]
    BY <1>1, <2>2 DEF Sound, TypeOK
  <2>4. Synced(o)'
    BY <2>1, <2>2, <2>3 DEF Synced, Wiping
  <2>5. HomeOK(o)'
    BY <2>1, <2>2, <2>3, <2>4 DEF HomeOK, Restorable
  <2>6. /\ \A q \in Procs \ {p} : proc'[q] = proc[q]
        /\ proc'[p].pc = "releasing" /\ Owner(p)' = o /\ Owner(p) = o
    BY <1>1, <2>2, GotoEffect DEF Sound, Owner
  <2>7. StopOK(p)'
    BY <2>1, <2>2, <2>6 DEF StopOK, At
  <2>8. \A q \in Procs : Owner(q)' = o => StopOK(q)'
    BY <1>4, <2>1, <2>2, <2>4, <2>6, <2>7
  <2>9. QED
    BY <1>1, <2>2, <2>3, <2>5, <2>6, <2>8, HomesLocal DEF Alike
<1>8. CASE Release(p)
  <2>1. /\ \A q \in Procs \ {p} : proc'[q] = proc[q]
        /\ proc'[p].pc = "idle" /\ proc[p].pc = "releasing"
    BY <1>8, DoneEffect DEF Release, Sound, At
  <2>2. QED
    BY <1>8, <2>1, HomesQuiet DEF Release, docker, history, Minds
<1>9. QED
  BY <1>5, <1>6, <1>7, <1>8 DEF Stop

LEMMA BeginStopKeepsStored ==
  ASSUME Sound, Sound', StoredHomes, NEW p \in Procs, NEW o \in Owners, NEW wipe \in BOOLEAN,
         BeginStop(p, o, wipe)
  PROVE  StoredHomes'
<1> DEFINE n == [pc |-> "killing", owner |-> o, need |-> vms[o].need,
                 budget |-> 0, wipe |-> wipe]
<1>1. /\ At(p, "idle") /\ vms' = [vms EXCEPT ![o] = NoVm] /\ proc' = [proc EXCEPT ![p] = n]
      /\ n.pc = "killing" /\ n.owner = o
      /\ UNCHANGED <<container, home, store, newest, wiped>>
  BY DEF BeginStop, docker, history
<1> HIDE DEF n
<1>2. /\ proc'[p] = n /\ \A q \in Procs \ {p} : proc'[q] = proc[q]
      /\ \A b \in Owners \ {o} : vms'[b] = vms[b]
  BY <1>1 DEF Sound, TypeOK
<1>3. Up(o)'
  BY <1>1, <1>2 DEF Up, Owner
<1>4. Synced(o)' <=> Synced(o)
  BY <1>1 DEF Synced
<1>5. HomeOK(o)'
  BY <1>1, <1>3, <1>4 DEF HomeOK, StoredHomes
<1>6. ASSUME NEW q \in Procs, Owner(q)' = o PROVE StopOK(q)'
  <2>1. CASE q = p
    BY <1>1, <1>2, <2>1 DEF StopOK, At
  <2>2. CASE q # p
    <3>1. proc'[q] = proc[q] /\ Owner(q) = o /\ StopOK(q)
      BY <1>2, <1>6, <2>2 DEF Owner, StoredHomes
    <3>2. (At(q, "dropping")' <=> At(q, "dropping")) /\ (Wiping(q)' <=> Wiping(q))
      BY <3>1 DEF At, Wiping
    <3>3. QED
      BY <1>1, <1>4, <1>6, <3>1, <3>2 DEF StopOK
  <2>3. QED
    BY <2>1, <2>2
<1>7. Owner(p) = NoVm /\ Owner(p)' = o
  BY <1>1, <1>2 DEF Sound, ProcsOK, At, Idle, Owner
<1>8. QED
  BY <1>1, <1>2, <1>5, <1>6, <1>7, HomesLocal DEF Alike

LEMMA NextKeepsStored ==
  ASSUME Remote, Faults \cap {"rm", "persist"} = {}, StartsAlone, restarts' = restarts,
         Sound, Sound', Fresh, StoredHomes, [Next]_vars
  PROVE  StoredHomes'
<1>1. ASSUME UNCHANGED <<vms, proc, docker, newest, wiped>>
      PROVE  StoredHomes'
  BY <1>1, HomesQuiet DEF docker
<1>2. ASSUME NEW c \in Calls, NEW o \in Owners, NEW need \in Needs, NEW budget \in Budgets,
             StartVm(c, o, need, budget)
      PROVE  StoredHomes'
  <2> DEFINE n == [pc |-> "authorizing", owner |-> o, need |-> need,
                   budget |-> budget, wipe |-> FALSE]
  <2>1. /\ proc' = [proc EXCEPT ![c] = n] /\ n.pc = "authorizing" /\ proc[c].pc = "idle"
        /\ UNCHANGED <<vms, container, home, store, newest, wiped>> /\ c \in Procs
    BY <1>2, Constants DEF StartVm, docker, At
  <2> HIDE DEF n
  <2>2. proc'[c] = n /\ \A q \in Procs \ {c} : proc'[q] = proc[q]
    BY <2>1 DEF Sound, TypeOK
  <2>3. QED
    BY <2>1, <2>2, HomesQuiet DEF Minds
<1>3. ASSUME NEW o \in Owners, Write(o)
      PROVE  StoredHomes'
  <2>1. /\ UNCHANGED <<vms, container, store, proc>> /\ container[o] # NoVm
        /\ newest'[o] = home'[o]
        /\ \A b \in Owners \ {o} : /\ newest'[b] = newest[b] /\ home'[b] = home[b]
                                   /\ wiped'[b] = wiped[b]
    BY <1>3 DEF Write, Sound, TypeOK
  <2>2. Up(o) /\ (Up(o)' <=> Up(o))
    BY <2>1 DEF StoredHomes, HomeOK, Up, Owner
  <2>3. HomeOK(o)'
    BY <2>1, <2>2 DEF HomeOK
  <2>4. ASSUME NEW b \in Owners, b # o PROVE HomeOK(b)'
    <3>1. /\ HomeOK(b) /\ (Synced(b)' <=> Synced(b)) /\ (Restorable(b)' <=> Restorable(b))
          /\ (Up(b)' <=> Up(b)) /\ (Going(b)' <=> Going(b))
      BY <2>1, <2>4 DEF StoredHomes, Synced, Restorable, Up, Going, Owner, At, Wiping
    <3>2. QED
      BY <2>1, <2>4, <3>1 DEF HomeOK
  <2>5. ASSUME NEW q \in Procs PROVE StopOK(q)'
    <3>1. StopOK(q) /\ (At(q, "dropping")' <=> At(q, "dropping")) /\ (Wiping(q)' <=> Wiping(q))
      BY <2>1 DEF StoredHomes, At, Wiping
    <3>2. ASSUME proc[q].pc \in {"syncing", "dropping", "releasing"}
          PROVE  Synced(Owner(q)) => Synced(Owner(q))'
      <4>1. Owner(q) \in Owners /\ Owner(q) # o
        BY <2>1, <3>1, <3>2 DEF StopOK, Sound, ProcsOK, Idle
      <4>2. Owner(q)' = Owner(q)
        BY <2>1 DEF Owner
      <4>3. QED
        BY <2>1, <4>1, <4>2 DEF Synced
    <3>3. QED
      BY <2>1, <3>1, <3>2 DEF StopOK, Owner, At
  <2>6. QED
    BY <2>3, <2>4, <2>5 DEF StoredHomes
<1>4. ~ Restart
  BY DEF Restart, Sound, TypeOK
<1>5. ASSUME NEW o \in Owners, ReapOne(o)
      PROVE  StoredHomes'
  BY <1>1, <1>5, Constants, BeginStopKeepsStored DEF ReapOne, history
<1>6. ASSUME NEW c \in Calls, NEW o \in Owners, AlreadyUp(c, o) \/ \E wipe \in BOOLEAN : StopVm(c, o, wipe)
      PROVE  StoredHomes'
  BY <1>1, <1>6, Constants, BeginStopKeepsStored DEF AlreadyUp, StopVm
<1>7. ASSUME Reap \/ Tick \/ EndOfTime \/ UNCHANGED vars
      PROVE  StoredHomes'
  BY <1>1, <1>7 DEF Reap, Tick, EndOfTime, vars, docker, history
<1>8. QED
  BY <1>2, <1>3, <1>4, <1>5, <1>6, <1>7, StartKeepsStored, StopKeepsStored DEF Next

(* On a node with an off-provider store, what a tenant wrote last is in the  *)
(* volume or in the store unless the tenant wiped it, if the provider does   *)
(* not restart, no container or volume command of a stop fails, and no start *)
(* of an identity meets a stop or another start of it (vm.rs:966).           *)
(* MCVmPersist.cfg shows what a failing persist does.                        *)
THEOREM StoredHomesAreKept ==
  ASSUME Remote, Faults \cap {"rm", "persist"} = {}
  PROVE  Spec /\ []StartsAlone /\ [](restarts = 0) => []HomeNotLost
<1>1. Init => StoredHomes
  <2> SUFFICES ASSUME Init PROVE StoredHomes
    OBVIOUS
  <2>1. \A p \in Procs : proc[p].pc = "idle"
    BY DEF Init, Idle
  <2>2. QED
    BY <2>1 DEF Init, StoredHomes, HomeOK, StopOK, Synced, Restorable, At
<1>2. StartsAlone => OneStartEach
  BY Constants DEF StartsAlone, OneStartEach
<1>3. /\ StartsAlone /\ restarts = 0 /\ (restarts = 0)' /\ Sound /\ Fresh /\ StoredHomes
      /\ [Next]_vars
      => Sound' /\ Fresh' /\ StoredHomes'
  BY <1>2, NextSound, NextKeepsFresh, NextKeepsStored
<1>4. StoredHomes => HomeNotLost
  BY DEF StoredHomes, HomeOK, Synced, HomeNotLost
<1>5. QED
  BY <1>1, <1>3, <1>4, InitSound, InitFresh, PTL DEF Spec
==============================================================================

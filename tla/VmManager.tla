------------------------------ MODULE VmManager ------------------------------
(***************************************************************************)
(* Persistent VMs on a provider node: the VM manager (vm.rs), the handlers *)
(* that start and stop VMs (core.rs start_vm, stop_vm), the reaper of      *)
(* spent leases and the restart of the provider (main.rs, reconcile),      *)
(* against Docker and the off-provider store of volumes.                   *)
(*                                                                         *)
(* A process is a request handler or the reaper.  A step is one Docker or  *)
(* rclone command taking effect, or the code between two awaits; commands  *)
(* of different processes interleave freely.  Resources are one kind, and  *)
(* a home volume is one file: its version, 0 while absent.  The default    *)
(* engine (rclone copy) is the one modelled.                               *)
(***************************************************************************)
EXTENDS Integers, FiniteSets

CONSTANTS
  Owners,            \* consumer identities
  Calls,             \* request handlers
  Reaper,            \* the reaper task
  NoVm,              \* no record, no container, no volume
  SharedAtFirst,     \* resources the node shares
  SharedLater,       \* what it may share after a restart
  Needs,             \* resources a spec may ask for
  Budgets,           \* funded amounts; 0 is dev mode
  Hour,              \* seconds of an hour
  JobPrice,          \* price_micro_usdc
  HourPrice,         \* price_micro_usdc_per_hour, as announced
  Remote,            \* CLOUDIY_VOLUME_REMOTE is set
  Faults,            \* commands that may fail
  MaxClock, MaxStarts, MaxWrites, MaxRestarts   \* bounds

(* VmRecord, and the labels of a container: what a lease needs. *)
VmType == [need : Nat, budget : Nat, rate : Nat, created : Nat]

ASSUME VmAssumption ==
  /\ Reaper \notin Calls
  /\ {SharedAtFirst, Hour, JobPrice, HourPrice} \subseteq Nat
  /\ SharedLater \cup Needs \cup Budgets \subseteq Nat
  /\ {MaxClock, MaxStarts, MaxWrites, MaxRestarts} \subseteq Nat
  /\ Hour > 0 /\ Remote \in BOOLEAN
  /\ IsFiniteSet(Owners) /\ IsFiniteSet(Calls)
  /\ NoVm \notin Owners \cup VmType \cup Nat
  /\ Faults \subseteq {"pull", "run", "rm", "persist", "restore", "ps"}

VARIABLES
  clock,
  vms,               \* VmManager.vms: owner -> VmRecord or NoVm
  shared, allocated, \* Resources
  proc,              \* proc[p]: the process' state
  expired,           \* owners the reaper still has to stop
  container,         \* Docker: the owner's container with its labels, or NoVm
  home,              \* Docker: version in the owner's local volume, or NoVm
  store,             \* version in the off-provider store
  newest, wiped,     \* history: newest version written; wiped since
  starts, restarts,  \* history: requests to start; restarts
  overtaken          \* history: owners whose stop met a newer start

docker == <<container, home, store>>
history == <<newest, wiped, starts, restarts, overtaken>>
vars == <<clock, vms, shared, allocated, proc, expired, docker, history>>

Procs == Calls \cup {Reaper}

ProcType == [pc : {"idle", "authorizing", "restoring", "pulling", "removing", "running",
                   "recording", "killing", "syncing", "dropping", "releasing"},
             owner : Owners \cup {NoVm}, need : Nat, budget : Nat, wipe : BOOLEAN]

Idle == [pc |-> "idle", owner |-> NoVm, need |-> 0, budget |-> 0, wipe |-> FALSE]

At(p, pc) == proc[p].pc = pc
Goto(p, pc) == proc' = [proc EXCEPT ![p].pc = pc]
Done(p) == proc' = [proc EXCEPT ![p] = Idle]
Owner(p) == proc[p].owner

(* A command that may fail, or may not. *)
Outcomes(command) == IF command \in Faults THEN BOOLEAN ELSE {TRUE}

(* rclone copy: a file of the source replaces the destination's, and a     *)
(* file the source lacks stays.                                             *)
Copied(from, to) == IF from = 0 THEN to ELSE from

-----------------------------------------------------------------------------
(* Leases and accounting. *)

(* What records, containers or processes of S hold, unit by unit, so that a *)
(* sum is the size of a set.                                                 *)
Units(held, S) == UNION {{x} \X (1 .. held[x].need) : x \in S}
Total(held, S) == Cardinality(Units(held, S))

Accrued(vm, now) == ((now - vm.created) * vm.rate) \div Hour

Exhausted(vm, now) ==
  vm.budget > 0 /\ vm.rate > 0 /\ Accrued(vm, now) >= vm.budget

(* Mutant: what others hold is not looked at. *)
FitsAlone(need) == need <= shared

Fits(need) == need <= shared - allocated

Returned(n) == IF n > allocated THEN 0 ELSE allocated - n

(* The rate a lease is metered at. *)
LeaseRate == JobPrice

-----------------------------------------------------------------------------
(* Starting a VM (core.rs start_vm, VmManager::start). *)

(* An owner with a tracked VM is answered at once: ready. *)
AlreadyUp(c, o) ==
  /\ At(c, "idle") /\ starts < MaxStarts
  /\ vms[o] # NoVm
  /\ starts' = starts + 1
  /\ UNCHANGED <<clock, vms, shared, allocated, proc, expired, docker, newest, wiped, restarts, overtaken>>

StartVm(c, o, need, budget) ==
  /\ At(c, "idle") /\ starts < MaxStarts
  /\ vms[o] = NoVm
  /\ starts' = starts + 1
  /\ proc' = [proc EXCEPT ![c] = [pc |-> "authorizing", owner |-> o, need |-> need,
                                  budget |-> budget, wipe |-> FALSE]]
  /\ UNCHANGED <<clock, vms, shared, allocated, expired, docker, newest, wiped, restarts, overtaken>>

(* Payment refused, no Docker, resources that do not fit, an image or a     *)
(* posture that start rejects: nothing is left behind.                       *)
RefuseStart(c) ==
  /\ At(c, "authorizing")
  /\ Done(c)
  /\ UNCHANGED <<clock, vms, shared, allocated, expired, docker, history>>

(* authorize returned.  Between the reservation and start's own look at the *)
(* records there is no await; a VM found there is returned as it is.        *)
Allocate(c) ==
  /\ At(c, "authorizing")
  /\ Fits(proc[c].need)
  /\ allocated' = allocated + proc[c].need
  /\ IF vms[Owner(c)] # NoVm THEN Done(c) ELSE Goto(c, "restoring")
  /\ UNCHANGED <<clock, vms, shared, expired, docker, history>>

(* volume create, then the best-effort restore. *)
Restore(c) ==
  /\ At(c, "restoring")
  /\ LET o == Owner(c)
         local == IF home[o] = NoVm THEN 0 ELSE home[o]
     IN  \E ok \in Outcomes("restore") :
           home' = [home EXCEPT ![o] = IF Remote /\ ok THEN Copied(store[o], local)
                                       ELSE local]
  /\ Goto(c, "pulling")
  /\ UNCHANGED <<clock, vms, shared, allocated, expired, container, store, history>>

(* Mutant: an image that cannot be pulled keeps its reservation. *)
PullLeaks(c) ==
  /\ At(c, "pulling")
  /\ \E ok \in Outcomes("pull") : IF ok THEN Goto(c, "removing") ELSE Done(c)
  /\ UNCHANGED <<clock, vms, shared, allocated, expired, docker, history>>

Pull(c) ==
  /\ At(c, "pulling")
  /\ \E ok \in Outcomes("pull") :
       IF ok THEN Goto(c, "removing") /\ UNCHANGED allocated
             ELSE Done(c) /\ allocated' = Returned(proc[c].need)
  /\ UNCHANGED <<clock, vms, shared, expired, docker, history>>

(* rm --force of whatever container has the owner's name. *)
RemoveStale(c) ==
  /\ At(c, "removing")
  /\ container' = [container EXCEPT ![Owner(c)] = NoVm]
  /\ Goto(c, "running")
  /\ UNCHANGED <<clock, vms, shared, allocated, expired, home, store, history>>

(* docker run: fails if the name is taken; makes the volume if it is gone. *)
Run(c) ==
  /\ At(c, "running")
  /\ LET o == Owner(c)
     IN  \E ok \in Outcomes("run") :
           IF ok /\ container[o] = NoVm
             THEN /\ container' = [container EXCEPT ![o] =
                       [need |-> proc[c].need, budget |-> proc[c].budget,
                        rate |-> LeaseRate, created |-> clock]]
                  /\ home' = [home EXCEPT ![o] = IF @ = NoVm THEN 0 ELSE @]
                  /\ Goto(c, "recording")
                  /\ UNCHANGED allocated
             ELSE /\ allocated' = Returned(proc[c].need)
                  /\ Done(c)
                  /\ UNCHANGED <<container, home>>
  /\ UNCHANGED <<clock, vms, shared, expired, store, history>>

(* The host ports have been read; the VM is entered under its owner. *)
Record(c) ==
  /\ At(c, "recording")
  /\ vms' = [vms EXCEPT ![Owner(c)] =
               [need |-> proc[c].need, budget |-> proc[c].budget,
                rate |-> LeaseRate, created |-> clock]]
  /\ Done(c)
  /\ UNCHANGED <<clock, shared, allocated, expired, docker, history>>

-----------------------------------------------------------------------------
(* Stopping a VM (VmManager::stop) by a handler or by the reaper.  The      *)
(* record goes first; without one there is nothing to do.                    *)

BeginStop(p, o, wipe) ==
  /\ At(p, "idle")
  /\ vms[o] # NoVm
  /\ vms' = [vms EXCEPT ![o] = NoVm]
  /\ proc' = [proc EXCEPT ![p] = [pc |-> "killing", owner |-> o, need |-> vms[o].need,
                                  budget |-> 0, wipe |-> wipe]]
  /\ UNCHANGED <<clock, shared, allocated, docker, history>>

StopVm(c, o, wipe) == BeginStop(c, o, wipe) /\ UNCHANGED expired

(* Mutant: the container is left running. *)
KillNothing(p) ==
  /\ At(p, "killing")
  /\ Goto(p, IF proc[p].wipe THEN "dropping" ELSE IF Remote THEN "syncing" ELSE "releasing")
  /\ UNCHANGED <<clock, vms, shared, allocated, expired, docker, history>>

(* rm --force, whose failure is ignored. *)
Kill(p) ==
  /\ At(p, "killing")
  /\ \E ok \in Outcomes("rm") :
       container' = IF ok THEN [container EXCEPT ![Owner(p)] = NoVm] ELSE container
  /\ Goto(p, IF proc[p].wipe THEN "dropping" ELSE IF Remote THEN "syncing" ELSE "releasing")
  /\ overtaken' = IF vms[Owner(p)] # NoVm \/ \E q \in Procs \ {p} : Owner(q) = Owner(p)
                  THEN overtaken \cup {Owner(p)} ELSE overtaken
  /\ UNCHANGED <<clock, vms, shared, allocated, expired, home, store,
                 newest, wiped, starts, restarts>>

(* Persist to the store; the local copy is dropped only if that worked. *)
Sync(p) ==
  /\ At(p, "syncing")
  /\ LET o == Owner(p)
         local == IF home[o] = NoVm THEN 0 ELSE home[o]
     IN  \E ok \in Outcomes("persist") :
           /\ store' = IF ok THEN [store EXCEPT ![o] = Copied(local, @)] ELSE store
           /\ home' = [home EXCEPT ![o] = local]
           /\ Goto(p, IF ok THEN "dropping" ELSE "releasing")
  /\ UNCHANGED <<clock, vms, shared, allocated, expired, container, history>>

(* Mutant: the store's copy is removed, not the local one. *)
DropStored(p) ==
  /\ At(p, "dropping")
  /\ store' = [store EXCEPT ![Owner(p)] = NoVm]
  /\ wiped' = [wiped EXCEPT ![Owner(p)] = @ \/ proc[p].wipe]
  /\ Goto(p, "releasing")
  /\ UNCHANGED <<clock, vms, shared, allocated, expired, container, home,
                 newest, starts, restarts, overtaken>>

(* volume rm --force; a volume that a container uses stays. *)
Drop(p) ==
  /\ At(p, "dropping")
  /\ LET o == Owner(p)
     IN  /\ home' = IF container[o] = NoVm THEN [home EXCEPT ![o] = NoVm] ELSE home
         /\ wiped' = [wiped EXCEPT ![o] = @ \/ proc[p].wipe]
  /\ Goto(p, "releasing")
  /\ UNCHANGED <<clock, vms, shared, allocated, expired, container, store,
                 newest, starts, restarts, overtaken>>

Release(p) ==
  /\ At(p, "releasing")
  /\ allocated' = Returned(proc[p].need)
  /\ Done(p)
  /\ UNCHANGED <<clock, vms, shared, expired, docker, history>>

-----------------------------------------------------------------------------
(* The reaper (reap_expired). *)

(* Mutant: a lease is spent one unit too late. *)
ReapLate ==
  /\ At(Reaper, "idle") /\ expired = {}
  /\ expired' = {o \in Owners : /\ vms[o] # NoVm /\ vms[o].budget > 0
                               /\ Accrued(vms[o], clock) > vms[o].budget}
  /\ UNCHANGED <<clock, vms, shared, allocated, proc, docker, history>>

(* Who has used up the lease now; the list is worked off one by one. *)
Reap ==
  /\ At(Reaper, "idle") /\ expired = {}
  /\ expired' = {o \in Owners : vms[o] # NoVm /\ Exhausted(vms[o], clock)}
  /\ UNCHANGED <<clock, vms, shared, allocated, proc, docker, history>>

ReapOne(o) ==
  /\ At(Reaper, "idle") /\ o \in expired
  /\ expired' = expired \ {o}
  /\ IF vms[o] # NoVm THEN BeginStop(Reaper, o, FALSE)
     ELSE UNCHANGED <<clock, vms, shared, allocated, proc, docker, history>>

-----------------------------------------------------------------------------
(* The provider process ends and a new one adopts what Docker kept. *)

SumNeed(S) == Total(container, S)

(* Which VMs find room when they are re-reserved one after the other: as    *)
(* many as fit, in an order Docker chooses.                                  *)
Counted(alive, size) ==
  {S \in SUBSET alive : /\ SumNeed(S) <= size
                        /\ \A o \in alive \ S : SumNeed(S) + container[o].need > size}

(* Mutant: an adopted VM's lease starts anew. *)
RestartAnew ==
  /\ restarts < MaxRestarts
  /\ restarts' = restarts + 1
  /\ proc' = [p \in Procs |-> Idle]
  /\ expired' = {}
  /\ LET kept == {o \in Owners : container[o] # NoVm}
     IN  \E alive \in SUBSET kept : \E size \in SharedLater : \E counted \in Counted(alive, size) :
           /\ container' = [o \in Owners |-> IF o \in alive THEN container[o] ELSE NoVm]
           /\ vms' = [o \in Owners |-> IF o \in alive
                        THEN [container[o] EXCEPT !.created = clock] ELSE NoVm]
           /\ shared' = size
           /\ allocated' = SumNeed(counted)
  /\ overtaken' = {}
  /\ UNCHANGED <<clock, home, store, newest, wiped, starts>>

(* reconcile: stopped containers are started or, failing that, removed; the *)
(* records come back from the labels, and a reservation that does not fit   *)
(* is skipped.  If `docker ps' fails nothing is adopted.                     *)
Restart ==
  /\ restarts < MaxRestarts
  /\ restarts' = restarts + 1
  /\ proc' = [p \in Procs |-> Idle]
  /\ expired' = {}
  /\ LET kept == {o \in Owners : container[o] # NoVm}
     IN  \E size \in SharedLater, listed \in Outcomes("ps") :
           /\ shared' = size
           /\ IF listed
                THEN \E alive \in SUBSET kept : \E counted \in Counted(alive, size) :
                       /\ container' = [o \in Owners |->
                                          IF o \in alive THEN container[o] ELSE NoVm]
                       /\ vms' = container'
                       /\ allocated' = SumNeed(counted)
                ELSE /\ vms' = [o \in Owners |-> NoVm]
                     /\ allocated' = 0
                     /\ UNCHANGED container
  /\ overtaken' = {}
  /\ UNCHANGED <<clock, home, store, newest, wiped, starts>>

-----------------------------------------------------------------------------
(* The tenant works in the VM; time passes. *)

Write(o) ==
  /\ container[o] # NoVm /\ home[o] # NoVm
  /\ newest[o] < MaxWrites
  /\ newest' = [newest EXCEPT ![o] = @ + 1]
  /\ home' = [home EXCEPT ![o] = newest[o] + 1]
  /\ wiped' = [wiped EXCEPT ![o] = FALSE]
  /\ UNCHANGED <<clock, vms, shared, allocated, proc, expired, container, store,
                 starts, restarts, overtaken>>

Tick == /\ clock < MaxClock
        /\ clock' = clock + 1
        /\ UNCHANGED <<vms, shared, allocated, proc, expired, docker, history>>

Init ==
  /\ clock = 0
  /\ vms = [o \in Owners |-> NoVm]
  /\ shared = SharedAtFirst /\ allocated = 0
  /\ proc = [p \in Procs |-> Idle]
  /\ expired = {}
  /\ container = [o \in Owners |-> NoVm]
  /\ home = [o \in Owners |-> NoVm]
  /\ store = [o \in Owners |-> 0]
  /\ newest = [o \in Owners |-> 0] /\ wiped = [o \in Owners |-> FALSE]
  /\ starts = 0 /\ restarts = 0 /\ overtaken = {}

Start(c) == \/ RefuseStart(c) \/ Allocate(c) \/ Restore(c) \/ Pull(c)
            \/ RemoveStale(c) \/ Run(c) \/ Record(c)

Stop(p) == Kill(p) \/ Sync(p) \/ Drop(p) \/ Release(p)

(* The end of the modelled time is no deadlock. *)
EndOfTime == clock = MaxClock /\ UNCHANGED vars

Next ==
  \/ \E c \in Calls, o \in Owners :
       \/ AlreadyUp(c, o)
       \/ \E need \in Needs, budget \in Budgets : StartVm(c, o, need, budget)
       \/ \E wipe \in BOOLEAN : StopVm(c, o, wipe)
  \/ \E c \in Calls : Start(c)
  \/ \E p \in Procs : Stop(p)
  \/ Reap \/ \E o \in Owners : ReapOne(o)
  \/ Restart
  \/ \E o \in Owners : Write(o)
  \/ Tick
  \/ EndOfTime

Spec == Init /\ [][Next]_vars

(* The reaper's interval fires again and again and its commands return; the *)
(* runtime goes on with every handler.                                       *)
Fairness ==
  /\ WF_vars(Tick)
  /\ WF_vars(Reap) /\ \A o \in Owners : WF_vars(ReapOne(o))
  /\ WF_vars(Stop(Reaper))
  /\ \A c \in Calls : WF_vars(Start(c)) /\ WF_vars(Stop(c))

FairSpec == Spec /\ Fairness

-----------------------------------------------------------------------------
(* Properties. *)

TypeOK ==
  /\ clock \in Nat
  /\ vms \in [Owners -> VmType \cup {NoVm}]
  /\ shared \in Nat /\ allocated \in Nat
  /\ proc \in [Procs -> ProcType]
  /\ expired \subseteq Owners
  /\ container \in [Owners -> VmType \cup {NoVm}]
  /\ home \in [Owners -> Nat \cup {NoVm}]
  /\ store \in [Owners -> Nat]
  /\ newest \in [Owners -> Nat] /\ wiped \in [Owners -> BOOLEAN]
  /\ starts \in Nat /\ restarts \in Nat /\ overtaken \subseteq Owners

Tracked == {o \in Owners : vms[o] # NoVm}

(* Processes that hold a reservation which no record stands for. *)
Holding == {p \in Procs : ~ At(p, "idle") /\ ~ At(p, "authorizing")}

(* "Allocation always round-trips: what a workload takes, its termination   *)
(* returns" (resource.rs:97): what is allocated is what tracked VMs and VMs *)
(* being started or stopped hold.                                            *)
ReservationsAccounted ==
  allocated = Total(vms, Tracked) + Total(proc, Holding)

(* The containers that run never hold more than the node shares. *)
Running == {o \in Owners : container[o] # NoVm}

NeverOversubscribed == Total(container, Running) <= shared

(* While no request or reaper is busy with an owner, the record says what   *)
(* Docker does: none that runs but is not tracked (vm.rs:985, "prevents       *)
(* orphaned containers"), and none that is billed but gone - unless a stop,   *)
(* which drops the record before the container, was overtaken by a start of   *)
(* the same owner and then removed the new container.                         *)
RecordMatchesDocker ==
  \A o \in Owners : (\A p \in Procs : Owner(p) # o) =>
    /\ container[o] # NoVm => vms[o] # NoVm /\ vms[o].need = container[o].need
    /\ vms[o] # NoVm => container[o] # NoVm \/ o \in overtaken

(* Without that exception it does not hold. *)
BilledIsRunning ==
  \A o \in Owners : (\A p \in Procs : Owner(p) # o) => (vms[o] # NoVm => container[o] # NoVm)

(* The newest state a tenant wrote is in the working volume or in the       *)
(* store, unless the tenant wiped it (vm.rs:966, RFC-0010 9.3).              *)
HomeNotLost ==
  \A o \in Owners : newest[o] = 0 \/ wiped[o] \/ newest[o] \in {home[o], store[o]}

(* After a wipe the tenant's next VM starts empty: "wipe also deletes its   *)
(* persistent volume" (proto.rs:79).                                         *)
WipedIsGone == \A o \in Owners : wiped[o] => home[o] \in {NoVm, 0}

(* A restart does not extend a lease (vm.rs:600): no step that keeps an     *)
(* owner's container moves the start of its lease forward or its budget up. *)
LeaseNeverExtended ==
  [][\A o \in Owners :
       /\ restarts' # restarts
       /\ vms[o] # NoVm /\ vms'[o] # NoVm
       => /\ vms'[o].created <= vms[o].created
          /\ vms'[o].budget = vms[o].budget
          /\ vms'[o].rate = vms[o].rate]_vars

(* The reaper stops a VM only when the money paid for it is used up at the  *)
(* node's announced hourly price (vm.rs:775, core.rs:968).                   *)
ReaperSparesPaid ==
  [][\A o \in Owners : ReapOne(o) /\ vms[o] # NoVm =>
       /\ vms[o].budget > 0
       /\ (clock - vms[o].created) * HourPrice >= vms[o].budget * Hour]_vars

(* start removes a container only when the owner has no tracked VM          *)
(* (vm.rs:537).                                                              *)
OnlyStaleRemoved == [][\A c \in Calls : RemoveStale(c) => vms[Owner(c)] = NoVm]_vars

(* "VM lease exhausted - top up and re-provision" (p2p.rs:155): a start      *)
(* that is answered `ready' gives the owner a VM with lease left.            *)
ReadyIsUsable ==
  [][\A c \in Calls, o \in Owners : AlreadyUp(c, o) => ~ Exhausted(vms[o], clock)]_vars

(* Every spent lease ends: the container of a tracked VM whose lease is     *)
(* used up goes away, whatever else the node does (core.rs:970).             *)
LeaseEnds ==
  \A o \in Owners :
    (vms[o] # NoVm /\ Exhausted(vms[o], clock)) ~> (container[o] = NoVm)
==============================================================================

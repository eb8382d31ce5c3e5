---------------------------- MODULE ModelHosting ----------------------------
(***************************************************************************)
(* How what a machine hosts changes (gateway.rs): the operator's installs,  *)
(* uninstalls, the auto-hosting controller that carries out its plans      *)
(* (HostingPlan), and the announcement of what can be served.  The         *)
(* gateway and the provider (cloudiy share) are two processes over one     *)
(* Docker and one config directory; each has the hosted set in memory.     *)
(* Serving itself is in EndpointWorkers; here it marks a key warm.         *)
(***************************************************************************)
EXTENDS HostingPlan

VARIABLES
  cycle,     \* cycle[p]: the auto-hosting cycle under way
  op,        \* the operator's request under way at the gateway
  events

vars == <<hosted, file, age, warm, images, used, budget, demand, cycle, op,
          announced, events>>

Resting == [pc |-> "idle", target |-> {}, ins |-> {}, outs |-> {}, image |-> NoImage]

InCycle(p, pc) == cycle[p].pc = pc
Happens == events < MaxEvents /\ events' = events + 1

Shared(S, k) == \E h \in S : ImageOf[h] = ImageOf[k]

(* set_hosted: the process's whole set is written. *)
SetHosted(p, S) == hosted' = [hosted EXCEPT ![p] = S] /\ file' = S

(* Mutant: the image goes from under a running worker. *)
RmiForced(i) == images' = images \ {i}

(* docker rmi without force: refused while a container is made of it. *)
Rmi(i) == images' = IF i \in used THEN images ELSE images \ {i}

-----------------------------------------------------------------------------
(* autohost_cycle, cut where it awaits. *)

(* The policy is read, and in manual mode that is all. *)
CyclePlan(p) ==
  /\ InCycle(p, "idle") /\ budget > 0
  /\ cycle' = [cycle EXCEPT ![p] = [Resting EXCEPT !.pc = "planned", !.target = Target(p)]]
  /\ UNCHANGED <<hosted, file, age, warm, images, used, budget, demand, op,
                 announced, events>>

(* The sizes of the pins have been asked for: what is warm and hosted now   *)
(* is compared with the target.                                              *)
CycleCompare(p) ==
  /\ InCycle(p, "planned")
  /\ cycle' = [cycle EXCEPT ![p] =
       [@ EXCEPT !.pc = "applying", !.target = {},
                 !.ins = cycle[p].target \ hosted[p],
                 !.outs = {k \in hosted[p] \ cycle[p].target : k \notin warm[p]}]]
  /\ UNCHANGED <<hosted, file, age, warm, images, used, budget, demand, op,
                 announced, events>>

(* Installs what was admitted; an image that cannot be pulled is skipped. *)
CycleInstall(p, k) ==
  /\ InCycle(p, "applying") /\ k \in cycle[p].ins
  /\ cycle' = [cycle EXCEPT ![p].ins = @ \ {k}]
  /\ \/ /\ SetHosted(p, hosted[p] \cup {k})
        /\ age' = [age EXCEPT ![p][k] = "young"]
        /\ images' = images \cup {ImageOf[k]}
     \/ /\ ImageOf[k] \notin images
        /\ UNCHANGED <<hosted, file, age, images>>
  /\ UNCHANGED <<warm, used, budget, demand, op, announced, events>>

(* Mutant: residents are never evicted. *)
CycleEvictNone(p, k) ==
  /\ InCycle(p, "applying") /\ cycle[p].ins = {} /\ k \in cycle[p].outs
  /\ cycle' = [cycle EXCEPT ![p].outs = @ \ {k}]
  /\ UNCHANGED <<hosted, file, age, warm, images, used, budget, demand, op,
                 announced, events>>

(* Evicts what was dropped, unless it is still in residency; its image goes *)
(* if no other key hosted by this process needs it.                          *)
CycleEvict(p, k) ==
  /\ InCycle(p, "applying") /\ cycle[p].ins = {} /\ k \in cycle[p].outs
  /\ IF age[p][k] = "young"
       THEN /\ cycle' = [cycle EXCEPT ![p].outs = @ \ {k}]
            /\ UNCHANGED <<hosted, file, age>>
       ELSE /\ SetHosted(p, hosted[p] \ {k})
            /\ age' = [age EXCEPT ![p][k] = "none"]
            /\ cycle' = [cycle EXCEPT ![p] =
                 [@ EXCEPT !.outs = cycle[p].outs \ {k},
                           !.pc = IF Shared(hosted[p] \ {k}, k) THEN "applying" ELSE "removing",
                           !.image = IF Shared(hosted[p] \ {k}, k) THEN NoImage ELSE ImageOf[k]]]
  /\ UNCHANGED <<warm, images, used, budget, demand, op, announced, events>>

CycleRmi(p) ==
  /\ InCycle(p, "removing")
  /\ Rmi(cycle[p].image)
  /\ cycle' = [cycle EXCEPT ![p].pc = "applying", ![p].image = NoImage]
  /\ UNCHANGED <<hosted, file, age, warm, used, budget, demand, op, announced, events>>

CycleEnd(p) ==
  /\ InCycle(p, "applying") /\ cycle[p].ins = {} /\ cycle[p].outs = {}
  /\ cycle' = [cycle EXCEPT ![p] = Resting]
  /\ UNCHANGED <<hosted, file, age, warm, images, used, budget, demand, op,
                 announced, events>>

-----------------------------------------------------------------------------
(* The operator, at the gateway's My Nodes page. *)

Idle == [pc |-> "idle", key |-> Catalog[1]]

(* models_install: pull unless present (under worker_lock), then host it. *)
ModelsInstall(k) ==
  /\ op.pc = "idle" /\ Happens
  /\ op' = [pc |-> "pulling", key |-> k]
  /\ UNCHANGED <<hosted, file, age, warm, images, used, budget, demand, cycle,
                 announced>>

Pulled ==
  /\ op.pc = "pulling"
  /\ \/ /\ images' = images \cup {ImageOf[op.key]}
        /\ SetHosted(Gateway, hosted[Gateway] \cup {op.key})
        /\ op' = [op EXCEPT !.pc = "installed"]
     \/ /\ ImageOf[op.key] \notin images
        /\ op' = Idle
        /\ UNCHANGED <<images, hosted, file>>
  /\ UNCHANGED <<age, warm, used, budget, demand, cycle, announced, events>>

(* The answer is given: installed. *)
InstallDone ==
  /\ op.pc = "installed"
  /\ op' = Idle
  /\ UNCHANGED <<hosted, file, age, warm, images, used, budget, demand, cycle,
                 announced, events>>

(* models_uninstall: off the set, its containers removed, then its image    *)
(* unless a key still hosted needs it.                                       *)
ModelsUninstall(k) ==
  /\ op.pc = "idle" /\ Happens
  /\ SetHosted(Gateway, hosted[Gateway] \ {k})
  /\ op' = [pc |-> "stopping", key |-> k]
  /\ UNCHANGED <<age, warm, images, used, budget, demand, cycle, announced>>

StopWorkers ==
  /\ op.pc = "stopping"
  /\ used' = used \ {ImageOf[op.key]}
  /\ op' = IF Shared(hosted[Gateway], op.key) THEN Idle ELSE [op EXCEPT !.pc = "removing"]
  /\ UNCHANGED <<hosted, file, age, warm, images, budget, demand, cycle, announced, events>>

RemoveImage ==
  /\ op.pc = "removing"
  /\ Rmi(ImageOf[op.key])
  /\ op' = Idle
  /\ UNCHANGED <<hosted, file, age, warm, used, budget, demand, cycle, announced, events>>

SetPolicy(b) ==
  /\ Happens
  /\ budget' = b
  /\ UNCHANGED <<hosted, file, age, warm, images, used, demand, cycle, op, announced>>

-----------------------------------------------------------------------------
(* The provider announces itself every minute. *)

(* Hosted or bootstrap, published, runnable, its image present. *)
Servable(k) ==
  /\ k \in hosted[Provider] \cup Bootstrap
  /\ k \in Live /\ k \in Runnable
  /\ ImageOf[k] \in images

(* The list is made anew each time and replaces the entry at the directory. *)
AnnounceOnce ==
  /\ announced' = {k \in Keys : Servable(k)}
  /\ UNCHANGED <<hosted, file, age, warm, images, used, budget, demand, cycle, op, events>>

-----------------------------------------------------------------------------
(* The world: requests, demand, time, restarts. *)

(* A request is served: the worker's container is made of the image, which  *)
(* docker run pulls if need be.                                              *)
Serve(p, k) ==
  /\ Happens
  /\ k \in Live /\ k \in Runnable
  /\ images' = images \cup {ImageOf[k]} /\ used' = used \cup {ImageOf[k]}
  /\ warm' = [warm EXCEPT ![p] = @ \cup {k}]
  /\ UNCHANGED <<hosted, file, age, budget, demand, cycle, op, announced>>

DemandChanges(d) ==
  /\ Happens
  /\ demand' = d
  /\ UNCHANGED <<hosted, file, age, warm, images, used, budget, cycle, op, announced>>

(* Half an hour after an install. *)
Ripen(p, k) ==
  /\ age[p][k] = "young"
  /\ age' = [age EXCEPT ![p][k] = "old"]
  /\ UNCHANGED <<hosted, file, warm, images, used, budget, demand, cycle, op, announced, events>>

(* evict_idle: only the gateway drops what has not been served for long. *)
EvictIdle(k) ==
  /\ k \in warm[Gateway]
  /\ warm' = [warm EXCEPT ![Gateway] = @ \ {k}]
  /\ UNCHANGED <<hosted, file, age, images, used, budget, demand, cycle, op, announced, events>>

(* A process starts again: the set comes from the file, the rest is lost. *)
Restart(p) ==
  /\ Happens
  /\ hosted' = [hosted EXCEPT ![p] = file]
  /\ age' = [age EXCEPT ![p] = [k \in Keys |-> "none"]]
  /\ warm' = [warm EXCEPT ![p] = {}]
  /\ cycle' = [cycle EXCEPT ![p] = Resting]
  /\ op' = IF p = Gateway THEN Idle ELSE op
  /\ UNCHANGED <<file, images, used, budget, demand, announced>>

(* bootstrap_pull, in the background of the provider. *)
BootstrapPull(k) ==
  /\ k \in Bootstrap
  /\ images' = images \cup {ImageOf[k]}
  /\ UNCHANGED <<hosted, file, age, warm, used, budget, demand, cycle, op, announced, events>>

Init ==
  /\ hosted = [p \in Procs |-> {}] /\ file = {}
  /\ age = [p \in Procs |-> [k \in Keys |-> "none"]]
  /\ warm = [p \in Procs |-> {}]
  /\ images = {} /\ used = {}
  /\ budget \in Budgets /\ demand \in Demands
  /\ cycle = [p \in Procs |-> Resting] /\ op = Idle
  /\ announced = {}
  /\ events = 0

Cycle(p) ==
  \/ CyclePlan(p) \/ CycleCompare(p) \/ CycleRmi(p) \/ CycleEnd(p)
  \/ \E k \in Keys : CycleInstall(p, k) \/ CycleEvict(p, k)

Operator == Pulled \/ InstallDone \/ StopWorkers \/ RemoveImage

TimePasses ==
  \/ \E k \in Keys : EvictIdle(k)
  \/ \E p \in Procs, k \in Keys : Ripen(p, k)

Next ==
  \/ \E p \in Controllers : Cycle(p)
  \/ \E p \in Procs : Restart(p)
  \/ \E k \in Keys : ModelsInstall(k) \/ ModelsUninstall(k) \/ BootstrapPull(k)
  \/ Operator
  \/ \E b \in Budgets : SetPolicy(b)
  \/ AnnounceOnce
  \/ TimePasses
  \/ \E p \in Procs, k \in Keys : Serve(p, k)
  \/ \E d \in Demands : DemandChanges(d)

Spec == Init /\ [][Next]_vars

(* The loops of both processes fire again and again, handlers and docker    *)
(* return, time passes.                                                      *)
FairSpec ==
  /\ Spec
  /\ \A p \in Controllers : WF_vars(Cycle(p))
  /\ WF_vars(Operator) /\ WF_vars(AnnounceOnce) /\ WF_vars(TimePasses)

-----------------------------------------------------------------------------
(* Properties. *)

(* What the controller installed and nobody uses any more. *)
Settled(p) == {k \in hosted[p] : age[p][k] = "old" /\ k \notin warm[p]}

(* However often policy, demand and use change, the controller gets back to *)
(* its disk budget: residency and warmth put evictions off, not away        *)
(* (gateway.rs:1386).                                                        *)
BudgetIsMet ==
  \A p \in Controllers :
    []<>(budget = 0 \/ Settled(p) = {} \/ Disk(Pins(p) \cup Settled(p)) <= budget)

(* "add it to the persisted hosted set so the node announces and serves it" *)
(* (gateway.rs:1092): an installed model is announced, unless it is taken    *)
(* away again.                                                               *)
InstallIsAnnounced ==
  \A k \in Keys :
    op = [pc |-> "installed", key |-> k]
      ~> (k \in announced \/ k \notin hosted[Gateway] \/ ImageOf[k] \notin images)
==============================================================================

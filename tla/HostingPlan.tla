---------------------------- MODULE HostingPlan ----------------------------
(***************************************************************************)
(* What a machine hosts (gateway.rs), and the plan that an auto-hosting     *)
(* cycle makes of it: which models should be hosted, given the demand, the  *)
(* prices, the sizes of the images and the disk budget.  ModelHosting has   *)
(* the actions that change this state.                                      *)
(***************************************************************************)
EXTENDS GatewayProcesses, Naturals, FiniteSets, Sequences

CONSTANTS
  Controllers,        \* those whose auto-hosting loop a run follows
  Catalog,            \* the catalog's keys, in its order
  ImageOf,            \* ImageOf[k]: the worker image of a key
  Size,               \* Size[i]: what an image takes on disk
  Estimate,           \* Estimate[i]: what it is taken to be before it is pulled
  Price,              \* Price[k]: revenue per request
  Runnable,           \* keys this machine has the hardware for
  Live,               \* keys whose worker image is published
  Bootstrap,          \* keys pulled and announced without being hosted
  Demands,            \* demand the directories may report, per key
  Budgets,            \* disk budgets the operator may set
  NoImage,
  MaxEvents           \* bound on what operator, consumers and machine do

Keys == {Catalog[i] : i \in DOMAIN Catalog}
Images == {ImageOf[k] : k \in Keys}

ASSUME HostingAssumption ==
  /\ Gateway # Provider /\ Controllers \subseteq Procs /\ NoImage \notin Images
  /\ Catalog \in Seq(Keys) /\ Catalog # << >>
  /\ \A i, j \in DOMAIN Catalog : Catalog[i] = Catalog[j] => i = j
  /\ \A i \in Images : Size[i] \in Nat \ {0} /\ Estimate[i] \in Nat \ {0}
  /\ \A k \in Keys : Price[k] \in Nat
  /\ Runnable \subseteq Keys /\ Live \subseteq Keys /\ Bootstrap \subseteq Keys
  /\ \A d \in Demands, k \in Keys : d[k] \in Nat
  /\ Budgets \subseteq Nat /\ MaxEvents \in Nat

VARIABLES
  hosted,    \* hosted[p]: the hosted set in the memory of p
  file,      \* hosted_models.json
  age,       \* age[p][k]: since when the controller of p has had k installed
  warm,      \* warm[p]: keys served within the last half hour, or later
  images,    \* images present
  used,      \* images a worker container was made of
  budget,    \* host_policy.json: the disk budget, 0 in manual mode
  demand,    \* what the directories answer
  announced  \* the models the directories list for this machine

(* image_size_bytes, or est_size for what is not there. *)
DiskOf(i) == IF i \in images THEN Size[i] ELSE Estimate[i]

(* The disk that the images of S take, unit by unit, each image once. *)
Space(S) == UNION {{i} \X (1 .. DiskOf(i)) : i \in {ImageOf[k] : k \in S}}
Disk(S) == Cardinality(Space(S))

-----------------------------------------------------------------------------
(* The plan of a cycle: a greedy knapsack. *)

(* Expected revenue: demand times the posted price. *)
Score(k) == demand[k] * Price[k]

(* Revenue per byte, best first; ties keep the catalog's order. *)
Denser(a, b) ==
  LET da == Score(a) * DiskOf(ImageOf[b])
      db == Score(b) * DiskOf(ImageOf[a])
      place(k) == CHOOSE i \in DOMAIN Catalog : Catalog[i] = k
  IN  da > db \/ (da = db /\ place(a) < place(b))

Wanted(k) == k \in Runnable /\ demand[k] > 0

(* Hosted, and not put there by this process's controller. *)
Pins(p) == {k \in hosted[p] : age[p][k] = "none"}

(* Mutant: a shared image is paid for again by every key. *)
AdmitsTwice(S, k) == k \in S \/ Disk(S) + DiskOf(ImageOf[k]) <= budget

(* A key is taken if its image fits; an image already counted is free, but  *)
(* only while the budget is not exceeded.                                    *)
Admits(S, k) == Disk(S \cup {k}) <= budget

(* What had been taken when k's turn came: the pins, and of those that were *)
(* taken the denser ones.                                                    *)
Before(p, T, k) == Pins(p) \cup {o \in T : Wanted(o) /\ Denser(o, k)}

(* The pins, and the candidates that fit as their turns come. *)
IsPlan(p, T) ==
  \A k \in Keys :
    k \in T <=> k \in Pins(p) \/ (Wanted(k) /\ Admits(Before(p, T, k), k))

Target(p) == CHOOSE T \in SUBSET Keys : IsPlan(p, T)

-----------------------------------------------------------------------------
(* Properties. *)

(* What is hosted and announced is in the catalog, and no image is gone that *)
(* a worker container was made of (docker rmi without force).                *)
HostedTypeOK ==
  /\ hosted \in [Procs -> SUBSET Keys] /\ file \subseteq Keys
  /\ age \in [Procs -> [Keys -> {"none", "young", "old"}]]
  /\ warm \in [Procs -> SUBSET Keys]
  /\ images \subseteq Images /\ used \subseteq images
  /\ announced \subseteq Keys

(* The plan keeps to the disk budget unless the pins alone exceed it, keeps *)
(* every pin, and leaves out nothing that would still fit (gateway.rs:1389, *)
(* "greedily fill the disk budget (manual pins always kept)").               *)
PlanFillsBudget ==
  budget > 0 => \A p \in Controllers :
    LET T == Target(p)
    IN  /\ Pins(p) \subseteq T
        /\ T = Pins(p) \/ Disk(T) <= budget
        /\ \A k \in Runnable \ T : demand[k] > 0 => Disk(T \cup {k}) > budget
==============================================================================
